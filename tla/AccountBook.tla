----------------------------- MODULE AccountBook -----------------------------
(* What registration and password reset promise together: a name is given  *)
(* out once, and a password changes only for a confirmation that had a     *)
(* valid link when it was looked at.  Signing in, and a changed password,  *)
(* make the links sent before worthless.                                   *)
CONSTANTS Names, Passwords, Tabs

VARIABLES
  password,      \* of the names that are taken
  live,          \* names with a link that still works
  due            \* for each tab, the name its confirmation was let through for

bookVars == <<password, live, due>>

Nobody == "nobody"

BookInit ==
  /\ password = [n \in {} |-> Nobody]
  /\ live = {}
  /\ due = [t \in Tabs |-> Nobody]

Register(n, p) ==
  /\ n \notin DOMAIN password
  /\ password' = [k \in DOMAIN password \cup {n} |-> IF k = n THEN p ELSE password[k]]
  /\ UNCHANGED <<live, due>>

Mail(n) ==
  /\ n \in DOMAIN password
  /\ live' = live \cup {n}
  /\ UNCHANGED <<password, due>>

(* A sign-in, or time. *)
Void(n) ==
  /\ live' = live \ {n}
  /\ UNCHANGED <<password, due>>

Admit(t, n) ==
  /\ n \in live
  /\ due' = [due EXCEPT ![t] = n]
  /\ UNCHANGED <<password, live>>

Change(t, p) ==
  /\ due[t] # Nobody
  /\ password' = [password EXCEPT ![due[t]] = p]
  /\ live' = live \ {due[t]}
  /\ due' = [due EXCEPT ![t] = Nobody]

GiveUp(t) ==
  /\ due' = [due EXCEPT ![t] = Nobody]
  /\ UNCHANGED <<password, live>>

BookNext ==
  \/ \E n \in Names, p \in Passwords : Register(n, p)
  \/ \E n \in Names : Mail(n) \/ Void(n)
  \/ \E t \in Tabs : GiveUp(t) \/ (\E n \in Names : Admit(t, n)) \/ (\E p \in Passwords : Change(t, p))

BookSpec == BookInit /\ [][BookNext]_bookVars
=============================================================================
