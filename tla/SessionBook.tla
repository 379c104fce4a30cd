----------------------------- MODULE SessionBook -----------------------------
(* What the event bridge promises of sessions: a book with a page for each  *)
(* key.  A page is blank, then one user's or nobody's, then closed for      *)
(* good; signing in opens one and signing out closes one, each in a step.   *)
(* The event of a tab comes with a key and runs as nobody or as the user    *)
(* whose page that was when the event came; with identities cached it may   *)
(* run as the user whose page it is or was.  No cache, row or middleware is *)
(* in the book, nor the order they are asked in.                            *)
CONSTANTS
  Tabs,     \* one event each at a time
  Sessions, \* session keys
  Users,    \* accounts
  Nobody,   \* an anonymous user
  NoKey,    \* no session cookie
  Cached    \* whether identities are

VARIABLES
  known,    \* accounts there are
  book,     \* of each key: state ("blank", "open", "closed"), and whose page it is
  asked     \* of each tab's event: where it is at, its cookie's key, the users
            \* who may be served (key was signed in as them when it came), and
            \* whom it runs as or signs in as

bookVars == <<known, book, asked>>

Away == [at |-> "away", key |-> NoKey, may |-> {}, who |-> Nobody]

BookInit ==
  /\ known = Users
  /\ \E k \in Sessions \cup {NoKey}, u \in Users \cup {Nobody} :
       book = [s \in Sessions |-> [state |-> IF s = k THEN "open" ELSE "blank",
                                   of |-> IF s = k THEN u ELSE Nobody]]
  /\ asked = [t \in Tabs |-> Away]

(* A cookie never names a blank page. *)
InCookie(k) == k = NoKey \/ book[k].state # "blank"
Holder(k) == IF k # NoKey /\ book[k].state = "open" THEN {book[k].of} \cap Users ELSE {}

Closed(b, k) == [s \in Sessions |-> IF s = k THEN [b[s] EXCEPT !.state = "closed"] ELSE b[s]]
Opened(b, s, u) == [b EXCEPT ![s] = [state |-> "open", of |-> u]]

Becomes(t, r) == asked' = [asked EXCEPT ![t] = r]

As(r, at, u) == [at |-> at, key |-> r.key, may |-> r.may, who |-> u]

(* An event comes with a key. *)
Ask(t, k) ==
  /\ asked[t].at = "away" /\ InCookie(k)
  /\ Becomes(t, [at |-> "asking", key |-> k, may |-> Holder(k), who |-> Nobody])
  /\ UNCHANGED <<known, book>>

MayServe(r) ==
  {Nobody} \cup (known \cap (r.may \cup (IF Cached /\ r.key # NoKey THEN {book[r.key].of} ELSE {})))

(* It runs as somebody. *)
Answer(t, u) ==
  /\ asked[t].at = "asking" /\ u \in MayServe(asked[t])
  /\ Becomes(t, As(asked[t], "running", u))
  /\ UNCHANGED <<known, book>>

(* It signs out, or in as somebody else, which closes the page it came with *)
(* first.                                                                   *)
Leave(t, to) ==
  /\ asked[t].at = "running"
  /\ book' = Closed(book, asked[t].key)
  /\ Becomes(t, As(asked[t], to, Nobody))
  /\ UNCHANGED known

(* Credentials of an account are verified, and a page is opened for it. *)
Verify(t, u) ==
  /\ asked[t].at = "entering" /\ u \in known
  /\ Becomes(t, As(asked[t], "verified", u))
  /\ UNCHANGED <<known, book>>

Enter(t, s) ==
  /\ asked[t].at = "verified" /\ book[s].state = "blank"
  /\ book' = Opened(book, s, asked[t].who)
  /\ Becomes(t, Away)
  /\ UNCHANGED known

(* It ends. *)
Done(t) ==
  /\ asked[t].at \in {"asking", "running", "entering", "leaving"}
  /\ Becomes(t, Away)
  /\ UNCHANGED <<known, book>>

(* Somebody signs in or out, or deletes an account, elsewhere. *)
SignIn(k, u, s) ==
  /\ InCookie(k) /\ u \in known /\ Holder(k) # {u} /\ book[s].state = "blank"
  /\ book' = Opened(Closed(book, k), s, u)
  /\ UNCHANGED <<known, asked>>

SignOut(k) ==
  /\ book[k].state = "open"
  /\ book' = Closed(book, k)
  /\ UNCHANGED <<known, asked>>

Forget(u) ==
  /\ u \in known
  /\ known' = known \ {u}
  /\ UNCHANGED <<book, asked>>

BookNext ==
  \/ \E t \in Tabs :
       \/ \E k \in Sessions \cup {NoKey} : Ask(t, k)
       \/ \E u \in Users \cup {Nobody} : Answer(t, u) \/ Verify(t, u)
       \/ \E to \in {"entering", "leaving"} : Leave(t, to)
       \/ \E s \in Sessions : Enter(t, s)
       \/ Done(t)
  \/ \E k \in Sessions \cup {NoKey}, u \in Users, s \in Sessions : SignIn(k, u, s)
  \/ \E k \in Sessions : SignOut(k)
  \/ \E u \in Users : Forget(u)

BookSpec == BookInit /\ [][BookNext]_bookVars
=============================================================================
