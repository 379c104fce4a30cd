------------------------------ MODULE Accounts -------------------------------
(* Registration, sign-in and password reset: the events of some tabs, each *)
(* a sequence of queries in threads.  One process runs the queries of its  *)
(* events one at a time; between two queries of an event, and between two  *)
(* processes at any time, others run.                                      *)
(*                                                                         *)
(* The link of a reset works as long as the password and the last sign-in  *)
(* of the account are what they were when it was made, and for some time.  *)
(*                                                                         *)
(* An operator named Op_Variant is Op with a plausible mistake in it; no   *)
(* action uses it.                                                         *)
EXTENDS Naturals, Sequences, FiniteSets

CONSTANTS
  Tabs,          \* browser tabs, each handling one event at a time
  ProcessOf,     \* the process that handles a tab's events
  Names,         \* usernames; any address may be one
  Mails,         \* addresses as they are typed
  Folded,        \* each address in one spelling: they compare without case
  FirstPasswords, NewPasswords,  \* passwords typed to register, and in a reset
  LoginFields,   \* what a user may sign in with
  MaxLinks       \* links mailed in one behaviour

NoMail == "no mail"
NoLink == 0
Nobody == "nobody"

ASSUME AccountsAssumption ==
  /\ ProcessOf \in [Tabs -> {ProcessOf[t] : t \in Tabs}]
  /\ Folded \in [Mails -> Mails]
  /\ LoginFields \subseteq {"username", "email"} /\ LoginFields # {}
  /\ MaxLinks \in Nat
  /\ Nobody \notin Names /\ NoMail \notin Mails

Passwords == FirstPasswords \cup NewPasswords

VARIABLES
  accounts,      \* by username
  links,         \* the links mailed so far
  tab            \* the tabs and the event each is at

accountsVars == <<accounts, links, tab>>

Taken == DOMAIN accounts
Same(a, b) == a # NoMail /\ b # NoMail /\ Folded[a] = Folded[b]
WithMail(m) == {n \in Taken : Same(accounts[n].mail, m)}

(* A password is right for the account of this name. *)
Opens(n, pw) == n \in Taken /\ accounts[n].pw = pw

(* The ways into an account: its name, or an address that nobody shares;   *)
(* and those of them a password is right for.                              *)
Ways(book, ident) ==
  {<<"username", n>> : n \in {k \in DOMAIN book : k = ident /\ "username" \in LoginFields}}
  \cup {<<"email", n>> : n \in {k \in DOMAIN book :
          /\ "email" \in LoginFields /\ ident \in Mails
          /\ {j \in DOMAIN book : Same(book[j].mail, ident)} = {k}}}

Right(book, ident, pw) == {w \in Ways(book, ident) : book[w[2]].pw = pw}

(* Links of this name made so far no longer work. *)
Void(n) == [l \in DOMAIN links |-> IF links[l].name = n THEN [links[l] EXCEPT !.live = FALSE]
                                                        ELSE links[l]]

Works(l) == l # NoLink /\ links[l].live

(********************************** events *********************************)
(* What a tab keeps between two events: the page's link, and whether it    *)
(* was found to work when the page was loaded.                             *)
Between(t) == [pc |-> "idle", ident |-> Nobody, mail |-> NoMail, pw |-> Nobody, seen |-> {},
            right |-> {}, page |-> tab[t].page, valid |-> tab[t].valid]

Goes(t, pc, ident) == [Between(t) EXCEPT !.pc = pc, !.ident = ident]

(* The tab goes on; when the accounts change, so does who is right.        *)
Now(t, record) == tab' = [tab EXCEPT ![t] = record]
NowWith(book, t, record) ==
  tab' = [u \in Tabs |-> IF u = t THEN record
                         ELSE [tab[u] EXCEPT !.right = @ \cap Right(book, tab[u].ident, tab[u].pw)]]

(* A query waits for the one its process is at. *)
Free(t) == \A u \in Tabs \ {t} : ProcessOf[u] = ProcessOf[t] => tab[u].pc # "confirm: saves"
At(t, pc) == tab[t].pc = pc /\ Free(t)

AccountsInit ==
  /\ accounts = [n \in {} |-> Nobody]
  /\ links = <<>>
  /\ tab = [t \in Tabs |-> [pc |-> "idle", ident |-> Nobody, mail |-> NoMail, pw |-> Nobody,
                            seen |-> {}, right |-> {}, page |-> NoLink,
                            valid |-> FALSE]]

(****************************** registration *******************************)
(* handle_registration up to its first answer: the name must be free.      *)
Register(t, n, m, p) ==
  /\ At(t, "idle")
  /\ Now(t, IF n \in Taken THEN Between(t)
            ELSE [Goes(t, IF m = NoMail THEN "register: create" ELSE "register: mail", n)
                    EXCEPT !.mail = m, !.pw = p, !.seen = Taken])
  /\ UNCHANGED <<accounts, links>>

MailFree_Spelling(t) ==
  /\ At(t, "register: mail")
  /\ Now(t, IF \E n \in Taken : accounts[n].mail = tab[t].mail THEN Between(t)
            ELSE [tab[t] EXCEPT !.pc = "register: create"])
  /\ UNCHANGED <<accounts, links>>

MailFree(t) ==
  /\ At(t, "register: mail")
  /\ Now(t, IF WithMail(tab[t].mail) # {} THEN Between(t) ELSE [tab[t] EXCEPT !.pc = "register: create"])
  /\ UNCHANGED <<accounts, links>>

(* The database refuses the name of another account, and the event fails;  *)
(* nothing refuses the address of one.                                     *)
Create(t) ==
  /\ At(t, "register: create")
  /\ LET n == tab[t].ident IN
     IF n \in Taken
     THEN accounts' = accounts /\ Now(t, Between(t))
     ELSE /\ accounts' = [k \in Taken \cup {n} |->
                            IF k = n THEN [mail |-> tab[t].mail, pw |-> tab[t].pw, seen |-> tab[t].seen]
                            ELSE accounts[k]]
          /\ NowWith(accounts', t, Goes(t, "sign in", n))
  /\ UNCHANGED links

(********************************* sign-in *********************************)
Typed(t, pc, ident, p, right) == [Goes(t, pc, ident) EXCEPT !.pw = p, !.right = right]

(* aauthenticate_login_fields: the name first; whatever is wrong with it,  *)
(* the address next.                                                       *)
Login(t, ident, p) ==
  /\ At(t, "idle")
  /\ LET right == Right(accounts, ident, p)
         named == "username" \in LoginFields /\ Opens(ident, p)
     IN  Now(t, CASE named -> Goes(t, "sign in", ident)
                  [] ~named /\ "email" \in LoginFields -> Typed(t, "login: mail", ident, p, right)
                  [] OTHER -> Between(t))
  /\ UNCHANGED <<accounts, links>>

MailToName_Spelling(t) ==
  /\ At(t, "login: mail")
  /\ LET matches == {n \in Taken : accounts[n].mail = tab[t].ident} IN
     Now(t, IF Cardinality(matches) = 1
            THEN [tab[t] EXCEPT !.pc = "login: mail's name", !.seen = matches]
            ELSE Between(t))
  /\ UNCHANGED <<accounts, links>>

(* _username_for_email *)
MailToName(t) ==
  /\ At(t, "login: mail")
  /\ LET matches == IF tab[t].ident \in Mails THEN WithMail(tab[t].ident) ELSE {} IN
     Now(t, IF Cardinality(matches) = 1
            THEN [tab[t] EXCEPT !.pc = "login: mail's name", !.seen = matches]
            ELSE Between(t))
  /\ UNCHANGED <<accounts, links>>

ByMailsName(t) ==
  /\ At(t, "login: mail's name")
  /\ \E n \in tab[t].seen :
       Now(t, IF Opens(n, tab[t].pw) THEN Goes(t, "sign in", n) ELSE Between(t))
  /\ UNCHANGED <<accounts, links>>

(* alogin, which also notes the time. *)
SignIn(t) ==
  /\ At(t, "sign in")
  /\ links' = Void(tab[t].ident)
  /\ Now(t, Between(t))
  /\ UNCHANGED accounts

(****************************** password reset *****************************)
(* submit_password_reset_request: of several accounts with the address it  *)
(* is the one the database lists first.  The answer is the same if there   *)
(* is none.                                                                *)
RequestReset(t, m) ==
  /\ At(t, "idle")
  /\ Len(links) < MaxLinks
  /\ \/ WithMail(m) = {} /\ UNCHANGED links
     \/ \E n \in WithMail(m) : links' = Append(links, [name |-> n, live |-> TRUE])
  /\ Now(t, Between(t))
  /\ UNCHANGED accounts

(* The browser goes to the page of a link, the state is what the page that *)
(* was there before has made of it.                                        *)
Navigate(t, l) ==
  /\ tab[t].pc = "idle"
  /\ Now(t, [Between(t) EXCEPT !.page = l])
  /\ UNCHANGED <<accounts, links>>

(* on_load_password_reset_confirm *)
LoadConfirm(t) ==
  /\ At(t, "idle")
  /\ Now(t, [Between(t) EXCEPT !.valid = Works(tab[t].page)])
  /\ UNCHANGED <<accounts, links>>

Setting(t, p) == [Goes(t, "confirm: saves", links[tab[t].page].name) EXCEPT !.pw = p]

ConfirmReads_Trusts(t, p) ==
  /\ At(t, "idle")
  /\ tab[t].valid
  /\ Now(t, IF tab[t].page # NoLink THEN Setting(t, p) ELSE Between(t))
  /\ UNCHANGED <<accounts, links>>

(* submit_password_reset_confirm checks the link of the page again ...     *)
ConfirmReads(t, p) ==
  /\ At(t, "idle")
  /\ tab[t].valid
  /\ Now(t, IF Works(tab[t].page) THEN Setting(t, p) ELSE Between(t))
  /\ UNCHANGED <<accounts, links>>

(* ... and in the same thread saves the password, if it is good enough.    *)
ConfirmSaves(t) ==
  /\ tab[t].pc = "confirm: saves"
  /\ \/ /\ accounts' = [accounts EXCEPT ![tab[t].ident].pw = tab[t].pw]
        /\ links' = Void(tab[t].ident)
        /\ NowWith(accounts', t, Between(t))
     \/ /\ UNCHANGED <<accounts, links>>
        /\ Now(t, Between(t))

(* PASSWORD_RESET_TIMEOUT *)
Expire(l) ==
  /\ links[l].live
  /\ links' = [links EXCEPT ![l].live = FALSE]
  /\ UNCHANGED <<accounts, tab>>

AccountsNext ==
  \/ \E t \in Tabs :
       \/ \E n \in Names, m \in Mails \cup {NoMail}, p \in FirstPasswords : Register(t, n, m, p)
       \/ MailFree(t) \/ Create(t)
       \/ \E ident \in Names \cup Mails, p \in Passwords : Login(t, ident, p)
       \/ MailToName(t) \/ ByMailsName(t) \/ SignIn(t)
       \/ \E m \in Mails : RequestReset(t, m)
       \/ \E l \in DOMAIN links : Navigate(t, l)
       \/ LoadConfirm(t)
       \/ \E p \in NewPasswords : ConfirmReads(t, p)
       \/ ConfirmSaves(t)
  \/ \E l \in DOMAIN links : Expire(l)

AccountsSpec == AccountsInit /\ [][AccountsNext]_accountsVars

(******************************** properties *******************************)
(* Two accounts have the same address only if neither was there when the   *)
(* registration of the other began (auth/mixins/registration.py,           *)
(* handle_registration): an address is taken once, up to the race between  *)
(* looking for it and the new row.                                         *)
OneOwnerUnlessOverlap ==
  \A a, b \in Taken :
    a # b /\ Same(accounts[a].mail, accounts[b].mail) => a \notin accounts[b].seen

(* A sign-in is refused only if neither the name typed nor the address     *)
(* typed was, all the time since it began, that of an account with this    *)
(* password, in case of the address of just one                            *)
(* (auth/login_fields.py, aauthenticate_login_fields).                     *)
RightPasswordGetsIn ==
  [][\A t \in Tabs :
       tab[t].pc \in {"login: mail", "login: mail's name"} /\ tab'[t].pc = "idle"
         => tab[t].right = {}]_accountsVars

(* However the events of the tabs overlap, in one process or in several,   *)
(* names are given out once and passwords change as AccountBook says.      *)
Book == INSTANCE AccountBook WITH
  password <- [n \in Taken |-> accounts[n].pw],
  live <- {links[l].name : l \in {k \in DOMAIN links : links[k].live}},
  due <- [t \in Tabs |-> IF tab[t].pc = "confirm: saves" THEN tab[t].ident ELSE Nobody]

KeepsTheBook == Book!BookSpec
=============================================================================
