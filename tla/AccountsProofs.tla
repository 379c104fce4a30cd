--------------------------- MODULE AccountsProofs ----------------------------
(* What Accounts promises, proved for any tabs, processes, names, addresses *)
(* and passwords: an address is given out once but for registrations that   *)
(* overlap, a right password is not refused, and names, links and passwords *)
(* change as AccountBook says.                                              *)
EXTENDS Accounts, FiniteSetTheorems, TLAPS

Account == [mail : Mails \cup {NoMail}, pw : Passwords, seen : SUBSET Names]
Link == [name : Names, live : BOOLEAN]
Way == {"username", "email"} \X Names

Registering == {"register: mail", "register: create"}
LoggingIn == {"login: mail", "login: mail's name"}

Steps == {"idle", "sign in", "confirm: saves"} \cup Registering \cup LoggingIn

Idents == Names \cup Mails \cup {Nobody}

TabState ==
  [pc : Steps, ident : Idents, mail : Mails \cup {NoMail},
   pw : Passwords \cup {Nobody}, seen : SUBSET Names, right : SUBSET Way, page : Nat,
   valid : BOOLEAN]

(* The accounts: no two have an address if one was there before the other  *)
(* began to register.                                                      *)
BookOK(book) ==
  /\ DOMAIN book \subseteq Names
  /\ book \in [DOMAIN book -> Account]
  /\ \A n \in DOMAIN book : book[n].seen \subseteq DOMAIN book
  /\ \A a, b \in DOMAIN book :
       a # b /\ Same(book[a].mail, book[b].mail) => a \notin book[b].seen

LinksOK(mailed, book) ==
  /\ mailed \in Seq(Link)
  /\ \A l \in DOMAIN mailed : mailed[l].name \in DOMAIN book

(* A registration past the look at its address: whoever has it was not     *)
(* there when it began.                                                    *)
RegisterOK(r, book) ==
  /\ r.pc \in Registering => r.ident \in Names /\ r.pw \in Passwords /\ r.seen \subseteq DOMAIN book
  /\ r.pc = "register: create" =>
       \A n \in DOMAIN book : Same(book[n].mail, r.mail) => n \notin r.seen

(* A sign-in the name did not do for: a way that has been right all the    *)
(* time is that of the address, and leads to the account found.            *)
LoginOK(r, book) ==
  /\ r.pc \in LoggingIn =>
       \A w \in r.right : w \in Right(book, r.ident, r.pw) /\ w[1] = "email"
  /\ r.pc = "login: mail's name" => \A w \in r.right : r.seen = {w[2]}

TabOK(r, book, mailed) ==
  /\ r \in TabState
  /\ r.page <= Len(mailed)
  /\ r.pc \in {"sign in", "confirm: saves"} => r.ident \in DOMAIN book
  /\ r.pc = "confirm: saves" => r.pw \in Passwords
  /\ RegisterOK(r, book)
  /\ LoginOK(r, book)

IInv ==
  /\ BookOK(accounts)
  /\ LinksOK(links, accounts)
  /\ tab = [t \in Tabs |-> tab[t]]
  /\ \A t \in Tabs : TabOK(tab[t], accounts, links)
-----------------------------------------------------------------------------
(* What the events' records are. *)

LEMMA BetweenIsIdle ==
  ASSUME NEW t, NEW book, NEW mailed, TabOK(tab[t], book, mailed)
  PROVE  /\ TabOK(Between(t), book, mailed)
         /\ Between(t).pc = "idle" /\ Between(t).page = tab[t].page
BY DEF TabOK, Between, TabState, Steps, Idents, Idents, RegisterOK, LoginOK, Registering, LoggingIn

LEMMA GoesFields ==
  ASSUME NEW t, tab[t] \in TabState, NEW pc \in Steps, NEW ident \in Idents
  PROVE  /\ Goes(t, pc, ident) \in TabState
         /\ Goes(t, pc, ident).pc = pc
         /\ Goes(t, pc, ident).ident = ident
         /\ Goes(t, pc, ident).right = {}
         /\ Goes(t, pc, ident).page = tab[t].page
<1>1. Between(t) \in TabState /\ Between(t).right = {} /\ Between(t).page = tab[t].page
  BY DEF Between, TabState, Steps, Idents
<1> QED
  BY <1>1 DEF Goes, TabState

LEMMA VoidKeeps ==
  ASSUME NEW n, NEW book, LinksOK(links, book)
  PROVE  LinksOK(Void(n), book) /\ Len(Void(n)) = Len(links)
<1>1. DOMAIN links = 1 .. Len(links) /\ Len(links) \in Nat
  BY DEF LinksOK
<1>2. ASSUME NEW l \in DOMAIN links
      PROVE  Void(n)[l] \in Link /\ Void(n)[l].name = links[l].name
  <2>1. links[l] \in Link
    BY <1>1 DEF LinksOK
  <2>2. CASE links[l].name = n
    <3>1. Void(n)[l] = [links[l] EXCEPT !.live = FALSE]
      BY <2>2 DEF Void
    <3> QED
      BY <2>1, <3>1 DEF Link
  <2>3. CASE links[l].name # n
    BY <2>1, <2>3 DEF Void
  <2> QED
    BY <2>2, <2>3
<1>3. Void(n) \in [1 .. Len(links) -> Link]
  BY <1>1, <1>2 DEF Void
<1> QED
  BY <1>1, <1>2, <1>3 DEF LinksOK

-----------------------------------------------------------------------------
(* A step that leaves the accounts alone has to answer for its own tab. *)
LEMMA SameBook ==
  ASSUME IInv, NEW t \in Tabs, NEW r, Now(t, r), accounts' = accounts,
         LinksOK(links', accounts), Len(links) <= Len(links'),
         TabOK(r, accounts, links')
  PROVE  IInv'
<1>1. Len(links) \in Nat /\ Len(links') \in Nat
  BY DEF IInv, LinksOK
<1>2. ASSUME NEW u \in Tabs PROVE TabOK(tab'[u], accounts, links')
  <2>1. CASE u = t
    BY <2>1 DEF Now, IInv
  <2>2. CASE u # t
    <3>1. tab'[u] = tab[u]
      BY <2>2 DEF Now, IInv
    <3>2. TabOK(tab[u], accounts, links)
      BY DEF IInv
    <3>3. tab[u].page \in Nat /\ tab[u].page <= Len(links)
      BY <3>2 DEF TabOK, TabState
    <3>4. tab[u].page <= Len(links')
      BY <1>1, <3>3
    <3> QED
      BY <3>1, <3>2, <3>4 DEF TabOK
  <2> QED
    BY <2>1, <2>2
<1>3. tab' = [u \in Tabs |-> tab'[u]]
  BY DEF Now, IInv
<1> QED
  BY <1>2, <1>3 DEF IInv

(* So has one that changes them: the other tabs are told of it, and those  *)
(* registering do not miss an address that was there before.               *)
LEMMA NewBook ==
  ASSUME IInv, NEW t \in Tabs, NEW r, NowWith(accounts', t, r), BookOK(accounts'),
         \A n \in Taken : n \in DOMAIN accounts' /\ accounts'[n].mail = accounts[n].mail,
         LinksOK(links', accounts'), Len(links) <= Len(links'),
         TabOK(r, accounts', links')
  PROVE  IInv'
<1>1. Len(links) \in Nat /\ Len(links') \in Nat
  BY DEF IInv, LinksOK
<1>2. ASSUME NEW u \in Tabs PROVE TabOK(tab'[u], accounts', links')
  <2>1. CASE u = t
    BY <2>1 DEF NowWith
  <2>2. CASE u # t
    <3> DEFINE right == Right(accounts', tab[u].ident, tab[u].pw)
               q == [tab[u] EXCEPT !.right = @ \cap right]
    <3>1. tab'[u] = q
      BY <2>2 DEF NowWith
    <3>2. TabOK(tab[u], accounts, links)
      BY DEF IInv
    <3>0. tab[u] \in TabState /\ tab[u].page \in Nat /\ tab[u].page <= Len(links)
      BY <3>2 DEF TabOK, TabState
    <3> HIDE DEF right
    <3>3. /\ q \in TabState /\ q.pc = tab[u].pc /\ q.ident = tab[u].ident /\ q.pw = tab[u].pw
          /\ q.mail = tab[u].mail /\ q.seen = tab[u].seen /\ q.page = tab[u].page
          /\ q.right = tab[u].right \cap right
      BY <3>0 DEF TabState
    <3> HIDE DEF q
    <3>4. q.page <= Len(links')
      BY <1>1, <3>0, <3>3
    <3>5. RegisterOK(q, accounts')
      <4>1. RegisterOK(tab[u], accounts)
        BY <3>2 DEF TabOK
      <4>2. ASSUME tab[u].pc \in Registering
            PROVE  q.ident \in Names /\ q.pw \in Passwords /\ q.seen \subseteq DOMAIN accounts
                   /\ q.seen \subseteq DOMAIN accounts'
        BY <3>3, <4>1, <4>2 DEF RegisterOK, Taken
      <4>3. ASSUME tab[u].pc = "register: create", NEW n \in DOMAIN accounts',
                   Same(accounts'[n].mail, q.mail), n \in q.seen
            PROVE  FALSE
        <5>1. n \in DOMAIN accounts /\ accounts'[n].mail = accounts[n].mail
          BY <4>2, <4>3 DEF Registering, Taken
        <5>2. Same(accounts[n].mail, tab[u].mail) /\ n \in tab[u].seen
          BY <3>3, <4>3, <5>1
        <5> QED
          BY <4>1, <4>3, <5>1, <5>2 DEF RegisterOK
      <4> QED
        BY <3>3, <4>2, <4>3 DEF RegisterOK
    <3>6. LoginOK(q, accounts')
      <4>1. LoginOK(tab[u], accounts)
        BY <3>2 DEF TabOK
      <4>2. \A w \in q.right : w \in tab[u].right /\ w \in Right(accounts', q.ident, q.pw)
        BY <3>3 DEF right
      <4> QED
        BY <3>3, <4>1, <4>2 DEF LoginOK
    <3>7. /\ q.pc \in {"sign in", "confirm: saves"} => q.ident \in DOMAIN accounts'
          /\ q.pc = "confirm: saves" => q.pw \in Passwords
      BY <3>2, <3>3 DEF TabOK, Taken
    <3> QED
      BY <3>1, <3>3, <3>4, <3>5, <3>6, <3>7 DEF TabOK
  <2> QED
    BY <2>1, <2>2
<1>3. tab' = [u \in Tabs |-> tab'[u]]
  BY DEF NowWith
<1> QED
  BY <1>2, <1>3 DEF IInv

(* Giving up, or the end of an event, asks for nothing. *)
LEMMA Ends ==
  ASSUME IInv, NEW t \in Tabs, Now(t, Between(t)), UNCHANGED <<accounts, links>>
  PROVE  IInv'
<1>1. TabOK(Between(t), accounts, links) /\ Len(links) \in Nat
  BY BetweenIsIdle DEF IInv, LinksOK
<1> QED
  BY <1>1, SameBook DEF IInv

-----------------------------------------------------------------------------
(* What the helpers of a sign-in are. *)

(* Whoever may be signed in was found by their name, or by an address that *)
(* is theirs alone.                                                        *)
LEMMA RightIs ==
  ASSUME NEW book, NEW ident, NEW pw, NEW w \in Right(book, ident, pw)
  PROVE  /\ w[2] \in DOMAIN book /\ book[w[2]].pw = pw
         /\ w = <<w[1], w[2]>> /\ w[1] \in {"username", "email"}
         /\ w[1] = "username" => w[2] = ident /\ "username" \in LoginFields
         /\ w[1] = "email" => {j \in DOMAIN book : Same(book[j].mail, ident)} = {w[2]}
         /\ w[1] = "email" => "email" \in LoginFields /\ ident \in Mails
<1>1. w \in Ways(book, ident) /\ book[w[2]].pw = pw
  BY DEF Right
<1>2. CASE \E n \in DOMAIN book : w = <<"username", n>> /\ n = ident /\ "username" \in LoginFields
  BY <1>1, <1>2
<1>3. CASE \E n \in DOMAIN book :
             /\ w = <<"email", n>> /\ "email" \in LoginFields /\ ident \in Mails
             /\ {j \in DOMAIN book : Same(book[j].mail, ident)} = {n}
  BY <1>1, <1>3
<1> QED
  BY <1>1, <1>2, <1>3 DEF Ways

(* Who is found by an address has it alone. *)
LEMMA RightByMail ==
  ASSUME NEW ident, NEW pw, NEW w \in Right(accounts, ident, pw), w[1] = "email"
  PROVE  ident \in Mails /\ WithMail(ident) = {w[2]} /\ Opens(w[2], pw)
<1>1. /\ w[2] \in Taken /\ accounts[w[2]].pw = pw /\ ident \in Mails
      /\ {j \in Taken : Same(accounts[j].mail, ident)} = {w[2]}
  BY RightIs DEF Taken
<1> QED
  BY <1>1 DEF WithMail, Opens

(* Nobody but accounts can be signed in. *)
LEMMA RightAreWays ==
  ASSUME NEW book, BookOK(book), NEW ident, NEW pw
  PROVE  Right(book, ident, pw) \in SUBSET Way
<1>1. ASSUME NEW w \in Right(book, ident, pw) PROVE w \in Way
  <2>1. w = <<w[1], w[2]>> /\ w[1] \in {"username", "email"} /\ w[2] \in Names
    BY <1>1, RightIs DEF BookOK
  <2> QED
    BY <2>1 DEF Way
<1> QED
  BY <1>1

-----------------------------------------------------------------------------
(* The actions, one by one. *)

(* A step that changes neither accounts nor links. *)
LEMMA Stays ==
  ASSUME IInv, NEW t \in Tabs, NEW r, Now(t, r), UNCHANGED <<accounts, links>>,
         TabOK(r, accounts, links)
  PROVE  IInv'
<1>1. LinksOK(links, accounts) /\ Len(links) \in Nat
  BY DEF IInv, LinksOK
<1> QED
  BY <1>1, SameBook

(* There are no accounts at first. *)
LEMMA Starts ==
  ASSUME AccountsInit
  PROVE  IInv
<1>1. BookOK(accounts)
  BY DEF AccountsInit, BookOK
<1>2. LinksOK(links, accounts)
  BY DEF AccountsInit, LinksOK
<1>3. ASSUME NEW t \in Tabs PROVE TabOK(tab[t], accounts, links)
  <2>1. tab[t] = [pc |-> "idle", ident |-> Nobody, mail |-> NoMail, pw |-> Nobody,
                  seen |-> {}, right |-> {}, page |-> NoLink, valid |-> FALSE]
    BY DEF AccountsInit
  <2>2. Len(links) = 0
    BY DEF AccountsInit
  <2> QED
    BY <2>1, <2>2 DEF TabOK, TabState, Steps, Idents, RegisterOK, LoginOK, Registering, LoggingIn, NoLink
<1> QED
  BY <1>1, <1>2, <1>3 DEF IInv, AccountsInit

(* The name was free: whoever registers remembers who was there. *)
LEMMA RegisterKeeps ==
  ASSUME IInv, NEW t \in Tabs, NEW n \in Names, NEW m \in Mails \cup {NoMail},
         NEW p \in FirstPasswords, Register(t, n, m, p)
  PROVE  IInv'
<1> DEFINE pc == IF m = NoMail THEN "register: create" ELSE "register: mail"
           q == [Goes(t, pc, n) EXCEPT !.mail = m, !.pw = p, !.seen = Taken]
<1>1. CASE n \in Taken
  BY <1>1, Ends DEF Register
<1>2. CASE n \notin Taken
  <2>1. Now(t, q) /\ UNCHANGED <<accounts, links>>
    BY <1>2 DEF Register
  <2>2. pc \in Registering /\ (pc = "register: create" => m = NoMail)
    BY DEF Registering
  <2> HIDE DEF pc
  <2>3. TabOK(tab[t], accounts, links) /\ Taken \in SUBSET Names
    BY DEF IInv, BookOK, Taken
  <2>4. pc \in Steps /\ n \in Idents /\ tab[t] \in TabState
    BY <2>2, <2>3 DEF Steps, Idents, TabOK
  <2>fields. /\ Goes(t, pc, n) \in TabState /\ Goes(t, pc, n).pc = pc /\ Goes(t, pc, n).ident = n
        /\ Goes(t, pc, n).right = {} /\ Goes(t, pc, n).page = tab[t].page
    BY <2>4, GoesFields
  <2>5. /\ q \in TabState /\ q.pc = pc /\ q.ident = n /\ q.right = {} /\ q.page = tab[t].page
        /\ q.mail = m /\ q.pw = p /\ q.seen = Taken
    BY <2>3, <2>fields DEF TabState, Passwords
  <2> HIDE DEF q
  <2>6. RegisterOK(q, accounts)
    <3>1. q.pw \in Passwords /\ q.ident \in Names /\ q.seen \subseteq DOMAIN accounts
      BY <2>5 DEF Passwords, Taken
    <3>2. q.pc = "register: create" => \A k \in DOMAIN accounts : ~Same(accounts[k].mail, q.mail)
      BY <2>2, <2>5 DEF Same
    <3> QED
      BY <3>1, <3>2 DEF RegisterOK
  <2>7. TabOK(q, accounts, links)
    <3>1. q.page <= Len(links)
      BY <2>3, <2>5 DEF TabOK
    <3> QED
      BY <2>2, <2>5, <2>6, <3>1 DEF TabOK, LoginOK, Registering, LoggingIn
  <2> QED
    BY <2>1, <2>7, Stays
<1> QED
  BY <1>1, <1>2

(* Nobody has the address when it is looked for. *)
LEMMA MailFreeKeeps ==
  ASSUME IInv, NEW t \in Tabs, MailFree(t)
  PROVE  IInv'
<1> DEFINE q == [tab[t] EXCEPT !.pc = "register: create"]
<1>1. CASE WithMail(tab[t].mail) # {}
  BY <1>1, Ends DEF MailFree
<1>2. CASE WithMail(tab[t].mail) = {}
  <2>1. Now(t, q) /\ UNCHANGED <<accounts, links>> /\ tab[t].pc = "register: mail"
    BY <1>2 DEF MailFree, At
  <2>2. TabOK(tab[t], accounts, links)
    BY DEF IInv
  <2>3. /\ q \in TabState /\ q.pc = "register: create" /\ q.ident = tab[t].ident
        /\ q.page = tab[t].page /\ q.mail = tab[t].mail /\ q.pw = tab[t].pw
        /\ q.seen = tab[t].seen
    BY <2>2 DEF TabOK, TabState, Steps, Registering
  <2> HIDE DEF q
  <2>4. RegisterOK(q, accounts)
    BY <1>2, <2>1, <2>2, <2>3 DEF TabOK, RegisterOK, Registering, WithMail, Taken
  <2>5. TabOK(q, accounts, links)
    BY <2>2, <2>3, <2>4 DEF TabOK, LoginOK, LoggingIn
  <2> QED
    BY <2>1, <2>5, Stays
<1> QED
  BY <1>1, <1>2

(* The name was not taken when the row was written; whoever else has the    *)
(* address came after this registration began.                             *)
LEMMA CreateKeeps ==
  ASSUME IInv, NEW t \in Tabs, Create(t)
  PROVE  IInv'
<1> DEFINE n == tab[t].ident
           q == Goes(t, "sign in", n)
<1>1. CASE n \in Taken
  BY <1>1, Ends DEF Create
<1>2. CASE n \notin Taken
  <2> DEFINE row == [mail |-> tab[t].mail, pw |-> tab[t].pw, seen |-> tab[t].seen]
  <2>1. /\ accounts' = [k \in Taken \cup {n} |-> IF k = n THEN row ELSE accounts[k]]
        /\ NowWith(accounts', t, q)
        /\ links' = links /\ tab[t].pc = "register: create"
    BY <1>2 DEF Create, At
  <2>2. BookOK(accounts) /\ LinksOK(links, accounts) /\ TabOK(tab[t], accounts, links)
    BY DEF IInv
  <2>3. /\ n \in Names /\ tab[t].pw \in Passwords /\ tab[t].seen \subseteq Taken
        /\ \A k \in Taken : Same(accounts[k].mail, tab[t].mail) => k \notin tab[t].seen
    BY <2>1, <2>2 DEF TabOK, RegisterOK, Registering, Taken
  <2>4. tab[t] \in TabState /\ tab[t].mail \in Mails \cup {NoMail}
    BY <2>2 DEF TabOK, TabState
  <2>5. row \in Account
    BY <2>2, <2>3, <2>4 DEF Account, BookOK, Taken
  <2>6. /\ DOMAIN accounts' = Taken \cup {n} /\ accounts'[n] = row
        /\ \A k \in Taken : accounts'[k] = accounts[k]
    BY <1>2, <2>1
  <2>7. row.mail = tab[t].mail /\ row.seen = tab[t].seen
    OBVIOUS
  <2> HIDE DEF row
  <2>8. BookOK(accounts')
    <3>1. DOMAIN accounts' \subseteq Names /\ accounts' \in [DOMAIN accounts' -> Account]
      BY <2>1, <2>2, <2>3, <2>5, <2>6 DEF BookOK, Taken
    <3>2. \A k \in DOMAIN accounts' : accounts'[k].seen \subseteq DOMAIN accounts'
      BY <2>2, <2>3, <2>6, <2>7 DEF BookOK, Taken
    <3>3. ASSUME NEW a \in DOMAIN accounts', NEW b \in DOMAIN accounts', a # b,
                 Same(accounts'[a].mail, accounts'[b].mail)
          PROVE  a \notin accounts'[b].seen
      <4>1. CASE a = n
        BY <1>2, <2>2, <2>6, <3>3, <4>1 DEF BookOK, Taken
      <4>2. CASE b = n
        BY <2>3, <2>6, <2>7, <3>3, <4>2
      <4>3. CASE a # n /\ b # n
        BY <2>2, <2>6, <3>3, <4>3 DEF BookOK, Taken
      <4> QED
        BY <4>1, <4>2, <4>3
    <3> QED
      BY <3>1, <3>2, <3>3 DEF BookOK
  <2>9. LinksOK(links', accounts')
    BY <2>1, <2>2, <2>6 DEF LinksOK, Taken
  <2>10. Len(links) \in Nat
    BY <2>2 DEF LinksOK
  <2>11. "sign in" \in Steps /\ n \in Idents
    BY <2>3 DEF Steps, Idents
  <2>12. /\ q \in TabState /\ q.pc = "sign in" /\ q.ident = n /\ q.right = {} /\ q.page = tab[t].page
    BY <2>4, <2>11 DEF Goes, Between, TabState, Steps, Idents
  <2> HIDE DEF q
  <2>13. q.page <= Len(links')
    BY <2>1, <2>2, <2>12 DEF TabOK
  <2>14. TabOK(q, accounts', links')
    BY <2>6, <2>12, <2>13 DEF TabOK, RegisterOK, LoginOK, Registering, LoggingIn
  <2>15. \A k \in Taken : k \in DOMAIN accounts' /\ accounts'[k].mail = accounts[k].mail
    BY <2>6
  <2>16. Len(links) <= Len(links')
    <3>1. links' = links
      BY <2>1
    <3> QED
      BY <2>10, <3>1
  <2> QED
    BY <2>1, <2>8, <2>9, <2>14, <2>15, <2>16, NewBook
<1> QED
  BY <1>1, <1>2

(* A way that is right, when the name is not, is that of the address. *)
LEMMA LoginKeeps ==
  ASSUME IInv, NEW t \in Tabs, NEW ident \in Names \cup Mails, NEW p \in Passwords,
         Login(t, ident, p)
  PROVE  IInv'
<1> DEFINE right == Right(accounts, ident, p)
           named == "username" \in LoginFields /\ Opens(ident, p)
<1>1. /\ TabOK(tab[t], accounts, links) /\ BookOK(accounts) /\ ident \in Idents
      /\ tab[t] \in TabState /\ tab[t].page <= Len(links)
  BY DEF IInv, TabOK, Idents
<1>2. CASE named
  <2> DEFINE q == Goes(t, "sign in", ident)
  <2>1. Now(t, q) /\ UNCHANGED <<accounts, links>> /\ ident \in Taken
    BY <1>2 DEF Login, Opens
  <2>2. "sign in" \in Steps
    BY DEF Steps
  <2>3. q \in TabState /\ q.pc = "sign in" /\ q.ident = ident /\ q.page = tab[t].page
    BY <1>1, <2>2 DEF Goes, Between, TabState, Steps, Idents
  <2> HIDE DEF q
  <2>4. TabOK(q, accounts, links)
    BY <1>1, <2>1, <2>3 DEF TabOK, RegisterOK, LoginOK, Registering, LoggingIn, Taken
  <2> QED
    BY <2>1, <2>4, Stays
<1>3. CASE ~named /\ "email" \in LoginFields
  <2> DEFINE q == Typed(t, "login: mail", ident, p, right)
  <2>1. Now(t, q) /\ UNCHANGED <<accounts, links>>
    BY <1>3 DEF Login
  <2>2. "login: mail" \in Steps
    BY DEF Steps, LoggingIn
  <2>3. /\ Goes(t, "login: mail", ident) \in TabState
        /\ Goes(t, "login: mail", ident).pc = "login: mail"
        /\ Goes(t, "login: mail", ident).ident = ident
        /\ Goes(t, "login: mail", ident).page = tab[t].page
    BY <1>1, <2>2 DEF Goes, Between, TabState, Steps, Idents
  <2>4. right \in SUBSET Way
    BY <1>1, RightAreWays
  <2>5. ASSUME NEW w \in right PROVE w[1] = "email"
    BY <1>3, <2>5, RightIs DEF Opens, Taken
  <2> HIDE DEF right
  <2>6. /\ q \in TabState /\ q.pc = "login: mail" /\ q.ident = ident /\ q.page = tab[t].page
        /\ q.pw = p /\ q.right = right
    BY <2>3, <2>4 DEF Typed, TabState
  <2> HIDE DEF q
  <2>7. LoginOK(q, accounts)
    BY <2>5, <2>6 DEF LoginOK, right
  <2>8. TabOK(q, accounts, links)
    BY <1>1, <2>6, <2>7 DEF TabOK, RegisterOK, Registering
  <2> QED
    BY <2>1, <2>8, Stays
<1>4. CASE ~named /\ "email" \notin LoginFields
  BY <1>4, Ends DEF Login
<1> QED
  BY <1>2, <1>3, <1>4

(* The account found is the one a way that has been right leads to. *)
LEMMA MailToNameKeeps ==
  ASSUME IInv, NEW t \in Tabs, MailToName(t)
  PROVE  IInv'
<1> DEFINE matches == IF tab[t].ident \in Mails THEN WithMail(tab[t].ident) ELSE {}
           q == [tab[t] EXCEPT !.pc = "login: mail's name", !.seen = matches]
<1>1. CASE Cardinality(matches) = 1
  <2>1. Now(t, q) /\ UNCHANGED <<accounts, links>> /\ tab[t].pc = "login: mail"
    BY <1>1 DEF MailToName, At
  <2>2. TabOK(tab[t], accounts, links) /\ tab[t] \in TabState /\ BookOK(accounts)
    BY DEF IInv, TabOK
  <2>3. matches \in SUBSET Names
    BY <2>2 DEF WithMail, BookOK, Taken
  <2>4. ASSUME NEW w \in tab[t].right
        PROVE  w \in Right(accounts, tab[t].ident, tab[t].pw) /\ w[1] = "email" /\ matches = {w[2]}
    <3>1. w \in Right(accounts, tab[t].ident, tab[t].pw) /\ w[1] = "email"
      BY <2>1, <2>2 DEF TabOK, LoginOK, LoggingIn
    <3> QED
      BY <3>1, RightByMail
  <2> HIDE DEF matches
  <2>5. /\ q \in TabState /\ q.pc = "login: mail's name" /\ q.ident = tab[t].ident
        /\ q.page = tab[t].page /\ q.pw = tab[t].pw /\ q.right = tab[t].right
        /\ q.seen = matches
    BY <2>2, <2>3 DEF TabState, Steps, LoggingIn
  <2> HIDE DEF q
  <2>6. LoginOK(q, accounts)
    BY <2>4, <2>5 DEF LoginOK
  <2>7. TabOK(q, accounts, links)
    BY <2>2, <2>5, <2>6 DEF TabOK, RegisterOK, Registering
  <2> QED
    BY <2>1, <2>7, Stays
<1>2. CASE Cardinality(matches) # 1
  BY <1>2, Ends DEF MailToName
<1> QED
  BY <1>1, <1>2

(* The account whose password was right may be signed in. *)
LEMMA ByMailsNameKeeps ==
  ASSUME IInv, NEW t \in Tabs, ByMailsName(t)
  PROVE  IInv'
<1>1. PICK n \in tab[t].seen :
        /\ Now(t, IF Opens(n, tab[t].pw) THEN Goes(t, "sign in", n) ELSE Between(t))
        /\ UNCHANGED <<accounts, links>>
  BY DEF ByMailsName
<1>2. CASE Opens(n, tab[t].pw)
  <2> DEFINE q == Goes(t, "sign in", n)
  <2>1. Now(t, q) /\ n \in Taken
    BY <1>1, <1>2 DEF Opens
  <2>2. TabOK(tab[t], accounts, links) /\ tab[t] \in TabState /\ n \in Names
    BY <2>1 DEF IInv, TabOK, BookOK, Taken
  <2>3. q \in TabState /\ q.pc = "sign in" /\ q.ident = n /\ q.page = tab[t].page
    BY <2>2 DEF Goes, Between, TabState, Steps, Idents
  <2> HIDE DEF q
  <2>4. TabOK(q, accounts, links)
    BY <2>1, <2>2, <2>3 DEF TabOK, RegisterOK, LoginOK, Registering, LoggingIn, Taken
  <2> QED
    BY <1>1, <2>1, <2>4, Stays
<1>3. CASE ~Opens(n, tab[t].pw)
  BY <1>1, <1>3, Ends
<1> QED
  BY <1>2, <1>3

(* A step that ends an event and changes links, no fewer than before. *)
LEMMA EndsWithLinks ==
  ASSUME IInv, NEW t \in Tabs, Now(t, Between(t)), accounts' = accounts,
         LinksOK(links', accounts), Len(links) <= Len(links')
  PROVE  IInv'
<1>0. TabOK(tab[t], accounts, links) /\ Len(links) \in Nat /\ Len(links') \in Nat
  BY DEF IInv, LinksOK
<1>1. TabOK(Between(t), accounts, links)
  BY <1>0, BetweenIsIdle
<1>2. Between(t).page \in Nat /\ Between(t).page <= Len(links)
  BY <1>1 DEF TabOK, TabState
<1>3. Between(t).page <= Len(links')
  BY <1>0, <1>2
<1>4. TabOK(Between(t), accounts, links')
  BY <1>1, <1>3 DEF TabOK
<1> QED
  BY <1>4, SameBook

(* The links of the account do not work any longer. *)
LEMMA SignInKeeps ==
  ASSUME IInv, NEW t \in Tabs, SignIn(t)
  PROVE  IInv'
<1>1. LinksOK(links, accounts) /\ Len(links) \in Nat
  BY DEF IInv, LinksOK
<1>2. LinksOK(links', accounts) /\ Len(links') = Len(links)
  BY <1>1, VoidKeeps DEF SignIn
<1>3. Len(links) <= Len(links')
  BY <1>1, <1>2
<1> QED
  BY <1>2, <1>3, EndsWithLinks DEF SignIn

(* A link is mailed to an account. *)
LEMMA RequestResetKeeps ==
  ASSUME IInv, NEW t \in Tabs, NEW m \in Mails, RequestReset(t, m)
  PROVE  IInv'
<1>1. LinksOK(links, accounts) /\ Len(links) \in Nat /\ links \in Seq(Link) /\ BookOK(accounts)
  BY DEF IInv, LinksOK
<1>2. CASE UNCHANGED links
  <2>1. Len(links) <= Len(links')
    BY <1>1, <1>2
  <2> QED
    BY <1>1, <1>2, <2>1, EndsWithLinks DEF RequestReset
<1>3. ASSUME NEW n \in WithMail(m), links' = Append(links, [name |-> n, live |-> TRUE])
      PROVE  IInv'
  <2>1. n \in DOMAIN accounts /\ n \in Names
    BY <1>1, <1>3 DEF WithMail, Taken, BookOK
  <2> DEFINE new == [name |-> n, live |-> TRUE]
  <2>2. new \in Link /\ new.name = n
    BY <2>1 DEF Link
  <2> HIDE DEF new
  <2>3. links' = Append(links, new)
    BY <1>3 DEF new
  <2>4. /\ links' \in Seq(Link) /\ Len(links') = Len(links) + 1
        /\ \A l \in DOMAIN links' : IF l = Len(links) + 1 THEN links'[l] = new
                                    ELSE l \in DOMAIN links /\ links'[l] = links[l]
    BY <1>1, <2>2, <2>3
  <2>5. LinksOK(links', accounts)
    BY <1>1, <2>1, <2>2, <2>4 DEF LinksOK
  <2>6. Len(links) <= Len(links')
    BY <1>1, <2>4
  <2> QED
    BY <2>5, <2>6, EndsWithLinks DEF RequestReset
<1> QED
  BY <1>2, <1>3 DEF RequestReset

(* The page of a link. *)
LEMMA NavigateKeeps ==
  ASSUME IInv, NEW t \in Tabs, NEW l \in DOMAIN links, Navigate(t, l)
  PROVE  IInv'
<1> DEFINE q == [Between(t) EXCEPT !.page = l]
<1>1. TabOK(tab[t], accounts, links) /\ l \in 1 .. Len(links) /\ Len(links) \in Nat
  BY DEF IInv, LinksOK
<1>2. TabOK(Between(t), accounts, links) /\ Between(t).pc = "idle"
  BY <1>1, BetweenIsIdle
<1>3. l \in Nat /\ l <= Len(links)
  BY <1>1
<1>4. q \in TabState /\ q.pc = "idle" /\ q.page = l
  BY <1>2, <1>3 DEF TabOK, TabState
<1> HIDE DEF q
<1>5. TabOK(q, accounts, links)
  BY <1>3, <1>4 DEF TabOK, RegisterOK, LoginOK, Registering, LoggingIn
<1> QED
  BY <1>5, Stays DEF Navigate, q

(* The page notes whether its link works. *)
LEMMA LoadConfirmKeeps ==
  ASSUME IInv, NEW t \in Tabs, LoadConfirm(t)
  PROVE  IInv'
<1> DEFINE works == Works(tab[t].page)
           q == [Between(t) EXCEPT !.valid = works]
<1>1. TabOK(tab[t], accounts, links) /\ tab[t].page \in Nat /\ tab[t].page <= Len(links)
  BY DEF IInv, TabOK, TabState
<1>2. /\ TabOK(Between(t), accounts, links) /\ Between(t).pc = "idle"
      /\ Between(t).page = tab[t].page
  BY <1>1, BetweenIsIdle
<1>3. links \in Seq(Link) /\ Len(links) \in Nat
  BY DEF IInv, LinksOK
<1>4. works \in BOOLEAN
  BY DEF Works
<1> HIDE DEF works
<1>5. q \in TabState /\ q.pc = "idle" /\ q.page = tab[t].page
  BY <1>2, <1>4 DEF TabOK, TabState
<1> HIDE DEF q
<1>6. TabOK(q, accounts, links)
  BY <1>1, <1>5 DEF TabOK, RegisterOK, LoginOK, Registering, LoggingIn
<1> QED
  BY <1>6, Stays DEF LoadConfirm, q, works

(* A link that works is that of an account. *)
LEMMA ConfirmReadsKeeps ==
  ASSUME IInv, NEW t \in Tabs, NEW p \in NewPasswords, ConfirmReads(t, p)
  PROVE  IInv'
<1> DEFINE n == links[tab[t].page].name
           q == Setting(t, p)
<1>1. CASE Works(tab[t].page)
  <2>1. Now(t, q) /\ UNCHANGED <<accounts, links>>
    BY <1>1 DEF ConfirmReads
  <2>2. /\ TabOK(tab[t], accounts, links) /\ tab[t] \in TabState
        /\ tab[t].page \in Nat /\ tab[t].page <= Len(links)
    BY DEF IInv, TabOK, TabState
  <2>3. LinksOK(links, accounts) /\ links \in Seq(Link) /\ Len(links) \in Nat /\ BookOK(accounts)
    BY DEF IInv, LinksOK
  <2>4. tab[t].page \in DOMAIN links
    BY <1>1, <2>2, <2>3 DEF Works, NoLink
  <2>5. n \in DOMAIN accounts /\ n \in Idents
    BY <2>3, <2>4 DEF LinksOK, BookOK, Idents
  <2> HIDE DEF n
  <2>6. /\ Goes(t, "confirm: saves", n) \in TabState
        /\ Goes(t, "confirm: saves", n).pc = "confirm: saves"
        /\ Goes(t, "confirm: saves", n).ident = n
        /\ Goes(t, "confirm: saves", n).page = tab[t].page
    BY <2>2, <2>5 DEF Goes, Between, TabState, Steps, Idents
  <2>7. q = [Goes(t, "confirm: saves", n) EXCEPT !.pw = p] /\ p \in Passwords
    BY DEF Setting, n, Passwords
  <2>8. /\ q \in TabState /\ q.pc = "confirm: saves" /\ q.ident = n
        /\ q.page = tab[t].page /\ q.pw = p
    BY <2>6, <2>7 DEF TabState
  <2> HIDE DEF q
  <2>9. TabOK(q, accounts, links)
    BY <2>2, <2>5, <2>7, <2>8 DEF TabOK, RegisterOK, LoginOK, Registering, LoggingIn
  <2> QED
    BY <2>1, <2>9, Stays
<1>2. CASE ~Works(tab[t].page)
  BY <1>2, Ends DEF ConfirmReads
<1> QED
  BY <1>1, <1>2

(* A new password, and the links are void. *)
LEMMA ConfirmSavesKeeps ==
  ASSUME IInv, NEW t \in Tabs, ConfirmSaves(t)
  PROVE  IInv'
<1> DEFINE n == tab[t].ident
           pw == tab[t].pw
<1>1. CASE /\ accounts' = [accounts EXCEPT ![n].pw = pw]
           /\ links' = Void(n) /\ NowWith(accounts', t, Between(t))
  <2>1. /\ BookOK(accounts) /\ LinksOK(links, accounts) /\ Len(links) \in Nat
        /\ TabOK(tab[t], accounts, links)
    BY DEF IInv, LinksOK
  <2>2. n \in DOMAIN accounts /\ pw \in Passwords
    BY <2>1 DEF ConfirmSaves, TabOK
  <2> HIDE DEF n, pw
  <2>3. accounts[n] \in Account /\ accounts \in [DOMAIN accounts -> Account]
    BY <2>1, <2>2 DEF BookOK
  <2> DEFINE row == [accounts[n] EXCEPT !.pw = pw]
  <2>4. row \in Account /\ row.mail = accounts[n].mail /\ row.seen = accounts[n].seen
    BY <2>2, <2>3 DEF Account
  <2>5. accounts' = [accounts EXCEPT ![n] = row]
    BY <1>1
  <2> HIDE DEF row
  <2>6. /\ DOMAIN accounts' = DOMAIN accounts
        /\ \A k \in DOMAIN accounts : /\ accounts'[k].mail = accounts[k].mail
                                      /\ accounts'[k].seen = accounts[k].seen
    BY <2>2, <2>3, <2>4, <2>5
  <2>7. accounts' \in [DOMAIN accounts' -> Account]
    BY <2>3, <2>4, <2>5
  <2>8. BookOK(accounts')
    BY <2>1, <2>6, <2>7 DEF BookOK
  <2>9. LinksOK(links', accounts) /\ Len(links') = Len(links)
    BY <1>1, <2>1, VoidKeeps
  <2>10. LinksOK(links', accounts') /\ Len(links) <= Len(links')
    BY <2>1, <2>6, <2>9 DEF LinksOK
  <2>11. TabOK(Between(t), accounts, links) /\ Between(t).pc = "idle"
    BY <2>1, BetweenIsIdle
  <2>12. TabOK(Between(t), accounts', links')
    BY <2>9, <2>11 DEF TabOK, RegisterOK, LoginOK, Registering, LoggingIn
  <2>13. \A k \in Taken : k \in DOMAIN accounts' /\ accounts'[k].mail = accounts[k].mail
    BY <2>6 DEF Taken
  <2> QED
    BY <1>1, <2>8, <2>10, <2>12, <2>13, NewBook
<1>2. CASE UNCHANGED <<accounts, links>> /\ Now(t, Between(t))
  BY <1>2, Ends
<1> QED
  BY <1>1, <1>2 DEF ConfirmSaves

(* A link is too old. *)
LEMMA ExpireKeeps ==
  ASSUME IInv, NEW l \in DOMAIN links, Expire(l)
  PROVE  IInv'
<1>1. links \in Seq(Link) /\ Len(links) \in Nat /\ l \in 1 .. Len(links)
  BY DEF IInv, LinksOK
<1>2. links[l] \in Link
  BY <1>1
<1> DEFINE old == [links[l] EXCEPT !.live = FALSE]
<1>3. old \in Link /\ old.name = links[l].name
  BY <1>2 DEF Link
<1>4. links' = [links EXCEPT ![l] = old]
  BY DEF Expire
<1> HIDE DEF old
<1>5. /\ links' \in Seq(Link) /\ Len(links') = Len(links) /\ DOMAIN links' = DOMAIN links
      /\ \A k \in DOMAIN links : links'[k].name = links[k].name
  BY <1>1, <1>3, <1>4
<1>6. LinksOK(links', accounts)
  BY <1>5 DEF IInv, LinksOK
<1>7. ASSUME NEW t \in Tabs PROVE TabOK(tab[t], accounts, links')
  BY <1>5 DEF IInv, TabOK
<1> QED
  BY <1>6, <1>7 DEF IInv, Expire

(* Every step keeps the invariant. *)
LEMMA IInvInductive ==
  ASSUME IInv, [AccountsNext]_accountsVars
  PROVE  IInv'
<1>1. ASSUME NEW t \in Tabs, NEW n \in Names, NEW m \in Mails \cup {NoMail},
             NEW p \in FirstPasswords, Register(t, n, m, p)
      PROVE  IInv'
  BY <1>1, RegisterKeeps
<1>2. ASSUME NEW t \in Tabs, MailFree(t) \/ Create(t) \/ MailToName(t) \/ ByMailsName(t)
                             \/ SignIn(t) \/ LoadConfirm(t) \/ ConfirmSaves(t)
      PROVE  IInv'
  BY <1>2, MailFreeKeeps, CreateKeeps, MailToNameKeeps, ByMailsNameKeeps, SignInKeeps,
     LoadConfirmKeeps, ConfirmSavesKeeps
<1>3. ASSUME NEW t \in Tabs, NEW ident \in Names \cup Mails, NEW p \in Passwords,
             Login(t, ident, p)
      PROVE  IInv'
  BY <1>3, LoginKeeps
<1>4. ASSUME NEW t \in Tabs, NEW m \in Mails, RequestReset(t, m) PROVE IInv'
  BY <1>4, RequestResetKeeps
<1>5. ASSUME NEW t \in Tabs, NEW l \in DOMAIN links, Navigate(t, l) PROVE IInv'
  BY <1>5, NavigateKeeps
<1>6. ASSUME NEW t \in Tabs, NEW p \in NewPasswords, ConfirmReads(t, p) PROVE IInv'
  BY <1>6, ConfirmReadsKeeps
<1>7. ASSUME NEW l \in DOMAIN links, Expire(l) PROVE IInv'
  BY <1>7, ExpireKeeps
<1>8. CASE UNCHANGED accountsVars
  BY <1>8 DEF accountsVars, IInv
<1> QED
  BY <1>1, <1>2, <1>3, <1>4, <1>5, <1>6, <1>7, <1>8 DEF AccountsNext

(* Accounts, links and events are always as IInv says. *)
THEOREM AccountsInvariant == AccountsSpec => []IInv
<1>1. AccountsInit => IInv
  BY Starts
<1>2. IInv /\ [AccountsNext]_accountsVars => IInv'
  BY IInvInductive
<1> QED
  BY <1>1, <1>2, PTL DEF AccountsSpec

(* Two accounts share an address only if neither was there when the        *)
(* registration of the other began.                                        *)
THEOREM AddressesOverlapOnly == AccountsSpec => []OneOwnerUnlessOverlap
<1>1. IInv => OneOwnerUnlessOverlap
  BY DEF IInv, BookOK, OneOwnerUnlessOverlap, Taken
<1> QED
  BY <1>1, AccountsInvariant, PTL

-----------------------------------------------------------------------------
(* Refused sign-ins. *)

(* A set with one account in it. *)
LEMMA OneIsOne ==
  ASSUME NEW k
  PROVE  Cardinality({k}) = 1
BY FS_Singleton

(* What one tab may do. *)
EventStep(t) ==
  \/ \E n \in Names, m \in Mails \cup {NoMail}, p \in FirstPasswords : Register(t, n, m, p)
  \/ MailFree(t) \/ Create(t)
  \/ \E ident \in Names \cup Mails, p \in Passwords : Login(t, ident, p)
  \/ MailToName(t) \/ ByMailsName(t) \/ SignIn(t)
  \/ \E m \in Mails : RequestReset(t, m)
  \/ \E l \in DOMAIN links : Navigate(t, l)
  \/ LoadConfirm(t)
  \/ \E p \in NewPasswords : ConfirmReads(t, p)
  \/ ConfirmSaves(t)

(* Giving up means that the account found has another password now, or     *)
(* that none or several have the address.                                  *)
LEMMA RefusedInvariant ==
  ASSUME IInv, [AccountsNext]_accountsVars, NEW t \in Tabs,
         tab[t].pc \in {"login: mail", "login: mail's name"}, tab'[t].pc = "idle"
  PROVE  tab[t].right = {}
<1>1. /\ TabOK(tab[t], accounts, links) /\ tab[t].pc \in LoggingIn
      /\ tab = [u \in Tabs |-> tab[u]] /\ tab[t].pc # "idle"
  BY DEF IInv, LoggingIn
<1>2. SUFFICES ASSUME NEW w \in tab[t].right PROVE FALSE
  OBVIOUS
<1>3. w \in Right(accounts, tab[t].ident, tab[t].pw) /\ w[1] = "email"
  BY <1>1, <1>2 DEF TabOK, LoginOK
<1>4. /\ tab[t].ident \in Mails /\ WithMail(tab[t].ident) = {w[2]}
      /\ Opens(w[2], tab[t].pw)
  BY <1>3, RightByMail
<1>5. CASE MailToName(t)
  <2> DEFINE matches == IF tab[t].ident \in Mails THEN WithMail(tab[t].ident) ELSE {}
  <2>1. Cardinality(matches) = 1
    BY <1>4, OneIsOne
  <2>2. Now(t, [tab[t] EXCEPT !.pc = "login: mail's name", !.seen = matches])
    BY <1>5, <2>1 DEF MailToName
  <2> HIDE DEF matches
  <2>3. tab'[t].pc = "login: mail's name"
    BY <1>1, <2>2 DEF Now, TabOK, TabState
  <2> QED
    BY <2>3
<1>6. CASE ByMailsName(t)
  <2>1. tab[t].seen = {w[2]}
    BY <1>1, <1>2, <1>6 DEF ByMailsName, At, TabOK, LoginOK
  <2>2. Now(t, Goes(t, "sign in", w[2]))
    BY <1>4, <1>6, <2>1 DEF ByMailsName
  <2>3. tab'[t].pc = "sign in"
    BY <1>1, <2>2 DEF Now, Goes, Between
  <2> QED
    BY <2>3
<1>7. CASE tab'[t].pc = tab[t].pc
  BY <1>1, <1>7
<1>8. ASSUME NEW u \in Tabs, NEW r, u # t, Now(u, r) PROVE tab'[t] = tab[t]
  BY <1>1, <1>8 DEF Now
<1>9. ASSUME NEW u \in Tabs, NEW book, NEW r, u # t, NowWith(book, u, r)
      PROVE  tab'[t].pc = tab[t].pc
  BY <1>1, <1>9 DEF NowWith, TabOK, TabState
<1>10. ASSUME NEW u \in Tabs, EventStep(u), u # t PROVE tab'[t].pc = tab[t].pc
  <2>1. CASE Create(u)
    BY <1>8, <1>9, <1>10, <2>1 DEF Create
  <2>2. CASE ConfirmSaves(u)
    BY <1>8, <1>9, <1>10, <2>2 DEF ConfirmSaves
  <2>3. CASE \E n \in Names, m \in Mails \cup {NoMail}, p \in FirstPasswords : Register(u, n, m, p)
    BY <1>8, <1>10, <2>3 DEF Register
  <2>4. CASE \E ident \in Names \cup Mails, p \in Passwords : Login(u, ident, p)
    BY <1>8, <1>10, <2>4 DEF Login
  <2>5. CASE MailFree(u) \/ MailToName(u) \/ ByMailsName(u)
    BY <1>8, <1>10, <2>5 DEF MailFree, MailToName, ByMailsName
  <2>6. CASE SignIn(u) \/ LoadConfirm(u) \/ \E m \in Mails : RequestReset(u, m)
    BY <1>8, <1>10, <2>6 DEF SignIn, LoadConfirm, RequestReset
  <2>7. CASE (\E l \in DOMAIN links : Navigate(u, l)) \/ \E p \in NewPasswords : ConfirmReads(u, p)
    BY <1>8, <1>10, <2>7 DEF Navigate, ConfirmReads
  <2> QED
    BY <1>10, <2>1, <2>2, <2>3, <2>4, <2>5, <2>6, <2>7 DEF EventStep
<1>11. ASSUME EventStep(t) PROVE MailToName(t) \/ ByMailsName(t)
  <2>1. tab[t].pc \in LoggingIn /\ tab[t].pc \notin {"idle", "sign in", "confirm: saves"} \cup Registering
    BY <1>1 DEF LoggingIn, Registering
  <2>2. \A n, m, p : ~Register(t, n, m, p) /\ ~Login(t, n, p)
    BY <2>1 DEF At, Register, Login
  <2>3. ~MailFree(t) /\ ~Create(t) /\ ~SignIn(t) /\ ~ConfirmSaves(t) /\ ~LoadConfirm(t)
    BY <2>1 DEF At, MailFree, Create, SignIn, ConfirmSaves, LoadConfirm, Registering
  <2>4. \A x : ~RequestReset(t, x) /\ ~Navigate(t, x) /\ ~ConfirmReads(t, x)
    BY <2>1 DEF At, RequestReset, Navigate, ConfirmReads
  <2> QED
    BY <1>11, <2>2, <2>3, <2>4 DEF EventStep
<1>12. CASE UNCHANGED tab
  BY <1>7, <1>12
<1>13. \/ UNCHANGED tab \/ \E u \in Tabs : EventStep(u)
  BY DEF AccountsNext, EventStep, Expire, accountsVars
<1> QED
  BY <1>5, <1>6, <1>7, <1>10, <1>11, <1>12, <1>13

(* Nobody is refused whose password was right, all the time, for the name  *)
(* or the address they typed.                                              *)
THEOREM RightPasswordNotRefused == AccountsSpec => RightPasswordGetsIn
<1>1. IInv /\ [AccountsNext]_accountsVars =>
        \A t \in Tabs :
          tab[t].pc \in {"login: mail", "login: mail's name"} /\ tab'[t].pc = "idle"
            => tab[t].right = {}
  BY RefusedInvariant
<1> QED
  BY <1>1, AccountsInvariant, PTL DEF AccountsSpec, RightPasswordGetsIn

-----------------------------------------------------------------------------
(* Accounts implements AccountBook.  Its variables are these. *)
Password == [n \in Taken |-> accounts[n].pw]
Live == {links[l].name : l \in {k \in DOMAIN links : links[k].live}}
DueFor(r) == IF r.pc = "confirm: saves" THEN r.ident ELSE Nobody
Due == [t \in Tabs |-> DueFor(tab[t])]

(* No account is nobody's. *)
LEMMA NamesAreNames ==
  ASSUME NEW n \in Names
  PROVE  n # Nobody
BY AccountsAssumption

(* A tab goes from one event to another. *)
LEMMA DueWhen ==
  ASSUME IInv, NEW t \in Tabs, NEW r, Now(t, r) \/ NowWith(accounts', t, r)
  PROVE  Due' = [Due EXCEPT ![t] = DueFor(r)]
<1>1. tab = [u \in Tabs |-> tab[u]] /\ \A u \in Tabs : tab[u] \in TabState
  BY DEF IInv, TabOK
<1>2. tab'[t] = r
  BY <1>1 DEF Now, NowWith
<1>3. ASSUME NEW u \in Tabs, u # t PROVE DueFor(tab'[u]) = DueFor(tab[u])
  <2>1. CASE Now(t, r)
    BY <1>1, <1>3, <2>1 DEF Now
  <2>2. CASE NowWith(accounts', t, r)
    <3>1. tab'[u].pc = tab[u].pc /\ tab'[u].ident = tab[u].ident
      BY <1>1, <1>3, <2>2 DEF NowWith, TabState
    <3> QED
      BY <3>1 DEF DueFor
  <2> QED
    BY <2>1, <2>2
<1>4. Due' = [u \in Tabs |-> DueFor(tab'[u])]
  BY DEF Due, DueFor
<1> QED
  BY <1>2, <1>3, <1>4 DEF Due

(* Nothing is due in a tab that was not and is not about to save. *)
LEMMA DueSame ==
  ASSUME IInv, NEW t \in Tabs, NEW r, Now(t, r) \/ NowWith(accounts', t, r),
         tab[t].pc # "confirm: saves", r.pc # "confirm: saves"
  PROVE  Due' = Due
<1>1. Due' = [Due EXCEPT ![t] = DueFor(r)] /\ DueFor(r) = Nobody /\ Due[t] = Nobody
  BY DueWhen DEF Due, DueFor
<1> QED
  BY <1>1 DEF Due

(* Signing in, or a new password, takes all the links of the name. *)
LEMMA LiveVoid ==
  ASSUME IInv, NEW n, links' = Void(n)
  PROVE  Live' = Live \ {n}
<1>1. links \in Seq(Link) /\ DOMAIN links = 1 .. Len(links)
  BY DEF IInv, LinksOK
<1>2. DOMAIN links' = DOMAIN links
  BY DEF Void
<1>3. ASSUME NEW l \in DOMAIN links
      PROVE  links'[l].name = links[l].name /\ (links'[l].live <=> links[l].live /\ links[l].name # n)
  <2>1. links[l] \in Link
    BY <1>1
  <2>2. CASE links[l].name = n
    <3>1. links'[l] = [links[l] EXCEPT !.live = FALSE]
      BY <2>2 DEF Void
    <3> QED
      BY <2>1, <2>2, <3>1 DEF Link
  <2>3. CASE links[l].name # n
    BY <2>3 DEF Void
  <2> QED
    BY <2>2, <2>3
<1> QED
  BY <1>2, <1>3 DEF Live

(* A mail brings a link of its name. *)
LEMMA LiveMail ==
  ASSUME IInv, NEW n \in Names, links' = Append(links, [name |-> n, live |-> TRUE])
  PROVE  Live' = Live \cup {n}
<1> DEFINE new == [name |-> n, live |-> TRUE]
<1>1. links \in Seq(Link) /\ Len(links) \in Nat
  BY DEF IInv, LinksOK
<1>2. new \in Link /\ new.name = n /\ new.live
  BY DEF Link
<1>3. links' = Append(links, new)
  OBVIOUS
<1> HIDE DEF new
<1>4. /\ DOMAIN links = 1 .. Len(links) /\ DOMAIN links' = 1 .. Len(links) + 1
      /\ links'[Len(links) + 1] = new /\ \A l \in 1 .. Len(links) : links'[l] = links[l]
  BY <1>1, <1>2, <1>3
<1>5. DOMAIN links' = DOMAIN links \cup {Len(links) + 1} /\ \A l \in DOMAIN links : links'[l] = links[l]
  BY <1>1, <1>4
<1> QED
  BY <1>2, <1>4, <1>5 DEF Live

(* A link that is too old may have been the last of its name. *)
LEMMA LiveExpire ==
  ASSUME IInv, NEW l \in DOMAIN links, Expire(l)
  PROVE  Live' = Live \/ Live' = Live \ {links[l].name}
<1>1. links \in Seq(Link) /\ DOMAIN links = 1 .. Len(links) /\ links[l] \in Link
  BY DEF IInv, LinksOK
<1>2. DOMAIN links' = DOMAIN links /\ \A k \in DOMAIN links : k # l => links'[k] = links[k]
  BY <1>1 DEF Expire
<1>3. links'[l].name = links[l].name /\ links'[l].live = FALSE
  BY <1>1 DEF Expire, Link
<1>4. CASE \E k \in DOMAIN links : k # l /\ links[k].live /\ links[k].name = links[l].name
  BY <1>2, <1>3, <1>4 DEF Live, Expire
<1>5. CASE \A k \in DOMAIN links : k # l /\ links[k].live => links[k].name # links[l].name
  BY <1>2, <1>3, <1>5 DEF Live, Expire
<1> QED
  BY <1>4, <1>5

-----------------------------------------------------------------------------
(* The steps of AccountBook, of these variables. *)

(* A new account. *)
LEMMA BookRegisters ==
  ASSUME NEW n \in Names, NEW p \in Passwords, n \notin DOMAIN Password,
         Password' = [k \in DOMAIN Password \cup {n} |-> IF k = n THEN p ELSE Password[k]],
         Live' = Live, Due' = Due
  PROVE  Book!BookNext
<1>1. Book!Register(n, p)
  BY DEF Book!Register, Password, Live, Due, DueFor
<1> QED
  BY <1>1 DEF Book!BookNext

(* A mail. *)
LEMMA BookMails ==
  ASSUME NEW n \in Names, n \in DOMAIN Password, Live' = Live \cup {n},
         Password' = Password, Due' = Due
  PROVE  Book!BookNext
<1>1. Book!Mail(n)
  BY DEF Book!Mail, Password, Live, Due, DueFor
<1> QED
  BY <1>1 DEF Book!BookNext

(* Links that do not work any longer. *)
LEMMA BookVoids ==
  ASSUME NEW n \in Names, Live' = Live \ {n}, Password' = Password, Due' = Due
  PROVE  Book!BookNext
<1>1. Book!Void(n)
  BY DEF Book!Void, Password, Live, Due, DueFor
<1> QED
  BY <1>1 DEF Book!BookNext

(* A confirmation that has a link which works. *)
LEMMA BookAdmits ==
  ASSUME NEW t \in Tabs, NEW n \in Names, n \in Live, Due' = [Due EXCEPT ![t] = n],
         Password' = Password, Live' = Live
  PROVE  Book!BookNext
<1>1. Book!Admit(t, n)
  BY DEF Book!Admit, Password, Live, Due, DueFor
<1> QED
  BY <1>1 DEF Book!BookNext

(* A new password. *)
LEMMA BookChanges ==
  ASSUME NEW t \in Tabs, NEW p \in Passwords, Due[t] # Nobody,
         Password' = [Password EXCEPT ![Due[t]] = p], Live' = Live \ {Due[t]},
         Due' = [Due EXCEPT ![t] = Nobody]
  PROVE  Book!BookNext
<1>1. Book!Change(t, p)
  BY DEF Book!Change, Book!Nobody, Nobody, Password, Live, Due, DueFor
<1> QED
  BY <1>1 DEF Book!BookNext

(* A password that is refused. *)
LEMMA BookGivesUp ==
  ASSUME NEW t \in Tabs, Due' = [Due EXCEPT ![t] = Nobody], Password' = Password, Live' = Live
  PROVE  Book!BookNext
<1>1. Book!GiveUp(t)
  BY DEF Book!GiveUp, Book!Nobody, Nobody, Password, Live, Due, DueFor
<1> QED
  BY <1>1 DEF Book!BookNext

(* Nothing that AccountBook knows of. *)
LEMMA BookStands ==
  ASSUME Password' = Password, Live' = Live, Due' = Due
  PROVE  UNCHANGED Book!bookVars
BY DEF Book!bookVars, Password, Live, Due, DueFor

-----------------------------------------------------------------------------
(* And the actions that are these steps. *)

(* A step that changes neither accounts nor links, from and to no save. *)
LEMMA Unnoticed ==
  ASSUME IInv, NEW t \in Tabs, NEW r, Now(t, r), UNCHANGED <<accounts, links>>,
         tab[t].pc # "confirm: saves", r.pc # "confirm: saves"
  PROVE  UNCHANGED Book!bookVars
<1>1. Due' = Due
  BY DueSame
<1>2. Password' = Password /\ Live' = Live
  BY DEF Password, Live, Taken
<1> QED
  BY <1>1, <1>2, BookStands

(* The steps nobody notices.  Between two events there is nothing due. *)
LEMMA UnnoticedSteps ==
  ASSUME IInv, NEW t \in Tabs,
         \/ \E n \in Names, m \in Mails \cup {NoMail}, p \in FirstPasswords : Register(t, n, m, p)
         \/ MailFree(t)
         \/ \E ident \in Names \cup Mails, p \in Passwords : Login(t, ident, p)
         \/ MailToName(t) \/ ByMailsName(t)
         \/ \E l \in DOMAIN links : Navigate(t, l)
         \/ LoadConfirm(t)
  PROVE  UNCHANGED Book!bookVars
<1>1. /\ tab[t] \in TabState /\ Between(t).pc = "idle"
      /\ tab[t].page \in Nat /\ tab[t].page <= Len(links)
  BY DEF IInv, TabOK, TabState, Between
<1>2. \A to, ident : Goes(t, to, ident).pc = to
  BY DEF Goes, Between
<1>3. ASSUME NEW n, NEW m, NEW p, Register(t, n, m, p)
      PROVE  UNCHANGED Book!bookVars
  <2> DEFINE to == IF m = NoMail THEN "register: create" ELSE "register: mail"
             q == [Goes(t, to, n) EXCEPT !.mail = m, !.pw = p, !.seen = Taken]
  <2>1. q.pc = to /\ to # "confirm: saves"
    BY DEF Goes, Between
  <2>2. CASE n \in Taken
    BY <1>1, <1>3, <2>2, Unnoticed DEF Register, At
  <2>3. CASE n \notin Taken
    <3>1. Now(t, q) /\ UNCHANGED <<accounts, links>> /\ tab[t].pc # "confirm: saves"
      BY <1>3, <2>3 DEF Register, At
    <3> HIDE DEF q, to
    <3> QED
      BY <2>1, <3>1, Unnoticed
  <2> QED
    BY <2>2, <2>3
<1>4. CASE MailFree(t)
  <2> DEFINE q == [tab[t] EXCEPT !.pc = "register: create"]
  <2>1. q.pc # "confirm: saves"
    BY <1>1 DEF TabState
  <2>2. /\ Now(t, q) \/ Now(t, Between(t))
        /\ UNCHANGED <<accounts, links>> /\ tab[t].pc # "confirm: saves"
    BY <1>4 DEF MailFree, At
  <2> HIDE DEF q
  <2> QED
    BY <1>1, <2>1, <2>2, Unnoticed
<1>5. ASSUME NEW ident, NEW p, Login(t, ident, p) PROVE UNCHANGED Book!bookVars
  <2> DEFINE q == Goes(t, "sign in", ident)
             typed == Typed(t, "login: mail", ident, p, Right(accounts, ident, p))
  <2>1. q.pc # "confirm: saves" /\ typed.pc # "confirm: saves"
    BY DEF Goes, Between, Typed
  <2>2. /\ Now(t, q) \/ Now(t, typed) \/ Now(t, Between(t))
        /\ UNCHANGED <<accounts, links>> /\ tab[t].pc # "confirm: saves"
    BY <1>5 DEF Login, At
  <2> HIDE DEF q, typed
  <2> QED
    BY <1>1, <2>1, <2>2, Unnoticed
<1>6. CASE MailToName(t)
  <2> DEFINE matches == IF tab[t].ident \in Mails THEN WithMail(tab[t].ident) ELSE {}
             q == [tab[t] EXCEPT !.pc = "login: mail's name", !.seen = matches]
  <2>1. q.pc # "confirm: saves"
    BY <1>1 DEF TabState
  <2>2. /\ Now(t, q) \/ Now(t, Between(t))
        /\ UNCHANGED <<accounts, links>> /\ tab[t].pc # "confirm: saves"
    BY <1>6 DEF MailToName, At
  <2> HIDE DEF q
  <2> QED
    BY <1>1, <2>1, <2>2, Unnoticed
<1>7. CASE ByMailsName(t)
  <2>1. PICK n \in tab[t].seen : Now(t, Goes(t, "sign in", n)) \/ Now(t, Between(t))
    BY <1>7 DEF ByMailsName
  <2>2. Goes(t, "sign in", n).pc # "confirm: saves" /\ tab[t].pc # "confirm: saves"
    BY <1>2, <1>7 DEF ByMailsName, At
  <2>3. UNCHANGED <<accounts, links>>
    BY <1>7 DEF ByMailsName
  <2> QED
    BY <1>1, <2>1, <2>2, <2>3, Unnoticed
<1>8. ASSUME NEW l, Navigate(t, l) PROVE UNCHANGED Book!bookVars
  <2> DEFINE q == [Between(t) EXCEPT !.page = l]
  <2>1. q.pc # "confirm: saves"
    BY DEF Between
  <2>2. Now(t, q) /\ UNCHANGED <<accounts, links>> /\ tab[t].pc # "confirm: saves"
    BY <1>8 DEF Navigate
  <2> HIDE DEF q
  <2> QED
    BY <2>1, <2>2, Unnoticed
<1>9. CASE LoadConfirm(t)
  <2> DEFINE works == Works(tab[t].page)
             q == [Between(t) EXCEPT !.valid = works]
  <2>1. q.pc # "confirm: saves"
    BY DEF Between
  <2>2. Now(t, q) /\ UNCHANGED <<accounts, links>> /\ tab[t].pc # "confirm: saves"
    BY <1>9 DEF LoadConfirm, At
  <2> HIDE DEF q
  <2> QED
    BY <2>1, <2>2, Unnoticed
<1> QED
  BY <1>3, <1>4, <1>5, <1>6, <1>7, <1>8, <1>9

(* The row of a registration: its name was free. *)
LEMMA CreateIsRegister ==
  ASSUME IInv, NEW t \in Tabs, Create(t)
  PROVE  Book!BookNext \/ UNCHANGED Book!bookVars
<1> DEFINE n == tab[t].ident
           pw == tab[t].pw
<1>1. tab[t].pc = "register: create" /\ Between(t).pc = "idle"
  BY DEF Create, At, Between
<1>2. CASE n \in Taken
  BY <1>1, <1>2, Unnoticed DEF Create
<1>3. CASE n \notin Taken
  <2> DEFINE row == [mail |-> tab[t].mail, pw |-> pw, seen |-> tab[t].seen]
             q == Goes(t, "sign in", n)
  <2>1. /\ accounts' = [k \in Taken \cup {n} |-> IF k = n THEN row ELSE accounts[k]]
        /\ NowWith(accounts', t, q) /\ links' = links
    BY <1>3 DEF Create
  <2>2. q.pc # "confirm: saves"
    BY DEF Goes, Between
  <2>3. n \in Names /\ pw \in Passwords
    BY <1>1 DEF IInv, TabOK, RegisterOK, Registering
  <2>4. row.pw = pw
    OBVIOUS
  <2> HIDE DEF row, q, n, pw
  <2>5. Due' = Due
    BY <1>1, <2>1, <2>2, DueSame
  <2>6. DOMAIN accounts' = Taken \cup {n} /\ \A k \in DOMAIN accounts' :
          accounts'[k] = IF k = n THEN row ELSE accounts[k]
    BY <2>1
  <2>7. /\ DOMAIN Password = Taken
        /\ Password' = [k \in Taken \cup {n} |-> IF k = n THEN pw ELSE Password[k]]
    BY <2>4, <2>6 DEF Password, Taken
  <2>8. Live' = Live
    BY <2>1 DEF Live
  <2> QED
    BY <1>3, <2>3, <2>5, <2>7, <2>8, BookRegisters
<1> QED
  BY <1>2, <1>3

(* A sign-in. *)
LEMMA SignInIsVoid ==
  ASSUME IInv, NEW t \in Tabs, SignIn(t)
  PROVE  Book!BookNext
<1>1. tab[t].pc = "sign in" /\ Between(t).pc = "idle" /\ tab[t].ident \in Names
  BY DEF SignIn, At, Between, IInv, TabOK, BookOK
<1>2. Due' = Due
  BY <1>1, DueSame DEF SignIn
<1>3. Live' = Live \ {tab[t].ident}
  BY LiveVoid DEF SignIn
<1>4. Password' = Password
  BY DEF SignIn, Password, Taken
<1> QED
  BY <1>1, <1>2, <1>3, <1>4, BookVoids

(* A request: a mail, or none. *)
LEMMA RequestIsMail ==
  ASSUME IInv, NEW t \in Tabs, NEW m \in Mails, RequestReset(t, m)
  PROVE  Book!BookNext \/ UNCHANGED Book!bookVars
<1>1. /\ tab[t].pc # "confirm: saves" /\ Between(t).pc # "confirm: saves"
      /\ Now(t, Between(t)) /\ accounts' = accounts
  BY DEF RequestReset, At, Between
<1>2. CASE UNCHANGED links
  BY <1>1, <1>2, Unnoticed
<1>3. ASSUME NEW n \in WithMail(m), links' = Append(links, [name |-> n, live |-> TRUE])
      PROVE  Book!BookNext
  <2>1. n \in DOMAIN Password /\ n \in Names
    BY DEF IInv, BookOK, WithMail, Password, Taken
  <2>2. Live' = Live \cup {n}
    BY <1>3, <2>1, LiveMail
  <2>3. Due' = Due
    BY <1>1, DueSame
  <2>4. Password' = Password
    BY <1>1 DEF Password, Taken
  <2> QED
    BY <2>1, <2>2, <2>3, <2>4, BookMails
<1> QED
  BY <1>2, <1>3 DEF RequestReset

(* A confirmation goes on with a link that works, when it is looked at. *)
LEMMA ReadsIsAdmit ==
  ASSUME IInv, NEW t \in Tabs, NEW p \in NewPasswords, ConfirmReads(t, p)
  PROVE  Book!BookNext \/ UNCHANGED Book!bookVars
<1> DEFINE n == links[tab[t].page].name
           q == Setting(t, p)
<1>1. /\ tab[t].pc # "confirm: saves" /\ Between(t).pc # "confirm: saves"
      /\ UNCHANGED <<accounts, links>>
      /\ tab[t].page \in Nat /\ tab[t].page <= Len(links)
  BY DEF ConfirmReads, At, Between, IInv, TabOK, TabState
<1>2. CASE ~Works(tab[t].page)
  BY <1>1, <1>2, Unnoticed DEF ConfirmReads
<1>3. CASE Works(tab[t].page)
  <2>1. links \in Seq(Link) /\ Len(links) \in Nat /\ LinksOK(links, accounts) /\ BookOK(accounts)
    BY DEF IInv, LinksOK
  <2>2. tab[t].page \in DOMAIN links
    <3>1. DOMAIN links = 1 .. Len(links) /\ tab[t].page # 0
      BY <1>3, <2>1 DEF Works, NoLink
    <3>2. tab[t].page \in Nat /\ tab[t].page <= Len(links)
      BY <1>1
    <3> QED
      BY <2>1, <3>1, <3>2
  <2>3. n \in Live /\ n \in Names
    BY <1>3, <2>1, <2>2 DEF Works, Live, LinksOK, BookOK
  <2>4. Now(t, q)
    BY <1>3 DEF ConfirmReads
  <2>5. q.pc = "confirm: saves" /\ q.ident = n
    BY DEF Setting, Goes, Between
  <2> HIDE DEF n, q
  <2>6. Due' = [Due EXCEPT ![t] = n]
    BY <2>4, <2>5, DueWhen DEF DueFor
  <2>7. Password' = Password /\ Live' = Live
    BY <1>1 DEF Password, Live, Taken
  <2> QED
    BY <2>3, <2>6, <2>7, BookAdmits
<1> QED
  BY <1>2, <1>3

(* The password it brings, or none. *)
LEMMA SavesIsChange ==
  ASSUME IInv, NEW t \in Tabs, ConfirmSaves(t)
  PROVE  Book!BookNext
<1> DEFINE n == tab[t].ident
           pw == tab[t].pw
<1>1. /\ tab[t].pc = "confirm: saves" /\ DueFor(Between(t)) = Nobody
      /\ n \in DOMAIN accounts /\ n \in Names /\ pw \in Passwords
  BY DEF ConfirmSaves, Between, IInv, TabOK, BookOK, DueFor
<1>2. Due[t] = n /\ n # Nobody
  BY <1>1, NamesAreNames DEF Due, DueFor
<1>3. CASE /\ accounts' = [accounts EXCEPT ![n].pw = pw]
           /\ links' = Void(n) /\ NowWith(accounts', t, Between(t))
  <2>1. Due' = [Due EXCEPT ![t] = Nobody]
    BY <1>1, <1>3, DueWhen
  <2>2. Live' = Live \ {n}
    BY <1>3, LiveVoid
  <2> HIDE DEF n, pw
  <2>3. accounts[n] \in Account
    BY <1>1 DEF IInv, BookOK
  <2>4. /\ DOMAIN accounts' = DOMAIN accounts /\ accounts'[n].pw = pw
        /\ \A k \in DOMAIN accounts : k # n => accounts'[k] = accounts[k]
    BY <1>1, <1>3, <2>3 DEF Account
  <2>5. Password' = [Password EXCEPT ![n] = pw]
    BY <1>1, <2>4 DEF Password, Taken
  <2> QED
    BY <1>1, <1>2, <2>1, <2>2, <2>5, BookChanges
<1>4. CASE UNCHANGED <<accounts, links>> /\ Now(t, Between(t))
  <2>1. Due' = [Due EXCEPT ![t] = Nobody]
    BY <1>1, <1>4, DueWhen
  <2>2. Password' = Password /\ Live' = Live
    BY <1>4 DEF Password, Live, Taken
  <2> QED
    BY <2>1, <2>2, BookGivesUp
<1> QED
  BY <1>3, <1>4 DEF ConfirmSaves

(* A link that is too old. *)
LEMMA ExpireIsVoid ==
  ASSUME IInv, NEW l \in DOMAIN links, Expire(l)
  PROVE  Book!BookNext \/ UNCHANGED Book!bookVars
<1>1. links[l].name \in Names
  BY DEF IInv, LinksOK, BookOK
<1>2. Password' = Password /\ Due' = Due
  BY DEF Expire, Password, Due, DueFor, Taken
<1>3. Live' = Live \/ Live' = Live \ {links[l].name}
  BY LiveExpire
<1> QED
  BY <1>1, <1>2, <1>3, BookVoids, BookStands

(* Names are given out once, and passwords change for a confirmation that  *)
(* had a link which worked when it was looked at, however events overlap.  *)
THEOREM BookKept == AccountsSpec => KeepsTheBook
<1>1. AccountsInit => Book!BookInit
  BY DEF AccountsInit, Book!BookInit, Book!Nobody, Nobody, Taken
<1>2. IInv /\ [AccountsNext]_accountsVars => [Book!BookNext]_(Book!bookVars)
  <2> SUFFICES ASSUME IInv, [AccountsNext]_accountsVars
               PROVE  Book!BookNext \/ UNCHANGED Book!bookVars
    OBVIOUS
  <2>1. ASSUME NEW t \in Tabs, EventStep(t)
        PROVE  Book!BookNext \/ UNCHANGED Book!bookVars
    <3>1. CASE Create(t) \/ SignIn(t) \/ ConfirmSaves(t)
      BY <3>1, CreateIsRegister, SignInIsVoid, SavesIsChange
    <3>2. CASE \E m \in Mails : RequestReset(t, m)
      BY <3>2, RequestIsMail
    <3>3. CASE \E p \in NewPasswords : ConfirmReads(t, p)
      BY <3>3, ReadsIsAdmit
    <3> QED
      BY <2>1, <3>1, <3>2, <3>3, UnnoticedSteps DEF EventStep
  <2>2. CASE \E l \in DOMAIN links : Expire(l)
    BY <2>2, ExpireIsVoid
  <2>3. CASE UNCHANGED accountsVars
    <3>1. Password' = Password
      BY <2>3 DEF accountsVars, Password, Taken
    <3>2. Live' = Live
      BY <2>3 DEF accountsVars, Live
    <3>3. Due' = Due
      BY <2>3 DEF accountsVars, Due, DueFor
    <3> QED
      BY <3>1, <3>2, <3>3, BookStands
  <2> QED
    BY <2>1, <2>2, <2>3 DEF AccountsNext, EventStep
<1> QED
  BY <1>1, <1>2, AccountsInvariant, PTL DEF AccountsSpec, KeepsTheBook, Book!BookSpec
=============================================================================
