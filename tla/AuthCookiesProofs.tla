-------------------------- MODULE AuthCookiesProofs --------------------------
(* Proofs about AuthCookies: types; a tab which signed out runs as nobody;  *)
(* the browser follows a sign-out; a sign-in lands signed in.               *)
EXTENDS AuthCookies, SequenceTheorems, TLAPS

-----------------------------------------------------------------------------
(* The inductive invariant. *)

(* Cookies and their copies name keys that were drawn: a key drawn later    *)
(* cannot be in any of them already.                                        *)
Drawn == used \cup {NoKey}

ScriptsDrawn(tb, keys) == \A i \in DOMAIN tb.scripts : tb.scripts[i].set \in keys

RowsDrawn == \A s \in Sessions : store[s] # Gone => s \in used

CookiesDrawn ==
  /\ jar \in Drawn
  /\ \A t \in Tabs : /\ tab[t].sock \in Drawn
                     /\ tab[t].tree \in Drawn
                     /\ ScriptsDrawn(tab[t], Drawn)

(* SignedOutStays in terms of rows. *)
Dead(rows, k) == k \in Sessions => rows[k] = Gone

OutDead ==
  \A t \in out : Dead(store, tab[t].sock) /\ Dead(store, tab[t].tree)

IInv == TypeOK /\ RowsDrawn /\ CookiesDrawn /\ OutDead

-----------------------------------------------------------------------------
(* What the helpers return. *)

LEMMA WhoType ==
  ASSUME TypeOK, NEW k \in Key PROVE Who(k) \in Identity
  BY DEF TypeOK, Who, Key, Identity

(* The key presented is the header's or the copy. *)
LEMMA PresentedType ==
  ASSUME NEW header, NEW tree
  PROVE  Presented(header, tree) \in {header, tree}
  BY DEF Presented

(* A tab keeps its websocket and scripts in preprocess; its copy becomes    *)
(* the presented key or stays, and stays if nobody is signed in.            *)
LEMMA BridgedType ==
  ASSUME TypeOK, NEW t \in Tabs, NEW tree \in Key, NEW k \in Key,
         NEW synced \in BOOLEAN
  PROVE  /\ Bridged(t, tree, k, synced) \in Tab
         /\ Bridged(t, tree, k, synced).sock = tab[t].sock
         /\ Bridged(t, tree, k, synced).scripts = tab[t].scripts
         /\ Bridged(t, tree, k, synced).tree \in {tree, k}
         /\ Who(k) = Anon => Bridged(t, tree, k, synced).tree = tree
<1>1. tab[t] \in Tab
  BY DEF TypeOK
<1>2. Mirrored(tree, k) \in {tree, k} /\ (Who(k) = Anon => Mirrored(tree, k) = tree)
  BY DEF Mirrored
<1>3. (IF synced THEN Who(k) ELSE tab[t].snap) \in Identity
  BY <1>1, WhoType DEF Tab
<1> QED
  BY <1>1, <1>2, <1>3 DEF Bridged, Tab

(* The scripts are well-formed and assign no key but the one given. *)
LEMMA ScriptType ==
  /\ ClearCookies \in Script /\ ClearCookies.set = NoKey
  /\ \A page \in Pages :
       /\ SignOutThenNav(page) \in Script /\ SignOutThenNav(page).set = NoKey
       /\ \A k \in Key : /\ SyncCookieThenNav(k, page) \in Script
                         /\ SyncCookieThenNav(k, page).set = k
  BY DEF ClearCookies, SignOutThenNav, SyncCookieThenNav, Script, Key, Pages

LEMMA ReturnedType ==
  ASSUME NEW tb \in Tab, NEW script \in Script, NEW keys,
         ScriptsDrawn(tb, keys), script.set \in keys
  PROVE  /\ Returned(tb, script) \in Tab
         /\ Returned(tb, script).sock = tb.sock
         /\ Returned(tb, script).tree = tb.tree
         /\ ScriptsDrawn(Returned(tb, script), keys)
<1>1. tb.scripts \in Seq(Script)
  BY DEF Tab
<1>2. Append(tb.scripts, script) \in Seq(Script)
  BY <1>1
<1>3. \A i \in DOMAIN Append(tb.scripts, script) :
        Append(tb.scripts, script)[i].set \in keys
  BY <1>1 DEF ScriptsDrawn
<1>4. Returned(tb, script) = [tb EXCEPT !.scripts = Append(tb.scripts, script)]
  BY DEF Returned
<1> QED
  BY <1>2, <1>3, <1>4 DEF Tab, ScriptsDrawn

LEMMA WhoDead ==
  ASSUME TypeOK, NEW k \in Key
  PROVE  Who(k) = Anon <=> Dead(store, k)
  BY ConstantsAssumption DEF TypeOK, Who, Key, Dead

-----------------------------------------------------------------------------
(* Steps. *)

(* A step of one tab: what it owes the invariant. *)
LEMMA TabStep ==
  ASSUME IInv,
         NEW t \in Tabs, NEW tb \in Tab,
         tab' = [tab EXCEPT ![t] = tb],
         used \subseteq used', jar' \in Drawn',
         tb.sock \in Drawn', tb.tree \in Drawn', ScriptsDrawn(tb, Drawn'),
         \A k \in Drawn : Dead(store, k) => Dead(store', k),
         out' \subseteq out \cup {t},
         t \in out' => Dead(store', tb.sock) /\ Dead(store', tb.tree)
  PROVE  tab' \in [Tabs -> Tab] /\ CookiesDrawn' /\ OutDead'
<1>1. tab \in [Tabs -> Tab] /\ out \in SUBSET Tabs
  BY DEF IInv, TypeOK
<1>2. tab' \in [Tabs -> Tab]
  BY <1>1
<1>3. \A x \in Tabs : tab'[x] = IF x = t THEN tb ELSE tab[x]
  BY <1>1
<1>4. Drawn \subseteq Drawn'
  BY DEF Drawn
<1>5. CookiesDrawn'
  <2> SUFFICES ASSUME NEW x \in Tabs
               PROVE  /\ tab'[x].sock \in Drawn'
                      /\ tab'[x].tree \in Drawn'
                      /\ ScriptsDrawn(tab'[x], Drawn')
    BY DEF CookiesDrawn, ScriptsDrawn
  <2>1. CASE x = t
    BY <1>3, <2>1
  <2>2. CASE x # t
    BY <1>3, <1>4, <2>2 DEF IInv, CookiesDrawn, ScriptsDrawn
  <2> QED
    BY <2>1, <2>2
<1>6. OutDead'
  <2> SUFFICES ASSUME NEW x \in out'
               PROVE  Dead(store', tab'[x].sock) /\ Dead(store', tab'[x].tree)
    BY DEF OutDead, Dead
  <2>1. x \in Tabs
    BY <1>1
  <2>2. CASE x = t
    BY <1>3, <2>1, <2>2
  <2>3. CASE x # t
    BY <1>3, <2>1, <2>3 DEF IInv, OutDead, CookiesDrawn
  <2> QED
    BY <2>2, <2>3
<1> QED
  BY <1>2, <1>5, <1>6

(* Deleting the row of a key, if there is one, revives no key; neither does *)
(* writing the row of a fresh one.                                          *)
LEMMA RowsDeleted ==
  ASSUME IInv, NEW k \in Key, Deleted(k), used' = used
  PROVE  /\ store' \in [Sessions -> Users \cup {Gone}]
         /\ \A x : Dead(store, x) => Dead(store', x)
         /\ Dead(store', k)
         /\ RowsDrawn'
<1>1. store \in [Sessions -> Users \cup {Gone}]
  BY DEF IInv, TypeOK
<1>2. \A x \in Sessions : store'[x] = IF x = k THEN Gone ELSE store[x]
  BY DEF Deleted
<1> QED
  BY <1>1, <1>2 DEF IInv, Deleted, Dead, RowsDrawn

LEMMA RowsRotated ==
  ASSUME IInv, NEW k \in Key, NEW s \in Sessions \ used, NEW u \in Users,
         Rotated(k, s, u), used' = used \cup {s}
  PROVE  /\ store' \in [Sessions -> Users \cup {Gone}]
         /\ \A x \in Drawn : Dead(store, x) => Dead(store', x)
         /\ RowsDrawn'
<1>1. store \in [Sessions -> Users \cup {Gone}]
  BY DEF IInv, TypeOK
<1>2. \A x \in Sessions :
        store'[x] = IF x = s THEN u ELSE IF x = k THEN Gone ELSE store[x]
  BY DEF Rotated
<1>3. s \notin Drawn
  BY ConstantsAssumption DEF Drawn
<1> QED
  BY <1>1, <1>2, <1>3 DEF IInv, Rotated, Dead, RowsDrawn

(* The history operators stay within their types. *)
LEMMA HistoryType ==
  ASSUME TypeOK
  PROVE  /\ \A T \in SUBSET Tabs :
              DisturbedBy(T) => landing' \in [Tabs -> Identity]
         /\ \A t \in Tabs, u \in Users :
              Lands(t, u) => landing' \in [Tabs -> Identity]
         /\ \A t \in Tabs : Given(t) => out' \in SUBSET Tabs /\ out' \subseteq out
         /\ \A t \in Tabs :
              ScriptsLost(t) => signedOut' \in Tabs \cup {Nowhere}
         /\ Act => acts' \in 0 .. MaxActs
<1>1. ASSUME NEW T \in SUBSET Tabs, DisturbedBy(T)
      PROVE  landing' \in [Tabs -> Identity]
  BY <1>1 DEF TypeOK, DisturbedBy, Identity
<1>2. ASSUME NEW t \in Tabs, NEW u \in Users, Lands(t, u)
      PROVE  landing' \in [Tabs -> Identity]
  BY <1>2 DEF TypeOK, Lands, Identity
<1>3. ASSUME NEW t \in Tabs, Given(t)
      PROVE  out' \in SUBSET Tabs /\ out' \subseteq out
  BY <1>3 DEF TypeOK, Given
<1>4. ASSUME NEW t \in Tabs, ScriptsLost(t)
      PROVE  signedOut' \in Tabs \cup {Nowhere}
  BY <1>4 DEF TypeOK, ScriptsLost
<1>5. Act => acts' \in 0 .. MaxActs
  BY ConstantsAssumption DEF TypeOK, Act
<1> QED
  BY <1>1, <1>2, <1>3, <1>4, <1>5

(* The keys an event meets. *)
LEMMA EventKeys ==
  ASSUME IInv, NEW t \in Tabs, NEW header \in {tab[t].sock, jar},
         NEW tree \in Persisted(t, header)
  PROVE  /\ header \in Drawn /\ tree \in Drawn
         /\ Presented(header, tree) \in Drawn
         /\ Drawn \subseteq Key
         /\ t \in out /\ Dead(store, header) =>
              Dead(store, tree) /\ Dead(store, Presented(header, tree))
  BY DEF IInv, TypeOK, CookiesDrawn, OutDead, Persisted, Presented, Drawn, Key

LEMMA InitIInv == Init => IInv
<1> SUFFICES ASSUME Init PROVE IInv
  OBVIOUS
<1>1. jar \in Key /\ used = {jar} \cap Sessions
  BY ConstantsAssumption DEF Init, Key
<1>2. PICK u \in Users \cup {Gone} :
        store = [s \in Sessions |-> IF s = jar THEN u ELSE Gone]
  BY DEF Init
<1>3. PICK p \in [Tabs -> {"home", "login"}] :
        tab = [t \in Tabs |->
                 [page |-> p[t], sock |-> jar, tree |-> NoKey, snap |-> Anon,
                  load |-> TRUE, scripts |-> <<>>, nav |-> Nowhere,
                  token |-> TRUE]]
  BY DEF Init
<1>4. tab \in [Tabs -> Tab]
  <2> SUFFICES ASSUME NEW t \in Tabs PROVE tab[t] \in Tab
    BY <1>3
  <2>1. <<>> \in Seq(Script)
    OBVIOUS
  <2> QED
    BY <1>1, <1>3, <2>1 DEF Tab, Key, Pages, Identity
<1>5. TypeOK
  <2>1. /\ accounts \in SUBSET Users
        /\ store \in [Sessions -> Users \cup {Gone}]
        /\ used \in SUBSET Sessions
    BY <1>1, <1>2 DEF Init
  <2>2. acts \in 0 .. MaxActs
    BY ConstantsAssumption DEF Init
  <2>3. /\ landing \in [Tabs -> Identity]
        /\ out \in SUBSET Tabs
        /\ signedOut \in Tabs \cup {Nowhere}
    BY DEF Init, Identity
  <2> QED
    BY <1>1, <1>4, <2>1, <2>2, <2>3 DEF TypeOK
<1>6. RowsDrawn
  BY <1>1, <1>2 DEF RowsDrawn
<1>7. CookiesDrawn
  BY <1>1, <1>3 DEF CookiesDrawn, Drawn, ScriptsDrawn, Key
<1>8. OutDead
  BY DEF Init, OutDead
<1> QED
  BY <1>5, <1>6, <1>7, <1>8 DEF IInv

(* What preprocess makes of a tab. *)
LEMMA BridgedKeys ==
  ASSUME IInv, NEW t \in Tabs, NEW header \in {tab[t].sock, jar},
         NEW tree \in Persisted(t, header), NEW synced \in BOOLEAN,
         NEW b, b = Bridged(t, tree, Presented(header, tree), synced)
  PROVE  /\ b \in Tab
         /\ b.sock \in Drawn /\ b.tree \in Drawn /\ ScriptsDrawn(b, Drawn)
         /\ t \in out /\ Dead(store, header) =>
              Dead(store, b.sock) /\ Dead(store, b.tree)
<1> DEFINE k == Presented(header, tree)
<1>1. /\ tree \in Drawn /\ k \in Drawn /\ Drawn \subseteq Key
      /\ t \in out /\ Dead(store, header) => Dead(store, tree) /\ Dead(store, k)
  BY EventKeys
<1>2. /\ b \in Tab /\ b.sock = tab[t].sock /\ b.scripts = tab[t].scripts
      /\ b.tree \in {tree, k}
  BY <1>1, BridgedType DEF IInv
<1>3. ScriptsDrawn(tab[t], Drawn) /\ tab[t].sock \in Drawn
  BY DEF IInv, CookiesDrawn
<1>4. t \in out => Dead(store, tab[t].sock)
  BY DEF IInv, OutDead
<1> HIDE DEF k
<1> QED
  BY <1>1, <1>2, <1>3, <1>4 DEF ScriptsDrawn

(* A tab's step that leaves the server, the cookie and the sign-outs alone. *)
LEMMA LocalStep ==
  ASSUME IInv, NEW t \in Tabs, NEW tb \in Tab,
         tab' = [tab EXCEPT ![t] = tb],
         UNCHANGED <<server, jar>>, out' \subseteq out,
         tb.sock \in Drawn, tb.tree \in Drawn, ScriptsDrawn(tb, Drawn),
         t \in out' => Dead(store, tb.sock) /\ Dead(store, tb.tree),
         acts' \in 0 .. MaxActs, landing' \in [Tabs -> Identity],
         signedOut' \in Tabs \cup {Nowhere}
  PROVE  IInv'
<1>1. Drawn' = Drawn /\ jar' \in Drawn' /\ store' = store /\ used' = used
  BY DEF server, Drawn, IInv, CookiesDrawn
<1>2. tab' \in [Tabs -> Tab] /\ CookiesDrawn' /\ OutDead'
  BY <1>1, TabStep
<1>3. TypeOK' /\ RowsDrawn'
  BY <1>1, <1>2 DEF server, IInv, TypeOK, RowsDrawn
<1> QED
  BY <1>2, <1>3 DEF IInv

-----------------------------------------------------------------------------
(* Load events. *)

LEMMA LoginLoadedStep ==
  ASSUME IInv, NEW t \in Tabs, LoginLoaded(t) PROVE IInv'
<1>1. PICK tree \in Persisted(t, tab[t].sock) :
        LET k == Presented(tab[t].sock, tree)
            b == [Bridged(t, tree, k, TRUE) EXCEPT !.load = FALSE]
        IN tab' = [tab EXCEPT ![t] =
                     Returned(b, IF b.snap = Anon THEN ClearCookies
                                 ELSE SyncCookieThenNav(k, "home"))]
  BY DEF LoginLoaded
<1> DEFINE k == Presented(tab[t].sock, tree)
           a == Bridged(t, tree, k, TRUE)
           b == [a EXCEPT !.load = FALSE]
           script == IF b.snap = Anon THEN ClearCookies
                     ELSE SyncCookieThenNav(k, "home")
           tb == Returned(b, script)
<1>2. /\ k \in Drawn /\ Drawn \subseteq Key /\ NoKey \in Drawn
      /\ t \in out => Dead(store, tab[t].sock)
  BY EventKeys DEF IInv, OutDead, Drawn
<1>3. /\ a \in Tab /\ a.sock \in Drawn /\ a.tree \in Drawn
      /\ ScriptsDrawn(a, Drawn)
      /\ t \in out => Dead(store, a.sock) /\ Dead(store, a.tree)
  BY <1>2, BridgedKeys
<1>4. script \in Script /\ script.set \in Drawn
  BY <1>2, ScriptType DEF Pages
<1> HIDE DEF k, a, script
<1>5. b \in Tab /\ b.sock = a.sock /\ b.tree = a.tree /\ ScriptsDrawn(b, Drawn)
  BY <1>3 DEF Tab, ScriptsDrawn
<1>6. /\ tb \in Tab /\ tb.sock = a.sock /\ tb.tree = a.tree
      /\ ScriptsDrawn(tb, Drawn)
  BY <1>4, <1>5, ReturnedType
<1>7. tab' = [tab EXCEPT ![t] = tb]
  BY <1>1 DEF k, a, script
<1>8. /\ UNCHANGED <<server, jar, out>>
      /\ acts' \in 0 .. MaxActs /\ landing' \in [Tabs -> Identity]
      /\ signedOut' \in Tabs \cup {Nowhere}
  BY DEF LoginLoaded, history, IInv, TypeOK
<1> HIDE DEF tb
<1> QED
  BY <1>3, <1>6, <1>7, <1>8, LocalStep

LEMMA RegisterLoadedStep ==
  ASSUME IInv, NEW t \in Tabs, RegisterLoaded(t) PROVE IInv'
<1>1. PICK tree \in Persisted(t, tab[t].sock) :
        LET k == Presented(tab[t].sock, tree)
            b == [Bridged(t, tree, k, TRUE) EXCEPT !.load = FALSE]
        IN tab' = [tab EXCEPT ![t] =
                     IF b.snap = Anon THEN b
                     ELSE Returned(b, SyncCookieThenNav(k, "home"))]
  BY DEF RegisterLoaded
<1> DEFINE k == Presented(tab[t].sock, tree)
           a == Bridged(t, tree, k, TRUE)
           b == [a EXCEPT !.load = FALSE]
           script == SyncCookieThenNav(k, "home")
           tb == IF b.snap = Anon THEN b ELSE Returned(b, script)
<1>2. /\ k \in Drawn /\ Drawn \subseteq Key
      /\ t \in out => Dead(store, tab[t].sock)
  BY EventKeys DEF IInv, OutDead
<1>3. /\ a \in Tab /\ a.sock \in Drawn /\ a.tree \in Drawn
      /\ ScriptsDrawn(a, Drawn)
      /\ t \in out => Dead(store, a.sock) /\ Dead(store, a.tree)
  BY <1>2, BridgedKeys
<1>4. script \in Script /\ script.set \in Drawn
  BY <1>2, ScriptType DEF Pages
<1> HIDE DEF k, a, script
<1>5. b \in Tab /\ b.sock = a.sock /\ b.tree = a.tree /\ ScriptsDrawn(b, Drawn)
  BY <1>3 DEF Tab, ScriptsDrawn
<1>6. /\ tb \in Tab /\ tb.sock = a.sock /\ tb.tree = a.tree
      /\ ScriptsDrawn(tb, Drawn)
  BY <1>4, <1>5, ReturnedType
<1>7. tab' = [tab EXCEPT ![t] = tb]
  BY <1>1 DEF k, a, script
<1>8. /\ UNCHANGED <<server, jar, out>>
      /\ acts' \in 0 .. MaxActs /\ landing' \in [Tabs -> Identity]
      /\ signedOut' \in Tabs \cup {Nowhere}
  BY DEF RegisterLoaded, history, IInv, TypeOK
<1> HIDE DEF tb
<1> QED
  BY <1>3, <1>6, <1>7, <1>8, LocalStep

LEMMA HomeLoadedStep ==
  ASSUME IInv, NEW t \in Tabs, HomeLoaded(t) PROVE IInv'
<1>1. PICK tree \in Persisted(t, tab[t].sock) :
        LET k == Presented(tab[t].sock, tree)
            b == Bridged(t, tree, k, TRUE)
        IN tab' = [tab EXCEPT ![t] =
                     IF Who(k) = Anon THEN [b EXCEPT !.page = "login"]
                     ELSE [b EXCEPT !.load = FALSE]]
  BY DEF HomeLoaded
<1> DEFINE k == Presented(tab[t].sock, tree)
           a == Bridged(t, tree, k, TRUE)
           tb == IF Who(k) = Anon THEN [a EXCEPT !.page = "login"]
                 ELSE [a EXCEPT !.load = FALSE]
<1>2. t \in out => Dead(store, tab[t].sock)
  BY DEF IInv, OutDead
<1>3. /\ a \in Tab /\ a.sock \in Drawn /\ a.tree \in Drawn
      /\ ScriptsDrawn(a, Drawn)
      /\ t \in out => Dead(store, a.sock) /\ Dead(store, a.tree)
  BY <1>2, BridgedKeys
<1> HIDE DEF k, a
<1>4. /\ tb \in Tab /\ tb.sock = a.sock /\ tb.tree = a.tree
      /\ ScriptsDrawn(tb, Drawn)
  BY <1>3 DEF Tab, Pages, ScriptsDrawn
<1>5. tab' = [tab EXCEPT ![t] = tb]
  BY <1>1 DEF k, a
<1>6. landing' \in [Tabs -> Identity]
  BY HistoryType DEF HomeLoaded, IInv
<1>7. /\ UNCHANGED <<server, jar, out>>
      /\ acts' \in 0 .. MaxActs /\ signedOut' \in Tabs \cup {Nowhere}
  BY DEF HomeLoaded, IInv, TypeOK
<1> HIDE DEF tb
<1> QED
  BY <1>3, <1>4, <1>5, <1>6, <1>7, LocalStep

-----------------------------------------------------------------------------
(* Events of the user. *)

LEMMA PlainStep ==
  ASSUME IInv, NEW t \in Tabs, Plain(t) PROVE IInv'
<1>1. PICK tree \in Persisted(t, tab[t].sock) :
        tab' = [tab EXCEPT ![t] =
                  Bridged(t, tree, Presented(tab[t].sock, tree), AutoSync)]
  BY DEF Plain
<1> DEFINE tb == Bridged(t, tree, Presented(tab[t].sock, tree), AutoSync)
<1>2. t \in out => Dead(store, tab[t].sock)
  BY DEF IInv, OutDead
<1>3. /\ tb \in Tab /\ tb.sock \in Drawn /\ tb.tree \in Drawn
      /\ ScriptsDrawn(tb, Drawn)
      /\ t \in out => Dead(store, tb.sock) /\ Dead(store, tb.tree)
  BY <1>2, BridgedKeys, ConstantsAssumption
<1>4. tab' = [tab EXCEPT ![t] = tb]
  BY <1>1
<1>5. acts' \in 0 .. MaxActs
  BY HistoryType DEF Plain, IInv
<1>6. /\ UNCHANGED <<server, jar, out>>
      /\ landing' \in [Tabs -> Identity] /\ signedOut' \in Tabs \cup {Nowhere}
  BY DEF Plain, history, IInv, TypeOK
<1> HIDE DEF tb
<1> QED
  BY <1>3, <1>4, <1>5, <1>6, LocalStep

(* A tab that is given the browser's cookie and still counts as signed out  *)
(* was given a dead one.                                                    *)
LEMMA GivenDead ==
  ASSUME IInv, NEW t \in Tabs, Given(t), t \in out'
  PROVE  t \in out /\ Dead(store, jar)
<1>1. Who(jar) = Anon /\ t \in out
  BY DEF Given
<1>2. jar \in Key
  BY DEF IInv, TypeOK
<1> QED
  BY <1>1, <1>2, WhoDead DEF IInv

LEMMA UploadStep ==
  ASSUME IInv, NEW t \in Tabs, Upload(t) PROVE IInv'
<1>1. PICK tree \in Persisted(t, jar) :
        tab' = [tab EXCEPT ![t] =
                  Bridged(t, tree, Presented(jar, tree), AutoSync)]
  BY DEF Upload
<1> DEFINE tb == Bridged(t, tree, Presented(jar, tree), AutoSync)
<1>2. t \in out' => t \in out /\ Dead(store, jar)
  BY GivenDead DEF Upload
<1>3. /\ tb \in Tab /\ tb.sock \in Drawn /\ tb.tree \in Drawn
      /\ ScriptsDrawn(tb, Drawn)
      /\ t \in out' => Dead(store, tb.sock) /\ Dead(store, tb.tree)
  BY <1>2, BridgedKeys, ConstantsAssumption
<1>4. tab' = [tab EXCEPT ![t] = tb]
  BY <1>1
<1>5. acts' \in 0 .. MaxActs /\ out' \subseteq out
  BY HistoryType DEF Upload, IInv
<1>6. /\ UNCHANGED <<server, jar>>
      /\ landing' \in [Tabs -> Identity] /\ signedOut' \in Tabs \cup {Nowhere}
  BY DEF Upload, IInv, TypeOK
<1> HIDE DEF tb
<1> QED
  BY <1>3, <1>4, <1>5, <1>6, LocalStep

(* A tab signed in with a fresh key that is handed to the browser.          *)
LEMMA SignedInStep ==
  ASSUME IInv, NEW t \in Tabs, NEW u \in Users, NEW page \in Pages,
         NEW tree \in Persisted(t, tab[t].sock), NEW s \in Sessions \ used,
         accounts' \in SUBSET Users,
         used' = used \cup {s},
         Rotated(Presented(tab[t].sock, tree), s, u),
         tab' = [tab EXCEPT ![t] =
                   Returned([tab[t] EXCEPT !.tree = s, !.snap = u],
                            SyncCookieThenNav(s, page))],
         Lands(t, u), out' = out \ {t}, signedOut' = Nowhere,
         acts' \in 0 .. MaxActs, jar' = jar
  PROVE  IInv'
<1> DEFINE a == [tab[t] EXCEPT !.tree = s, !.snap = u]
           script == SyncCookieThenNav(s, page)
           tb == Returned(a, script)
<1>1. /\ Presented(tab[t].sock, tree) \in Key
      /\ Drawn \subseteq Drawn' /\ s \in Drawn' /\ jar' \in Drawn'
  BY EventKeys DEF Drawn, IInv, CookiesDrawn
<1>2. /\ store' \in [Sessions -> Users \cup {Gone}]
      /\ \A x \in Drawn : Dead(store, x) => Dead(store', x)
      /\ RowsDrawn'
  BY <1>1, RowsRotated
<1>3. script \in Script /\ script.set \in Drawn'
  BY <1>1, ScriptType DEF Key
<1>4. tab[t] \in Tab /\ tab[t].sock \in Drawn /\ ScriptsDrawn(tab[t], Drawn)
  BY DEF IInv, TypeOK, CookiesDrawn
<1>5. /\ a \in Tab /\ a.sock \in Drawn' /\ a.tree \in Drawn'
      /\ ScriptsDrawn(a, Drawn')
  BY <1>1, <1>4 DEF Tab, Key, Identity, ScriptsDrawn
<1> HIDE DEF a, script
<1>6. /\ tb \in Tab /\ tb.sock \in Drawn' /\ tb.tree \in Drawn'
      /\ ScriptsDrawn(tb, Drawn')
  BY <1>3, <1>5, ReturnedType
<1>7. tab' = [tab EXCEPT ![t] = tb]
  BY DEF a, script
<1> HIDE DEF tb
<1>8. tab' \in [Tabs -> Tab] /\ CookiesDrawn' /\ OutDead'
  BY <1>1, <1>2, <1>6, <1>7, TabStep
<1>9. landing' \in [Tabs -> Identity]
  BY HistoryType DEF IInv
<1>10. TypeOK'
  BY <1>2, <1>8, <1>9 DEF IInv, TypeOK
<1> QED
  BY <1>2, <1>8, <1>10 DEF IInv

LEMMA SubmitStep ==
  ASSUME IInv, NEW t \in Tabs, NEW u \in Users, Submit(t, u) PROVE IInv'
<1>1. PICK tree \in Persisted(t, tab[t].sock), s \in Sessions \ used :
        /\ used' = used \cup {s}
        /\ Rotated(Presented(tab[t].sock, tree), s, u)
        /\ tab' = [tab EXCEPT ![t] =
                     Returned([tab[t] EXCEPT !.tree = s, !.snap = u],
                              SyncCookieThenNav(s, "home"))]
  BY DEF Submit, IInv, TypeOK
<1>2. acts' \in 0 .. MaxActs
  BY HistoryType DEF Submit, IInv
<1>3. /\ Lands(t, u) /\ out' = out \ {t} /\ signedOut' = Nowhere
      /\ jar' = jar /\ accounts' \in SUBSET Users
  BY DEF Submit, IInv, TypeOK
<1> QED
  BY <1>1, <1>2, <1>3, SignedInStep DEF Pages

LEMMA RegisterStep ==
  ASSUME IInv, NEW t \in Tabs, NEW u \in Users, Register(t, u) PROVE IInv'
<1>1. PICK tree \in Persisted(t, tab[t].sock), s \in Sessions \ used :
        /\ used' = used \cup {s}
        /\ Rotated(Presented(tab[t].sock, tree), s, u)
        /\ tab' = [tab EXCEPT ![t] =
                     Returned([tab[t] EXCEPT !.tree = s, !.snap = u],
                              SyncCookieThenNav(s, "login"))]
  BY DEF Register, IInv, TypeOK
<1>2. acts' \in 0 .. MaxActs
  BY HistoryType DEF Register, IInv
<1>3. /\ Lands(t, u) /\ out' = out \ {t} /\ signedOut' = Nowhere
      /\ jar' = jar /\ accounts' \in SUBSET Users
  BY DEF Register, IInv, TypeOK
<1> QED
  BY <1>1, <1>2, <1>3, SignedInStep DEF Pages

(* A step of one tab that deletes the row of a key: a failed sign-in or a   *)
(* sign-out.                                                                *)
LEMMA FlushedStep ==
  ASSUME IInv, NEW t \in Tabs, NEW k \in Key, Deleted(k), NEW tb \in Tab,
         tab' = [tab EXCEPT ![t] = tb],
         UNCHANGED <<accounts, used, jar>>, out' \subseteq out \cup {t},
         tb.sock \in Drawn, tb.tree \in Drawn, ScriptsDrawn(tb, Drawn),
         t \in out' => Dead(store', tb.sock) /\ Dead(store', tb.tree),
         acts' \in 0 .. MaxActs, DisturbedBy(Tabs),
         signedOut' \in Tabs \cup {Nowhere}
  PROVE  IInv'
<1>1. Drawn' = Drawn /\ jar' \in Drawn' /\ used' = used
  BY DEF Drawn, IInv, CookiesDrawn
<1>2. /\ store' \in [Sessions -> Users \cup {Gone}]
      /\ \A x : Dead(store, x) => Dead(store', x)
      /\ RowsDrawn'
  BY <1>1, RowsDeleted
<1>3. tab' \in [Tabs -> Tab] /\ CookiesDrawn' /\ OutDead'
  BY <1>1, <1>2, TabStep
<1>4. landing' \in [Tabs -> Identity]
  BY HistoryType DEF IInv
<1>5. out' \in SUBSET Tabs
  BY DEF IInv, TypeOK
<1>6. TypeOK'
  BY <1>2, <1>3, <1>4, <1>5 DEF IInv, TypeOK
<1> QED
  BY <1>2, <1>3, <1>6 DEF IInv

LEMMA FailStep ==
  ASSUME IInv, NEW t \in Tabs, Fail(t) PROVE IInv'
<1>1. PICK tree \in Persisted(t, tab[t].sock) :
        LET k == Presented(tab[t].sock, tree) IN
        /\ Deleted(k)
        /\ tab' = [tab EXCEPT ![t] =
                     [Bridged(t, tree, k, AutoSync) EXCEPT !.tree = NoKey]]
  BY DEF Fail
<1> DEFINE k == Presented(tab[t].sock, tree)
           a == Bridged(t, tree, k, AutoSync)
           tb == [a EXCEPT !.tree = NoKey]
<1>2. /\ k \in Key /\ NoKey \in Drawn /\ NoKey \in Key /\ NoKey \notin Sessions
      /\ t \in out => Dead(store, tab[t].sock)
  BY EventKeys, ConstantsAssumption DEF IInv, OutDead, Drawn, Key
<1>3. /\ a \in Tab /\ a.sock \in Drawn /\ ScriptsDrawn(a, Drawn)
      /\ t \in out => Dead(store, a.sock)
  BY <1>2, BridgedKeys, ConstantsAssumption
<1> HIDE DEF a
<1>4. /\ tb \in Tab /\ tb.sock = a.sock /\ tb.tree = NoKey
      /\ ScriptsDrawn(tb, Drawn)
  BY <1>2, <1>3 DEF Tab, ScriptsDrawn
<1>5. tab' = [tab EXCEPT ![t] = tb] /\ Deleted(k)
  BY <1>1 DEF a
<1>6. acts' \in 0 .. MaxActs
  BY HistoryType DEF Fail, IInv
<1>7. /\ UNCHANGED <<accounts, used, jar, out>> /\ DisturbedBy(Tabs)
      /\ signedOut' \in Tabs \cup {Nowhere}
  BY DEF Fail, IInv, TypeOK
<1>8. \A x : Dead(store, x) => Dead(store', x)
  BY <1>2, <1>5, <1>7, RowsDeleted
<1>9. t \in out' => Dead(store', tb.sock) /\ Dead(store', tb.tree)
  BY <1>2, <1>3, <1>4, <1>7, <1>8 DEF Dead
<1> HIDE DEF k, tb
<1> QED
  BY <1>2, <1>3, <1>4, <1>5, <1>6, <1>7, <1>9, FlushedStep

(* What a sign-out leaves dead: the key presented, hence the handshake's     *)
(* cookie, whenever it has one.                                             *)
LEMMA LogoutStep ==
  ASSUME IInv, NEW t \in Tabs, Logout(t) PROVE IInv'
<1>1. PICK tree \in Persisted(t, tab[t].sock) :
        /\ Deleted(Presented(tab[t].sock, tree))
        /\ tab' = [tab EXCEPT ![t] =
                     Returned([tab[t] EXCEPT !.tree = NoKey, !.snap = Anon],
                              SignOutThenNav("login"))]
  BY DEF Logout, IInv, TypeOK
<1> DEFINE k == Presented(tab[t].sock, tree)
           a == [tab[t] EXCEPT !.tree = NoKey, !.snap = Anon]
           script == SignOutThenNav("login")
           tb == Returned(a, script)
<1>2. /\ k \in Key /\ NoKey \in Drawn /\ NoKey \in Key /\ NoKey \notin Sessions
  BY EventKeys, ConstantsAssumption DEF Drawn, Key
<1>3. tab[t] \in Tab /\ tab[t].sock \in Drawn /\ ScriptsDrawn(tab[t], Drawn)
  BY DEF IInv, TypeOK, CookiesDrawn
<1>4. /\ a \in Tab /\ a.sock = tab[t].sock /\ a.tree = NoKey
      /\ ScriptsDrawn(a, Drawn)
  BY <1>2, <1>3 DEF Tab, Identity, ScriptsDrawn
<1>5. script \in Script /\ script.set \in Drawn
  BY <1>2, ScriptType DEF Pages
<1>6. /\ UNCHANGED <<accounts, used, jar>> /\ DisturbedBy(Tabs)
      /\ out' = out \cup {t} /\ signedOut' \in Tabs \cup {Nowhere}
  BY DEF Logout
<1>7. acts' \in 0 .. MaxActs
  BY HistoryType DEF Logout, IInv
<1>8. Deleted(k) /\ Dead(store', k)
  BY <1>1, <1>2, <1>6, RowsDeleted
<1>9. Dead(store', tab[t].sock)
  <2>1. CASE tab[t].sock = NoKey
    BY <1>2, <2>1 DEF Dead
  <2>2. CASE tab[t].sock # NoKey
    BY <1>8, <2>2 DEF Presented
  <2> QED
    BY <2>1, <2>2
<1> HIDE DEF a, script
<1>10. /\ tb \in Tab /\ tb.sock = tab[t].sock /\ tb.tree = NoKey
       /\ ScriptsDrawn(tb, Drawn)
  BY <1>4, <1>5, ReturnedType
<1>11. tab' = [tab EXCEPT ![t] = tb]
  BY <1>1 DEF a, script
<1>12. Dead(store', tb.sock) /\ Dead(store', tb.tree)
  BY <1>2, <1>9, <1>10 DEF Dead
<1> HIDE DEF k, tb
<1> QED
  BY <1>2, <1>3, <1>6, <1>7, <1>8, <1>10, <1>11, <1>12, FlushedStep

-----------------------------------------------------------------------------
(* The browser. *)

LEMMA RunScriptStep ==
  ASSUME IInv, NEW t \in Tabs, RunScript(t) PROVE IInv'
<1> DEFINE a == tab[t]
           s == Head(a.scripts)
           tb == Ran(a, s)
<1>1. /\ a \in Tab /\ a.scripts # <<>>
      /\ a.sock \in Drawn /\ a.tree \in Drawn /\ ScriptsDrawn(a, Drawn)
  BY DEF RunScript, IInv, TypeOK, CookiesDrawn
<1>2. a.scripts \in Seq(Script)
  BY <1>1 DEF Tab
<1>3. s \in Script /\ s.set \in Drawn /\ Tail(a.scripts) \in Seq(Script)
  BY <1>1, <1>2 DEF ScriptsDrawn
<1>4. \A i \in DOMAIN Tail(a.scripts) : Tail(a.scripts)[i].set \in Drawn
  BY <1>1, <1>2 DEF ScriptsDrawn
<1>5. /\ jar' = IF s.set # NoKey THEN s.set ELSE IF s.clear THEN NoKey ELSE jar
      /\ tab' = [tab EXCEPT ![t] = tb]
      /\ DisturbedBy(Tabs \ {t})
      /\ signedOut' \in Tabs \cup {Nowhere}
      /\ UNCHANGED <<server, acts, out>>
  BY DEF RunScript, IInv, TypeOK
<1>6. /\ Drawn' = Drawn /\ store' = store /\ used' = used
      /\ jar' \in Drawn' /\ jar' \in Key
  BY <1>3, <1>5 DEF server, Drawn, IInv, TypeOK, CookiesDrawn, Key
<1>7. t \in out => Dead(store, a.sock) /\ Dead(store, a.tree)
  BY DEF IInv, OutDead
<1> HIDE DEF a
<1>8. /\ tb \in Tab /\ tb.sock = a.sock /\ tb.tree = a.tree
      /\ tb.scripts = Tail(a.scripts)
  <2> DEFINE nav == IF s.nav # Nowhere THEN s.nav ELSE a.nav
             token == a.token /\ ~s.drop
  <2>1. nav \in Pages \cup {Nowhere} /\ token \in BOOLEAN
    BY <1>1, <1>3 DEF Tab, Script
  <2> HIDE DEF nav, token
  <2>2. [a EXCEPT !.scripts = Tail(a.scripts), !.token = token, !.nav = nav]
          \in Tab
    BY <1>1, <1>3, <2>1 DEF Tab
  <2>3. tb = [a EXCEPT !.scripts = Tail(a.scripts), !.token = token, !.nav = nav]
    BY DEF nav, token, Ran
  <2> QED
    BY <1>1, <2>2, <2>3 DEF Tab
<1> HIDE DEF tb, s
<1>9. ScriptsDrawn(tb, Drawn)
  BY <1>4, <1>8 DEF ScriptsDrawn
<1>10. tab' \in [Tabs -> Tab] /\ CookiesDrawn' /\ OutDead'
  BY <1>1, <1>5, <1>6, <1>7, <1>8, <1>9, TabStep
<1>11. landing' \in [Tabs -> Identity]
  BY <1>5, HistoryType DEF IInv
<1>12. TypeOK' /\ RowsDrawn'
  BY <1>5, <1>6, <1>10, <1>11 DEF server, IInv, TypeOK, RowsDrawn
<1> QED
  BY <1>10, <1>12 DEF IInv

(* The tab of a document just loaded. *)
LEMMA OpenedStep ==
  ASSUME IInv, NEW t \in Tabs, NEW page \in Pages, Opened(t, page), Given(t),
         UNCHANGED <<server, jar>>, acts' \in 0 .. MaxActs,
         landing' \in [Tabs -> Identity], ScriptsLost(t)
  PROVE  IInv'
<1> DEFINE tb == [page |-> page, sock |-> jar,
                  tree |-> IF tab[t].token THEN tab[t].tree ELSE NoKey,
                  snap |-> IF tab[t].token THEN tab[t].snap ELSE Anon,
                  load |-> TRUE, scripts |-> <<>>, nav |-> Nowhere,
                  token |-> TRUE]
<1>1. /\ tab[t] \in Tab /\ tab[t].tree \in Drawn
      /\ jar \in Key /\ jar \in Drawn
      /\ NoKey \in Drawn /\ NoKey \in Key /\ NoKey \notin Sessions
  BY ConstantsAssumption DEF IInv, TypeOK, CookiesDrawn, Drawn, Key
<1>2. <<>> \in Seq(Script)
  OBVIOUS
<1>3. tb \in Tab
  BY <1>1, <1>2 DEF Tab, Identity
<1>4. /\ tb.sock \in Drawn /\ tb.tree \in Drawn /\ ScriptsDrawn(tb, Drawn)
  BY <1>1 DEF ScriptsDrawn
<1>5. t \in out' => Dead(store, tb.sock) /\ Dead(store, tb.tree)
  BY <1>1, GivenDead DEF IInv, OutDead, Dead
<1>6. tab' = [tab EXCEPT ![t] = tb]
  BY DEF Opened
<1>7. out' \subseteq out /\ signedOut' \in Tabs \cup {Nowhere}
  BY HistoryType DEF IInv
<1> HIDE DEF tb
<1> QED
  BY <1>3, <1>4, <1>5, <1>6, <1>7, LocalStep

LEMMA NavigateStep ==
  ASSUME IInv, NEW t \in Tabs, Navigate(t) PROVE IInv'
<1>1. tab[t].nav \in Pages
  BY DEF Navigate, IInv, TypeOK, Tab
<1>2. acts' \in 0 .. MaxActs /\ landing' \in [Tabs -> Identity]
  BY DEF Navigate, IInv, TypeOK
<1> QED
  BY <1>1, <1>2, OpenedStep DEF Navigate

LEMMA ReloadStep ==
  ASSUME IInv, NEW t \in Tabs, NEW page \in Pages, Reload(t, page) PROVE IInv'
<1>1. acts' \in 0 .. MaxActs /\ landing' \in [Tabs -> Identity]
  BY HistoryType DEF Reload, IInv
<1> QED
  BY <1>1, OpenedStep DEF Reload

LEMMA ReconnectStep ==
  ASSUME IInv, NEW t \in Tabs, Reconnect(t) PROVE IInv'
<1> DEFINE tb == [tab[t] EXCEPT !.sock = jar]
<1>1. /\ tab[t] \in Tab /\ jar \in Key /\ jar \in Drawn
      /\ tab[t].tree \in Drawn /\ ScriptsDrawn(tab[t], Drawn)
  BY DEF IInv, TypeOK, CookiesDrawn
<1>2. /\ tb \in Tab /\ tb.sock = jar /\ tb.tree = tab[t].tree
      /\ ScriptsDrawn(tb, Drawn)
  BY <1>1 DEF Tab, ScriptsDrawn
<1>3. t \in out' => Dead(store, tb.sock) /\ Dead(store, tb.tree)
  BY <1>2, GivenDead DEF Reconnect, IInv, OutDead
<1>4. tab' = [tab EXCEPT ![t] = tb]
  BY DEF Reconnect, IInv, TypeOK
<1>5. acts' \in 0 .. MaxActs /\ out' \subseteq out
  BY HistoryType DEF Reconnect, IInv
<1>6. /\ UNCHANGED <<server, jar>>
      /\ landing' \in [Tabs -> Identity] /\ signedOut' \in Tabs \cup {Nowhere}
  BY DEF Reconnect, IInv, TypeOK
<1> HIDE DEF tb
<1> QED
  BY <1>1, <1>2, <1>3, <1>4, <1>5, <1>6, LocalStep

-----------------------------------------------------------------------------
(* Django views. *)

(* A step outside the tabs. *)
LEMMA ElsewhereStep ==
  ASSUME IInv, UNCHANGED <<accounts, tab, out>>,
         store' \in [Sessions -> Users \cup {Gone}],
         used \subseteq used', used' \in SUBSET Sessions,
         jar' \in Drawn',
         \A k \in Drawn : Dead(store, k) => Dead(store', k), RowsDrawn',
         acts' \in 0 .. MaxActs, DisturbedBy(Tabs),
         signedOut' \in Tabs \cup {Nowhere}
  PROVE  IInv'
<1>1. Drawn \subseteq Drawn' /\ jar' \in Key
  BY DEF Drawn, Key
<1>2. CookiesDrawn'
  BY <1>1 DEF IInv, CookiesDrawn, ScriptsDrawn
<1>3. OutDead'
  BY DEF IInv, TypeOK, CookiesDrawn, OutDead
<1>4. landing' \in [Tabs -> Identity]
  BY HistoryType DEF IInv
<1>5. TypeOK'
  BY <1>1, <1>4 DEF IInv, TypeOK
<1> QED
  BY <1>2, <1>3, <1>5 DEF IInv

LEMMA HttpLoginStep ==
  ASSUME IInv, NEW u \in Users, HttpLogin(u) PROVE IInv'
<1>1. PICK s \in Sessions \ used :
        used' = used \cup {s} /\ Rotated(jar, s, u) /\ jar' = s
  BY DEF HttpLogin
<1>2. jar \in Key /\ used' \in SUBSET Sessions /\ jar' \in Drawn'
  BY <1>1 DEF IInv, TypeOK, Drawn
<1>3. /\ store' \in [Sessions -> Users \cup {Gone}] /\ RowsDrawn'
      /\ \A k \in Drawn : Dead(store, k) => Dead(store', k)
  BY <1>1, <1>2, RowsRotated
<1>4. acts' \in 0 .. MaxActs
  BY HistoryType DEF HttpLogin, IInv
<1>5. /\ UNCHANGED <<accounts, tab, out>> /\ DisturbedBy(Tabs)
      /\ signedOut' \in Tabs \cup {Nowhere}
  BY DEF HttpLogin
<1> QED
  BY <1>1, <1>2, <1>3, <1>4, <1>5, ElsewhereStep

LEMMA HttpLogoutStep ==
  ASSUME IInv, HttpLogout PROVE IInv'
<1>1. /\ UNCHANGED <<accounts, used, tab, out>> /\ DisturbedBy(Tabs)
      /\ signedOut' \in Tabs \cup {Nowhere} /\ used' \in SUBSET Sessions
      /\ jar' \in Drawn' /\ jar \in Key /\ Deleted(jar)
  BY DEF HttpLogout, IInv, TypeOK, Drawn
<1>2. /\ store' \in [Sessions -> Users \cup {Gone}] /\ RowsDrawn'
      /\ \A k : Dead(store, k) => Dead(store', k)
  BY <1>1, RowsDeleted
<1>3. acts' \in 0 .. MaxActs
  BY HistoryType DEF HttpLogout, IInv
<1> QED
  BY <1>1, <1>2, <1>3, ElsewhereStep

LEMMA RowLostStep ==
  ASSUME IInv, NEW k \in Sessions, RowLost(k) PROVE IInv'
<1>1. /\ UNCHANGED <<accounts, used, tab, out>> /\ DisturbedBy(Tabs)
      /\ signedOut' \in Tabs \cup {Nowhere} /\ used' \in SUBSET Sessions
      /\ jar' \in Drawn' /\ k \in Key /\ Deleted(k)
  BY DEF RowLost, IInv, TypeOK, CookiesDrawn, Drawn, Key
<1>2. /\ store' \in [Sessions -> Users \cup {Gone}] /\ RowsDrawn'
      /\ \A x : Dead(store, x) => Dead(store', x)
  BY <1>1, RowsDeleted
<1>3. acts' \in 0 .. MaxActs
  BY HistoryType DEF RowLost, IInv
<1> QED
  BY <1>1, <1>2, <1>3, ElsewhereStep

-----------------------------------------------------------------------------
(* The browser follows a sign-out: until its cookie names no session, the   *)
(* script that expires it waits in the tab that signed out.                 *)

SignsOut(s) == s.clear /\ s.set = NoKey
ToSignOut(tb) == \E i \in DOMAIN tb.scripts : SignsOut(tb.scripts[i])

OutFollows == \A t \in Tabs : signedOut = t => Dead(store, jar) \/ ToSignOut(tab[t])

(* A step of one tab that signs nobody in: what it owes OutFollows. *)
LEMMA TabFollows ==
  ASSUME IInv, OutFollows, NEW t \in Tabs, NEW tb,
         tab' = [tab EXCEPT ![t] = tb],
         signedOut' \in {signedOut, Nowhere, t},
         Dead(store, jar) => Dead(store', jar'),
         signedOut' = t => Dead(store', jar') \/ ToSignOut(tb)
  PROVE  OutFollows'
<1>1. tab \in [Tabs -> Tab]
  BY DEF IInv, TypeOK
<1>2. \A x \in Tabs : tab'[x] = IF x = t THEN tb ELSE tab[x]
  BY <1>1
<1> SUFFICES ASSUME NEW x \in Tabs, signedOut' = x
             PROVE  Dead(store', jar') \/ ToSignOut(tab'[x])
  BY DEF OutFollows, Dead, ToSignOut, SignsOut
<1>3. CASE x = t
  BY <1>2, <1>3
<1>4. CASE x # t
  <2>1. signedOut = x
    BY <1>4, NowhereAssumption
  <2>2. tab'[x] = tab[x]
    BY <1>2, <1>4
  <2> QED
    BY <2>1, <2>2 DEF OutFollows
<1> QED
  BY <1>3, <1>4

(* More scripts in a tab take none away. *)
LEMMA ReturnedFollows ==
  ASSUME NEW tb \in Tab, NEW script \in Script
  PROVE  /\ ToSignOut(tb) => ToSignOut(Returned(tb, script))
         /\ SignsOut(script) => ToSignOut(Returned(tb, script))
<1>1. tb.scripts \in Seq(Script)
  BY DEF Tab
<1> DEFINE more == Append(tb.scripts, script)
<1>2. Returned(tb, script).scripts = more
  BY DEF Returned, Tab
<1>3. Len(tb.scripts) \in Nat /\ DOMAIN tb.scripts = 1 .. Len(tb.scripts)
  BY <1>1
<1>4. DOMAIN more = 1 .. Len(tb.scripts) + 1
  BY <1>1
<1>5. more[Len(tb.scripts) + 1] = script
  BY <1>1
<1>6. \A i \in DOMAIN tb.scripts : more[i] = tb.scripts[i] /\ i \in DOMAIN more
  BY <1>1, <1>3, <1>4
<1> HIDE DEF more
<1>7. ToSignOut(tb) => ToSignOut(Returned(tb, script))
  BY <1>2, <1>6 DEF ToSignOut
<1>8. SignsOut(script) => ToSignOut(Returned(tb, script))
  BY <1>2, <1>3, <1>4, <1>5 DEF ToSignOut
<1> QED
  BY <1>7, <1>8

(* A tab's first script taken away: it was the one, or it waits still. *)
LEMMA RanFollows ==
  ASSUME NEW tb \in Tab, tb.scripts # <<>>, ToSignOut(tb)
  PROVE  \/ SignsOut(Head(tb.scripts))
         \/ ToSignOut(Ran(tb, Head(tb.scripts)))
<1>1. tb.scripts \in Seq(Script)
  BY DEF Tab
<1> DEFINE rest == Tail(tb.scripts)
<1>2. Ran(tb, Head(tb.scripts)).scripts = rest
  BY DEF Ran, Tab
<1>3. PICK i \in DOMAIN tb.scripts : SignsOut(tb.scripts[i])
  BY DEF ToSignOut
<1>4. CASE i = 1
  BY <1>1, <1>3, <1>4
<1>5. CASE i # 1
  <2>1. i \in 1 .. Len(tb.scripts) /\ Len(tb.scripts) \in Nat
    BY <1>1
  <2>2. i - 1 \in 1 .. Len(tb.scripts) - 1
    BY <2>1, <1>5
  <2>3. Len(rest) = Len(tb.scripts) - 1 /\ rest \in Seq(Script)
    BY <1>1
  <2>4. i - 1 \in DOMAIN rest
    BY <2>2, <2>3
  <2>5. rest[i - 1] = tb.scripts[i]
    BY <1>1, <2>1, <2>2
  <2> QED
    BY <1>2, <1>3, <2>4, <2>5 DEF ToSignOut
<1> QED
  BY <1>4, <1>5

(* Nobody has signed out yet. *)
LEMMA InitFollows == Init => OutFollows
  BY NowhereAssumption DEF Init, OutFollows

(* Preprocess runs no script. *)
LEMMA BridgedFollows ==
  ASSUME NEW t \in Tabs, tab[t] \in Tab, NEW tree, NEW k, NEW synced
  PROVE  Bridged(t, tree, k, synced).scripts = tab[t].scripts
  BY DEF Bridged, Tab

(* Load events sign nobody out; the scripts they return come after the others. *)
LEMMA LoadedFollows ==
  ASSUME IInv, OutFollows, NEW t \in Tabs, Loaded(t)
  PROVE  OutFollows'
<1>1. UNCHANGED <<server, jar, signedOut>>
  BY DEF Loaded, LoginLoaded, RegisterLoaded, HomeLoaded, history
<1>2. tab[t] \in Tab /\ tab[t].sock \in Key /\ tab[t].tree \in Key
  BY DEF IInv, TypeOK, Tab
<1>3. CASE LoginLoaded(t)
  <2>1. PICK tree \in Persisted(t, tab[t].sock) :
          LET k == Presented(tab[t].sock, tree)
              b == [Bridged(t, tree, k, TRUE) EXCEPT !.load = FALSE]
          IN tab' = [tab EXCEPT ![t] =
                       Returned(b, IF b.snap = Anon THEN ClearCookies
                                   ELSE SyncCookieThenNav(k, "home"))]
    BY <1>3 DEF LoginLoaded
  <2> DEFINE k == Presented(tab[t].sock, tree)
             a == Bridged(t, tree, k, TRUE)
             b == [a EXCEPT !.load = FALSE]
             script == IF b.snap = Anon THEN ClearCookies
                       ELSE SyncCookieThenNav(k, "home")
             tb == Returned(b, script)
  <2>2. tree \in Key /\ k \in Key
    BY <1>2 DEF Persisted, Presented
  <2>3. a \in Tab /\ a.scripts = tab[t].scripts
    BY <2>2, BridgedType DEF IInv
  <2>4. script \in Script
    BY <2>2, ScriptType DEF Pages
  <2> HIDE DEF k, a, script
  <2>5. b \in Tab /\ b.scripts = tab[t].scripts
    BY <2>3 DEF Tab
  <2>6. ToSignOut(tab[t]) => ToSignOut(tb)
    BY <2>4, <2>5, ReturnedFollows DEF ToSignOut
  <2>7. tab' = [tab EXCEPT ![t] = tb]
    BY <2>1 DEF k, a, script
  <2> HIDE DEF tb
  <2> QED
    BY <1>1, <2>6, <2>7, TabFollows DEF server, OutFollows
<1>4. CASE RegisterLoaded(t)
  <2>1. PICK tree \in Persisted(t, tab[t].sock) :
          LET k == Presented(tab[t].sock, tree)
              b == [Bridged(t, tree, k, TRUE) EXCEPT !.load = FALSE]
          IN tab' = [tab EXCEPT ![t] =
                       IF b.snap = Anon THEN b
                       ELSE Returned(b, SyncCookieThenNav(k, "home"))]
    BY <1>4 DEF RegisterLoaded
  <2> DEFINE k == Presented(tab[t].sock, tree)
             a == Bridged(t, tree, k, TRUE)
             b == [a EXCEPT !.load = FALSE]
             script == SyncCookieThenNav(k, "home")
             tb == IF b.snap = Anon THEN b ELSE Returned(b, script)
  <2>2. tree \in Key /\ k \in Key
    BY <1>2 DEF Persisted, Presented
  <2>3. a \in Tab /\ a.scripts = tab[t].scripts
    BY <2>2, BridgedType DEF IInv
  <2>4. script \in Script
    BY <2>2, ScriptType DEF Pages
  <2> HIDE DEF k, a, script
  <2>5. b \in Tab /\ b.scripts = tab[t].scripts
    BY <2>3 DEF Tab
  <2>6. ToSignOut(tab[t]) => ToSignOut(tb)
    BY <2>4, <2>5, ReturnedFollows DEF ToSignOut
  <2>7. tab' = [tab EXCEPT ![t] = tb]
    BY <2>1 DEF k, a, script
  <2> HIDE DEF tb
  <2> QED
    BY <1>1, <2>6, <2>7, TabFollows DEF server, OutFollows
<1>5. CASE HomeLoaded(t)
  <2>1. PICK tree \in Persisted(t, tab[t].sock) :
          LET k == Presented(tab[t].sock, tree)
              b == Bridged(t, tree, k, TRUE)
          IN tab' = [tab EXCEPT ![t] =
                       IF Who(k) = Anon THEN [b EXCEPT !.page = "login"]
                       ELSE [b EXCEPT !.load = FALSE]]
    BY <1>5 DEF HomeLoaded
  <2> DEFINE k == Presented(tab[t].sock, tree)
             b == Bridged(t, tree, k, TRUE)
             tb == IF Who(k) = Anon THEN [b EXCEPT !.page = "login"]
                   ELSE [b EXCEPT !.load = FALSE]
  <2>2. tree \in Key /\ k \in Key
    BY <1>2 DEF Persisted, Presented
  <2>3. b \in Tab /\ b.scripts = tab[t].scripts
    BY <2>2, BridgedType DEF IInv
  <2>4. tab' = [tab EXCEPT ![t] = tb]
    BY <2>1
  <2> HIDE DEF b
  <2>5. tb.scripts = tab[t].scripts
    BY <2>3 DEF Tab
  <2>6. ToSignOut(tab[t]) => ToSignOut(tb)
    BY <2>5 DEF ToSignOut
  <2> HIDE DEF tb
  <2> QED
    BY <1>1, <2>6, <2>4, TabFollows DEF server, OutFollows
<1> QED
  BY <1>3, <1>4, <1>5 DEF Loaded

(* A document loaded anew forgets the scripts, and ScriptsLost the promise. *)
LEMMA OpenedFollows ==
  ASSUME IInv, OutFollows, NEW t \in Tabs, NEW page, Opened(t, page),
         ScriptsLost(t), UNCHANGED <<server, jar>>
  PROVE  OutFollows'
<1>1. PICK tb : tab' = [tab EXCEPT ![t] = tb]
  BY DEF Opened
<1>2. signedOut' \in {signedOut, Nowhere}
  BY DEF ScriptsLost
<1>3. store' = store /\ jar' = jar
  BY DEF server
<1>4. signedOut' = t => Dead(store', jar')
  <2> SUFFICES ASSUME signedOut' = t PROVE Dead(store', jar')
    OBVIOUS
  <2>1. signedOut = t /\ tab[t].scripts = <<>>
    BY NowhereAssumption DEF ScriptsLost
  <2>2. ~ToSignOut(tab[t])
    BY <2>1 DEF ToSignOut
  <2> QED
    BY <1>3, <2>1, <2>2 DEF OutFollows
<1> QED
  BY <1>1, <1>2, <1>3, <1>4, TabFollows

(* A sign-out promises with the script it returns, a sign-in promises nothing. *)
LEMMA UserStepFollows ==
  ASSUME IInv, OutFollows, NEW t \in Tabs, UserStep(t)
  PROVE  OutFollows'
<1>1. tab[t] \in Tab /\ tab[t].sock \in Key /\ tab[t].tree \in Key /\ jar \in Key
  BY DEF IInv, TypeOK, Tab
<1>2. CASE Plain(t) \/ Upload(t)
  <2>1. PICK tree, k :
          tab' = [tab EXCEPT ![t] = Bridged(t, tree, k, AutoSync)]
    BY <1>2 DEF Plain, Upload
  <2> DEFINE tb == Bridged(t, tree, k, AutoSync)
  <2>2. tb.scripts = tab[t].scripts
    BY <1>1, BridgedFollows
  <2>3. tab' = [tab EXCEPT ![t] = tb]
    BY <2>1
  <2> HIDE DEF tb
  <2>4. ToSignOut(tab[t]) => ToSignOut(tb)
    BY <2>2 DEF ToSignOut
  <2>5. UNCHANGED <<server, jar, signedOut>>
    BY <1>2 DEF Plain, Upload, history
  <2> QED
    BY <2>3, <2>4, <2>5, TabFollows DEF server, OutFollows
<1>3. CASE Fail(t)
  <2>1. PICK tree \in Persisted(t, tab[t].sock) :
          LET k == Presented(tab[t].sock, tree) IN
          /\ Deleted(k)
          /\ tab' = [tab EXCEPT ![t] =
                       [Bridged(t, tree, k, AutoSync) EXCEPT !.tree = NoKey]]
    BY <1>3 DEF Fail
  <2> DEFINE k == Presented(tab[t].sock, tree)
             a == Bridged(t, tree, k, AutoSync)
             tb == [a EXCEPT !.tree = NoKey]
  <2>2. tree \in Key /\ k \in Key
    BY <1>1 DEF Persisted, Presented
  <2>3. a \in Tab /\ a.scripts = tab[t].scripts
    BY <2>2, BridgedType, ConstantsAssumption DEF IInv
  <2>4. Deleted(k) /\ tab' = [tab EXCEPT ![t] = tb]
    BY <2>1
  <2> HIDE DEF a, k
  <2>5. tb.scripts = tab[t].scripts
    BY <2>3 DEF Tab
  <2>6. UNCHANGED <<used, jar, signedOut>>
    BY <1>3 DEF Fail
  <2>7. Dead(store, jar) => Dead(store', jar')
    BY <2>2, <2>4, <2>6, RowsDeleted
  <2>8. ToSignOut(tab[t]) => ToSignOut(tb)
    BY <2>5 DEF ToSignOut
  <2> HIDE DEF tb
  <2> QED
    BY <2>4, <2>6, <2>7, <2>8, TabFollows DEF OutFollows
<1>4. CASE Logout(t)
  <2>1. PICK tree \in Persisted(t, tab[t].sock) :
          /\ Deleted(Presented(tab[t].sock, tree))
          /\ tab' = [tab EXCEPT ![t] =
                       Returned([tab[t] EXCEPT !.tree = NoKey, !.snap = Anon],
                                SignOutThenNav("login"))]
    BY <1>4 DEF Logout, IInv, TypeOK
  <2> DEFINE k == Presented(tab[t].sock, tree)
             a == [tab[t] EXCEPT !.tree = NoKey, !.snap = Anon]
             script == SignOutThenNav("login")
             tb == Returned(a, script)
  <2>2. k \in Key
    BY <1>1 DEF Persisted, Presented
  <2>3. a \in Tab
    BY <1>1 DEF Tab, Key, Identity
  <2>4. script \in Script /\ SignsOut(script)
    BY ScriptType DEF Pages, SignOutThenNav, SignsOut
  <2>5. Deleted(k)
    BY <2>1
  <2> HIDE DEF k, a, script
  <2>6. ToSignOut(tb)
    BY <2>3, <2>4, ReturnedFollows
  <2>7. tab' = [tab EXCEPT ![t] = tb]
    BY <2>1 DEF a, script
  <2>8. UNCHANGED <<used, jar>> /\ signedOut' \in {t, Nowhere}
    BY <1>4 DEF Logout
  <2>9. Dead(store, jar) => Dead(store', jar')
    BY <2>2, <2>5, <2>8, RowsDeleted
  <2> HIDE DEF tb
  <2> QED
    BY <2>6, <2>7, <2>8, <2>9, TabFollows
<1>5. CASE Reconnect(t)
  <2> DEFINE tb == [tab[t] EXCEPT !.sock = jar]
  <2>1. tab' = [tab EXCEPT ![t] = tb]
    BY <1>5 DEF Reconnect, IInv, TypeOK
  <2>2. tb.scripts = tab[t].scripts
    BY <1>1 DEF Tab
  <2>3. ToSignOut(tab[t]) => ToSignOut(tb)
    BY <2>2 DEF ToSignOut
  <2>4. UNCHANGED <<server, jar, signedOut>>
    BY <1>5 DEF Reconnect
  <2> HIDE DEF tb
  <2> QED
    BY <2>1, <2>3, <2>4, TabFollows DEF server, OutFollows
<1>6. CASE \E u \in Users : Submit(t, u) \/ Register(t, u)
  BY <1>6, NowhereAssumption DEF Submit, Register, OutFollows
<1>7. CASE \E page \in Pages : Reload(t, page)
  BY <1>7, OpenedFollows DEF Reload
<1> QED
  BY <1>2, <1>3, <1>4, <1>5, <1>6, <1>7 DEF UserStep

(* The script that expires the cookie ends the wait, one that sets it the promise. *)
LEMMA RunScriptFollows ==
  ASSUME IInv, OutFollows, NEW t \in Tabs, RunScript(t)
  PROVE  OutFollows'
<1> DEFINE a == tab[t]
           s == Head(a.scripts)
           tb == Ran(a, s)
<1>1. a \in Tab /\ a.scripts # <<>>
  BY DEF RunScript, IInv, TypeOK
<1>2. /\ jar' = IF s.set # NoKey THEN s.set ELSE IF s.clear THEN NoKey ELSE jar
      /\ tab' = [tab EXCEPT ![t] = tb]
      /\ signedOut' = IF s.set # NoKey THEN Nowhere ELSE signedOut
      /\ store' = store
  BY DEF RunScript, IInv, TypeOK, server
<1>3. CASE s.set # NoKey
  BY <1>2, <1>3, NowhereAssumption DEF OutFollows
<1>4. CASE s.set = NoKey
  <2>1. SignsOut(s) => jar' = NoKey
    BY <1>2, <1>4 DEF SignsOut
  <2>2. jar' \in {jar, NoKey}
    BY <1>2, <1>4
  <2>3. Dead(store, NoKey)
    BY ConstantsAssumption DEF Dead
  <2>4. Dead(store, jar) => Dead(store', jar')
    BY <1>2, <2>2, <2>3
  <2>5. ToSignOut(a) => SignsOut(s) \/ ToSignOut(tb)
    BY <1>1, RanFollows
  <2>6. SignsOut(s) => Dead(store', jar')
    BY <1>2, <2>1, <2>3
  <2>7. signedOut' = signedOut
    BY <1>2, <1>4
  <2>8. signedOut' = t => Dead(store', jar') \/ ToSignOut(tb)
    BY <2>4, <2>5, <2>6, <2>7 DEF OutFollows
  <2> HIDE DEF tb
  <2> QED
    BY <1>2, <2>4, <2>7, <2>8, TabFollows
<1> QED
  BY <1>3, <1>4

(* Django views sign the browser out themselves, or in. *)
LEMMA ElsewhereFollows ==
  ASSUME IInv, OutFollows, Elsewhere
  PROVE  OutFollows'
<1>1. CASE \E u \in Users : HttpLogin(u)
  BY <1>1, NowhereAssumption DEF HttpLogin, OutFollows
<1>2. CASE HttpLogout
  <2>1. jar' = NoKey /\ NoKey \notin Sessions
    BY <1>2, ConstantsAssumption DEF HttpLogout
  <2> QED
    BY <2>1 DEF OutFollows, Dead
<1>3. CASE \E k \in Sessions : RowLost(k)
  <2>1. PICK k \in Sessions : RowLost(k)
    BY <1>3
  <2>2. k \in Key /\ Deleted(k) /\ UNCHANGED <<used, jar, tab, signedOut>>
    BY <2>1 DEF RowLost, Key
  <2>3. Dead(store, jar) => Dead(store', jar')
    BY <2>2, RowsDeleted
  <2> QED
    BY <2>2, <2>3 DEF OutFollows, Dead, ToSignOut, SignsOut
<1> QED
  BY <1>1, <1>2, <1>3 DEF Elsewhere

(* Every step keeps it. *)
LEMMA NextFollows == IInv /\ OutFollows /\ [Next]_vars => OutFollows'
<1> SUFFICES ASSUME IInv, OutFollows, [Next]_vars PROVE OutFollows'
  OBVIOUS
<1>1. ASSUME NEW t \in Tabs, Loaded(t) \/ UserStep(t) \/ RunScript(t)
      PROVE  OutFollows'
  BY <1>1, LoadedFollows, UserStepFollows, RunScriptFollows
<1>2. ASSUME NEW t \in Tabs, Navigate(t) PROVE OutFollows'
  BY <1>2, OpenedFollows DEF Navigate
<1>3. CASE Elsewhere
  BY <1>3, ElsewhereFollows
<1>4. CASE UNCHANGED vars
  BY <1>4 DEF vars, history, OutFollows, Dead, ToSignOut, SignsOut
<1> QED
  BY <1>1, <1>2, <1>3, <1>4 DEF Next

(* With no script left, the cookie names no session. *)
LEMMA FollowedByRows == IInv /\ OutFollows => BrowserFollowsSignOut
<1> SUFFICES ASSUME IInv, OutFollows, NEW t \in Tabs,
                    signedOut = t, tab[t].scripts = <<>>
             PROVE  Who(jar) = Anon
  BY DEF BrowserFollowsSignOut
<1>1. ~ToSignOut(tab[t])
  BY DEF ToSignOut
<1>2. Dead(store, jar) /\ jar \in Key
  BY <1>1 DEF OutFollows, IInv, TypeOK
<1> QED
  BY <1>2, WhoDead DEF IInv

-----------------------------------------------------------------------------
(* A sign-in lands: until it got there, the tab has one script, then a      *)
(* timer, then a document with the new key, and in each case the key is     *)
(* that of a session of the user.                                           *)

IsUsers(rows, k, u) == k \in Sessions /\ rows[k] = u

Handed(tb, rows, u) ==
  /\ ~tb.load /\ tb.nav = Nowhere /\ Len(tb.scripts) = 1
  /\ tb.scripts[1].drop /\ tb.scripts[1].nav # Nowhere
  /\ IsUsers(rows, tb.scripts[1].set, u)

Leaving(tb, cookie, rows, u) ==
  /\ ~tb.load /\ tb.nav # Nowhere /\ tb.scripts = <<>> /\ ~tb.token
  /\ IsUsers(rows, cookie, u)

There(tb, cookie, rows, u) ==
  /\ tb.load /\ tb.nav = Nowhere /\ tb.scripts = <<>> /\ tb.sock = cookie
  /\ IsUsers(rows, cookie, u)

OnItsWay(tb, cookie, rows, u) ==
  \/ Handed(tb, rows, u)
  \/ Leaving(tb, cookie, rows, u)
  \/ There(tb, cookie, rows, u)

Arriving ==
  \A t \in Tabs : landing[t] # Anon => OnItsWay(tab[t], jar, store, landing[t])

(* A step of one tab that leaves the cookie and the rows alone, or disturbs *)
(* everybody else: what it owes Arriving.                                   *)
LEMMA TabArrives ==
  ASSUME IInv, Arriving, NEW t \in Tabs, NEW tb,
         tab' = [tab EXCEPT ![t] = tb],
         \A x \in Tabs \ {t} :
           landing'[x] # Anon => landing'[x] = landing[x] /\ UNCHANGED <<jar, store>>,
         landing'[t] # Anon => OnItsWay(tb, jar', store', landing'[t])
  PROVE  Arriving'
<1>1. tab \in [Tabs -> Tab]
  BY DEF IInv, TypeOK
<1>2. \A x \in Tabs : tab'[x] = IF x = t THEN tb ELSE tab[x]
  BY <1>1
<1> SUFFICES ASSUME NEW x \in Tabs, landing'[x] # Anon
             PROVE  OnItsWay(tab'[x], jar', store', landing'[x])
  BY DEF Arriving, OnItsWay, Handed, Leaving, There, IsUsers
<1>3. CASE x = t
  BY <1>2, <1>3
<1>4. CASE x # t
  <2>1. tab'[x] = tab[x] /\ landing'[x] = landing[x] /\ jar' = jar /\ store' = store
    BY <1>2, <1>4
  <2> QED
    BY <2>1 DEF Arriving
<1> QED
  BY <1>3, <1>4

(* Nobody has signed in yet. *)
LEMMA InitArrives == Init => Arriving
  BY DEF Init, Arriving

(* Preprocess changes the copy and the snapshot only. *)
LEMMA BridgedArrives ==
  ASSUME NEW t \in Tabs, tab[t] \in Tab, NEW tree, NEW k, NEW synced
  PROVE  LET b == Bridged(t, tree, k, synced) IN
         /\ b.load = tab[t].load /\ b.nav = tab[t].nav
         /\ b.scripts = tab[t].scripts /\ b.token = tab[t].token
         /\ b.sock = tab[t].sock
         /\ b.snap = IF synced THEN Who(k) ELSE tab[t].snap
  BY DEF Bridged, Tab

(* A tab with nothing under way is handed the key of a user's session. *)
LEMMA HandedOver ==
  ASSUME NEW tb \in Tab, ~tb.load, tb.nav = Nowhere, tb.scripts = <<>>,
         NEW s \in Sessions, NEW page \in Pages, NEW rows, NEW u, rows[s] = u
  PROVE  Handed(Returned(tb, SyncCookieThenNav(s, page)), rows, u)
<1> DEFINE script == SyncCookieThenNav(s, page)
           b == Returned(tb, script)
<1>1. script.drop /\ script.nav # Nowhere /\ script.set = s
  BY DEF SyncCookieThenNav, Pages, Nowhere
<1> HIDE DEF script
<1>2. /\ b.load = tb.load /\ b.nav = tb.nav
      /\ b.scripts = Append(tb.scripts, script)
  BY DEF Returned, Tab
<1>3. Append(<<>>, script) = <<script>>
  OBVIOUS
<1>4. Len(b.scripts) = 1 /\ b.scripts[1] = script
  BY <1>2, <1>3
<1> HIDE DEF b
<1>5. Handed(b, rows, u)
  BY <1>1, <1>2, <1>4 DEF Handed, IsUsers
<1> QED
  BY <1>5 DEF b, script

(* A tab that got there presents the new key. *)
LEMMA TherePresents ==
  ASSUME IInv, NEW t \in Tabs, NEW u \in Users,
         There(tab[t], jar, store, u), NEW tree
  PROVE  /\ Presented(tab[t].sock, tree) = jar
         /\ jar \in Sessions /\ store[jar] = u
         /\ Who(jar) = u
<1>1. tab[t].sock = jar /\ jar \in Sessions /\ store[jar] = u
  BY DEF There, IsUsers
<1>2. jar # NoKey /\ u # Gone
  BY <1>1, ConstantsAssumption
<1> QED
  BY <1>1, <1>2 DEF Presented, Who

(* Whoever has a load event due and is on his way has arrived. *)
LEMMA DueIsThere ==
  ASSUME IInv, Arriving, NEW t \in Tabs, tab[t].load, landing[t] # Anon
  PROVE  landing[t] \in Users /\ There(tab[t], jar, store, landing[t])
<1>1. landing[t] \in Users
  BY DEF IInv, TypeOK, Identity
<1> QED
  BY <1>1 DEF Arriving, OnItsWay, Handed, Leaving

(* A signed-in user at the login or registration page is handed his key again. *)
LEMMA LoginLoadedArrives ==
  ASSUME IInv, Arriving, NEW t \in Tabs, LoginLoaded(t) \/ RegisterLoaded(t)
  PROVE  Arriving'
<1>1. UNCHANGED <<store, jar, landing>> /\ tab[t].load
  BY DEF LoginLoaded, RegisterLoaded, Due, history, server
<1>2. PICK tree, b, tb :
        /\ b = [Bridged(t, tree, Presented(tab[t].sock, tree), TRUE)
                  EXCEPT !.load = FALSE]
        /\ tree \in Persisted(t, tab[t].sock)
        /\ tab' = [tab EXCEPT ![t] = tb]
        /\ b.snap # Anon =>
             tb = Returned(b, SyncCookieThenNav(Presented(tab[t].sock, tree), "home"))
  <2>1. CASE LoginLoaded(t)
    <3>1. PICK tree \in Persisted(t, tab[t].sock) :
            LET k == Presented(tab[t].sock, tree)
                b == [Bridged(t, tree, k, TRUE) EXCEPT !.load = FALSE]
            IN tab' = [tab EXCEPT ![t] =
                         Returned(b, IF b.snap = Anon THEN ClearCookies
                                     ELSE SyncCookieThenNav(k, "home"))]
      BY <2>1 DEF LoginLoaded
    <3> QED
      BY <3>1
  <2>2. CASE RegisterLoaded(t)
    <3>1. PICK tree \in Persisted(t, tab[t].sock) :
            LET k == Presented(tab[t].sock, tree)
                b == [Bridged(t, tree, k, TRUE) EXCEPT !.load = FALSE]
            IN tab' = [tab EXCEPT ![t] =
                         IF b.snap = Anon THEN b
                         ELSE Returned(b, SyncCookieThenNav(k, "home"))]
      BY <2>2 DEF RegisterLoaded
    <3> QED
      BY <3>1
  <2> QED
    BY <2>1, <2>2
<1>3. ASSUME landing[t] # Anon PROVE OnItsWay(tb, jar, store, landing[t])
  <2> DEFINE u == landing[t]
             k == Presented(tab[t].sock, tree)
             a == Bridged(t, tree, k, TRUE)
  <2>1. u \in Users /\ There(tab[t], jar, store, u)
    BY <1>1, <1>3, DueIsThere
  <2>2. k = jar /\ jar \in Sessions /\ store[jar] = u /\ Who(jar) = u
    BY <2>1, TherePresents
  <2>3. tab[t] \in Tab /\ tree \in Key /\ k \in Key
    BY <1>2, <2>2 DEF IInv, TypeOK, Tab, Persisted, Key
  <2>4. a \in Tab
    BY <2>3, BridgedType DEF IInv
  <2>5. a.nav = Nowhere /\ a.scripts = <<>> /\ a.snap = u
    <3>1. /\ a.nav = tab[t].nav /\ a.scripts = tab[t].scripts
          /\ a.snap = Who(k)
      BY <2>3 DEF Bridged, Tab
    <3> QED
      BY <2>1, <2>2, <3>1 DEF There
  <2>6. b = [a EXCEPT !.load = FALSE]
    BY <1>2
  <2> HIDE DEF a, k
  <2>7. /\ b \in Tab /\ ~b.load /\ b.nav = Nowhere /\ b.scripts = <<>>
        /\ b.snap = u
    BY <2>4, <2>5, <2>6 DEF Tab
  <2>8. tb = Returned(b, SyncCookieThenNav(jar, "home"))
    BY <1>2, <2>2, <2>7, <1>3 DEF k
  <2>9. Handed(tb, store, u)
    BY <2>2, <2>7, <2>8, HandedOver DEF Pages
  <2> QED
    BY <2>9 DEF OnItsWay
<1>4. tab' = [tab EXCEPT ![t] = tb]
  BY <1>2
<1> QED
  BY <1>1, <1>3, <1>4, TabArrives

(* At the protected page the sign-in has landed. *)
LEMMA HomeLoadedArrives ==
  ASSUME IInv, Arriving, NEW t \in Tabs, HomeLoaded(t)
  PROVE  Arriving'
<1>1. UNCHANGED <<store, jar>> /\ landing' = [landing EXCEPT ![t] = Anon]
  BY DEF HomeLoaded, server, DisturbedBy, IInv, TypeOK
<1>2. PICK tb : tab' = [tab EXCEPT ![t] = tb]
  BY DEF HomeLoaded
<1>3. landing'[t] = Anon /\ \A x \in Tabs \ {t} : landing'[x] = landing[x]
  BY <1>1 DEF IInv, TypeOK
<1> QED
  BY <1>1, <1>2, <1>3, TabArrives

(* Events of the user before the script has run or the page is left. *)
LEMMA EventArrives ==
  ASSUME IInv, Arriving, NEW t \in Tabs, Plain(t) \/ Upload(t)
  PROVE  Arriving'
<1>1. UNCHANGED <<store, jar, landing>> /\ ~tab[t].load
  BY DEF Plain, Upload, Ready, server, history
<1>2. PICK tree, k : tab' = [tab EXCEPT ![t] = Bridged(t, tree, k, AutoSync)]
  BY DEF Plain, Upload
<1> DEFINE tb == Bridged(t, tree, k, AutoSync)
<1>3. tab[t] \in Tab
  BY DEF IInv, TypeOK
<1>4. /\ tb.load = tab[t].load /\ tb.nav = tab[t].nav
      /\ tb.scripts = tab[t].scripts /\ tb.token = tab[t].token
  BY <1>3 DEF Bridged, Tab
<1>5. tab' = [tab EXCEPT ![t] = tb]
  BY <1>2
<1> HIDE DEF tb
<1>6. landing[t] # Anon => OnItsWay(tb, jar, store, landing[t])
  <2> SUFFICES ASSUME landing[t] # Anon
               PROVE  OnItsWay(tb, jar, store, landing[t])
    OBVIOUS
  <2>1. \/ Handed(tab[t], store, landing[t])
        \/ Leaving(tab[t], jar, store, landing[t])
    BY <1>1 DEF Arriving, OnItsWay, There
  <2>2. \/ Handed(tb, store, landing[t])
        \/ Leaving(tb, jar, store, landing[t])
    BY <1>4, <2>1 DEF Handed, Leaving
  <2> QED
    BY <2>2 DEF OnItsWay
<1> QED
  BY <1>1, <1>5, <1>6, TabArrives

(* A tab signed in anew: it lands if nothing else was under way. *)
LEMMA SignedInArrives ==
  ASSUME IInv, Arriving, NEW t \in Tabs, NEW u \in Users, NEW page \in Pages,
         NEW k, NEW s \in Sessions,
         Rotated(k, s, u),
         tab' = [tab EXCEPT ![t] =
                   Returned([tab[t] EXCEPT !.tree = s, !.snap = u],
                            SyncCookieThenNav(s, page))],
         Lands(t, u)
  PROVE  Arriving'
<1> DEFINE a == [tab[t] EXCEPT !.tree = s, !.snap = u]
           tb == Returned(a, SyncCookieThenNav(s, page))
<1>1. tab[t] \in Tab
  BY DEF IInv, TypeOK
<1>2. a \in Tab
  BY <1>1 DEF Tab, Key, Identity
<1>3. a.load = tab[t].load /\ a.nav = tab[t].nav /\ a.scripts = tab[t].scripts
  BY <1>1 DEF Tab
<1>4. store'[s] = u
  BY DEF Rotated
<1>5. \A x \in Tabs \ {t} : landing'[x] = Anon
  BY DEF Lands
<1>6. tab' = [tab EXCEPT ![t] = tb]
  OBVIOUS
<1>7. landing'[t] # Anon => landing'[t] = u /\ Quiet(t)
  BY DEF Lands
<1> HIDE DEF a
<1>8. landing'[t] # Anon => Handed(tb, store', u)
  BY <1>2, <1>3, <1>4, <1>7, HandedOver DEF Quiet
<1>9. landing'[t] # Anon => OnItsWay(tb, jar', store', landing'[t])
  BY <1>7, <1>8 DEF OnItsWay
<1> HIDE DEF tb
<1> QED
  BY <1>5, <1>6, <1>9, TabArrives

(* A login hands over the key of the session it began. *)
LEMMA SubmitArrives ==
  ASSUME IInv, Arriving, NEW t \in Tabs, NEW u \in Users, Submit(t, u)
  PROVE  Arriving'
<1>1. PICK tree \in Persisted(t, tab[t].sock), s \in Sessions \ used :
        /\ used' = used \cup {s}
        /\ Rotated(Presented(tab[t].sock, tree), s, u)
        /\ tab' = [tab EXCEPT ![t] =
                     Returned([tab[t] EXCEPT !.tree = s, !.snap = u],
                              SyncCookieThenNav(s, "home"))]
  BY DEF Submit, IInv, TypeOK
<1>2. Lands(t, u) /\ "home" \in Pages /\ s \in Sessions
  BY DEF Submit, Pages
<1> QED
  BY <1>1, <1>2, SignedInArrives

(* And so does a registration. *)
LEMMA RegisterArrives ==
  ASSUME IInv, Arriving, NEW t \in Tabs, NEW u \in Users, Register(t, u)
  PROVE  Arriving'
<1>1. PICK tree \in Persisted(t, tab[t].sock), s \in Sessions \ used :
        /\ used' = used \cup {s}
        /\ Rotated(Presented(tab[t].sock, tree), s, u)
        /\ tab' = [tab EXCEPT ![t] =
                     Returned([tab[t] EXCEPT !.tree = s, !.snap = u],
                              SyncCookieThenNav(s, "login"))]
  BY DEF Register, IInv, TypeOK
<1>2. Lands(t, u) /\ "login" \in Pages /\ s \in Sessions
  BY DEF Register, Pages
<1> QED
  BY <1>1, <1>2, SignedInArrives

(* The websocket is opened again with the cookie the tab had or waits for. *)
LEMMA ReconnectArrives ==
  ASSUME IInv, Arriving, NEW t \in Tabs, Reconnect(t)
  PROVE  Arriving'
<1> DEFINE tb == [tab[t] EXCEPT !.sock = jar]
<1>1. UNCHANGED <<store, jar, landing>>
  BY DEF Reconnect, server
<1>2. tab[t] \in Tab /\ tab' = [tab EXCEPT ![t] = tb]
  BY DEF Reconnect, IInv, TypeOK
<1>3. /\ tb.load = tab[t].load /\ tb.nav = tab[t].nav /\ tb.sock = jar
      /\ tb.scripts = tab[t].scripts /\ tb.token = tab[t].token
  BY <1>2 DEF Tab
<1> HIDE DEF tb
<1>4. landing[t] # Anon => OnItsWay(tb, jar, store, landing[t])
  <2> SUFFICES ASSUME landing[t] # Anon
               PROVE  OnItsWay(tb, jar, store, landing[t])
    OBVIOUS
  <2>1. OnItsWay(tab[t], jar, store, landing[t])
    BY DEF Arriving
  <2> QED
    BY <1>3, <2>1 DEF OnItsWay, Handed, Leaving, There
<1> QED
  BY <1>1, <1>2, <1>4, TabArrives

(* The only script of a tab is its first, and no other follows. *)
LEMMA OneScript ==
  ASSUME NEW scripts \in Seq(Script), Len(scripts) = 1
  PROVE  Head(scripts) = scripts[1] /\ Tail(scripts) = <<>>
<1>1. scripts # <<>>
  BY SMTT(30), EmptySeq
<1>2. Tail(scripts) \in Seq(Script) /\ Len(Tail(scripts)) = 0
  BY <1>1
<1>3. Head(scripts) = scripts[1]
  BY <1>1
<1>4. Tail(scripts) = <<>>
  BY <1>2, EmptySeq
<1> QED
  BY <1>3, <1>4

(* The script sets the key and starts the timer. *)
LEMMA RunScriptArrives ==
  ASSUME IInv, Arriving, NEW t \in Tabs, RunScript(t)
  PROVE  Arriving'
<1> DEFINE a == tab[t]
           s == Head(a.scripts)
           tb == Ran(a, s)
<1>1. a \in Tab /\ a.scripts # <<>>
  BY DEF RunScript, IInv, TypeOK
<1>2. /\ jar' = IF s.set # NoKey THEN s.set ELSE IF s.clear THEN NoKey ELSE jar
      /\ tab' = [tab EXCEPT ![t] = tb]
      /\ DisturbedBy(Tabs \ {t})
      /\ store' = store
  BY DEF RunScript, IInv, TypeOK, server
<1>3. /\ \A x \in Tabs \ {t} : landing'[x] = Anon
      /\ landing'[t] = landing[t]
  BY <1>2 DEF DisturbedBy
<1>4. ASSUME landing[t] # Anon PROVE OnItsWay(tb, jar', store', landing[t])
  <2> DEFINE u == landing[t]
  <2>1. Handed(a, store, u)
    BY <1>1, <1>4 DEF Arriving, OnItsWay, Leaving, There
  <2>2. a.scripts \in Seq(Script) /\ Len(a.scripts) = 1
    BY <1>1, <2>1 DEF Tab, Handed
  <2>3. s = a.scripts[1] /\ Tail(a.scripts) = <<>>
    BY <2>2, OneScript
  <2>4. /\ s.drop /\ s.nav # Nowhere /\ s.set \in Sessions /\ store[s.set] = u
        /\ ~a.load
    BY <2>1, <2>3 DEF Handed, IsUsers
  <2>5. jar' = s.set
    BY <1>2, <2>4, ConstantsAssumption
  <2> HIDE DEF a, s
  <2>6. /\ tb.load = a.load /\ tb.nav = s.nav /\ tb.scripts = <<>>
        /\ ~tb.token
    <3>1. /\ tb.load = a.load /\ tb.scripts = Tail(a.scripts)
          /\ tb.nav = IF s.nav # Nowhere THEN s.nav ELSE a.nav
      BY <1>1 DEF Ran, Tab
    <3>2. tb.token = (a.token /\ ~s.drop)
      BY <1>1 DEF Ran, Tab
    <3> QED
      BY <2>3, <2>4, <3>1, <3>2
  <2> HIDE DEF tb
  <2>7. Leaving(tb, jar', store', u)
    BY <1>2, <2>4, <2>5, <2>6 DEF Leaving, IsUsers
  <2> QED
    BY <2>7 DEF OnItsWay
<1> HIDE DEF tb
<1> QED
  BY <1>2, <1>3, <1>4, TabArrives

(* The document is loaded with the key the script has set. *)
LEMMA NavigateArrives ==
  ASSUME IInv, Arriving, NEW t \in Tabs, Navigate(t)
  PROVE  Arriving'
<1>1. PICK tb : /\ tab' = [tab EXCEPT ![t] = tb]
                /\ tb.sock = jar /\ tb.load /\ tb.scripts = <<>>
                /\ tb.nav = Nowhere
  <2> DEFINE tb == [page |-> tab[t].nav, sock |-> jar,
                    tree |-> IF tab[t].token THEN tab[t].tree ELSE NoKey,
                    snap |-> IF tab[t].token THEN tab[t].snap ELSE Anon,
                    load |-> TRUE, scripts |-> <<>>, nav |-> Nowhere,
                    token |-> TRUE]
  <2>1. tab' = [tab EXCEPT ![t] = tb]
    BY DEF Navigate, Opened
  <2>2. tb.sock = jar /\ tb.load /\ tb.scripts = <<>> /\ tb.nav = Nowhere
    OBVIOUS
  <2> HIDE DEF tb
  <2> QED
    BY <2>1, <2>2
<1>2. UNCHANGED <<store, jar, landing>> /\ tab[t].nav # Nowhere
  BY DEF Navigate, server
<1>3. ASSUME landing[t] # Anon PROVE OnItsWay(tb, jar, store, landing[t])
  <2>1. Leaving(tab[t], jar, store, landing[t])
    BY <1>2, <1>3 DEF Arriving, OnItsWay, Handed, There
  <2>2. There(tb, jar, store, landing[t])
    BY <1>1, <2>1 DEF Leaving, There
  <2> QED
    BY <2>2 DEF OnItsWay
<1> QED
  BY <1>1, <1>2, <1>3, TabArrives

(* A page opened by hand cancels the landing. *)
LEMMA ReloadArrives ==
  ASSUME IInv, Arriving, NEW t \in Tabs, NEW page, Reload(t, page)
  PROVE  Arriving'
<1>1. PICK tb : tab' = [tab EXCEPT ![t] = tb]
  BY DEF Reload, Opened
<1>2. UNCHANGED <<store, jar>> /\ DisturbedBy({t})
  BY DEF Reload, server
<1>3. landing'[t] = Anon /\ \A x \in Tabs \ {t} : landing'[x] = landing[x]
  BY <1>2 DEF DisturbedBy
<1> QED
  BY <1>1, <1>2, <1>3, TabArrives

(* What disturbs every tab cancels every landing. *)
LEMMA DisturbedArrives == DisturbedBy(Tabs) => Arriving'
  BY DEF DisturbedBy, Arriving

(* Every step keeps it. *)
LEMMA NextArrives == IInv /\ Arriving /\ [Next]_vars => Arriving'
<1> SUFFICES ASSUME IInv, Arriving, [Next]_vars PROVE Arriving'
  OBVIOUS
<1>1. ASSUME NEW t \in Tabs, Loaded(t) PROVE Arriving'
  BY <1>1, LoginLoadedArrives, HomeLoadedArrives DEF Loaded
<1>2. ASSUME NEW t \in Tabs, RunScript(t) \/ Navigate(t) PROVE Arriving'
  BY <1>2, RunScriptArrives, NavigateArrives
<1>3. ASSUME NEW t \in Tabs, UserStep(t) PROVE Arriving'
  <2>1. CASE Plain(t) \/ Upload(t)
    BY <2>1, EventArrives
  <2>2. CASE Fail(t) \/ Logout(t)
    BY <2>2, DisturbedArrives DEF Fail, Logout
  <2>3. CASE Reconnect(t)
    BY <2>3, ReconnectArrives
  <2>4. CASE \E u \in Users : Submit(t, u) \/ Register(t, u)
    BY <2>4, SubmitArrives, RegisterArrives
  <2>5. CASE \E page \in Pages : Reload(t, page)
    BY <2>5, ReloadArrives
  <2> QED
    BY <1>3, <2>1, <2>2, <2>3, <2>4, <2>5 DEF UserStep
<1>4. CASE Elsewhere
  BY <1>4, DisturbedArrives DEF Elsewhere, HttpLogin, HttpLogout, RowLost
<1>5. CASE UNCHANGED vars
  BY <1>5 DEF vars, history, server, Arriving, OnItsWay, Handed, Leaving,
       There, IsUsers
<1> QED
  BY <1>1, <1>2, <1>3, <1>4, <1>5 DEF Next

(* A document loaded on the way presents the key, whatever the copy says. *)
LEMMA LandedByRows == IInv /\ Arriving => LandsSignedIn
<1> SUFFICES ASSUME IInv, Arriving, NEW t \in Tabs,
                    tab[t].load, landing[t] # Anon
             PROVE  NextRunsAs(t) = {landing[t]}
  BY DEF LandsSignedIn
<1>1. landing[t] \in Users /\ There(tab[t], jar, store, landing[t])
  BY DueIsThere
<1>2. \A tree \in Persisted(t, tab[t].sock) :
        Who(Presented(tab[t].sock, tree)) = landing[t]
  BY <1>1, TherePresents
<1>3. \E tree : tree \in Persisted(t, tab[t].sock)
  BY DEF Persisted
<1> QED
  BY <1>2, <1>3 DEF NextRunsAs

-----------------------------------------------------------------------------
(* The theorems. *)

LEMMA NextIInv == IInv /\ [Next]_vars => IInv'
<1> SUFFICES ASSUME IInv, [Next]_vars PROVE IInv'
  OBVIOUS
<1>1. ASSUME NEW t \in Tabs, Loaded(t) PROVE IInv'
  BY <1>1, LoginLoadedStep, RegisterLoadedStep, HomeLoadedStep DEF Loaded
<1>2. ASSUME NEW t \in Tabs, RunScript(t) \/ Navigate(t) PROVE IInv'
  BY <1>2, RunScriptStep, NavigateStep
<1>3. ASSUME NEW t \in Tabs, UserStep(t) PROVE IInv'
  BY <1>3, PlainStep, UploadStep, FailStep, LogoutStep, ReconnectStep,
     SubmitStep, RegisterStep, ReloadStep DEF UserStep
<1>4. ASSUME Elsewhere PROVE IInv'
  BY <1>4, HttpLoginStep, HttpLogoutStep, RowLostStep DEF Elsewhere
<1>5. CASE UNCHANGED vars
  BY <1>5 DEF vars, history, IInv, TypeOK, RowsDrawn, CookiesDrawn, Drawn,
       ScriptsDrawn, OutDead, Dead
<1> QED
  BY <1>1, <1>2, <1>3, <1>4, <1>5 DEF Next

LEMMA SignedOutByRows == IInv => SignedOutStays
<1> SUFFICES ASSUME IInv, NEW t \in out
             PROVE  Who(tab[t].sock) = Anon /\ Who(tab[t].tree) = Anon
  BY DEF SignedOutStays
<1>1. t \in Tabs /\ tab[t].sock \in Key /\ tab[t].tree \in Key
  BY DEF IInv, TypeOK, Tab
<1> QED
  BY <1>1, WhoDead DEF IInv, OutDead

(* Whatever users do in however many tabs, the rows, the cookies and their  *)
(* copies, the snapshots and the scripts stay of their types: an event is   *)
(* presented with a session key or none, and a page shows a user or nobody. *)
THEOREM TypeCorrect == Spec => []TypeOK
<1>1. IInv => TypeOK
  BY DEF IInv
<1> QED
  BY <1>1, InitIInv, NextIInv, PTL DEF Spec

(* After logout, no event of the tab runs as a user, from whichever of the  *)
(* cookies the bridge takes its session key, until the tab signs in or is   *)
(* given a signed-in cookie of the browser: the flushed key is never drawn  *)
(* again, and no copy of another tab's key finds its way into this one.     *)
THEOREM SignedOutSafe == Spec => []SignedOutStays
  BY InitIInv, NextIInv, SignedOutByRows, PTL DEF Spec

(* A sign-out signs the browser out too: once the tab that signed out has   *)
(* run its scripts, the browser's cookie names no session, unless somebody  *)
(* signed in or another tab was in the middle of something.  Until then the *)
(* script that expires the cookie is among those of the tab, behind however *)
(* many others.                                                             *)
THEOREM SignOutFollowed == Spec => []BrowserFollowsSignOut
<1>1. Init => IInv /\ OutFollows
  BY InitIInv, InitFollows
<1>2. IInv /\ OutFollows /\ [Next]_vars => (IInv /\ OutFollows)'
  BY NextIInv, NextFollows
<1> QED
  BY <1>1, <1>2, FollowedByRows, PTL DEF Spec

(* A sign-in lands: the document loaded after it, and the one after that    *)
(* when a registration goes by way of the login page, runs as the user      *)
(* whatever its state tree remembers, unless another tab or view moved the  *)
(* cookie or the session in between.                                        *)
THEOREM SignInLands == Spec => []LandsSignedIn
<1>1. Init => IInv /\ Arriving
  BY InitIInv, InitArrives
<1>2. IInv /\ Arriving /\ [Next]_vars => (IInv /\ Arriving)'
  BY NextIInv, NextArrives
<1> QED
  BY <1>1, <1>2, LandedByRows, PTL DEF Spec

=============================================================================
