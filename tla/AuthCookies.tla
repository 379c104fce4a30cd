----------------------------- MODULE AuthCookies -----------------------------
(***************************************************************************)
(* Where the session key of an event comes from.                           *)
(*                                                                         *)
(* Events arrive over a websocket and cannot answer with Set-Cookie.  The  *)
(* sign-in handlers of the auth pages therefore return scripts: the        *)
(* browser expires and sets its session cookie and, a moment later, loads  *)
(* another page.  The tabs of a browser share its cookies; each tab keeps  *)
(* the cookie header of its websocket handshake, the copy of it persisted  *)
(* in router_data of its state tree, and the auth snapshot shown by its    *)
(* pages.                                                                  *)
(*                                                                         *)
(* An event is one step here, from preprocess to the script it returns;    *)
(* the steps inside it are the subject of EventAuth.  A script is one step *)
(* of the browser, and so is the navigation it announces.                  *)
(*                                                                         *)
(* An operator named Op_Variant is Op with a plausible mistake in it.      *)
(***************************************************************************)
EXTENDS Naturals, Sequences

CONSTANTS
  Tabs,          \* tabs of one browser
  Sessions,      \* session keys
  Left,          \* keys the browser may have from an earlier run of the server
  Users,         \* accounts, registered or not
  Anon,          \* AnonymousUser
  Gone,          \* no django_session row under this key
  NoKey,         \* no session cookie
  OtherCookies,  \* the browser has cookies besides the session's
  AutoSync,      \* RX_AUTH_AUTO_SYNC
  MaxActs        \* bound on what users do

ASSUME ConstantsAssumption ==
  /\ Anon \notin Users
  /\ Gone \notin Users
  /\ NoKey \notin Sessions
  /\ Left \subseteq Sessions
  /\ OtherCookies \in BOOLEAN
  /\ AutoSync \in BOOLEAN
  /\ MaxActs \in Nat

VARIABLES
  accounts,  \* registered users
  store,     \* rows of django_session with the user they are signed in as
  used,      \* keys Django has drawn
  jar,       \* the browser's session cookie
  tab,       \* the tabs
  acts,      \* number of things the users did
  \* History variables, read by no guard:
  landing,   \* the user a tab has just signed in as, until it got there
  out,       \* tabs signed out and given no signed-in key since
  signedOut  \* the tab whose sign-out the browser is to follow, or none

history == <<landing, out, signedOut>>
server == <<accounts, store, used>>
vars == <<accounts, store, used, jar, tab, acts, history>>

Identity == Users \cup {Anon}
Key      == Sessions \cup {NoKey}
Pages    == {"home", "login", "register"}
Nowhere  == "nowhere"

ASSUME NowhereAssumption == Nowhere \notin Tabs

(* drop: removes the websocket token; clear: expires the session cookie;   *)
(* set: assigns it; nav: the page loaded 200 ms later.                     *)
Script == [drop: BOOLEAN, clear: BOOLEAN, set: Key, nav: Pages \cup {Nowhere}]

(* sock: the session cookie of the handshake; tree: the one in router_data *)
(* of the state tree; snap: the auth snapshot; load: the page's load event *)
(* is due; scripts: returned by events and not run yet; nav: page about to *)
(* be loaded; token: the websocket token will survive that.                *)
Tab == [page: Pages, sock: Key, tree: Key, snap: Identity, load: BOOLEAN,
        scripts: Seq(Script), nav: Pages \cup {Nowhere}, token: BOOLEAN]

TypeOK ==
  /\ accounts \in SUBSET Users
  /\ store \in [Sessions -> Users \cup {Gone}]
  /\ used \in SUBSET Sessions
  /\ jar \in Key
  /\ tab \in [Tabs -> Tab]
  /\ acts \in 0 .. MaxActs
  /\ landing \in [Tabs -> Identity]
  /\ out \in SUBSET Tabs
  /\ signedOut \in Tabs \cup {Nowhere}

(* The browser starts with no session, a signed-in or a lost one, and the  *)
(* protected or the login page just opened in each tab.                    *)
Init ==
  /\ accounts \in SUBSET Users
  /\ jar \in Left \cup {NoKey}
  /\ used = {jar} \cap Sessions
  /\ \E u \in Users \cup {Gone} :
       store = [s \in Sessions |-> IF s = jar THEN u ELSE Gone]
  /\ \E p \in [Tabs -> {"home", "login"}] :
       tab = [t \in Tabs |->
                [page |-> p[t], sock |-> jar, tree |-> NoKey, snap |-> Anon,
                 load |-> TRUE, scripts |-> <<>>, nav |-> Nowhere,
                 token |-> TRUE]]
  /\ acts = 0
  /\ landing = [t \in Tabs |-> Anon]
  /\ out = {}
  /\ signedOut = Nowhere

-----------------------------------------------------------------------------
(* The user of the session under k: nobody if its row is missing. *)
Who_MissingRow(k) == IF k \in Sessions THEN store[k] ELSE Anon
Who(k) == IF k \in Sessions /\ store[k] # Gone THEN store[k] ELSE Anon

Act == acts < MaxActs /\ acts' = acts + 1

(* Rows deleted under k and written under s. *)
Rotated(k, s, u) ==
  store' = [x \in Sessions |-> IF x = s THEN u ELSE IF x = k THEN Gone ELSE store[x]]
Deleted(k) == store' = [x \in Sessions |-> IF x = k THEN Gone ELSE store[x]]

(* _resolve_router_data: a cookie header of the event is preferred to the  *)
(* one persisted in the state tree.  A header may hold other cookies only. *)
Presented(header, tree) == IF header # NoKey \/ OtherCookies THEN header ELSE tree

(* router_data of the state when the bridge runs: as it was, or already    *)
(* replaced by that of the event; which is up to Reflex.                   *)
Persisted(t, header) == {tab[t].tree, header}

(* mirror_auth_cookies_to_state_tree for an authenticated request. *)
Mirrored(tree, k) == IF Who(k) = Anon THEN tree ELSE k

(* preprocess for an event of t presented with key k; synced says that the *)
(* handler or the bridge refreshes the snapshot.                           *)
Bridged(t, tree, k, synced) ==
  [tab[t] EXCEPT !.tree = Mirrored(tree, k),
                 !.snap = IF synced THEN Who(k) ELSE tab[t].snap]

Returned(tb, script) == [tb EXCEPT !.scripts = Append(@, script)]

(* browser_auth_cookies_clear_js. *)
ClearCookies == [drop |-> FALSE, clear |-> TRUE, set |-> NoKey, nav |-> Nowhere]

(* _sync_session_cookie_then_nav: the cookie is expired, then set to the   *)
(* session's key; without a key it is left alone.                          *)
SyncCookieThenNav_KeyLost(k, page) ==
  [drop |-> TRUE, clear |-> TRUE, set |-> NoKey, nav |-> page]
SyncCookieThenNav(k, page) ==
  [drop |-> TRUE, clear |-> k # NoKey, set |-> k, nav |-> page]

(* The same with clear_cookie, after a sign-out. *)
SignOutThenNav_Sync(page) ==
  [drop |-> TRUE, clear |-> FALSE, set |-> NoKey, nav |-> page]
SignOutThenNav(page) ==
  [drop |-> TRUE, clear |-> TRUE, set |-> NoKey, nav |-> page]

-----------------------------------------------------------------------------
(* History. *)

(* Somebody else moved the ground under the tabs that are signing in. *)
DisturbedBy(T) ==
  landing' = [x \in Tabs |-> IF x \in T THEN Anon ELSE landing[x]]

(* t has nothing under way in the browser. *)
Quiet(t) == tab[t].scripts = <<>> /\ tab[t].nav = Nowhere /\ ~tab[t].load

(* A tab that is about to be navigated away may lose its sign-in. *)
Lands(t, u) ==
  landing' = [x \in Tabs |-> IF x = t /\ Quiet(t) THEN u ELSE Anon]

(* t is given the browser's cookie. *)
Given(t) == out' = IF Who(jar) # Anon THEN out \ {t} ELSE out

-----------------------------------------------------------------------------
(* Load events of the pages. *)

Due(t, page) == tab[t].load /\ tab[t].page = page

(* on_load_login: the snapshot is refreshed; a signed-in user is sent home *)
(* with his cookie set again, for anybody else the cookies are expired.    *)
LoginLoaded_StaleSnapshot(t) ==
  /\ Due(t, "login")
  /\ \E tree \in Persisted(t, tab[t].sock) :
       LET k == Presented(tab[t].sock, tree)
           b == [Bridged(t, tree, k, AutoSync) EXCEPT !.load = FALSE]
       IN tab' = [tab EXCEPT ![t] =
                    Returned(b, IF b.snap = Anon THEN ClearCookies
                                ELSE SyncCookieThenNav(k, "home"))]
  /\ UNCHANGED <<server, jar, acts, history>>
LoginLoaded(t) ==
  /\ Due(t, "login")
  /\ \E tree \in Persisted(t, tab[t].sock) :
       LET k == Presented(tab[t].sock, tree)
           b == [Bridged(t, tree, k, TRUE) EXCEPT !.load = FALSE]
       IN tab' = [tab EXCEPT ![t] =
                    Returned(b, IF b.snap = Anon THEN ClearCookies
                                ELSE SyncCookieThenNav(k, "home"))]
  /\ UNCHANGED <<server, jar, acts, history>>

(* on_load_register: likewise, but the cookies of others are left alone. *)
RegisterLoaded(t) ==
  /\ Due(t, "register")
  /\ \E tree \in Persisted(t, tab[t].sock) :
       LET k == Presented(tab[t].sock, tree)
           b == [Bridged(t, tree, k, TRUE) EXCEPT !.load = FALSE]
       IN tab' = [tab EXCEPT ![t] =
                    IF b.snap = Anon THEN b
                    ELSE Returned(b, SyncCookieThenNav(k, "home"))]
  /\ UNCHANGED <<server, jar, acts, history>>

(* The guard mounted on a protected page: whoever is not signed in is sent *)
(* to the login page over the same websocket.                              *)
HomeLoaded(t) ==
  /\ Due(t, "home")
  /\ \E tree \in Persisted(t, tab[t].sock) :
       LET k == Presented(tab[t].sock, tree)
           b == Bridged(t, tree, k, TRUE)
       IN tab' = [tab EXCEPT ![t] =
                    IF Who(k) = Anon THEN [b EXCEPT !.page = "login"]
                    ELSE [b EXCEPT !.load = FALSE]]
  /\ DisturbedBy({t})
  /\ UNCHANGED <<server, jar, acts, out, signedOut>>

-----------------------------------------------------------------------------
(* Events of the user in a tab: Reflex works off the load event first. *)
Ready(t) == ~tab[t].load

(* Any other handler of a Django-aware state. *)
Plain(t) ==
  /\ Ready(t) /\ Act
  /\ \E tree \in Persisted(t, tab[t].sock) :
       tab' = [tab EXCEPT ![t] =
                 Bridged(t, tree, Presented(tab[t].sock, tree), AutoSync)]
  /\ UNCHANGED <<server, jar, history>>

(* An upload is an HTTP request of its own: its event is given the cookies *)
(* the browser has now (inject_router_data_into_event).                    *)
Upload(t) ==
  /\ Ready(t) /\ Act
  /\ \E tree \in Persisted(t, jar) :
       tab' = [tab EXCEPT ![t] =
                 Bridged(t, tree, Presented(jar, tree), AutoSync)]
  /\ Given(t)
  /\ UNCHANGED <<server, jar, landing, signedOut>>

(* submit_login with good credentials: the presented session is flushed    *)
(* and the cookie copies dropped; then a new session is signed in, copied  *)
(* to the state tree and handed to the browser.                            *)
Submit(t, u) ==
  /\ Ready(t) /\ Act
  /\ tab[t].page = "login"
  /\ u \in accounts
  /\ \E tree \in Persisted(t, tab[t].sock), s \in Sessions \ used :
       /\ used' = used \cup {s}
       /\ Rotated(Presented(tab[t].sock, tree), s, u)
       /\ tab' = [tab EXCEPT ![t] =
                    Returned([@ EXCEPT !.tree = s, !.snap = u],
                             SyncCookieThenNav(s, "home"))]
  /\ Lands(t, u)
  /\ out' = out \ {t}
  /\ signedOut' = Nowhere
  /\ UNCHANGED <<accounts, jar>>

(* With bad credentials the session is gone already; the snapshot is not   *)
(* refreshed after that.                                                   *)
Fail(t) ==
  /\ Ready(t) /\ Act
  /\ tab[t].page = "login"
  /\ \E tree \in Persisted(t, tab[t].sock) :
       LET k == Presented(tab[t].sock, tree) IN
       /\ Deleted(k)
       /\ tab' = [tab EXCEPT ![t] =
                    [Bridged(t, tree, k, AutoSync) EXCEPT !.tree = NoKey]]
  /\ DisturbedBy(Tabs)
  /\ UNCHANGED <<accounts, used, jar, out, signedOut>>

(* handle_registration: the new account is signed in, without flushing     *)
(* first; alogin rotates the key.                                          *)
Register(t, u) ==
  /\ Ready(t) /\ Act
  /\ tab[t].page = "register"
  /\ u \notin accounts
  /\ accounts' = accounts \cup {u}
  /\ \E tree \in Persisted(t, tab[t].sock), s \in Sessions \ used :
       /\ used' = used \cup {s}
       /\ Rotated(Presented(tab[t].sock, tree), s, u)
       /\ tab' = [tab EXCEPT ![t] =
                    Returned([@ EXCEPT !.tree = s, !.snap = u],
                             SyncCookieThenNav(s, "login"))]
  /\ Lands(t, u)
  /\ out' = out \ {t}
  /\ signedOut' = Nowhere
  /\ UNCHANGED jar

(* logout: the presented session is flushed, the cookie copies dropped.    *)
(* The browser is to follow if no other tab is in the middle of something. *)
Logout_KeepsTree(t) ==
  /\ Ready(t) /\ Act
  /\ \E tree \in Persisted(t, tab[t].sock) :
       /\ Deleted(Presented(tab[t].sock, tree))
       /\ tab' = [tab EXCEPT ![t] =
                    Returned([@ EXCEPT !.tree = tree, !.snap = Anon],
                             SignOutThenNav("login"))]
  /\ DisturbedBy(Tabs)
  /\ out' = out \cup {t}
  /\ signedOut' = IF \A x \in Tabs \ {t} : Quiet(x) THEN t ELSE Nowhere
  /\ UNCHANGED <<accounts, used, jar>>
Logout(t) ==
  /\ Ready(t) /\ Act
  /\ \E tree \in Persisted(t, tab[t].sock) :
       /\ Deleted(Presented(tab[t].sock, tree))
       /\ tab' = [tab EXCEPT ![t] =
                    Returned([@ EXCEPT !.tree = NoKey, !.snap = Anon],
                             SignOutThenNav("login"))]
  /\ DisturbedBy(Tabs)
  /\ out' = out \cup {t}
  /\ signedOut' = IF \A x \in Tabs \ {t} : Quiet(x) THEN t ELSE Nowhere
  /\ UNCHANGED <<accounts, used, jar>>

-----------------------------------------------------------------------------
(* The browser. *)

(* A tab after its first script: the timer may be started. *)
Ran(tb, s) ==
  [tb EXCEPT !.scripts = Tail(@), !.token = @ /\ ~s.drop,
             !.nav = IF s.nav # Nowhere THEN s.nav ELSE @]

(* The next script: expire, then assign, then start the timer. *)
RunScript(t) ==
  /\ tab[t].scripts # <<>>
  /\ LET s == Head(tab[t].scripts) IN
     /\ jar' = IF s.set # NoKey THEN s.set ELSE IF s.clear THEN NoKey ELSE jar
     /\ tab' = [tab EXCEPT ![t] = Ran(@, s)]
     /\ DisturbedBy(Tabs \ {t})
     /\ signedOut' = IF s.set # NoKey THEN Nowhere ELSE signedOut
  /\ UNCHANGED <<server, acts, out>>

(* A document is loaded and a websocket opened with the browser's cookies. *)
(* The state tree is found again if the websocket token survived.          *)
Opened(t, page) ==
  tab' = [tab EXCEPT ![t] =
            [page |-> page, sock |-> jar,
             tree |-> IF tab[t].token THEN tab[t].tree ELSE NoKey,
             snap |-> IF tab[t].token THEN tab[t].snap ELSE Anon,
             load |-> TRUE, scripts |-> <<>>, nav |-> Nowhere, token |-> TRUE]]

ScriptsLost(t) ==
  signedOut' = IF signedOut = t /\ tab[t].scripts # <<>> THEN Nowhere ELSE signedOut

(* The timer of a script fires. *)
Navigate(t) ==
  /\ tab[t].nav # Nowhere
  /\ Opened(t, tab[t].nav)
  /\ Given(t)
  /\ ScriptsLost(t)
  /\ UNCHANGED <<server, jar, acts, landing>>

(* The user opens a page anew. *)
Reload(t, page) ==
  /\ Act
  /\ Opened(t, page)
  /\ Given(t)
  /\ ScriptsLost(t)
  /\ DisturbedBy({t})
  /\ UNCHANGED <<server, jar>>

(* The websocket is lost and opened again under the same page. *)
Reconnect(t) ==
  /\ Act
  /\ tab' = [tab EXCEPT ![t].sock = jar]
  /\ Given(t)
  /\ UNCHANGED <<server, jar, landing, signedOut>>

(* A Django view, say the admin's, signs the browser in or out; or a row   *)
(* is deleted in some other way.                                           *)
HttpLogin(u) ==
  /\ Act
  /\ u \in accounts
  /\ Who(jar) # u
  /\ \E s \in Sessions \ used :
       /\ used' = used \cup {s}
       /\ Rotated(jar, s, u)
       /\ jar' = s
  /\ DisturbedBy(Tabs)
  /\ signedOut' = Nowhere
  /\ UNCHANGED <<accounts, tab, out>>

HttpLogout ==
  /\ Act
  /\ Deleted(jar)
  /\ jar' = NoKey
  /\ DisturbedBy(Tabs)
  /\ UNCHANGED <<accounts, used, tab, out, signedOut>>

RowLost(k) ==
  /\ Act
  /\ store[k] # Gone
  /\ Deleted(k)
  /\ DisturbedBy(Tabs)
  /\ UNCHANGED <<accounts, used, jar, tab, out, signedOut>>

-----------------------------------------------------------------------------
Loaded(t) == LoginLoaded(t) \/ RegisterLoaded(t) \/ HomeLoaded(t)

UserStep(t) ==
  \/ Plain(t) \/ Upload(t) \/ Fail(t) \/ Logout(t) \/ Reconnect(t)
  \/ \E u \in Users : Submit(t, u) \/ Register(t, u)
  \/ \E page \in Pages : Reload(t, page)

Elsewhere ==
  \/ \E u \in Users : HttpLogin(u)
  \/ HttpLogout
  \/ \E k \in Sessions : RowLost(k)

Next ==
  \/ \E t \in Tabs : Loaded(t) \/ RunScript(t) \/ Navigate(t) \/ UserStep(t)
  \/ Elsewhere

Spec == Init /\ [][Next]_vars

(* The server handles the events it has and the browser runs its scripts   *)
(* and timers; users owe nothing.                                          *)
FairSpec ==
  /\ Spec
  /\ \A t \in Tabs :
       WF_vars(Loaded(t)) /\ WF_vars(RunScript(t)) /\ WF_vars(Navigate(t))

-----------------------------------------------------------------------------
(* Correctness. *)

(* The users t's next event may run as. *)
NextRunsAs(t) ==
  { Who(Presented(tab[t].sock, tree)) : tree \in Persisted(t, tab[t].sock) }

(* The document loaded after a sign-in sends the new session: unless        *)
(* another tab or view acts on the cookie or the session in between, the    *)
(* pages on the way know the user (session_auth.py:35-41).                  *)
LandsSignedIn ==
  \A t \in Tabs : tab[t].load /\ landing[t] # Anon => NextRunsAs(t) = {landing[t]}

(* And the tab does arrive at the protected page, also by way of the login  *)
(* page after a registration.                                               *)
SignInArrives == \A t \in Tabs : landing[t] # Anon ~> landing[t] = Anon

(* A tab that signed out runs as nobody, whatever is left in its state tree *)
(* or websocket, until it signs in or is given a signed-in cookie of the    *)
(* browser (auth_bridge.py, logout: later events in the same page life do   *)
(* not resurrect the old session).                                          *)
SignedOutStays ==
  \A t \in out : Who(tab[t].sock) = Anon /\ Who(tab[t].tree) = Anon

(* A sign-out signs the browser out, even from a tab that was opened before *)
(* another one signed in and hence ended another session.                   *)
BrowserFollowsSignOut ==
  \A t \in Tabs : signedOut = t /\ tab[t].scripts = <<>> => Who(jar) = Anon

=============================================================================
