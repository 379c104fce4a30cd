------------------------------ MODULE EventAuth ------------------------------
(***************************************************************************)
(* Who a Reflex event runs as.                                             *)
(*                                                                         *)
(* The event bridge turns every event of a browser tab into a synthetic    *)
(* Django request: the session key comes from a cookie header, the session *)
(* and its user are resolved by middleware (or taken from the event cache  *)
(* on the fast path), the result is written to the event cache, and only   *)
(* then the handler runs.  Tabs run concurrently; the events of one tab    *)
(* are serial, because Reflex holds the state lock of the tab's token from *)
(* preprocess to postprocess.  Django HTTP views of the same project sign  *)
(* users in and out behind the bridge's back.                              *)
(*                                                                         *)
(* A step of this module is the code between two awaits that reach a       *)
(* database, with the query the first of them made.  Where the cookies     *)
(* come from is the subject of AuthCookies: here a tab may present any key *)
(* that was ever drawn.                                                    *)
(*                                                                         *)
(* An operator named Op_Variant is Op with a plausible mistake in it; it   *)
(* is used by no action and serves to show which property notices.         *)
(***************************************************************************)
EXTENDS Naturals, FiniteSets

CONSTANTS
  Tabs,           \* Reflex clients: one websocket, token and state tree each
  Sessions,       \* session keys, drawn fresh by Django
  Users,          \* accounts
  Anon,           \* AnonymousUser
  Gone,           \* no django_session row under this key
  NoKey,          \* no session cookie
  FastAuth,       \* RX_EVENT_CACHE_FAST_AUTH
  TTL,            \* RX_EVENT_CACHE_TTL, in ticks
  Kinds,          \* what the handlers of the application do
  EarlyResponse   \* a middleware before SessionMiddleware may answer

ASSUME ConstantsAssumption ==
  /\ Anon \notin Users
  /\ Gone \notin Users \cup {Anon}
  /\ NoKey \notin Sessions
  /\ FastAuth \in BOOLEAN
  /\ TTL \in Nat
  /\ "plain" \in Kinds
  /\ Kinds \subseteq {"plain", "save", "login", "logout"}
  /\ EarlyResponse \in BOOLEAN

VARIABLES
  accounts,  \* rows of auth_user
  store,     \* rows of django_session: the user a session is signed in as
  used,      \* keys Django has drawn so far
  cache,     \* event cache: identity snapshot and remaining lifetime per key
  ev,        \* the event each tab is processing
  \* History variables, read by no guard:
  owner,     \* the user a key was first signed in as
  since,     \* users the event's key was signed in as since the event began
  closed     \* keys logged out by the bridge with no other event resolving

history == <<owner, since, closed>>
vars == <<accounts, store, used, cache, ev, history>>

Identity == Users \cup {Anon}
Key      == Sessions \cup {NoKey}
Phases   == {"idle", "resolve", "hit", "loaded", "handler",
             "flushed", "cycled", "logged_out", "invalidated"}
Resolving == {"hit", "loaded"}

(* sk: the cookie's key; skey: session_key of request.session; row: the    *)
(* user the session was loaded with; who: request.user; cand: the account  *)
(* whose credentials were typed, Anon for wrong ones; born: the accounts   *)
(* at the start; hit: the fast path was taken.                             *)
Event == [pc: Phases, kind: Kinds, tier: {"full", "auth_only"},
          sk: Key, skey: Key, row: Identity, who: Identity, cand: Identity,
          born: SUBSET Users, hit: BOOLEAN]

NoEvent == [pc |-> "idle", kind |-> "plain", tier |-> "full",
            sk |-> NoKey, skey |-> NoKey, row |-> Anon, who |-> Anon,
            cand |-> Anon, born |-> {}, hit |-> FALSE]

Miss == [who |-> Anon, ttl |-> 0]

TypeOK ==
  /\ accounts \in SUBSET Users
  /\ store \in [Sessions -> Identity \cup {Gone}]
  /\ used \in SUBSET Sessions
  /\ cache \in [Sessions -> [who: Identity, ttl: Nat]]
  /\ ev \in [Tabs -> Event]
  /\ owner \in [Sessions -> Identity]
  /\ since \in [Tabs -> SUBSET Identity]
  /\ closed \in SUBSET Sessions

(* No session yet, or one left by an earlier run of the server. *)
Init ==
  /\ accounts = Users
  /\ \E k \in Key, u \in Identity :
       /\ store = [s \in Sessions |-> IF s = k THEN u ELSE Gone]
       /\ owner = [s \in Sessions |-> IF s = k THEN u ELSE Anon]
       /\ used = {k} \cap Sessions
  /\ cache = [s \in Sessions |-> Miss]
  /\ ev = [t \in Tabs |-> NoEvent]
  /\ since = [t \in Tabs |-> {}]
  /\ closed = {}

-----------------------------------------------------------------------------
At(t, p)  == ev[t].pc = p
Step(t, e) == ev' = [ev EXCEPT ![t] = e]
Finish(t) == Step(t, NoEvent)

(* The users the row under k is signed in as: at most one. *)
SignedIn(k) == IF k \in Sessions THEN {store[k]} \cap Users ELSE {}

(* The session loaded under k: one whose row is missing has no key and no  *)
(* user.                                                                   *)
LoadedKey(k) == IF k # NoKey /\ store[k] # Gone THEN k ELSE NoKey

LoadedUser_MissingRow(k) == IF k # NoKey THEN store[k] ELSE Anon
LoadedUser_Cached(k) ==
  IF k = NoKey THEN Anon ELSE IF store[k] = Gone THEN cache[k].who ELSE store[k]
LoadedUser(k) == IF LoadedKey(k) # NoKey THEN store[k] ELSE Anon

Account_Unchecked(u) == u
Account(u) == IF u \in accounts THEN u ELSE Anon

RowWritten(k, u) == store' = [store EXCEPT ![k] = u]

RowDeleted_Kept(k) == store' = store
RowDeleted(k) == store' = [s \in Sessions |-> IF s = k THEN Gone ELSE store[s]]

(* Saving a session updates its row; one deleted meanwhile raises          *)
(* UpdateError.                                                            *)
RowUpdated_OrInserted(k, u) ==
  store' = IF k # NoKey THEN [store EXCEPT ![k] = u] ELSE store
RowUpdated(k, u) ==
  store' = IF LoadedKey(k) # NoKey THEN [store EXCEPT ![k] = u] ELSE store

(* set_cached_event_context: every bridged event stores what it resolved,  *)
(* with a full lifetime.                                                   *)
Remembered(k, u) ==
  cache' = IF k = NoKey \/ TTL = 0 THEN cache
           ELSE [cache EXCEPT ![k] = [who |-> u, ttl |-> TTL]]

(* get_cached_event_context under try_apply_cached_auth. *)
CacheServes_Always(e) ==
  /\ e.tier = "auth_only"
  /\ e.sk # NoKey
  /\ cache[e.sk].ttl > 0
CacheServes(e) ==
  /\ e.tier = "auth_only"
  /\ FastAuth
  /\ e.sk # NoKey
  /\ cache[e.sk].ttl > 0

(* invalidate_event_cache(session_key or None): without a key the whole    *)
(* cache alias is cleared.                                                 *)
Invalidated_Not(k) == cache' = cache
Invalidated(k) ==
  cache' = [s \in Sessions |-> IF k \in {s, NoKey} THEN Miss ELSE cache[s]]

(* A key is signed in as u: a fact the events already running under it may *)
(* rely on.                                                                *)
Bound(k, u) ==
  /\ owner' = [owner EXCEPT ![k] = u]
  /\ since' = [t \in Tabs |-> IF ev[t].pc # "idle" /\ ev[t].sk = k
                              THEN since[t] \cup {u} ELSE since[t]]

(* Bound on the keys Django may draw: a login is started only when a fresh *)
(* one is left for it.  Rows whose key no cookie will ever name are not    *)
(* represented.                                                            *)
KeysSuffice ==
  Cardinality({ t \in Tabs : ev[t].kind = "login" }) < Cardinality(Sessions \ used)

(* The keys a cookie may carry.  The key of a login under way reaches its  *)
(* browser only after LoginSave.                                           *)
Drawn == { ev[t].skey : t \in { x \in Tabs : At(x, "cycled") } }
InCookies == {NoKey} \cup (used \ Drawn)

-----------------------------------------------------------------------------
(* The event bridge: preprocess. *)

(* The tier is resolved and the synthetic request built around the cookie. *)
(* Events of tier "none" touch nothing here; login() and logout() belong   *)
(* to Django-aware states, whose tier is "full".                           *)
StartEvent(t, kind, tier, k, cand) ==
  /\ At(t, "idle")
  /\ k \in InCookies
  /\ kind \in {"login", "logout"} => tier = "full"
  /\ kind # "login" => cand = Anon
  /\ kind = "login" => KeysSuffice
  /\ Step(t, [NoEvent EXCEPT !.pc = "resolve", !.kind = kind, !.tier = tier,
                !.sk = k, !.cand = cand, !.born = accounts])
  /\ since' = [since EXCEPT ![t] = SignedIn(k)]
  /\ UNCHANGED <<accounts, store, used, cache, owner, closed>>

(* try_apply_cached_auth: the session is attached lazily, the user id is   *)
(* taken from the cache; the query for the user is now under way.          *)
ReadCache(t) ==
  /\ At(t, "resolve")
  /\ CacheServes(ev[t])
  /\ Step(t, [ev[t] EXCEPT !.pc = "hit", !.hit = TRUE, !.skey = ev[t].sk,
                !.who = cache[ev[t].sk].who])
  /\ UNCHANGED <<accounts, store, used, cache, history>>

(* SessionMiddleware, AuthenticationMiddleware and aget_user: the session  *)
(* row is read.                                                            *)
LoadSession(t) ==
  /\ At(t, "resolve")
  /\ ~CacheServes(ev[t])
  /\ LET k == ev[t].sk IN
     Step(t, [ev[t] EXCEPT !.pc = "loaded", !.row = LoadedUser(k),
                !.who = LoadedUser(k), !.skey = LoadedKey(k)])
  /\ UNCHANGED <<accounts, store, used, cache, history>>

(* A middleware that answers before SessionMiddleware ran leaves           *)
(* request.user anonymous and no session.  That too is cached.             *)
AnsweredEarly(t) ==
  /\ EarlyResponse = TRUE
  /\ At(t, "resolve")
  /\ ev[t].tier = "full"
  /\ Remembered(ev[t].sk, Anon)
  /\ UNCHANGED <<accounts, store, used, history>>

(* A redirect replaces the handler. *)
EarlyRedirect(t) ==
  /\ AnsweredEarly(t)
  /\ Finish(t)

(* After any other answer the handler runs; one that needs request.session *)
(* fails.                                                                  *)
EarlyAnswer(t) ==
  /\ AnsweredEarly(t)
  /\ ev[t].kind = "plain"
  /\ Step(t, [ev[t] EXCEPT !.pc = "handler"])

(* The account is fetched; then, without another await, the identity is    *)
(* cached and the handler entered.                                         *)
Serve(t) ==
  /\ ev[t].pc \in Resolving
  /\ Remembered(ev[t].sk, Account(ev[t].who))
  /\ Step(t, [ev[t] EXCEPT !.pc = "handler", !.who = Account(ev[t].who)])
  /\ UNCHANGED <<accounts, store, used, history>>

-----------------------------------------------------------------------------
(* Handlers. *)

(* A handler that only reads its request. *)
EndPlain(t) ==
  /\ At(t, "handler")
  /\ ev[t].kind = "plain"
  /\ Finish(t)
  /\ UNCHANGED <<accounts, store, used, cache, history>>

(* SessionProxy.asave: the row is updated with the session as it was       *)
(* loaded; one loaded lazily is read just before.  A session without a key *)
(* is created under a fresh one, which reaches no cookie.                  *)
SaveSession(t) ==
  /\ At(t, "handler")
  /\ ev[t].kind = "save"
  /\ RowUpdated(ev[t].skey,
                IF ev[t].hit THEN LoadedUser(ev[t].skey) ELSE ev[t].row)
  /\ Finish(t)
  /\ UNCHANGED <<accounts, used, cache, history>>

(* _prepare_fresh_session_for_login: the session is flushed before the     *)
(* credentials are looked at.                                              *)
LoginFlush(t) ==
  /\ At(t, "handler")
  /\ ev[t].kind = "login"
  /\ RowDeleted(ev[t].skey)
  /\ Step(t, [ev[t] EXCEPT !.pc = "flushed", !.skey = NoKey, !.row = Anon])
  /\ UNCHANGED <<accounts, used, cache, history>>

(* Wrong credentials. *)
LoginReject(t) ==
  /\ At(t, "flushed")
  /\ ev[t].cand \notin accounts
  /\ Finish(t)
  /\ UNCHANGED <<accounts, store, used, cache, history>>

(* alogin: the flushed session is given a fresh key and row. *)
LoginCycle(t) ==
  /\ At(t, "flushed")
  /\ ev[t].cand \in accounts
  /\ \E s \in Sessions \ used :
       /\ used' = used \cup {s}
       /\ RowWritten(s, Anon)
       /\ Step(t, [ev[t] EXCEPT !.pc = "cycled", !.skey = s,
                     !.who = ev[t].cand])
  /\ UNCHANGED <<accounts, cache, history>>

(* session_async_save binds the new row to the user.  The old key's cache  *)
(* entry is not touched.                                                   *)
LoginSave_Remembers(t) ==
  /\ At(t, "cycled")
  /\ RowWritten(ev[t].skey, ev[t].cand)
  /\ Bound(ev[t].skey, ev[t].cand)
  /\ Remembered(ev[t].sk, ev[t].cand)
  /\ Finish(t)
  /\ UNCHANGED <<accounts, used, closed>>
LoginSave(t) ==
  /\ At(t, "cycled")
  /\ RowWritten(ev[t].skey, ev[t].cand)
  /\ Bound(ev[t].skey, ev[t].cand)
  /\ Finish(t)
  /\ UNCHANGED <<accounts, used, cache, closed>>

(* alogout: the session row is deleted and request.user made anonymous.    *)
LogoutFlush(t) ==
  /\ At(t, "handler")
  /\ ev[t].kind = "logout"
  /\ RowDeleted(ev[t].skey)
  /\ Step(t, [ev[t] EXCEPT !.pc = "logged_out", !.skey = NoKey, !.row = Anon,
                !.who = Anon])
  /\ UNCHANGED <<accounts, used, cache, history>>

(* The cached identity of the cookie's key is dropped after the row. *)
LogoutInvalidate(t) ==
  /\ At(t, "logged_out")
  /\ LET k == ev[t].sk IN
     /\ Invalidated(k)
     /\ closed' = IF k # NoKey /\ store[k] \notin Users
                     /\ \A x \in Tabs : ev[x].pc \in Resolving => ev[x].sk # k
                  THEN closed \cup {k} ELSE closed
  /\ Step(t, [ev[t] EXCEPT !.pc = "invalidated"])
  /\ UNCHANGED <<accounts, store, used, owner, since>>

(* session_async_save writes the flushed session under a fresh key, which  *)
(* reaches no cookie.                                                      *)
LogoutFinish(t) ==
  /\ At(t, "invalidated")
  /\ Finish(t)
  /\ UNCHANGED <<accounts, store, used, cache, history>>

-----------------------------------------------------------------------------
(* Django behind the bridge's back. *)

(* login() of an HTTP view presented with key k: the key is rotated unless *)
(* the session is signed in as this very user already.                     *)
HttpLogin(k, u) ==
  /\ k \in InCookies
  /\ u \in accounts
  /\ SignedIn(k) # {u}
  /\ KeysSuffice
  /\ \E s \in Sessions \ used :
       /\ used' = used \cup {s}
       /\ store' = [x \in Sessions |-> IF x = s THEN u
                                       ELSE IF x = k THEN Gone
                                       ELSE store[x]]
       /\ Bound(s, u)
  /\ UNCHANGED <<accounts, cache, ev, closed>>

(* logout() of an HTTP view: nothing tells the event cache. *)
HttpLogout(k) ==
  /\ k \in InCookies
  /\ store[k] # Gone
  /\ RowDeleted(k)
  /\ UNCHANGED <<accounts, used, cache, ev, history>>

(* The account is deleted; its sessions are not. *)
DeleteUser(u) ==
  /\ u \in accounts
  /\ accounts' = accounts \ {u}
  /\ UNCHANGED <<store, used, cache, ev, history>>

(* Time passes: cache entries age. *)
Tick ==
  /\ cache' = [s \in Sessions |->
                 IF cache[s].ttl > 1 THEN [cache[s] EXCEPT !.ttl = @ - 1]
                 ELSE Miss]
  /\ cache' # cache
  /\ UNCHANGED <<accounts, store, used, ev, history>>

-----------------------------------------------------------------------------
ServerStep(t) ==
  \/ ReadCache(t) \/ LoadSession(t) \/ EarlyRedirect(t) \/ EarlyAnswer(t) \/ Serve(t)
  \/ EndPlain(t) \/ SaveSession(t)
  \/ LoginFlush(t) \/ LoginReject(t) \/ LoginCycle(t) \/ LoginSave(t)
  \/ LogoutFlush(t) \/ LogoutInvalidate(t) \/ LogoutFinish(t)

ClientStep(t) ==
  \E kind \in Kinds, tier \in {"full", "auth_only"}, k \in Key, cand \in Identity :
    StartEvent(t, kind, tier, k, cand)

Environment ==
  \/ \E k \in Sessions : HttpLogout(k)
  \/ \E k \in Key, u \in Users : HttpLogin(k, u)
  \/ \E u \in Users : DeleteUser(u)
  \/ Tick

Next == (\E t \in Tabs : ServerStep(t) \/ ClientStep(t)) \/ Environment

Spec == Init /\ [][Next]_vars

(* The server finishes the events it began and time passes; users and      *)
(* other views owe nothing.                                                *)
FairSpec == Spec /\ WF_vars(Tick) /\ \A t \in Tabs : WF_vars(ServerStep(t))

-----------------------------------------------------------------------------
(* Correctness. *)

(* The phases in which application code may act as ev[t].who, resolved by  *)
(* the bridge from the event's cookie.                                     *)
Running(t) == ev[t].pc \in {"handler", "flushed"}

(* No event ever runs as somebody other than the user who signed in under  *)
(* the session key of its cookie, whatever hands the key's row and cache   *)
(* entry went through while the event was being resolved.                  *)
IdentityIsOwners ==
  \A t \in Tabs : Running(t) /\ ev[t].who # Anon =>
    ev[t].sk # NoKey /\ ev[t].who = owner[ev[t].sk]

(* An event runs as u only if its session was signed in as u at some time  *)
(* since the event began, or the event took the cached fast path.          *)
ServedWhileSignedIn ==
  \A t \in Tabs : Running(t) /\ ev[t].who # Anon /\ ~ev[t].hit =>
    ev[t].who \in since[t]

(* The fast path looks the account up again: no event that began after an  *)
(* account was deleted runs as it.                                         *)
DeletedUserNeverServed ==
  \A t \in Tabs : Running(t) => ev[t].who \in ev[t].born \cup {Anon}

(* A logout through the bridge that met no other event while that event    *)
(* was resolving the same key is final: neither the event cache nor a      *)
(* later event knows the user any more.                                    *)
QuietLogoutIsFinal ==
  \A s \in closed :
    /\ cache[s].who = Anon
    /\ store[s] \notin Users
    /\ \A t \in Tabs : ev[t].pc \in Resolving /\ ev[t].sk = s => ev[t].who = Anon

(* A key that lost its user is never signed in again: a save that races a  *)
(* logout cannot bring the row back.                                       *)
NoResurrection ==
  [][\A s \in Sessions :
       owner[s] \in Users /\ store[s] \notin Users => store'[s] \notin Users]_vars

(* To whoever keeps only the book of sessions, all of this looks like it:  *)
(* whatever the order rows, cache entries and accounts are read and        *)
(* written in, a sign-in or sign-out takes effect at once, a page closed   *)
(* is never opened again, and an event runs as nobody but who held its     *)
(* page when it came (with the fast path: who ever held it).               *)
PageOf(s) ==
  [state |-> IF s \notin used \/ s \in Drawn THEN "blank" ELSE IF store[s] = Gone THEN "closed" ELSE "open",
   of |-> owner[s]]

Phase ==
  [p \in Phases |->
     CASE p = "idle" -> "away"
       [] p \in {"resolve", "hit", "loaded"} -> "asking"
       [] p = "handler" -> "running"
       [] p = "flushed" -> "entering"
       [] p = "cycled" -> "verified"
       [] p \in {"logged_out", "invalidated"} -> "leaving"]

Asks(e, users) ==
  [at |-> Phase[e.pc], key |-> e.sk,
   may |-> IF e.pc = "idle" THEN {} ELSE users,
   who |-> IF e.pc \in {"handler", "cycled"} THEN e.who ELSE Anon]

Pages    == [s \in Sessions |-> PageOf(s)]
Requests == [t \in Tabs |-> Asks(ev[t], since[t])]

Book == INSTANCE SessionBook WITH
          Nobody <- Anon, Cached <- FastAuth,
          known <- accounts, book <- Pages, asked <- Requests

KeepsBook == Book!BookSpec

(* Once a session has lost its user for good, by whatever way, the cached   *)
(* identity expires, and from then on nothing runs as that user: the       *)
(* staleness of the fast path is bounded by RX_EVENT_CACHE_TTL, as         *)
(* bridge/auth_fast_path.py:13 and docs/advanced/security.md:62 have it.   *)
StaleIdentityExpires ==
  \A s \in Sessions :
    <>[](SignedIn(s) = {}) =>
      <>[](\A t \in Tabs : At(t, "handler") /\ ev[t].sk = s => ev[t].who = Anon)

=============================================================================
