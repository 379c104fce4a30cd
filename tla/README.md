# Verification of reflex-django

reflex-django runs Reflex state handlers inside a Django project. Every event
a browser sends over the websocket gets a Django request with session, user and
middleware; state classes get list and form handlers over Django models; lists
follow the table they show while other requests write to it. This directory
holds TLA+ models of the parts in which several actors meet, the TLC runs that
check them and machine-checked proofs of their main properties.

Paths are relative to `src/reflex_django/` unless they begin with `docs/`.

## Inventory

| Component | State it keeps | Operations | Hard behaviour | What makes it correct |
|---|---|---|---|---|
| Event bridge (`bridge/event/`, `bridge/event_handler.py`, `bridge/cache.py`, `bridge/auth_fast_path.py`) | event cache; session rows; the request of an event; chains of middleware | preprocess, middleware chain, fast path, cache write and invalidation | an event spans many awaits during which other tabs and HTTP views sign in and out, delete accounts, expire entries | an event runs as the user its session has, never as another; a sign-out is final |
| Sign-in and sign-out (`state/auth_bridge.py`) | session row, key, auth snapshot of the state | login, logout, asave | the session is flushed, rotated and saved in separate steps; a save races a deletion | a lost session is not resurrected |
| Request context (`bridge/context.py`, `state/request_binding.py`, `runtime/integration/patches/events.py`) | context variables of a task, wrappers on states | begin, end, bind on a branch, bind again | events end by redirect or exception without their postprocess; states outlive events | a handler sees its own event's request or none |
| Live updates (`live/`) | broadcaster subscriptions and queues, list var | publish, subscribe, apply, unsubscribe | threads, a transaction around the signal, a background task beside foreground events | the list ends up as the table |
| ModelState (`state/`) | list, page, search, form and error vars | load, page, search, save, delete, edit | each ORM call is an await; other requests write in between; the list may be patched instead of loaded | between events the list is its page of the table; nothing is inserted twice |
| Bridge tier, request building (`bridge/`) | overrides, cached mode | resolve, build | a mode cached once for the process | an event that needs the user gets at least the auth middleware |
| Auth cookies (`bridge/session_js.py`, `mixins/session_auth.py`, `bridge/event/router_data.py`, `bridge/upload.py`) | the browser's cookie, its copies in the websocket handshake and in the state tree, scripts under way, snapshot vars | mirror, set, clear, navigate | the copies age differently; scripts of two tabs write one cookie; an upload's cookie is newer than the socket's | who signs in lands signed in; a sign-out is not undone by an old copy |
| Registration, sign-in by name or email, password reset (`auth/mixins/`, `auth/login_fields.py`) | user table, mailed links, form vars | register, authenticate, request and confirm a reset | every check and write is a query of its own; links are used late, twice, from two tabs or two processes | the right password gets in; a password changes only for a link that was good |
| Decorators and guards (`auth/decorators.py`, `auth/mixins/navigation.py`, `auth/shortcuts.py`) | page, hydration, queue of a tab | guard, redirect, check a click | sessions and rights change between the events of a page; guards queue themselves again; redirects may go in circles | who is not allowed is sent away; a guarded handler runs only for whom it admits; the tab comes to rest |
| Pages (`pages/`, `auth/registry.py`, `runtime/app_factory.py`, `runtime/compile_validate.py`) | Reflex's page buckets, `PAGE_REGISTRY`, the app, `context.js` | decorate, migrate, add auth pages, prepare, compile | the app's name is not known when pages are decorated; preparation runs again and again | every registered page is served; every state has a dispatcher |
| Start-up and mounts (`runtime/`, `mount/`, `django/`, `setup/conf.py`, `bootstrap/`, `plugins/`) | pillars, once-only flags, mount registrations, the URLconf | configure, install, patch, import, mount, refresh | two doors, any order of `INSTALLED_APPS`, code of the user that calls back in | the catch-all comes last; the admin is complete; the dispatcher and the URLconf agree |
| Generated frontend, ASGI entry (`dev/vite_proxy.py`, `dev/frontend_stability.py`, `asgi/`) | files of `.web`, what Vite has loaded | compile, strip, patch, route | a run killed between two files, a run of another kind after it, Vite reading in between | a path asked of Vite ends where it belongs; Vite comes up |
| Mount view (`views/mount.py`, `dev/proxy.py`, `mount/spa_paths.py`) | pause of the proxy | proxy, serve from disk, disable | overlapping requests end late and change the pause | the disk answers only because of an outage; the pause ends |
| Devtools, serializers, schema, scaffold, core | - | - | - | - |

Interactions: the event bridge runs before every handler of a state, hence
before every ModelState and auth operation; the request context carries its
result to the handler; the decorators and guards ask that request for its user;
registration and sign-in end in the sign-in the cookies are about; the
development server, the mount view and the dispatcher pass one request on to
each other; ModelState handlers and other requests write the table
whose signals feed live updates; sign-in and sign-out change the session rows
the bridge reads and the cache it writes. PROJECT.json lists every component
with what is and is not modelled, and the hazards, each with the property that
covers it.

## Modules

An operator named `Op_Variant` is `Op` with a plausible mistake in it. No action
uses it; it is there to show which property notices the mistake.

### EventAuth: who an event runs as

State: account rows, session rows, drawn keys, the event cache, one event per
tab. A step is the code between two awaits that reach a database. Events of one
tab are serial, because Reflex holds the state lock of the tab's token; tabs and
HTTP views interleave freely. `StartEvent` is preprocess up to the request,
`ReadCache`/`LoadSession`/`Serve` are `bridge_request_for_state`, `EarlyRedirect`
and `EarlyAnswer` a middleware that answers before the session is loaded,
`Login...`, `Logout...`, `SaveSession` the handlers of `AuthBridgeMixin`, and
`HttpLogin`, `HttpLogout`, `DeleteUser`, `Tick` what Django's own views, an
administrator and time do. `owner`, `since` and `closed` are history variables
that no guard reads.

`SessionBook` is what the bridge and Django's views promise together: a book with a
page for each key, blank, then one user's or nobody's, then closed for good. A
sign-in closes the page it came with and opens another, a sign-out closes one, each
in a step; an event comes with a key and runs as nobody or as whoever held its page
when it came (with identities cached: whoever has held it). There is no cache, no row
and no middleware in it. `EventAuth` implements it (`KeepsBook`): a page is blank
until the login that drew the key has bound it (`PageOf`), and of an event one sees
only whether it asks, runs, has left its page, or is verified (`Asks`). Resolving a
session, saving one, caching and dropping an identity are stutters. That a session
that lost its user never gets one back is part of it: no action reopens a page.

### BridgeContext: which request a handler sees

State: `_request_var`, its reset token and `_event_tier_var` per task, the
wrapper per state of the tree. The events of a tab run one at a time on any
task; each goes through preprocess, the patched `process_event`, the handler and
postprocess, or stops early after a redirect or an exception. Requests are known
by the number of their event. The reset token restores what was bound before,
as `ContextVar.reset` does, so that a leak could surface later.

### LiveList: a list and its table

State: the table, the threads of other requests and of the tab with their
transactions, subscriptions and queues, the background task and the foreground
event of the tab, its list. Signals publish where Django sends them: `post_save`
after the save (inside the transaction of the request, if any), `post_delete`
inside the transaction of `delete()`. Reading a row again and patching the list
is one step, under the state lock.

An update may bring a row into the scope of a list or take it out (`Save`). The tab
hears of the first as of any other update, and `apply_live_change` then patches a row
the list does not have, which does nothing (`state/mixins/list.py:49`; the result is
ignored at `live/state.py:42`): such a row appears when the list is loaded again.
`docs/advanced/live-updates.md:35` says as much (an update replaces a row that is on
the page). `entered` is a history variable that collects these rows per tab, from the
commit of the update to the next load; `InSync` and `ListConverges` leave them out,
in one direction only: what is listed must still be as in the table.

The lists of LiveList and ModelState are filtered with `Picks`, a list
comprehension (the elements of a sequence at some of its positions) that can be
reasoned about, unlike the folds of the libraries.

### ModelState: list, pages, search and form of a tab

State: the vars of one state and the table. Each await of the ORM is a step;
other requests write between the steps and a step may raise. `opts` are the
Meta options of the class, fixed at the start; a run checks several classes.

### AuthCookies: which session an event is presented with

State: the browser's session cookie, the session rows, and per tab the page, the
cookie of its websocket handshake (`sock`), the copy in `router_data` of its
state tree (`tree`), the auth snapshot, the scripts that events returned and the
browser has not run (`scripts`), and the navigation whose timer is running
(`nav`). An event is one step, from preprocess to the script it returns: the
steps inside it are EventAuth's. Running a script (`RunScript`: expire, set,
start the timer) and the navigation 200 ms later (`Navigate`) are steps of the
browser, so that scripts and page loads of other tabs come in between.
`LoginLoaded`, `RegisterLoaded` and `HomeLoaded` are the load events of the auth
pages and the page guard; `Submit`, `Fail`, `Register`, `Logout` the handlers;
`Plain` is any other event and `Upload` one that arrives over HTTP with the
cookies the browser has now. `Presented` is `_resolve_router_data`: the event's
cookie header, or else the copy. Whether Reflex has put the event's router data
into the state by the time the bridge reads it is not fixed by this repository:
`Persisted` leaves it open. The CSRF cookie, cookie attributes and `localStorage`
are left out; the session cookie is visible to scripts (not `HttpOnly`), which the
mixins require.

`landing`, `out` and `signedOut` are history variables. `landing` follows a
sign-in only from a tab that has nothing else under way and until somebody else
touches the cookie or the session: the code does not promise more (see the
hazards at `mixins/session_auth.py`).

### BridgeTier: how much of Django an event gets

A pure decision, without state: the custom resolver, the class, the mode of the
site, the minimum for uploads. BridgeContext runs events of every tier the
decision can return (`ResolvedTiers`).

### EventChains: the middleware an event runs through

`load_middleware` replaces `settings.MIDDLEWARE` for the whole process while Django
builds a chain from it, and puts it back. Each of these statements is a step
(`ReadSetting`, `ReplaceSetting`, `LoadMiddleware`, which may fail,
`RestoreSetting`); `GetHandler` and `Release` are the lock around them and the
chains that are kept. With a single event loop nothing can come in between; the
lock says that threads may, and `Loops` are those. What a chain does to an event is
EventAuth's.

### DevPorts, MountView: what Django answers where it has nothing itself

`DevPorts` is the decision, from settings and environment, whether there is a
Vite to pass requests on to. `MountView` handles some requests side by side: up
to the `await` of the proxy (`Handle`, which also finds out that the process is
its own Vite), and after it (`ProxyEnds`). `_vite_unreachable_until` is `cool`,
in ticks. `DiskAnswer` is the search in the directories of the bundle; a
directory is the set of files it has. Vite goes up and down at any time.

### WebLayout: the generated frontend over runs

State: the configuration of the run, the writes still to come (`steps`), the
plugin's file, `vite.config.js`, `env.json`, whether the components are patched,
and what Vite has loaded. A step writes one file. `Killed` ends a run anywhere,
`StartRun` may start one of another kind in the same directory, `Reload`
compiles again with other prefixes, `ViteLoads` reads whatever is there.
`Answerer` follows a path from server to server: Vite's plugin and rules, the
dispatcher of `asgi/app.py`, the mount view.

### Startup: from a process's start to a mounted URLconf

State: the stack of calls (`todo`), what Django, the URLconf, the integration and
the app know. The process is entered by Reflex (`install`) or by Django
(`configure`); calls replace themselves by those they make. `Hook` is code of the
project that may call `django.setup`, ask for prefixes or for the configuration
wherever Django runs such code. URL patterns are the prefixes they are for.
Mounting asks for Reflex's configuration, for its ports (`AsksConfig`). Where the
package's `.pth` hook has wrapped `get_config` (`boot.pth`), asking installs the
integration, which mounts: `AutoMount`, `Mount` and `AddCatchAll` are steps of their
own for that, and `Import` runs `urls.py` up to a `urlpatterns += reflex_mount()` of
its own, which is the form of a manual mount that is modelled. An error in the
installation is forgiven where only the ports were asked for (`Forgiven`).
`proxy.enabled` is taken to be on, and the environment variables that repeat a
setting (`RX_PROXY_SERVER`, `RX_AUTO_MOUNT`) are left to the setting.

### Accounts, AccountBook: registration, sign-in, reset

A query of an event is a step; events of one process alternate between queries,
those of two processes at any time (`Free`), as `sync_to_async` has one thread per
process. `ConfirmReads` and `ConfirmSaves` are the check of the link and the save
inside one thread. `AccountBook` is what both promise together: names given out
once, passwords changed only for a confirmation that was let through by a link
that still worked. `Accounts` implements it (`KeepsTheBook`) under the mapping
that reads password, live links and confirmations under way off its tables.
`seen` and `right` are history variables.

### Guards: pages and handlers for some

State: the session's user, the holders of a right, the tab's page, hydration and
known sign-in, its queue and the event being handled. Events are handled one at
a time; the user is loaded when one begins (`TakeEvent`) and a right may be asked
of the database later (`HandleEvent`). `Redirect` keeps the state and the queue,
`Relocate` reloads the document. The guard of a page for signed-in users is mounted
wherever its content is not shown, so it comes again whenever an event lets the
content give way (`Remounts`). A guarded handler (`Click`) sends strangers to the
page its decorator names, `sentTo`, which is the login page unless it says otherwise;
those without the right too, unless their denial is handled (`on_denied`,
`on_permission_denied`). `@login_required` handlers are the first half of that. A page
may have such a handler for its load (`loads`). Not modelled are redirects that are
the project's own: of its middleware (`bridge/event/preprocess.py:299`), its handlers
and its `on_denied`. Policies that send the refused to a page that itself asks for
the right, or to one whose load sends them there again, are excluded by assumption:
they are circles the project configures. `meanwhile` and `ran` are history variables.

### Pages: what the app serves

State: Reflex's buckets of decorated pages, `PAGE_REGISTRY`, the pages and load
events of the app, `context.js`. Modules of the project decorate pages at any
time (`Decorate`), with routes spelled in more than one way; preparation
(`Prepare`) and compilation (`CompileApp`) run as often as they like. Which of the
late pages have been decorated goes by their position (`Late`), as the same page may
also be one of the views. `context.js` is the set of states it has a dispatcher for;
an earlier run may have left one that is complete, lacks some state or has none, and
whether the package finds it where it looks goes by the settings (`webPath`).

### Proof modules

Each of `EventAuthProofs`, `AuthCookiesProofs`, `LiveListProofs`, `ModelStateProofs`
and `AccountsProofs` extends the module it is about. The smaller machines share two:
`SiteProofs` is about what comes before the app (MountView, WebLayout, Startup),
`AppProofs` about the app (BridgeContext, EventChains, Guards, Pages). `PickTheorems`
is about `Picks` and about going through a sequence. See Proofs.

### MCSite

`MCSite` puts the seven machines since EventChains side by side. They share no variable, so a
behaviour of all of them is one of each: the first step picks the machine to
look at (`focus`) and the others rest. The run explores the sum of their state
spaces instead of the product.

## Runs

| Run | Question | Bounds |
|---|---|---|
| `default` | With the default settings, does an event run only as a user its session had while the event ran, does the bridge keep the book of sessions, and does an identity that was lost stay lost? | 1 tab, 2 keys, 1 user, HTTP views and account deletion as the second actor; lifetime 2 |
| `fast` | With the fast path on, is nobody mistaken for somebody else, no deleted account served, and a quiet logout final? | 2 tabs, 2 keys, 1 user, lifetime 1, all kinds of handlers |
| `stale` (violation) | Is the staleness of the fast path bounded by the lifetime? | 1 tab, lifetime 2 |
| `own` | Does a handler see its own request or none, both ways of asking? | 4 events of any tier, 2 tasks, 4 states in a tree of depth 3 |
| `ancestors` (violation) | Is the request gone from the whole branch in an event of tier none? | 2 events |
| `cookies` | Does a sign-in arrive at its page as the user, does a sign-out sign the browser out, and does a signed-out tab stay so? | 2 tabs, 3 keys of which 1 may be left from before, 1 user, 3 user acts |
| `sync` | Does a list subscribed before it is loaded end up as the table, but for rows an update brought into its scope, with no row twice? | 1 tab, 1 other writer in transactions, 2 rows, 3 writes |
| `gap` (violation) | And one loaded before it subscribes, as the docs order it? | 1 row, 2 writes |
| `transaction` (violation) | And one that reads a row before its write is committed? | 1 row, 2 writes |
| `classes` | Is the list its page, do the page vars agree, is nothing edited after its deletion or inserted twice? | 3 classes (reload with pages and search; patch; patch with pages), 3 rows, 2 values, 1 update |
| `site` | Seven questions, one of each machine: does an event run through the middleware configured for its kind; does the mount view fall back only for an outage and recover; does every path arrive and Vite come up after any runs; is the URLconf complete, ordered and agreed on; do accounts keep the book and the right password get in; are the refused sent away and does the tab settle; is every page served and every state given a dispatcher? | 2 threads, 2 settings with and without lists of their own; 2 requests, pause 2, timeout 1; 3 runs, 1 reload, 16 configurations with one of two sets of prefixes; both doors, with and without the `.pth` hook, 3 orders of applications, 4 URLconfs; 2 tabs in 2 processes, 2 names one of which is an address, 1 address in 2 spellings, 1 link; 1 visitor, 6 policies, queue 3, 2 acts from outside; 2 decorated pages and a late one |
| `patchsearch` (violation) | And for a class that patches its list under a search? | 2 rows |

The bounds are enough for what the properties tell apart. Two keys are the old
and the new one of a login; a second tab is one that holds the same cookie.
Three writes let a row be created, changed and deleted around one load. Three
rows give a full, a partial and an emptied page. Three keys are one left over
and two drawn, three acts a sign-in, a sign-out and whatever another tab or view
does about them; load events, scripts and navigations are not counted as acts. Four events are an event that
leaks, one that inherits the leak, one that ends regularly and one that looks.

In `site`, two requests suffice for one that ends late while another falls into
the pause it causes. Three runs are one that is killed, one of the other kind
and one that has to cope with both. A name that is also an address, in two
spellings, makes sign-in by name and by email meet; a second tab in another
process uses the same link. Two acts from outside are a sign-out and a lost
right, or either and a visit. The six policies have each kind of page, target and
denial at least once, two of them a home page that may refuse. Two spellings of one route, a page without one
and a late page make all the ways in which entries meet; the routes of the auth
pages are spellings too, so that a project's page may have one of them.

Fairness: `EventAuth!FairSpec` has the server finish the events it began and
time pass; asyncio runs every ready task, and a handler that never returns is
outside this code. `LiveList!FairSpec` has threads finish the write they began,
the tab's loop take what is queued, and foreground events end. `AuthCookies!FairSpec`
has the server handle the load events it was sent and the browser run scripts and
timers, per tab. `MountFairness` has time pass and a request that waits for Vite
end, as the client's timeout guarantees; nothing is asked of Vite. `LayoutFairness`
has a compilation go on and Vite read a changed file, unless the run is killed.
`GuardsFairness` has Reflex take the next event of a tab and handle it. Users, other
views and other requests owe nothing.

What the violations show is quoted in PROJECT.json under "findings": each names
the line of the documentation that says otherwise.

## Proofs

Every safety property a passing run checks, the two refinements included, is proved
for every value of the constants; only liveness is left to TLC. The assumptions are
those of the modules and, for three theorems, one named in the statement. Most say what the constants are (that a marker such as
`NoKey` or `Nowhere` is none of the values it marks the absence of, that bounds are
numbers). The others:

| Assumption | Why the code or the project justifies it |
|---|---|
| `LayoutAssumption`: no prefix of Django is an endpoint of Reflex | `_check_reserved` (`asgi/app.py:100`) raises otherwise |
| `StartupAssumption`: a catch-all written in `urls.py` comes last | Django tries patterns in order: nothing behind it would be reached |
| `GuardsAssumption`: the page of the refused does not itself ask for the right, nor the login page for anything; guarded handlers do not send to a page that loads by them | else the project configures a circle of redirects |
| `PagesAssumption`: two pages for one route are the same page, if the app module adds both or one has no route written | Reflex refuses a second page for a route; the integration looks only before it adds one whose route is written |
| `LiveList!ConstantsAssumption`: `Pks` is finite and not empty | a table has finitely many rows |
| `SubscribeFirst`, of `ListFollowsTable` | without it the run `gap` violates `InSync` |
| `NoPatchedSearch`, of `ListsArePages` and `PageVarsRight` | without it the run `patchsearch` violates `ListIsPage` |

None of the invariants below is inductive by itself. Each is strengthened by
named parts, preserved by one lemma per action.

### EventAuthProofs

`TypeOK`, `IdentityIsOwners`, `ServedWhileSignedIn`, `DeletedUserNeverServed`,
`QuietLogoutIsFinal`, `NoResurrection` (which no run checks since `KeepsBook` says more)
and `KeepsBook`. `IdentityIsOwners` needs to know that rows (`RowsOwned`) and cache entries (`CacheOwned`) name no one but the
owner of their key, that keys not drawn yet are clean (`UndrawnClean`), that the
key of a login under way is known to that login alone (`CycledPrivate`), and that
every event carries its key's owner from the moment it resolved it
(`EventsOwned`). The other parts relate an event to its history variables
(`SinceCovers`, `BornCovers`, `ClosedClean`).

`KeepsBook` needs one part more (`AsBooked`): an identity comes from the cache only
where identities are cached, a login is of the account whose credentials were typed,
and an event that found no row for its cookie's key is right that there is none
whenever it looks again; without that a sign-out might leave its page open. There is
one lemma per action of the book, and the actions of the bridge are mapped to them:
`Verifies` and `Enters` follow the key of a login from drawn to bound, `Leaves` a
session that may have been gone before, `SavedAsRead` says that saving a session
writes what its row says, which makes it a stutter.

### AuthCookiesProofs

`SignedOutStays`: every cookie, copy and script names a key that was drawn
(`CookiesDrawn`) and only drawn keys have rows (`RowsDrawn`). So the keys a
signed-out tab holds have no rows (`OutDead`) and never get one again, because a
sign-in writes the row of a key not drawn before (`RowsRotated`).
`BrowserFollowsSignOut`: the tab that signed out still has the script that expires
the cookie, or the cookie's row is gone (`OutFollows`). `LandsSignedIn`: a sign-in
is on its way in one of three shapes, as the script handed to the tab, as a page
about to load with the cookie set, or as a document whose handshake has that
cookie (`Handed`, `Leaving`, `There`), and each of them leads to the next.

### LiveListProofs, ModelStateProofs, PickTheorems

Lists are comprehensions over sequences. `PickedIs` says what one returns, for
sequences of any length: the elements at the chosen positions, each once and in
their order. The prover cannot instantiate the library's induction, so the lemma
beneath it argues by a smallest counterexample among the subsets of a finite set.
`EachInTurn` is the same argument for whatever goes through a sequence: if it holds
before the first element and after each one if it did before it, it holds at the end.

LiveList. `RowsListedOnce` needs types and `AllDistinct` only. `ListFollowsTable` has
`SyncInv`: a deletion holds the lock of its row from its write to its commit
(`LockedOnce`, `ThreadOk`); no change is applied while the tab's own event runs
(`TabOk`); a deletion is followed by its change in the queue or a thread about to
send it (`DeletionsAnswered`); a row missing from the list, and a row listed with
other values than the table's, is explained by a change on its way or by an open
transaction (`MissingExplained`, `ListedExplained`, `EarlyAwaited`, `OwnAwaited`), or is missing
because an update brought it into the scope (`entered`). In a quiet state nothing is
on its way, so nothing else differs.

ModelState. `NoErasedEdit` and `NoSecondInsert` need to know which row an event under
way is about (`EventOK`, `RowsOK`, `ErasedOK`). `ListIsPage` and `PageVarsAgree` have
`ListInv`: while nobody else has written, the list is the page of the query and the
counts are its counts also in the middle of an event, until the list is loaded
again (`Shown`); between counting and fetching the page is one there is (`Fetching`).
A patched list is again a page: a changed row keeps its place, and only a list
without pages is given a new row, in front, or loses one.

### AccountsProofs

`OneOwnerUnlessOverlap`: a registration past its look at the address was begun
before whoever has the address by now was there (`RegisterOK`, `BookOK`).
`RightPasswordGetsIn`: in a sign-in that got past the name, a way that has been right all
the time is that of the address (`LoginOK`). `KeepsTheBook` is the refinement of
`AccountBook`: every step of a query maps to one of its actions or to a stutter.

### SiteProofs

- `FallbackHasCause`: a pause ends in time after Vite was last down (`PauseHasCause`),
  and a request that saw it down has waited since (`Waited`).
- `Arrives`: what is not in place yet is still to come (`FilesComing`), though other
  steps of the same compilation come after it; a run of one sort has no step that
  undoes what it needs (`PartsOfSort`); Vite has what the files say, or they changed
  since (`LoadedAsIs`).
- `CatchAllLast`, `AdminComplete`, `DispatchAgrees`: the invariant is about the stack
  of calls. Each pending call is founded on settings, an admin and a configuration
  that are there or are to be made by a call that comes sooner (`Founded`). The integration
  is installed once (`InstalledOnce`), the admin discovered once (`AdminOnce`), the
  URLconf ordered, agreed on and complete (`UrlsRight`). A call is replaced by those
  it makes, which shifts the rest of the stack: a lemma says what that does to the
  calls waiting (`HeadReplaced`, `Waiting`), another what the new ones
  find (`Made`). Where there is to be one catch-all, no call that adds one is
  overtaken by another (`Orderly`); prefixes that are registered belong to a mount
  that is done or on its way (`Halfway`).

### AppProofs

BridgeContext: `TypeOK`, `OwnRequestOnly`, `RequestsAgree` and `NoneHasNoRequest`, for
all tasks, trees and numbers of events. The invariant says that a binding left in a task always goes back to no request (`Undoable`), that
the running event's task holds its own request or none (`OwnTask`), that the tier
published agrees with the event's (`TierKept`), and that the handler's state
carries what its task does (`HandlerBound`). `UploadsGetUser` is about the decision
of BridgeTier alone.

- `ChainsAsConfigured`: only the thread that has the lock is anywhere near
  the setting (`OneHolder`), whoever replaced it knows the configured one
  (`SettingKept`), and what is kept is the chain of its kind (`ChainsKept`).
- `HandlerWasAllowed`, `RefusedAreSentAway`: the guard of the page is waiting in the
  queue, is being handled with a user of this page, or somebody has been let in
  (`GuardComes`); an event knows of everybody who had the right since it began
  (`HandlingKept`). A step that stays at its page only adds to the queue (`Becoming`),
  one that leaves it brings the guard of the next (`OpenedPage`).
- `DispatchersComplete`: a compilation looks twice through the `context.js` an earlier
  run left, so one it keeps is complete or has no dispatcher (`KeptIsComplete`).
- `EveryPageServed`: the buckets, the registry and the pages of the app are what is
  left of going through sequences of entries one by one (`InTurn`, a recursive
  function). Of each such pass a lemma says what it does to the elements it went
  through. What was decorated is filed, in a bucket or the registry, and nothing else
  is (`FiledSoFar`); the app has only pages of the program, and its own once its module
  is imported (`AppSoFar`); so whatever preparation adds is a page the route has
  already or its first, it is refused none, and fresh pages serve all that is filed
  (`AppServes`).

### Only model-checked

Liveness under fairness: `StaleIdentityExpires`, `ListConverges`, `SignInArrives`,
`PauseEnds`, `ViteComesUp`, `TabSettles`. Fairness and ENABLED are beyond the prover.

## What the code does and the documentation does not say

Beside the violations above, modelling met these; the models do what the code
does. None of them is a property of a run.

- `mount/spa_paths.py` imports `reflex_django.dev.runners.frontend`, which does
  not exist, whenever `BASE_DIR` is set: serving from disk then fails
  (`DiskAnswer`). So does the page that says there is no bundle
  (`views/mount.py:179` calls `_compile_dev_mode_enabled`, which is not defined).
- With one port, the default, Vite's rules for Django are stripped, although
  several pages of the docs have the reader open `:3000/admin/`.
- The plugin's `proxy.separate_dev_ports` (`docs/learn/proxy.md:32`) is resolved and
  then read by nobody; `mount.mount_prefix` (`docs/learn/mount.md:39`) is not used by
  the automatic mount.
- Stripping leaves `env.json` as it is; `apply_frontend_stability_after_compile`
  is never called, contrary to `dev/frontend_stability.py:9`.
- Entered by Django, the process decides whether to mount before the plugin's
  configuration is known: only settings count then (`MountEnabled`).
- Code of the project that asks for Reflex's configuration before the admin is
  discovered leaves the admin's URLs incomplete (`hasty`, excepted by
  `AdminComplete`). A manual `reflex_mount()` in a URLconf without the admin gets
  the admin's patterns but no dispatcher for them (excepted by `DispatchAgrees`).
- Entered by Django with the `.pth` hook at work, mounting has the integration
  installed in the middle of it, which mounts as well: the nested `maybe_auto_mount`
  adds the catch-all, and the outer one, which looked at a copy made before
  (`mount/auto.py:134`), adds it again. The URLconf ends in two catch-alls, of which
  the first answers (excepted by `CatchAllLast`).
- An update that brings a row into the scope of a live list does not add it (see
  LiveList; excepted by `InSync`).
- A `context.js` without any dispatcher, or one that is not where the settings of
  Reflex say, is never taken for stale and never warned of
  (`runtime/compile_validate.py:129`; excepted by `DispatchersComplete`).
- With the mount disabled and `reflex_django` before the admin, importing the
  URLconf stays deferred for good.
- `ensure_auth_pages_registered` says page discovery calls it
  (`auth/registry.py:275`); nothing does. A project may.
- Several pages decorated with Reflex's own `@page()` without a route: all but
  one are dropped (excepted by `EveryPageServed`). Of `/about` and `about` the
  page may come from one and the load event from the other.
- Registrations that overlap may give two accounts one address
  (`OneOwnerUnlessOverlap` says that nothing else does); neither then signs in with it.
- An event that resolved an identity before a logout and stores it afterwards puts it
  back into the event cache (excepted by `QuietLogoutIsFinal`). Rows counted and
  fetched while another request writes are of two tables (excepted by `ListIsPage` and
  `PageVarsAgree`).
- A home page that refuses a signed-in user, itself or by the handler it loads with,
  sends them to the login page, which sends them home, for ever (excepted by
  `TabSettles`).
- `filter_delta_to_compiled_dispatch_keys` compares with the app's states, not
  with the compiled `context.js` its docstring names.

## Plan

1. Abstract specifications: ModelState implements atomic operations on a page.
2. Websockets and lifespan of the ASGI entry point, the file watchers, the
   registry of live signals.

## Not modelled

Serializers, schema and scaffold are conversions without state; devtools record
and are read by nobody; the commands and file watchers are I/O, as are the headers
and bodies the proxies copy. `dev/run_plan.py` has no caller. State options and
generated fields are fixed at import. Request building is a conversion whose
cookies, the only part other requests have a say in, are in AuthCookies. Within
modelled components: permissions and the ordering var of ModelState, the
response bound beside the request, background handlers, components and templates
of pages, password strength, the values of default settings.
