-------------------------------- MODULE Pages --------------------------------
(* The pages of the app: decorated in modules of the project, added by its *)
(* app module, or canned ones for signing in.                              *)
(*                                                                         *)
(* Decorated pages wait in buckets named for an app, which may not have    *)
(* its name yet, and in a registry of this package.  Whoever compiles the  *)
(* app prepares the pages first, again and again, and more may have been   *)
(* decorated since.  A route may be spelled in more than one way.          *)
(*                                                                         *)
(* Reflex refuses a second page for a route, and gives every state of the  *)
(* app a dispatcher in a file, which an earlier run may have left.         *)
(*                                                                         *)
(* An operator named Op_Variant is Op with a plausible mistake in it; no   *)
(* action uses it.                                                         *)
EXTENDS Naturals, Sequences, SequencesExt, Functions, Picks

CONSTANTS
  Programs,      \* records: the pages of a project (see ProgramRecord)
  Spellings,     \* of routes, in the order their pages are added in
  Format,        \* the route each spelling is for
  LoginRoute, RegisterRoute, ResetRoute, ConfirmRoute  \* routes of RX_AUTH

VARIABLES
  program,
  left,          \* entries not decorated yet
  decorated,     \* entries waiting, by bucket
  registry,      \* PAGE_REGISTRY
  app,           \* pages and load events by route, and whether one was refused
  applied,       \* _reflex_django_decorated_pages_applied
  context,       \* states with a dispatcher in context.js, or NoFile
  fresh,         \* pages were prepared and none decorated since
  compiled       \* and compiled

pagesVars == <<program, left, decorated, registry, app, applied, context, fresh, compiled>>

AppName == "app"
NoRoute == "none"
NoContext == {"no file"}
NoProgram == [helper |-> "none yet"]
NoApp == [pages |-> <<>>, loads |-> <<>>, refused |-> FALSE, imported |-> FALSE]

(* A decorated page: by the decorator of this package, or that of Reflex.  *)
CannedNames == {"login", "register", "reset", "confirm"}
Entry == [page : STRING \cup CannedNames, route : Range(Spellings), by : {"page", "rx.page"},
          bucket : {AppName, ""}, load : BOOLEAN]

AuthSettings == {"enabled", "signup", "reset"}

(* views is the module of pages, late is decorated later, own are the      *)
(* app.add_page calls of the app module; helper says how it gets the auth  *)
(* pages, and auth which of them there are; webPath whether the settings   *)
(* of Reflex tell where the frontend is.                                   *)
ProgramRecord == [views : Seq(Entry), late : Seq(Entry), own : Seq(Entry),
                  helper : {"none", "add", "ensure"}, auth : SUBSET AuthSettings, webPath : BOOLEAN]

(* Where Reflex serves a page: one without a route has that of its name.   *)
RouteOf(e) == IF e.route = NoRoute THEN e.page ELSE Format[e.route]

(* What op makes of a after each of the elements of a sequence, in turn.   *)
AfterEach(op(_, _), a, s) ==
  LET after[k \in 0 .. Len(s)] == IF k = 0 THEN a ELSE op(after[k - 1], s[k])
  IN  after
InTurn(op(_, _), a, s) == AfterEach(op, a, s)[Len(s)]

(******************************* registration ******************************)
WithoutRepeats(entries) ==
  Picked(entries, {k \in DOMAIN entries : \A j \in 1 .. k - 1 : entries[j].route # entries[k].route})

(* migrate_decorated_pages_app_name: one entry for each spelling, of the   *)
(* app's own bucket if there is one.                                       *)
Migrated_Pops(buckets) == [b \in {AppName, ""} |-> IF b = AppName THEN WithoutRepeats(buckets[b]) ELSE <<>>]
Migrated(buckets) ==
  [b \in {AppName, ""} |-> IF b = AppName THEN WithoutRepeats(buckets[AppName] \o buckets[""]) ELSE <<>>]

Bucketed(buckets, e) == [buckets EXCEPT ![e.bucket] = Append(@, e)]

(* The decorators; that of this package keeps the first of each spelling.  *)
Registered(reg, e) ==
  IF e.by = "rx.page" THEN [reg EXCEPT !.decorated = Bucketed(@, e)]
  ELSE [decorated |-> Migrated(Bucketed(reg.decorated, e)),
        registry |-> IF e.route # NoRoute /\ \E k \in DOMAIN reg.registry : reg.registry[k].route = e.route
                     THEN reg.registry ELSE Append(reg.registry, e)]

RegisteredAll(reg, entries) == InTurn(Registered, reg, entries)

AuthPages(auth) ==
  LET Canned(page, route, load) ==
        [page |-> page, route |-> route, by |-> "page", bucket |-> AppName, load |-> load]
  IN  IF "enabled" \notin auth THEN <<>>
      ELSE <<Canned("login", LoginRoute, TRUE)>>
           \o (IF "signup" \in auth THEN <<Canned("register", RegisterRoute, TRUE)>> ELSE <<>>)
           \o (IF "reset" \in auth THEN <<Canned("reset", ResetRoute, FALSE),
                                          Canned("confirm", ConfirmRoute, TRUE)>> ELSE <<>>)

(* All pages that may come together in an app. *)
CannedOf(p) == IF p.helper = "none" THEN {} ELSE Range(AuthPages(p.auth))
Members(p) == Range(p.views) \cup Range(p.late) \cup Range(p.own) \cup CannedOf(p)

(* Reflex refuses a second page for a route.  The integration looks before *)
(* it adds a page whose route is spelled out; of the others, and of the    *)
(* app module's own, the project itself sees to it.                        *)
ASSUME PagesAssumption ==
  /\ Spellings \in Seq(STRING) \ {<<>>} /\ NoRoute = Last(Spellings) /\ IsInjective(Spellings)
  /\ {LoginRoute, RegisterRoute, ResetRoute, ConfirmRoute} \subseteq Range(Spellings) \ {NoRoute}
  /\ Programs \subseteq ProgramRecord
  /\ \A p \in Programs : \A d, e \in Members(p) :
       RouteOf(d) = RouteOf(e) /\ (e.route = NoRoute \/ {d, e} \subseteq Range(p.own)) => d.page = e.page

(********************************* the app *********************************)
(* add_page of Reflex. *)
Added(a, e) ==
  LET r == RouteOf(e) IN
  IF r \in DOMAIN a.pages /\ a.pages[r] # e.page THEN [a EXCEPT !.refused = TRUE]
  ELSE [a EXCEPT !.pages = [k \in DOMAIN @ \cup {r} |-> IF k = r THEN e.page ELSE @[k]],
                 !.loads = IF e.load THEN [k \in DOMAIN @ \cup {r} |-> IF k = r THEN e.page ELSE @[k]]
                                     ELSE @]

RegisterPage(a, e) == IF Format[e.route] \in DOMAIN a.pages THEN a ELSE Added(a, e)

(* A route that is spelled out is left to the page it has. *)
AddedIfFree(a, e) == IF e.route # NoRoute /\ Format[e.route] \in DOMAIN a.pages THEN a ELSE Added(a, e)

AddedAll(a, entries) == InTurn(Added, a, entries)
RegisteredPages(a, entries) == InTurn(RegisterPage, a, entries)
AddedWhereFree(a, entries) == InTurn(AddedIfFree, a, entries)

(* By the rank of the route. *)
OfRoute(entries, r) == Picked(entries, {k \in DOMAIN entries : entries[k].route = r})
Sorted(entries) == InTurn(LAMBDA sorted, r : sorted \o OfRoute(entries, r), <<>>, Spellings)

(* The app module is imported once: its own pages, then the canned ones.   *)
Loaded(a) ==
  IF a.imported THEN a
  ELSE LET own == AddedAll([a EXCEPT !.imported = TRUE], program.own)
       IN  IF program.helper = "add" THEN RegisteredPages(own, AuthPages(program.auth)) ELSE own

(* Load events that were decorated, for routes that have none: the first   *)
(* counts.                                                                 *)
WithLoads(a, entries) ==
  LET of(r) == {k \in DOMAIN entries : LET e == entries[k] IN e.load /\ e.route # NoRoute /\ Format[e.route] = r}
      late == {RouteOf(e) : e \in Range(entries)} \ DOMAIN a.loads
      first(r) == CHOOSE k \in of(r) : \A j \in of(r) : k <= j
  IN  [a EXCEPT !.loads = [r \in DOMAIN @ \cup {x \in late : of(x) # {}} |->
                             IF r \in DOMAIN @ THEN @[r] ELSE entries[first(r)].page]]

ApplyDecorated(a, entries) == AddedWhereFree(a, Sorted(entries))
ApplyRegistry(a, entries) == AddedWhereFree(a, Sorted(entries))

PreparedApp(reg) ==
  WithLoads(ApplyRegistry(ApplyDecorated(Loaded(app), reg.decorated[AppName]), reg.registry),
            reg.decorated[AppName])

(********************************* actions *********************************)
PagesInit ==
  /\ program = NoProgram
  /\ left = [views |-> <<>>, late |-> <<>>]
  /\ decorated = [b \in {AppName, ""} |-> <<>>]
  /\ registry = <<>>
  /\ app = NoApp
  /\ applied = FALSE
  /\ context = NoContext
  /\ fresh = FALSE /\ compiled = FALSE

(* States have the names of the pages they are for. *)
StatesOf(p) == Range([k \in DOMAIN p.views |-> p.views[k].page]) \cup {"auth"}

StartProject(p) ==
  /\ program = NoProgram
  /\ program' = p
  /\ left' = [views |-> p.views, late |-> p.late]
  /\ context' \in {NoContext, {}, StatesOf(p), {"auth"}, {"a state that is gone"}}
  /\ UNCHANGED <<decorated, registry, app, applied, fresh, compiled>>

Registers(reg) == decorated' = reg.decorated /\ registry' = reg.registry
Registration == [decorated |-> decorated, registry |-> registry]

(* Some module with pages is imported. *)
Decorate ==
  /\ program # NoProgram /\ left.late # <<>>
  /\ Registers(Registered(Registration, Head(left.late)))
  /\ left' = [left EXCEPT !.late = Tail(@)]
  /\ fresh' = FALSE /\ compiled' = FALSE
  /\ UNCHANGED <<program, app, applied, context>>

(* ensure_auth_pages_registered, for a project that calls it. *)
EnsureAuth ==
  /\ program # NoProgram /\ program.helper = "ensure"
  /\ Registers(RegisteredAll(Registration, AuthPages(program.auth)))
  /\ fresh' = FALSE /\ compiled' = FALSE
  /\ UNCHANGED <<program, left, app, applied, context>>

(* prepare_pages_for_compile: the views are imported, once. *)
ImportPages(reg) ==
  [RegisteredAll(reg, left.views) EXCEPT !.decorated = Migrated(@)]

Prepares ==
  LET all == ImportPages([Registration EXCEPT !.decorated = Migrated(@)])
  IN  /\ Registers(all)
      /\ app' = PreparedApp(all)
      /\ left' = [left EXCEPT !.views = <<>>]

(* From get-ready of the server, or from a compilation of Reflex, which    *)
(* does it once.                                                           *)
Prepare(again) ==
  /\ program # NoProgram /\ ~app.refused
  /\ again \/ ~applied
  /\ Prepares
  /\ applied' = TRUE
  /\ fresh' = TRUE /\ compiled' = FALSE
  /\ UNCHANGED <<program, context>>

(* Of the pages that are decorated late, those that have been. *)
Late(waiting) == {program.late[k] : k \in 1 .. Len(program.late) - Len(waiting)}

(* The states of the app: those of the modules that are imported. *)
Expected == {"auth"} \cup {e.page : e \in Range(program.views) \cup Late(left'.late)}

(* A file that is not found has no keys, as one without dispatchers.       *)
Found(file) == file # NoContext /\ program.webPath
DispatchKeys(file) == IF Found(file) THEN file ELSE {}
Missing(states, file) == DispatchKeys(file) # {} /\ ~states \subseteq DispatchKeys(file)

(* Compilation writes the file, or keeps the one that is there. *)
Written(states, file) == IF file = NoContext THEN {states} ELSE {states, file}

Invalidated_Kept(file) == file
Invalidated(file) == IF Found(file) THEN NoContext ELSE file

(* _compile_app: a file without some state is removed, before and, should  *)
(* it still be so, after the compilation, which then is done again.        *)
CompileApp ==
  /\ program # NoProgram /\ ~app.refused
  /\ Prepares
  /\ applied' = TRUE
  /\ \E once \in Written(Expected, IF Missing(Expected, context) THEN Invalidated(context) ELSE context) :
       context' \in IF Missing(Expected, once) THEN Written(Expected, Invalidated(once)) ELSE {once}
  /\ fresh' = TRUE /\ compiled' = TRUE
  /\ UNCHANGED program

PagesNext ==
  \/ \E p \in Programs : StartProject(p)
  \/ Decorate \/ EnsureAuth
  \/ \E again \in BOOLEAN : Prepare(again)
  \/ CompileApp

PagesSpec == PagesInit /\ [][PagesNext]_pagesVars

(******************************** properties *******************************)
(* Once the pages are prepared, whatever was decorated before and however  *)
(* often they were prepared already, every page registered has its route   *)
(* served, and Reflex refused none; save that of several pages Reflex      *)
(* itself decorated without a route only one is kept                       *)
(* (runtime/app_factory.py, prepare_pages_for_compile).                    *)
Decorations == Range(program.views) \cup Late(left.late) \cup Range(program.own)

EveryPageServed ==
  fresh =>
    /\ ~app.refused
    /\ \A e \in Decorations :
         \/ RouteOf(e) \in DOMAIN app.pages
         \/ e.by = "rx.page" /\ e.route = NoRoute
            /\ \E d \in Decorations : d.route = NoRoute /\ RouteOf(d) \in DOMAIN app.pages

(* After a compilation the browser has a dispatcher for every state of the *)
(* app, whatever file an earlier run left and Reflex kept, if the file has *)
(* a dispatcher at all and is found where it is looked for: one without    *)
(* dispatchers, or elsewhere, is not known for stale                       *)
(* (patches/compile.py, _compile_app; compile_validate.py:129-131).        *)
DispatchersComplete ==
  compiled /\ program.webPath /\ context # {} =>
    {e.page : e \in Decorations \ Range(program.own)} \cup {"auth"} \subseteq context
=============================================================================
