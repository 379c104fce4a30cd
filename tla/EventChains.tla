----------------------------- MODULE EventChains -----------------------------
(* The middleware chains events are run through.                           *)
(*                                                                         *)
(* Django builds a chain from settings.MIDDLEWARE.  That of an event lacks *)
(* some entries, so the setting of the whole process is replaced while its *)
(* chain is built, and put back after; chains are kept.  Events of several *)
(* threads want chains at once.                                            *)
(*                                                                         *)
(* An operator named Op_Variant is Op with a plausible mistake in it; no   *)
(* action uses it.                                                         *)
EXTENDS Sequences, Functions

CONSTANTS
  Loops,         \* threads that handle events
  SettingsFiles  \* records: MIDDLEWARE (configured), RX_EVENT_MIDDLEWARE_SKIP (skip)
                 \* and RX_AUTH_ONLY_MIDDLEWARE (authOnly)

VARIABLES
  file,          \* the settings of the process, NoSettings before it runs
  middleware,    \* settings.MIDDLEWARE
  handlers,      \* _async_handlers: the chain of each kind, or NotBuilt
  lock,          \* the thread that has _handler_lock
  loop           \* what each thread is at

chainVars == <<file, middleware, handlers, lock, loop>>

NotSet == <<"not set">>
NotBuilt == <<"not built">>
NoSettings == [skip |-> NotSet]
Unlocked == "nobody"

ASSUME ChainsAssumption == Unlocked \notin Loops

(* Tier full runs the chain of all middleware, tier auth_only its own one. *)
Kinds == {"full", "override"}

(* A setting replaces the default, it does not add to it. *)
SettingsSkipList ==
  IF file.skip = NotSet THEN {"csrf", "streaming"} ELSE Range(file.skip)

AuthOnlyMiddleware ==
  IF file.authOnly = NotSet THEN <<"session", "auth">> ELSE file.authOnly

Without(chain, skip) == SelectSeq(chain, LAMBDA m : m \notin skip)

(* What an event of this kind is to be run through. *)
Filtered(kind, original) ==
  IF kind = "override" THEN AuthOnlyMiddleware ELSE Without(original, SettingsSkipList)

LoopAt(pc, kind, original, chain) ==
  [pc |-> pc, kind |-> kind, original |-> original, chain |-> chain]

NoEvent == LoopAt("idle", "full", NotBuilt, NotBuilt)

ChainsInit ==
  /\ file = NoSettings
  /\ middleware = NotSet
  /\ handlers = [k \in Kinds |-> NotBuilt]
  /\ lock = Unlocked
  /\ loop = [l \in Loops |-> NoEvent]

StartLoops(f) ==
  /\ file = NoSettings
  /\ file' = f
  /\ middleware' = f.configured
  /\ UNCHANGED <<handlers, lock, loop>>

Continues(l, record) == loop' = [loop EXCEPT ![l] = record]
Is(l, pc) == file # NoSettings /\ loop[l].pc = pc

EventComes(l, kind) ==
  /\ Is(l, "idle")
  /\ Continues(l, LoopAt("wants", kind, NotBuilt, NotBuilt))
  /\ UNCHANGED <<file, middleware, handlers, lock>>

GetHandler_Unlocked(l) ==
  /\ Is(l, "wants")
  /\ lock' = l
  /\ Continues(l, LoopAt(IF handlers[loop[l].kind] = NotBuilt THEN "builds" ELSE "has",
                     loop[l].kind, NotBuilt, handlers[loop[l].kind]))
  /\ UNCHANGED <<file, middleware, handlers>>

(* _get_handler: a chain that was kept, or one to be built. *)
GetHandler(l) ==
  /\ Is(l, "wants")
  /\ lock = Unlocked
  /\ lock' = l
  /\ Continues(l, LoopAt(IF handlers[loop[l].kind] = NotBuilt THEN "builds" ELSE "has",
                     loop[l].kind, NotBuilt, handlers[loop[l].kind]))
  /\ UNCHANGED <<file, middleware, handlers>>

(* load_middleware: the setting is looked at and replaced, ... *)
ReadSetting(l) ==
  /\ Is(l, "builds")
  /\ Continues(l, LoopAt("replaces", loop[l].kind, middleware, NotBuilt))
  /\ UNCHANGED <<file, middleware, handlers, lock>>

ReplaceSetting(l) ==
  /\ Is(l, "replaces")
  /\ middleware' = Filtered(loop[l].kind, loop[l].original)
  /\ Continues(l, LoopAt("loads", loop[l].kind, loop[l].original, NotBuilt))
  /\ UNCHANGED <<file, handlers, lock>>

(* ... Django builds the chain from it, or some middleware fails, ...      *)
LoadMiddleware(l) ==
  /\ Is(l, "loads")
  /\ \E chain \in {middleware, NotBuilt} :
       Continues(l, LoopAt("restores", loop[l].kind, loop[l].original, chain))
  /\ UNCHANGED <<file, middleware, handlers, lock>>

(* ... and it is put back in either case; only a chain is kept.            *)
RestoreSetting(l) ==
  /\ Is(l, "restores")
  /\ middleware' = loop[l].original
  /\ Continues(l, LoopAt("has", loop[l].kind, NotBuilt, loop[l].chain))
  /\ handlers' = IF loop[l].chain = NotBuilt THEN handlers
                 ELSE [handlers EXCEPT ![loop[l].kind] = loop[l].chain]
  /\ UNCHANGED <<file, lock>>

Release(l) ==
  /\ Is(l, "has")
  /\ lock' = Unlocked
  /\ Continues(l, IF loop[l].chain = NotBuilt THEN NoEvent
                  ELSE LoopAt("runs", loop[l].kind, NotBuilt, loop[l].chain))
  /\ UNCHANGED <<file, middleware, handlers>>

(* The request goes through the chain; see EventAuth for what comes of it. *)
RunChain(l) ==
  /\ Is(l, "runs")
  /\ Continues(l, NoEvent)
  /\ UNCHANGED <<file, middleware, handlers, lock>>

ChainsNext ==
  \/ \E f \in SettingsFiles : StartLoops(f)
  \/ \E l \in Loops :
       \/ \E k \in Kinds : EventComes(l, k)
       \/ GetHandler(l) \/ ReadSetting(l) \/ ReplaceSetting(l)
       \/ LoadMiddleware(l) \/ RestoreSetting(l) \/ Release(l) \/ RunChain(l)

ChainsSpec == ChainsInit /\ [][ChainsNext]_chainVars

(******************************** properties *******************************)
(* However many threads ask for chains at once, and whichever of them fail *)
(* to build one, every event runs through the middleware configured for    *)
(* its kind, in that order, and when no chain is being built the setting   *)
(* is what the project configured (bridge/event_handler.py,                *)
(* load_middleware and _get_handler).                                      *)
ChainsAsConfigured ==
  file # NoSettings =>
    /\ lock = Unlocked => middleware = file.configured
    /\ \A l \in Loops :
         Is(l, "runs") => loop[l].chain = Filtered(loop[l].kind, file.configured)
=============================================================================
