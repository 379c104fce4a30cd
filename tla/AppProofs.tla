------------------------------ MODULE AppProofs ------------------------------
(* What the parts of the app around its handlers promise, proved for any of *)
(* their constants: which request a handler sees, through what events run,  *)
(* who is let in by the guards of pages and of handlers, that pages are     *)
(* served, and that every state has a dispatcher.                           *)
EXTENDS BridgeContext, EventChains, Guards, Pages, PickTheorems

(******************** the request of an event's handler ********************)
(* Only a binding that can be undone is ever left in a task, and undoing it *)
(* leaves no request.                                                       *)
Undoable ==
  \A k \in Tasks : /\ token[k] \in {0, NoToken}
                   /\ token[k] = NoToken => request[k] = 0

(* The task of the event under way holds its request or none, and none when *)
(* the event is bridged a second time.                                      *)
OwnTask ==
  /\ ~At("idle") => request[run.task] \in {0, events}
  /\ At("again") => request[run.task] = 0

(* The event's tier is published before anything reads it, and an event of  *)
(* tier none binds nothing.                                                 *)
TierKept ==
  /\ run.pc \in {"bridge", "bind", "process", "again"} => tier[run.task] = run.tier
  /\ run.pc \in {"bridge", "bind", "again"} => run.tier # "none"
  /\ run.pc \in {"resolve", "process", "handler"} /\ run.tier = "none" => request[run.task] = 0

(* The handler's state carries the request of its task.                     *)
HandlerBound == At("handler") => wrapper[run.state] = request[run.task]

IInv == TypeOK /\ Undoable /\ OwnTask /\ TierKept /\ HandlerBound

LEMMA Initially == Init => IInv
BY ConstantsAssumption DEF Init, IInv, TypeOK, Undoable, OwnTask, TierKept,
   HandlerBound, At, Request, NoToken, Tiers, Phases

LEMMA Stutters == IInv /\ UNCHANGED vars => IInv'
BY DEF vars, IInv, TypeOK, Undoable, OwnTask, TierKept, HandlerBound, At

(* Ended leaves the task without a request, the other tasks alone.          *)
LEMMA EndedClears ==
  ASSUME IInv, NEW k \in Tasks, Ended(k)
  PROVE  /\ request' = [request EXCEPT ![k] = 0]
         /\ token' = [token EXCEPT ![k] = NoToken]
BY DEF IInv, TypeOK, Undoable, Ended

(* Begun puts the request over none.                                        *)
LEMMA BegunBinds ==
  ASSUME IInv, NEW k \in Tasks, NEW r, Begun(k, r)
  PROVE  /\ request' = [request EXCEPT ![k] = r]
         /\ token' = [token EXCEPT ![k] = 0]
BY ConstantsAssumption DEF IInv, TypeOK, Undoable, Begun, NoToken

(* Bound only writes requests to states.                                    *)
LEMMA BoundIsTyped ==
  ASSUME IInv, NEW nodes, NEW r \in Request, Bound(nodes, r)
  PROVE  wrapper' \in [States -> Request]
BY DEF IInv, TypeOK, Bound

(* Whatever is chosen for an event is a tier.                               *)
LEMMA ChosenIsTier == ASSUME NEW c \in Choice PROVE CustomTier(c) \in Tiers
<1>1. ModeTier(c) \in Tiers
  BY DEF ModeTier, SmartTier, Tiers
<1>2. /\ c.custom \in Tiers \cup {NoOverride}
      /\ c.class \in Tiers \cup {NoOverride}
  BY DEF Choice
<1> QED
  BY <1>1, <1>2 DEF CustomTier, ClassTier

LEMMA ResolvedIsTier == ResolvedTiers \subseteq Tiers
BY ChosenIsTier DEF ResolvedTiers, ResolveBridgeTier, RaiseMinimumTier, Tiers

(* An upload always gets a user, whatever its class, the custom resolver    *)
(* and the mode of the site say (bridge/tier.py, resolve_bridge_tier).      *)
THEOREM UploadsGetUser ==
  \A c \in Choice : c.upload => ResolveBridgeTier(c) \in {"auth_only", "full"}
BY ChosenIsTier DEF ResolveBridgeTier, RaiseMinimumTier, Tiers

LEMMA Preserved == IInv /\ Next => IInv'
<1> SUFFICES ASSUME IInv, Next PROVE IInv'
  OBVIOUS
<1> USE ConstantsAssumption
<1>t. /\ run.task \in Tasks /\ run.state \in States /\ run.tier \in Tiers
      /\ events \in Request /\ 0 \in Request
  BY DEF IInv, TypeOK, Request
<1>1. CASE StartEvent
  <2> PICK k \in Tasks, s \in States, t \in ResolvedTiers :
        /\ run' = [pc |-> "resolve", task |-> k, state |-> s, tier |-> t]
        /\ Ended(k)
        /\ tier' = [tier EXCEPT ![k] = "unset"]
    BY <1>1 DEF StartEvent
  <2>1. /\ request' = [request EXCEPT ![k] = 0]
        /\ token' = [token EXCEPT ![k] = NoToken]
    BY EndedClears
  <2>t. t \in Tiers
    BY ResolvedIsTier
  <2>2. events' \in Request /\ wrapper' = wrapper
    BY <1>1 DEF StartEvent, IInv, TypeOK, Request
  <2>3. TypeOK'
    BY <2>t, <2>1, <2>2 DEF IInv, TypeOK, Request, NoToken, Phases
  <2> QED
    BY <2>t, <2>1, <2>2, <2>3 DEF IInv, TypeOK, Undoable, OwnTask, TierKept, HandlerBound, At
<1>2. CASE ResolveTier
  BY <1>2, <1>t DEF ResolveTier, Go, IInv, TypeOK, Undoable, OwnTask, TierKept,
     HandlerBound, At, Phases
<1>3. CASE Bridge
  <2>1. CASE Begun(run.task, events) /\ Go("bind")
    <3>1. /\ request' = [request EXCEPT ![run.task] = events]
          /\ token' = [token EXCEPT ![run.task] = 0]
      BY <2>1, <1>t, BegunBinds
    <3> QED
      BY <2>1, <1>3, <1>t, <3>1 DEF Bridge, Go, IInv, TypeOK, Undoable, OwnTask,
         TierKept, HandlerBound, At, Phases, Request, NoToken
  <2>2. CASE Go("process") /\ UNCHANGED <<request, token>>
    BY <2>2, <1>3, <1>t DEF Bridge, Go, IInv, TypeOK, Undoable, OwnTask,
       TierKept, HandlerBound, At, Phases
  <2> QED
    BY <1>3, <2>1, <2>2 DEF Bridge
<1>4. CASE BindBranch
  <2>1. wrapper' \in [States -> Request]
    BY <1>4, <1>t, BoundIsTyped DEF BindBranch
  <2> QED
    BY <1>4, <1>t, <2>1 DEF BindBranch, Go, IInv, TypeOK, Undoable, OwnTask,
       TierKept, HandlerBound, At, Phases
<1>5. CASE ProcessEvent
  <2>1. CASE request[run.task] = 0 /\ Rebridges(run.task)
    BY <2>1, <1>5, <1>t DEF ProcessEvent, Rebridges, Go, IInv, TypeOK, Undoable,
       OwnTask, TierKept, HandlerBound, At, Phases
  <2>2. CASE ~(request[run.task] = 0 /\ Rebridges(run.task))
    <3>1. Bound({run.state}, request[run.task]) /\ request[run.task] \in Request
      BY <2>2, <1>5, <1>t DEF ProcessEvent, IInv, TypeOK
    <3>2. wrapper' \in [States -> Request] /\ wrapper'[run.state] = request[run.task]
      BY <3>1, <1>t, BoundIsTyped DEF Bound
    <3> QED
      BY <2>2, <1>5, <1>t, <3>2 DEF ProcessEvent, Go, IInv, TypeOK, Undoable,
         OwnTask, TierKept, HandlerBound, At, Phases
  <2> QED
    BY <2>1, <2>2
<1>6. CASE BridgeAgain
  <2> PICK r \in {events, 0} :
        /\ IF r = 0 THEN UNCHANGED <<request, token>> ELSE Begun(run.task, r)
        /\ Bound({run.state}, r)
    BY <1>6 DEF BridgeAgain
  <2>r. r \in Request
    BY <1>t
  <2>1. wrapper' \in [States -> Request] /\ wrapper'[run.state] = r
    BY <1>t, <2>r, BoundIsTyped DEF Bound
  <2>2. CASE r = 0
    BY <2>2, <2>1, <1>6, <1>t DEF BridgeAgain, Go, IInv, TypeOK, Undoable,
       OwnTask, TierKept, HandlerBound, At, Phases
  <2>3. CASE r # 0
    <3>1. /\ request' = [request EXCEPT ![run.task] = r]
          /\ token' = [token EXCEPT ![run.task] = 0]
      BY <2>3, <1>t, BegunBinds
    <3> QED
      BY <2>3, <2>1, <3>1, <1>6, <1>t DEF BridgeAgain, Go, IInv, TypeOK, Undoable,
         OwnTask, TierKept, HandlerBound, At, Phases, Request, NoToken
  <2> QED
    BY <2>2, <2>3
<1>7. CASE HandlerEnds
  BY <1>7, <1>t DEF HandlerEnds, Go, IInv, TypeOK, Undoable, OwnTask, TierKept,
     HandlerBound, At, Phases
<1>8. CASE Postprocess
  <2>1. /\ request' = [request EXCEPT ![run.task] = 0]
        /\ token' = [token EXCEPT ![run.task] = NoToken]
    BY <1>8, <1>t, EndedClears DEF Postprocess
  <2> QED
    BY <1>8, <1>t, <2>1 DEF Postprocess, Go, IInv, TypeOK, Undoable, OwnTask,
       TierKept, HandlerBound, At, Phases, Request, NoToken, Tiers
<1> QED
  BY <1>1, <1>2, <1>3, <1>4, <1>5, <1>6, <1>7, <1>8 DEF Next

LEMMA Invariance == Spec => []IInv
BY Initially, Stutters, Preserved, PTL DEF Spec

(* bridge/context.py and state/request_binding.py keep values of their      *)
(* types.                                                                   *)
THEOREM TypeCorrect == Spec => []TypeOK
<1>1. IInv => TypeOK
  BY DEF IInv
<1> QED
  BY <1>1, Invariance, PTL

(* A handler never sees the request of another event, whatever events left  *)
(* behind in its task and on its state by redirects and exceptions.         *)
THEOREM OwnRequestSafe == Spec => []OwnRequestOnly
<1>1. IInv => OwnRequestOnly
  BY DEF IInv, TypeOK, OwnTask, HandlerBound, OwnRequestOnly, Seen, At
<1> QED
  BY <1>1, Invariance, PTL

(* self.request and current_request() are the same request in a handler.    *)
THEOREM RequestsAlwaysAgree == Spec => []RequestsAgree
<1>1. IInv => RequestsAgree
  BY DEF IInv, HandlerBound, RequestsAgree, Seen, At
<1> QED
  BY <1>1, Invariance, PTL

(* The handler of a none event finds no request, in its task or on its      *)
(* state, though both are shared with events that had one.                  *)
THEOREM NoneSafe == Spec => []NoneHasNoRequest
<1>1. IInv => NoneHasNoRequest
  BY DEF IInv, TierKept, HandlerBound, NoneHasNoRequest, Seen, At
<1> QED
  BY <1>1, Invariance, PTL

(******************** the chains events are run through *********************)
(* Threads that hold the lock, and those that replaced the setting. *)
Holding == {"builds", "replaces", "loads", "restores", "has"}
Replaced == {"loads", "restores"}

(* Threads are what they are said to be, whatever a chain is made of. *)
LoopsOK ==
  /\ lock \in Loops \cup {Unlocked}
  /\ loop = [l \in Loops |-> loop[l]]
  /\ \A l \in Loops :
       /\ loop[l] = LoopAt(loop[l].pc, loop[l].kind, loop[l].original, loop[l].chain)
       /\ loop[l].kind \in Kinds
  /\ handlers = [k \in Kinds |-> handlers[k]]

(* Only the thread that has the lock is anywhere near the setting. *)
OneHolder == \A l \in Loops : loop[l].pc \in Holding => lock = l

NotStarted == file = NoSettings => \A l \in Loops : loop[l].pc = "idle"

(* The setting is the configured one unless it is replaced right now, and  *)
(* who replaced it knows what to put back.                                 *)
SettingKept ==
  file # NoSettings =>
    /\ (\A l \in Loops : loop[l].pc \notin Replaced) => middleware = file.configured
    /\ \A l \in Loops :
         /\ loop[l].pc \in {"replaces", "loads", "restores"} => loop[l].original = file.configured
         /\ loop[l].pc = "loads" => middleware = Filtered(loop[l].kind, file.configured)

(* Chains that are kept, or about to be, are those of their kind. *)
ChainsKept ==
  /\ \A k \in Kinds : handlers[k] \in {NotBuilt, Filtered(k, file.configured)}
  /\ \A l \in Loops :
       /\ loop[l].pc \in {"restores", "has"} =>
            loop[l].chain \in {NotBuilt, Filtered(loop[l].kind, file.configured)}
       /\ loop[l].pc = "runs" => loop[l].chain = Filtered(loop[l].kind, file.configured)

(* Before the process runs nothing is kept. *)
NothingKept == file = NoSettings => \A k \in Kinds : handlers[k] = NotBuilt

ChainsInv == LoopsOK /\ OneHolder /\ NotStarted /\ SettingKept /\ ChainsKept /\ NothingKept

(* No thread is at anything at first. *)
LEMMA ChainsStart == ChainsInit => ChainsInv
BY DEF ChainsInit, ChainsInv, LoopsOK, OneHolder, NotStarted, SettingKept, ChainsKept, NothingKept,
   NoEvent, LoopAt, Holding, Kinds

(* What an event is to be run through depends on the settings alone. *)
LEMMA SameFile ==
  file' = file => \A k, chain : Filtered(k, chain)' = Filtered(k, chain)
BY DEF Filtered, AuthOnlyMiddleware, SettingsSkipList

(* Nothing changes when nothing changes, the settings of the file included. *)
LEMMA ChainsStutter == ChainsInv /\ UNCHANGED chainVars => ChainsInv'
<1> SUFFICES ASSUME ChainsInv, UNCHANGED chainVars PROVE ChainsInv'
  OBVIOUS
<1>1. \A k, chain : Filtered(k, chain)' = Filtered(k, chain)
  BY SameFile DEF chainVars
<1> QED
  BY <1>1 DEF chainVars, ChainsInv, LoopsOK, OneHolder, NotStarted, SettingKept, ChainsKept, NothingKept

(* The process runs with its settings before any event comes. *)
LEMMA Begins == ASSUME ChainsInv, NEW f \in SettingsFiles, StartLoops(f) PROVE ChainsInv'
<1>1. \A l \in Loops : loop[l].pc = "idle"
  BY DEF ChainsInv, NotStarted, StartLoops
<1>2. \A k \in Kinds : handlers[k] = NotBuilt
  BY DEF ChainsInv, NothingKept, StartLoops
<1>3. LoopsOK' /\ OneHolder' /\ NotStarted' /\ NothingKept'
  BY <1>1, <1>2 DEF ChainsInv, LoopsOK, OneHolder, NotStarted, NothingKept, StartLoops
<1>4. SettingKept' /\ ChainsKept'
  BY <1>1, <1>2 DEF SettingKept, ChainsKept, StartLoops, Replaced
<1> QED
  BY <1>3, <1>4 DEF ChainsInv

(* A step of one thread, and what the others are left with. *)
LEMMA OneMoves ==
  ASSUME ChainsInv, NEW l \in Loops, NEW pc, NEW kind \in Kinds, NEW original, NEW chain,
         Continues(l, LoopAt(pc, kind, original, chain))
  PROVE  /\ loop' = [i \in Loops |-> loop'[i]]
         /\ loop'[l] = LoopAt(pc, kind, original, chain)
         /\ \A i \in Loops \ {l} : loop'[i] = loop[i]
         /\ \A i \in Loops :
              /\ loop'[i] = LoopAt(loop'[i].pc, loop'[i].kind, loop'[i].original, loop'[i].chain)
              /\ loop'[i].kind \in Kinds
BY DEF ChainsInv, LoopsOK, Continues, LoopAt

(* An event takes nothing and touches nothing. *)
LEMMA Comes == ASSUME ChainsInv, NEW l \in Loops, NEW k \in Kinds, EventComes(l, k) PROVE ChainsInv'
<1>1. Continues(l, LoopAt("wants", k, NotBuilt, NotBuilt))
  BY DEF EventComes
<1>2. /\ loop' = [i \in Loops |-> loop'[i]]
      /\ loop'[l] = LoopAt("wants", k, NotBuilt, NotBuilt)
      /\ \A i \in Loops \ {l} : loop'[i] = loop[i]
      /\ \A i \in Loops :
           /\ loop'[i] = LoopAt(loop'[i].pc, loop'[i].kind, loop'[i].original, loop'[i].chain)
           /\ loop'[i].kind \in Kinds
  BY <1>1, OneMoves
<1>3. file' = file /\ \A n, c : Filtered(n, c)' = Filtered(n, c)
  BY SameFile DEF EventComes
<1>4. LoopsOK' /\ OneHolder' /\ NotStarted' /\ NothingKept'
  BY <1>2, <1>3 DEF EventComes, Is, ChainsInv, LoopsOK, OneHolder, NotStarted, NothingKept, Holding,
     Kinds, LoopAt
<1>5. SettingKept'
  BY <1>2, <1>3 DEF EventComes, Is, ChainsInv, LoopsOK, OneHolder, SettingKept, Holding, Replaced, LoopAt
<1>6. ChainsKept'
  BY <1>2, <1>3 DEF EventComes, Is, ChainsInv, LoopsOK, OneHolder, SettingKept, ChainsKept, Holding, LoopAt
<1> QED
  BY <1>4, <1>5, <1>6 DEF ChainsInv

(* The lock is taken when nobody has it. *)
LEMMA Gets == ASSUME ChainsInv, NEW l \in Loops, GetHandler(l) PROVE ChainsInv'
<1>0. loop[l].kind \in Kinds
  BY DEF ChainsInv, LoopsOK
<1>1. PICK pc \in {"builds", "has"} :
        Continues(l, LoopAt(pc, loop[l].kind, NotBuilt, handlers[loop[l].kind]))
  <2>1. CASE handlers[loop[l].kind] = NotBuilt
    BY <2>1 DEF GetHandler
  <2>2. CASE handlers[loop[l].kind] # NotBuilt
    BY <2>2 DEF GetHandler
  <2> QED
    BY <2>1, <2>2
<1>2. /\ loop' = [i \in Loops |-> loop'[i]]
      /\ loop'[l] = LoopAt(pc, loop[l].kind, NotBuilt, handlers[loop[l].kind])
      /\ \A i \in Loops \ {l} : loop'[i] = loop[i]
      /\ \A i \in Loops :
           /\ loop'[i] = LoopAt(loop'[i].pc, loop'[i].kind, loop'[i].original, loop'[i].chain)
           /\ loop'[i].kind \in Kinds
  BY <1>0, <1>1, OneMoves
<1>3. file' = file /\ \A n, c : Filtered(n, c)' = Filtered(n, c)
  BY SameFile DEF GetHandler
<1>4. LoopsOK' /\ OneHolder' /\ NotStarted' /\ NothingKept'
  <2>1. file # NoSettings /\ lock = Unlocked /\ lock' = l /\ handlers' = handlers
    BY DEF GetHandler, Is
  <2>2. LoopsOK'
    BY <1>2, <2>1 DEF ChainsInv, LoopsOK
  <2>3. OneHolder'
    BY <1>2, <2>1, ChainsAssumption DEF ChainsInv, OneHolder
  <2> QED
    BY <1>3, <2>1, <2>2, <2>3 DEF NotStarted, NothingKept
<1>5. SettingKept'
  BY <1>2, <1>3 DEF GetHandler, Is, ChainsInv, LoopsOK, OneHolder, SettingKept, Holding, Replaced, LoopAt
<1>6. ChainsKept'
  BY <1>2, <1>3 DEF GetHandler, Is, ChainsInv, LoopsOK, OneHolder, SettingKept, ChainsKept, Holding, LoopAt
<1> QED
  BY <1>4, <1>5, <1>6 DEF ChainsInv

(* What is read under the lock is the configured setting. *)
LEMMA Reads == ASSUME ChainsInv, NEW l \in Loops, ReadSetting(l) PROVE ChainsInv'
<1>1. Continues(l, LoopAt("replaces", loop[l].kind, middleware, NotBuilt)) /\ loop[l].kind \in Kinds
  BY DEF ReadSetting, ChainsInv, LoopsOK, NoEvent
<1>2. /\ loop' = [i \in Loops |-> loop'[i]]
      /\ loop'[l] = LoopAt("replaces", loop[l].kind, middleware, NotBuilt)
      /\ \A i \in Loops \ {l} : loop'[i] = loop[i]
      /\ \A i \in Loops :
           /\ loop'[i] = LoopAt(loop'[i].pc, loop'[i].kind, loop'[i].original, loop'[i].chain)
           /\ loop'[i].kind \in Kinds
  BY <1>1, OneMoves
<1>3. file' = file /\ \A n, c : Filtered(n, c)' = Filtered(n, c)
  BY SameFile DEF ReadSetting
<1>4. LoopsOK' /\ OneHolder' /\ NotStarted' /\ NothingKept'
  BY <1>2, <1>3 DEF ReadSetting, Is, ChainsInv, LoopsOK, OneHolder, NotStarted, NothingKept, Holding,
     Kinds, LoopAt
<1>5. SettingKept'
  BY <1>2, <1>3 DEF ReadSetting, Is, ChainsInv, LoopsOK, OneHolder, SettingKept, Holding, Replaced, LoopAt
<1>6. ChainsKept'
  BY <1>2, <1>3 DEF ReadSetting, Is, ChainsInv, LoopsOK, OneHolder, SettingKept, ChainsKept, Holding, LoopAt
<1> QED
  BY <1>4, <1>5, <1>6 DEF ChainsInv

(* What the setting is replaced by is what the kind is to run through. *)
LEMMA Replaces == ASSUME ChainsInv, NEW l \in Loops, ReplaceSetting(l) PROVE ChainsInv'
<1>1. Continues(l, LoopAt("loads", loop[l].kind, loop[l].original, NotBuilt)) /\ loop[l].kind \in Kinds
  BY DEF ReplaceSetting, ChainsInv, LoopsOK, NoEvent
<1>2. /\ loop' = [i \in Loops |-> loop'[i]]
      /\ loop'[l] = LoopAt("loads", loop[l].kind, loop[l].original, NotBuilt)
      /\ \A i \in Loops \ {l} : loop'[i] = loop[i]
      /\ \A i \in Loops :
           /\ loop'[i] = LoopAt(loop'[i].pc, loop'[i].kind, loop'[i].original, loop'[i].chain)
           /\ loop'[i].kind \in Kinds
  BY <1>1, OneMoves
<1>3. file' = file /\ \A n, c : Filtered(n, c)' = Filtered(n, c)
  BY SameFile DEF ReplaceSetting
<1>4. LoopsOK' /\ OneHolder' /\ NotStarted' /\ NothingKept'
  BY <1>2, <1>3 DEF ReplaceSetting, Is, ChainsInv, LoopsOK, OneHolder, NotStarted, NothingKept, Holding,
     Kinds, LoopAt
<1>5. SettingKept'
  BY <1>2, <1>3 DEF ReplaceSetting, Is, ChainsInv, LoopsOK, OneHolder, SettingKept, Holding, Replaced, LoopAt
<1>6. ChainsKept'
  BY <1>2, <1>3 DEF ReplaceSetting, Is, ChainsInv, LoopsOK, OneHolder, SettingKept, ChainsKept, Holding, LoopAt
<1> QED
  BY <1>4, <1>5, <1>6 DEF ChainsInv

(* A chain that is built is the one of the setting. *)
LEMMA Loads == ASSUME ChainsInv, NEW l \in Loops, LoadMiddleware(l),
                       NEW chain \in {middleware, NotBuilt},
                       Continues(l, LoopAt("restores", loop[l].kind, loop[l].original, chain))
                PROVE  ChainsInv'
<1>1. Continues(l, LoopAt("restores", loop[l].kind, loop[l].original, chain)) /\ loop[l].kind \in Kinds
  BY DEF LoadMiddleware, ChainsInv, LoopsOK, NoEvent
<1>2. /\ loop' = [i \in Loops |-> loop'[i]]
      /\ loop'[l] = LoopAt("restores", loop[l].kind, loop[l].original, chain)
      /\ \A i \in Loops \ {l} : loop'[i] = loop[i]
      /\ \A i \in Loops :
           /\ loop'[i] = LoopAt(loop'[i].pc, loop'[i].kind, loop'[i].original, loop'[i].chain)
           /\ loop'[i].kind \in Kinds
  BY <1>1, OneMoves
<1>3. file' = file /\ \A n, c : Filtered(n, c)' = Filtered(n, c)
  BY SameFile DEF LoadMiddleware
<1>4. LoopsOK' /\ OneHolder' /\ NotStarted' /\ NothingKept'
  BY <1>2, <1>3 DEF LoadMiddleware, Is, ChainsInv, LoopsOK, OneHolder, NotStarted, NothingKept, Holding,
     Kinds, LoopAt
<1>5. SettingKept'
  BY <1>2, <1>3 DEF LoadMiddleware, Is, ChainsInv, LoopsOK, OneHolder, SettingKept, Holding, Replaced, LoopAt
<1>6. ChainsKept'
  BY <1>2, <1>3 DEF LoadMiddleware, Is, ChainsInv, LoopsOK, OneHolder, SettingKept, ChainsKept, Holding, LoopAt
<1> QED
  BY <1>4, <1>5, <1>6 DEF ChainsInv

(* The setting that is put back is the configured one. *)
LEMMA Restores == ASSUME ChainsInv, NEW l \in Loops, RestoreSetting(l) PROVE ChainsInv'
<1>1. Continues(l, LoopAt("has", loop[l].kind, NotBuilt, loop[l].chain)) /\ loop[l].kind \in Kinds
  BY DEF RestoreSetting, ChainsInv, LoopsOK, NoEvent
<1>2. /\ loop' = [i \in Loops |-> loop'[i]]
      /\ loop'[l] = LoopAt("has", loop[l].kind, NotBuilt, loop[l].chain)
      /\ \A i \in Loops \ {l} : loop'[i] = loop[i]
      /\ \A i \in Loops :
           /\ loop'[i] = LoopAt(loop'[i].pc, loop'[i].kind, loop'[i].original, loop'[i].chain)
           /\ loop'[i].kind \in Kinds
  BY <1>1, OneMoves
<1>3. file' = file /\ \A n, c : Filtered(n, c)' = Filtered(n, c)
  BY SameFile DEF RestoreSetting
<1>4. LoopsOK' /\ OneHolder' /\ NotStarted' /\ NothingKept'
  BY <1>2, <1>3 DEF RestoreSetting, Is, ChainsInv, LoopsOK, OneHolder, NotStarted, NothingKept, Holding,
     Kinds, LoopAt
<1>5. SettingKept'
  BY <1>2, <1>3 DEF RestoreSetting, Is, ChainsInv, LoopsOK, OneHolder, SettingKept, Holding, Replaced, LoopAt
<1>6. ChainsKept'
  BY <1>2, <1>3 DEF RestoreSetting, Is, ChainsInv, LoopsOK, OneHolder, SettingKept, ChainsKept, Holding, LoopAt
<1> QED
  BY <1>4, <1>5, <1>6 DEF ChainsInv

(* A thread that releases the lock has put back the setting. *)
LEMMA Frees == ASSUME ChainsInv, NEW l \in Loops, Release(l) PROVE ChainsInv'
<1>1. PICK pc \in {"idle", "runs"}, kind \in Kinds :
        /\ Continues(l, LoopAt(pc, kind, NotBuilt, loop[l].chain))
        /\ pc = "runs" => kind = loop[l].kind /\ loop[l].chain # NotBuilt
  <2>1. CASE loop[l].chain = NotBuilt
    <3>1. Continues(l, LoopAt("idle", "full", NotBuilt, loop[l].chain))
      BY <2>1 DEF Release, NoEvent
    <3> QED
      BY <3>1 DEF Kinds
  <2>2. CASE loop[l].chain # NotBuilt
    <3>1. Continues(l, LoopAt("runs", loop[l].kind, NotBuilt, loop[l].chain))
      BY <2>2 DEF Release
    <3> QED
      BY <2>2, <3>1 DEF ChainsInv, LoopsOK
  <2> QED
    BY <2>1, <2>2
<1>2. /\ loop' = [i \in Loops |-> loop'[i]]
      /\ loop'[l] = LoopAt(pc, kind, NotBuilt, loop[l].chain)
      /\ \A i \in Loops \ {l} : loop'[i] = loop[i]
      /\ \A i \in Loops :
           /\ loop'[i] = LoopAt(loop'[i].pc, loop'[i].kind, loop'[i].original, loop'[i].chain)
           /\ loop'[i].kind \in Kinds
  BY <1>1, OneMoves
<1>3. file' = file /\ \A n, c : Filtered(n, c)' = Filtered(n, c)
  BY SameFile DEF Release
<1>4. LoopsOK' /\ OneHolder' /\ NotStarted' /\ NothingKept'
  BY <1>1, <1>2, <1>3 DEF Release, Is, ChainsInv, LoopsOK, OneHolder, NotStarted, NothingKept, Holding,
     Kinds, LoopAt
<1>5. SettingKept'
  BY <1>1, <1>2, <1>3 DEF Release, Is, ChainsInv, LoopsOK, OneHolder, SettingKept, Holding, Replaced, LoopAt
<1>6. ChainsKept'
  BY <1>1, <1>2, <1>3 DEF Release, Is, ChainsInv, LoopsOK, OneHolder, SettingKept, ChainsKept, Holding,
     LoopAt
<1> QED
  BY <1>4, <1>5, <1>6 DEF ChainsInv

(* An event that is over has left nothing behind. *)
LEMMA Runs == ASSUME ChainsInv, NEW l \in Loops, RunChain(l) PROVE ChainsInv'
<1>1. Continues(l, LoopAt("idle", "full", NotBuilt, NotBuilt)) /\ "full" \in Kinds
  BY DEF RunChain, NoEvent, Kinds
<1>2. /\ loop' = [i \in Loops |-> loop'[i]]
      /\ loop'[l] = LoopAt("idle", "full", NotBuilt, NotBuilt)
      /\ \A i \in Loops \ {l} : loop'[i] = loop[i]
      /\ \A i \in Loops :
           /\ loop'[i] = LoopAt(loop'[i].pc, loop'[i].kind, loop'[i].original, loop'[i].chain)
           /\ loop'[i].kind \in Kinds
  BY <1>1, OneMoves
<1>3. file' = file /\ \A n, c : Filtered(n, c)' = Filtered(n, c)
  BY SameFile DEF RunChain
<1>4. LoopsOK' /\ OneHolder' /\ NotStarted' /\ NothingKept'
  BY <1>2, <1>3 DEF RunChain, Is, ChainsInv, LoopsOK, OneHolder, NotStarted, NothingKept, Holding,
     Kinds, LoopAt
<1>5. SettingKept'
  BY <1>2, <1>3 DEF RunChain, Is, ChainsInv, LoopsOK, OneHolder, SettingKept, Holding, Replaced, LoopAt
<1>6. ChainsKept'
  BY <1>2, <1>3 DEF RunChain, Is, ChainsInv, LoopsOK, OneHolder, SettingKept, ChainsKept, Holding, LoopAt
<1> QED
  BY <1>4, <1>5, <1>6 DEF ChainsInv

(* Nobody disturbs what the others rely on. *)
LEMMA ChainsStep == ChainsInv /\ [ChainsNext]_chainVars => ChainsInv'
<1> SUFFICES ASSUME ChainsInv, ChainsNext PROVE ChainsInv'
  BY ChainsStutter
<1>1. CASE \E f \in SettingsFiles : StartLoops(f)
  BY <1>1, Begins
<1>2. ASSUME NEW l \in Loops,
             \/ \E k \in Kinds : EventComes(l, k)
             \/ GetHandler(l) \/ ReadSetting(l) \/ ReplaceSetting(l)
             \/ LoadMiddleware(l) \/ RestoreSetting(l) \/ Release(l) \/ RunChain(l)
      PROVE  ChainsInv'
  <2>1. CASE LoadMiddleware(l)
    <3>1. PICK chain \in {middleware, NotBuilt} :
            Continues(l, LoopAt("restores", loop[l].kind, loop[l].original, chain))
      BY <2>1 DEF LoadMiddleware
    <3> QED
      BY <2>1, <3>1, Loads
  <2> QED
    BY <1>2, <2>1, Comes, Gets, Reads, Replaces, Restores, Frees, Runs
<1> QED
  BY <1>1, <1>2 DEF ChainsNext

(* With nobody at the lock nobody has replaced the setting. *)
LEMMA ChainsConfigured == ChainsInv => ChainsAsConfigured
<1> SUFFICES ASSUME ChainsInv, file # NoSettings
             PROVE  /\ lock = Unlocked => middleware = file.configured
                    /\ \A l \in Loops :
                         Is(l, "runs") => loop[l].chain = Filtered(loop[l].kind, file.configured)
  BY DEF ChainsAsConfigured
<1>1. lock = Unlocked => \A l \in Loops : loop[l].pc \notin Replaced
  BY ChainsAssumption DEF ChainsInv, OneHolder, Holding, Replaced
<1>2. lock = Unlocked => middleware = file.configured
  BY <1>1 DEF ChainsInv, SettingKept
<1>3. \A l \in Loops :
        Is(l, "runs") => loop[l].chain = Filtered(loop[l].kind, file.configured)
  BY DEF ChainsInv, ChainsKept, Is
<1> QED
  BY <1>2, <1>3

(* Every event runs through the middleware configured for its kind, and    *)
(* the setting of the process is the configured one when no chain is being *)
(* built (load_middleware and _get_handler), whatever threads and settings *)
(* there are.                                                              *)
THEOREM ChainsSafe == ChainsSpec => []ChainsAsConfigured
<1>1. ChainsSpec => []ChainsInv
  BY ChainsStart, ChainsStep, PTL DEF ChainsSpec
<1> QED
  BY <1>1, ChainsConfigured, PTL

(*************************** guards: what is pending ************************)
PageNames == {Home, LoginPage, "panel"}
Events == {"load", "hydrated", "on load login", "redirect to login", "require", "click"}

GuardsTypes ==
  /\ policy \in Policies \cup {NoPolicy}
  /\ user \in Visitors \cup {Guest}
  /\ holders \in SUBSET Visitors
  /\ visit \in [page : PageNames, hydrated : BOOLEAN, known : BOOLEAN]
  /\ queue \in Seq(Events)
  /\ handling \in [event : Events \cup {"none"}, user : Visitors \cup {Guest}, flag : BOOLEAN,
                   held : SUBSET Visitors]
  /\ meanwhile \in [users : SUBSET (Visitors \cup {Guest}), held : SUBSET Visitors]

(* The guard of a page for users with a right waits in a tab's queue. *)
Awaits(s) == \E i \in 1 .. Len(s) : s[i] = "require"

(* Before a tab is opened nothing happens in it. *)
NothingBefore ==
  policy = NoPolicy => handling = Resting /\ queue = <<>> /\ visit.page = Home

(* Who is signed in, and who has the right, was so meanwhile. *)
MeanwhileKept ==
  policy # NoPolicy => user \in meanwhile.users /\ holders \subseteq meanwhile.held

(* An event knows of all who had the right since it began. *)
HandlingKept ==
  handling # Resting =>
    /\ holders \subseteq handling.held
    /\ handling.flag => handling.user \in handling.held

(* The guard of the page is still to come, or it has been asked for a user *)
(* of this page, or somebody was let in.                                   *)
GuardComes ==
  policy.asks[visit.page] = "right" =>
    \/ Awaits(queue)
    \/ /\ handling.event = "require"
       /\ handling.user \in meanwhile.users
       /\ handling.flag => handling.user \in meanwhile.held
    \/ meanwhile.users \cap meanwhile.held # {}

(* The one being handled let somebody in, or comes again. *)
GuardDone ==
  policy.asks[visit.page] = "right" =>
    Awaits(queue') \/ meanwhile.users \cap meanwhile.held # {}

GuardsInv ==
  GuardsTypes /\ NothingBefore /\ MeanwhileKept /\ HandlingKept /\ GuardComes /\ HandlerWasAllowed
-----------------------------------------------------------------------------
(* Queues: what waits in them. *)

(* Both parts of a queue count. *)
LEMMA ConcatAwaits ==
  ASSUME NEW S, NEW s \in Seq(S), NEW u \in Seq(S)
  PROVE  s \o u \in Seq(S) /\ (Awaits(s \o u) <=> Awaits(s) \/ Awaits(u))
<1>1. /\ Len(s) \in Nat /\ Len(u) \in Nat /\ s \o u \in Seq(S) /\ Len(s \o u) = Len(s) + Len(u)
      /\ \A i \in 1 .. Len(s) + Len(u) : (s \o u)[i] = IF i <= Len(s) THEN s[i] ELSE u[i - Len(s)]
  OBVIOUS
<1>2. ASSUME NEW i \in 1 .. Len(s), s[i] = "require" PROVE Awaits(s \o u)
  <2>1. i \in 1 .. Len(s) + Len(u) /\ (s \o u)[i] = s[i]
    BY <1>1
  <2> QED
    BY <1>1, <1>2, <2>1 DEF Awaits
<1>3. ASSUME NEW i \in 1 .. Len(u), u[i] = "require" PROVE Awaits(s \o u)
  <2>1. Len(s) + i \in 1 .. Len(s) + Len(u) /\ (s \o u)[Len(s) + i] = u[i]
    BY <1>1
  <2> QED
    BY <1>1, <1>3, <2>1 DEF Awaits
<1>4. ASSUME NEW i \in 1 .. Len(s) + Len(u), (s \o u)[i] = "require" PROVE Awaits(s) \/ Awaits(u)
  <2>1. CASE i <= Len(s)
    BY <1>1, <1>4, <2>1 DEF Awaits
  <2>2. CASE i > Len(s)
    <3>1. i - Len(s) \in 1 .. Len(u) /\ u[i - Len(s)] = "require"
      BY <1>1, <1>4, <2>2
    <3> QED
      BY <3>1 DEF Awaits
  <2> QED
    BY <1>1, <2>1, <2>2
<1> QED
  BY <1>1, <1>2, <1>3, <1>4 DEF Awaits

(* An event at the end. *)
LEMMA AppendAwaits ==
  ASSUME NEW S, NEW s \in Seq(S), NEW e \in S
  PROVE  /\ Append(s, e) \in Seq(S)
         /\ Awaits(Append(s, e)) <=> Awaits(s) \/ e = "require"
<1>1. /\ Len(s) \in Nat /\ Append(s, e) \in Seq(S) /\ Len(Append(s, e)) = Len(s) + 1
      /\ Append(s, e)[Len(s) + 1] = e
      /\ \A i \in 1 .. Len(s) : Append(s, e)[i] = s[i]
  OBVIOUS
<1>2. \A i \in 1 .. Len(s) + 1 : i = Len(s) + 1 \/ i \in 1 .. Len(s)
  BY <1>1
<1>3. \A i \in 1 .. Len(s) : i \in 1 .. Len(s) + 1
  BY <1>1
<1>4. Len(s) + 1 \in 1 .. Len(s) + 1
  BY <1>1
<1> QED
  BY <1>1, <1>2, <1>3, <1>4 DEF Awaits

(* The first event taken. *)
LEMMA TailAwaits ==
  ASSUME NEW S, NEW s \in Seq(S), s # <<>>
  PROVE  /\ Tail(s) \in Seq(S) /\ Head(s) \in S
         /\ Awaits(s) => Head(s) = "require" \/ Awaits(Tail(s))
<1>1. /\ Len(s) \in Nat \ {0} /\ Tail(s) \in Seq(S) /\ Head(s) \in S /\ Head(s) = s[1]
      /\ Len(Tail(s)) = Len(s) - 1 /\ \A i \in 1 .. Len(s) - 1 : Tail(s)[i] = s[i + 1]
  OBVIOUS
<1>2. ASSUME NEW i \in 1 .. Len(s), s[i] = "require", i # 1
      PROVE  Awaits(Tail(s))
  <2>1. i - 1 \in 1 .. Len(s) - 1 /\ Tail(s)[i - 1] = s[i]
    BY <1>1, <1>2
  <2> QED
    BY <1>1, <1>2, <2>1 DEF Awaits
<1> QED
  BY <1>1, <1>2 DEF Awaits

(* A page for users with a right brings its guard. *)
LEMMA ArrivalsAwait ==
  ASSUME NEW p, NEW page, NEW hydrated, NEW known,
         NEW coming \in Arrivals(p, page, hydrated, known)
  PROVE  coming \in Seq(Events) /\ (p.asks[page] = "right" => Awaits(coming))
<1> DEFINE guard == Guard(p, page, hydrated, known)
<1>1. guard \in Seq(Events) /\ (p.asks[page] = "right" => guard = <<"require">>)
  <2>1. /\ p.asks[page] = "right" => guard = <<"require">>
        /\ guard \in {<<"require">>, <<"redirect to login">>, <<>>}
    BY DEF Guard, GuardedPage, ProtectedPage
  <2>2. /\ <<"require">> \in Seq(Events) /\ <<"redirect to login">> \in Seq(Events)
        /\ <<>> \in Seq(Events)
    BY DEF Events
  <2> QED
    BY <2>1, <2>2
<1>2. <<"load">> \in Seq(Events) /\ <<"require">> \in Seq(Events) /\ Awaits(<<"require">>)
  <2>1. Len(<<"require">>) = 1 /\ <<"require">>[1] = "require" /\ 1 \in 1 .. 1
    OBVIOUS
  <2> QED
    BY <2>1 DEF Events, Awaits
<1>3. coming = guard \o <<"load">> \/ coming = <<"load">> \o guard
  BY DEF Arrivals
<1> HIDE DEF guard
<1> QED
  BY <1>1, <1>2, <1>3, ConcatAwaits

(* A page is opened: its guard comes, and those there now count for it. *)
LEMMA OpenedPage ==
  ASSUME NEW page \in PageNames, NEW hydrated \in BOOLEAN, NEW known \in BOOLEAN,
         NEW waiting \in Seq(Events), GuardsTypes, policy' = policy,
         user' = user, holders' = holders, OpensPage(page, hydrated, known, waiting)
  PROVE  /\ visit' \in [page : PageNames, hydrated : BOOLEAN, known : BOOLEAN]
         /\ queue' \in Seq(Events)
         /\ meanwhile' \in [users : SUBSET (Visitors \cup {Guest}), held : SUBSET Visitors]
         /\ user' \in meanwhile'.users /\ holders' \subseteq meanwhile'.held
         /\ policy'.asks[visit'.page] = "right" => Awaits(queue')
<1>1. PICK coming \in Arrivals(policy, page, hydrated, known) : queue' = waiting \o coming
  BY DEF OpensPage
<1>2. coming \in Seq(Events) /\ (policy.asks[page] = "right" => Awaits(coming))
  BY <1>1, ArrivalsAwait
<1>3. queue' \in Seq(Events) /\ (policy.asks[page] = "right" => Awaits(queue'))
  BY <1>1, <1>2, ConcatAwaits
<1>4. visit' = [page |-> page, hydrated |-> hydrated, known |-> known] /\ visit'.page = page
  BY DEF OpensPage
<1>5. /\ meanwhile' = [users |-> {user}, held |-> holders]
      /\ meanwhile'.users = {user} /\ meanwhile'.held = holders
  BY DEF OpensPage
<1>6. visit' \in [page : PageNames, hydrated : BOOLEAN, known : BOOLEAN]
  BY <1>4
<1>7. meanwhile' \in [users : SUBSET (Visitors \cup {Guest}), held : SUBSET Visitors]
  BY <1>5 DEF GuardsTypes
<1> QED
  BY <1>3, <1>4, <1>5, <1>6, <1>7

(* So after the event that opens one, whatever it was. *)
LEMMA OpeningKeeps ==
  ASSUME GuardsInv, NEW page \in PageNames, NEW hydrated \in BOOLEAN, NEW known \in BOOLEAN,
         NEW waiting \in Seq(Events), OpensPage(page, hydrated, known, waiting),
         UNCHANGED <<policy, user, holders, ran>>, policy # NoPolicy,
         handling' = handling \/ handling' = Resting
  PROVE  GuardsInv'
<1>1. GuardsTypes /\ policy' = policy /\ user' = user /\ holders' = holders
  BY DEF GuardsInv
<1>2. /\ visit' \in [page : PageNames, hydrated : BOOLEAN, known : BOOLEAN]
      /\ queue' \in Seq(Events)
      /\ meanwhile' \in [users : SUBSET (Visitors \cup {Guest}), held : SUBSET Visitors]
      /\ user' \in meanwhile'.users /\ holders' \subseteq meanwhile'.held
      /\ policy'.asks[visit'.page] = "right" => Awaits(queue')
  BY <1>1, OpenedPage
<1>3. handling' \in [event : Events \cup {"none"}, user : Visitors \cup {Guest}, flag : BOOLEAN,
                     held : SUBSET Visitors]
  <2>1. /\ handling \in [event : Events \cup {"none"}, user : Visitors \cup {Guest}, flag : BOOLEAN,
                         held : SUBSET Visitors]
        /\ Resting \in [event : Events \cup {"none"}, user : Visitors \cup {Guest}, flag : BOOLEAN,
                        held : SUBSET Visitors]
    BY <1>1 DEF GuardsTypes, Resting
  <2> QED
    BY <2>1
<1>4. GuardsTypes'
  BY <1>1, <1>2, <1>3 DEF GuardsTypes
<1>5. HandlingKept'
  BY <1>1 DEF GuardsInv, HandlingKept
<1>6. MeanwhileKept' /\ GuardComes'
  BY <1>2 DEF MeanwhileKept, GuardComes
<1>8. NothingBefore'
  BY <1>1 DEF NothingBefore
<1>7. HandlerWasAllowed'
  BY DEF GuardsInv, HandlerWasAllowed
<1> QED
  BY <1>4, <1>5, <1>6, <1>7, <1>8 DEF GuardsInv

(* A tab that stays where it is may have its guard mounted anew. *)
LEMMA Becoming ==
  ASSUME GuardsTypes, NEW hydrated \in BOOLEAN, NEW known \in BOOLEAN, NEW waiting \in Seq(Events),
         Becomes(hydrated, known, waiting)
  PROVE  /\ visit' \in [page : PageNames, hydrated : BOOLEAN, known : BOOLEAN]
         /\ visit'.page = visit.page /\ meanwhile' = meanwhile
         /\ queue' \in Seq(Events)
         /\ Awaits(waiting) => Awaits(queue')
<1>1. Remounts(hydrated, known) \in {<<>>, <<"redirect to login">>}
  BY DEF Remounts, ProtectedPage
<1>2. <<"redirect to login">> \in Seq(Events)
  <2>1. "redirect to login" \in Events
    BY DEF Events
  <2>2. \A e \in Events : <<e>> \in Seq(Events)
    OBVIOUS
  <2> QED
    BY <2>1, <2>2, Zenon
<1>3. Remounts(hydrated, known) \in Seq(Events)
  <2>1. <<>> \in Seq(Events)
    OBVIOUS
  <2> QED
    BY <1>1, <1>2, <2>1
<1>4. queue' = waiting \o Remounts(hydrated, known) /\ meanwhile' = meanwhile
  BY DEF Becomes
<1>5. queue' \in Seq(Events) /\ (Awaits(waiting) => Awaits(queue'))
  BY <1>3, <1>4, ConcatAwaits
<1>6. visit' = [visit EXCEPT !.hydrated = hydrated, !.known = known]
  BY DEF Becomes
<1>7. /\ visit' \in [page : PageNames, hydrated : BOOLEAN, known : BOOLEAN]
      /\ visit'.page = visit.page
  BY <1>6 DEF GuardsTypes
<1> QED
  BY <1>4, <1>5, <1>7

(* A step of a tab that stays where it is: no event, or one that is done. *)
LEMMA StayingKeeps ==
  ASSUME GuardsInv, visit'.page = visit.page, queue' \in Seq(Events),
         visit' \in [page : PageNames, hydrated : BOOLEAN, known : BOOLEAN],
         Awaits(queue) => Awaits(queue'),
         \/ handling' = handling
         \/ handling' = Resting /\ (handling.event = "require" => GuardDone),
         policy # NoPolicy, UNCHANGED <<policy, user, holders, meanwhile>>,
         HandlerWasAllowed'
  PROVE  GuardsInv'
<1>1. GuardsTypes'
  <2> DEFINE Handlings == [event : Events \cup {"none"}, user : Visitors \cup {Guest}, flag : BOOLEAN,
                           held : SUBSET Visitors]
  <2>1. handling \in Handlings
    BY DEF GuardsInv, GuardsTypes
  <2>2. Resting \in Handlings
    BY DEF Resting
  <2>3. handling' \in Handlings
    <3> HIDE DEF Handlings
    <3> QED
      BY <2>1, <2>2
  <2> QED
    BY <2>3 DEF GuardsInv, GuardsTypes
<1>2. NothingBefore' /\ MeanwhileKept' /\ HandlingKept'
  BY DEF GuardsInv, NothingBefore, MeanwhileKept, HandlingKept
<1>3. GuardComes'
  <2>1. CASE handling' = handling
    BY <2>1 DEF GuardsInv, GuardComes
  <2>2. CASE handling' = Resting /\ (handling.event = "require" => GuardDone)
    BY <2>2 DEF GuardsInv, GuardComes, GuardDone
  <2> QED
    BY <2>1, <2>2
<1> QED
  BY <1>1, <1>2, <1>3 DEF GuardsInv

(* Before the tab is opened nobody is let in. *)
LEMMA GuardsStart ==
  ASSUME GuardsInit
  PROVE  GuardsInv
<1>1. GuardsTypes
  BY DEF GuardsInit, GuardsTypes, PageNames, Resting
<1>2. NoPolicy.asks[visit.page] # "right"
  BY DEF GuardsInit, NoPolicy
<1> QED
  BY <1>1, <1>2 DEF GuardsInit, GuardsInv, NothingBefore, MeanwhileKept, HandlingKept, GuardComes, HandlerWasAllowed

(* The tab is opened. *)
LEMMA OpenSiteKeeps ==
  ASSUME GuardsInv, NEW p \in Policies, OpenSite(p)
  PROVE  GuardsInv'
<1>1. queue' \in Seq(Events) /\ (p.asks[Home] = "right" => Awaits(queue'))
  BY ArrivalsAwait DEF OpenSite
<1>2. GuardsTypes
  BY DEF GuardsInv
<1>3. GuardsTypes'
  BY <1>1, <1>2 DEF GuardsTypes, OpenSite
<1>4. MeanwhileKept'
  BY DEF OpenSite, MeanwhileKept
<1>5. p # NoPolicy
  <2>1. p.right \in {"flag", "query"} /\ NoPolicy.right = "none"
    BY GuardsAssumption DEF PolicyRecord, NoPolicy
  <2> QED
    BY <2>1
<1>6. NothingBefore' /\ HandlingKept'
  BY <1>5 DEF OpenSite, NothingBefore, HandlingKept, GuardsInv
<1>7. GuardComes'
  <2>1. policy' = p /\ visit'.page = Home
    BY DEF OpenSite, GuardsInv, NothingBefore
  <2> QED
    BY <1>1, <2>1 DEF GuardComes
<1> QED
  BY <1>3, <1>4, <1>6, <1>7 DEF GuardsInv, HandlerWasAllowed, OpenSite

(* An event is taken with the user of the session and what they may do. *)
LEMMA TakeEventKeeps ==
  ASSUME GuardsInv, TakeEvent
  PROVE  GuardsInv'
<1>1. GuardsTypes /\ queue # <<>> /\ queue \in Seq(Events)
  BY DEF GuardsInv, GuardsTypes, TakeEvent
<1>2. /\ Tail(queue) \in Seq(Events) /\ Head(queue) \in Events
      /\ Awaits(queue) => Head(queue) = "require" \/ Awaits(Tail(queue))
  BY <1>1, TailAwaits
<1>3. /\ handling' = [event |-> Head(queue), user |-> user, flag |-> user \in holders, held |-> holders]
      /\ queue' = Tail(queue) /\ handling = Resting
      /\ UNCHANGED <<policy, user, holders, visit, ran, meanwhile>>
  BY DEF TakeEvent
<1>4. /\ handling'.event = Head(queue) /\ handling'.user = user /\ handling'.held = holders
      /\ handling'.flag = (user \in holders)
  BY <1>3
<1>5. GuardsTypes'
  BY <1>1, <1>2, <1>3 DEF GuardsTypes
<1>6. HandlingKept'
  BY <1>3, <1>4 DEF HandlingKept
<1>7. NothingBefore' /\ MeanwhileKept' /\ HandlerWasAllowed'
  BY <1>1, <1>3 DEF GuardsInv, NothingBefore, MeanwhileKept, HandlerWasAllowed
<1>8. GuardComes'
  <2> SUFFICES ASSUME policy.asks[visit.page] = "right", ~Awaits(queue'),
                      meanwhile.users \cap meanwhile.held = {}
               PROVE  /\ handling'.event = "require" /\ handling'.user \in meanwhile.users
                      /\ handling'.flag => handling'.user \in meanwhile.held
    BY <1>3 DEF GuardComes
  <2>1. handling.event # "require"
    BY <1>3 DEF Resting
  <2>2. handling'.event = "require"
    BY <1>2, <1>3, <1>4, <2>1 DEF GuardsInv, GuardComes
  <2>3. policy # NoPolicy
    BY <1>1 DEF NoPolicy, GuardsTypes, PageNames
  <2> QED
    BY <1>4, <2>2, <2>3 DEF GuardsInv, MeanwhileKept
<1> QED
  BY <1>5, <1>6, <1>7, <1>8 DEF GuardsInv

-----------------------------------------------------------------------------
(* The events that are handled. *)

(* An event of an open tab comes to an end. *)
LEMMA HandlesIsOpen ==
  ASSUME GuardsInv, NEW event \in Events, Handles(event)
  PROVE  policy # NoPolicy /\ handling # Resting /\ handling.event = event /\ handling' = Resting
<1>1. handling.event = event /\ handling' = Resting
  BY DEF Handles
<1>2. event # "none" /\ Resting.event = "none"
  BY DEF Events, Resting
<1> QED
  BY <1>1, <1>2 DEF GuardsInv, NothingBefore

(* What the tab knows of its user may be computed anew. *)
LEMMA KnowingKeeps ==
  ASSUME GuardsInv, NEW event \in Events, Handles(event), NEW known \in BOOLEAN, Stays(known),
         handling.event = "require" => GuardDone, UNCHANGED <<policy, user, holders>>,
         HandlerWasAllowed'
  PROVE  GuardsInv'
<1>1. GuardsTypes /\ queue \in Seq(Events) /\ visit.hydrated \in BOOLEAN
  BY DEF GuardsInv, GuardsTypes
<1>2. Becomes(visit.hydrated, known, queue)
  BY DEF Stays
<1>3. /\ visit' \in [page : PageNames, hydrated : BOOLEAN, known : BOOLEAN]
      /\ visit'.page = visit.page /\ meanwhile' = meanwhile
      /\ queue' \in Seq(Events) /\ (Awaits(queue) => Awaits(queue'))
  BY <1>1, <1>2, Becoming
<1>4. policy # NoPolicy /\ handling' = Resting
  BY HandlesIsOpen
<1> QED
  BY <1>3, <1>4, StayingKeeps

(* It is a matter of yes or no. *)
LEMMA KnownOrNot ==
  ASSUME GuardsInv
  PROVE  Known \subseteq BOOLEAN
BY DEF GuardsInv, GuardsTypes, Known

(* The load of a page. *)
LEMMA LoadKeeps ==
  ASSUME GuardsInv, Load
  PROVE  GuardsInv'
<1>1. Handles("load") /\ "load" \in Events
  BY DEF Load, Events
<1>2. /\ policy # NoPolicy /\ handling.event = "load" /\ handling' = Resting
      /\ visit.known \in BOOLEAN /\ queue \in Seq(Events) /\ GuardsTypes
  BY <1>1, HandlesIsOpen DEF GuardsInv, GuardsTypes
<1>3. UNCHANGED <<policy, user, holders, ran>> /\ HandlerWasAllowed'
  BY DEF Load, Outwards, GuardsInv, HandlerWasAllowed
<1>4. ASSUME NEW hydrated \in BOOLEAN, NEW waiting \in Seq(Events), Awaits(queue) => Awaits(waiting),
             Becomes(hydrated, visit.known, waiting)
      PROVE  GuardsInv'
  <2>1. /\ visit' \in [page : PageNames, hydrated : BOOLEAN, known : BOOLEAN]
        /\ visit'.page = visit.page /\ meanwhile' = meanwhile
        /\ queue' \in Seq(Events) /\ (Awaits(queue) => Awaits(queue'))
    BY <1>2, <1>4, Becoming
  <2> QED
    BY <1>2, <1>3, <2>1, StayingKeeps
<1> DEFINE more == LoadEvents(visit.page)
           last == <<"hydrated">>
<1>5. more \in {<<"on load login">>, <<"click">>, <<>>}
  BY DEF LoadEvents
<1>6. /\ <<"on load login">> \in Seq(Events) /\ <<"click">> \in Seq(Events)
      /\ <<>> \in Seq(Events) /\ last \in Seq(Events)
  BY DEF Events
<1>7. more \in Seq(Events) /\ last \in Seq(Events)
  BY <1>5, <1>6
<1>8. Becomes(TRUE, visit.known, queue) \/ Becomes(FALSE, visit.known, (queue \o more) \o last)
  BY DEF Load
<1> HIDE DEF more, last
<1>9. queue \o more \in Seq(Events) /\ (Awaits(queue) => Awaits(queue \o more))
  BY <1>2, <1>7, ConcatAwaits
<1>10. /\ (queue \o more) \o last \in Seq(Events)
       /\ Awaits(queue \o more) => Awaits((queue \o more) \o last)
  BY <1>7, <1>9, ConcatAwaits
<1> QED
  BY <1>2, <1>4, <1>8, <1>9, <1>10

(* The state of the page is there. *)
LEMMA HydratedKeeps ==
  ASSUME GuardsInv, Hydrated
  PROVE  GuardsInv'
<1>1. Handles("hydrated") /\ "hydrated" \in Events
  BY DEF Hydrated, Events
<1>2. /\ policy # NoPolicy /\ handling.event = "hydrated" /\ handling' = Resting
      /\ visit.known \in BOOLEAN /\ queue \in Seq(Events) /\ GuardsTypes
  BY <1>1, HandlesIsOpen DEF GuardsInv, GuardsTypes
<1>3. Becomes(TRUE, visit.known, queue)
  BY DEF Hydrated
<1>4. /\ visit' \in [page : PageNames, hydrated : BOOLEAN, known : BOOLEAN]
      /\ visit'.page = visit.page /\ meanwhile' = meanwhile
      /\ queue' \in Seq(Events) /\ (Awaits(queue) => Awaits(queue'))
  BY <1>2, <1>3, Becoming
<1>5. UNCHANGED <<policy, user, holders, ran>> /\ HandlerWasAllowed'
  BY DEF Hydrated, Outwards, GuardsInv, HandlerWasAllowed
<1> QED
  BY <1>2, <1>4, <1>5, StayingKeeps

(* A handled event that opens a page, at once or after a reload. *)
LEMMA HandledOpens ==
  ASSUME GuardsInv, NEW event \in Events, Handles(event), NEW page \in PageNames, NEW known \in BOOLEAN,
         Redirect(page, known) \/ Relocate(page), UNCHANGED <<policy, user, holders, ran>>,
         event = "require" => policy.asks[page] # "right"
  PROVE  GuardsInv'
<1>1. /\ policy # NoPolicy /\ handling' = Resting /\ queue \in Seq(Events)
      /\ visit.hydrated \in BOOLEAN /\ visit.known \in BOOLEAN
  BY HandlesIsOpen DEF GuardsInv, GuardsTypes
<1>2. <<>> \in Seq(Events)
  OBVIOUS
<1>3. CASE OpensPage(page, visit.hydrated, known, queue)
  BY <1>1, <1>3, OpeningKeeps
<1>4. CASE Relocate(page)
  BY <1>1, <1>2, <1>4, OpeningKeeps DEF Relocate
<1>5. CASE page = visit.page /\ Stays(known)
  <2>1. HandlerWasAllowed'
    BY DEF GuardsInv, HandlerWasAllowed
  <2>2. handling.event = event /\ visit'.page = visit.page
    BY <1>5, HandlesIsOpen DEF Stays, Becomes, GuardsInv, GuardsTypes
  <2>3. handling.event = "require" => GuardDone
    BY <1>5, <2>2 DEF GuardDone
  <2> QED
    BY <1>5, <2>1, <2>3, KnowingKeeps
<1> QED
  BY <1>3, <1>4, <1>5 DEF Redirect

(* A guard that waits for the state of the page queues itself again. *)
LEMMA WaitingKeeps ==
  ASSUME GuardsInv, NEW event \in Events, Handles(event), Waits(event),
         UNCHANGED <<policy, user, holders, ran>>
  PROVE  GuardsInv'
<1>1. /\ policy # NoPolicy /\ handling.event = event /\ handling' = Resting
      /\ queue \in Seq(Events)
      /\ visit \in [page : PageNames, hydrated : BOOLEAN, known : BOOLEAN]
  BY HandlesIsOpen DEF GuardsInv, GuardsTypes
<1>2. /\ queue' \in Seq(Events) /\ (Awaits(queue) => Awaits(queue'))
      /\ event = "require" => Awaits(queue')
  BY <1>1, AppendAwaits DEF Waits
<1>3. visit' = visit /\ meanwhile' = meanwhile /\ HandlerWasAllowed'
  BY DEF Waits, GuardsInv, HandlerWasAllowed
<1> QED
  BY <1>1, <1>2, <1>3, StayingKeeps DEF GuardDone

(* The login page sends those away who are signed in. *)
LEMMA OnLoadLoginKeeps ==
  ASSUME GuardsInv, OnLoadLogin
  PROVE  GuardsInv'
<1>1. /\ Handles("on load login") /\ "on load login" \in Events /\ Home \in PageNames
      /\ handling.event = "on load login" /\ UNCHANGED <<policy, user, holders, ran>>
  BY DEF OnLoadLogin, Handles, Events, PageNames, Outwards
<1>2. HandlerWasAllowed'
  BY <1>1 DEF GuardsInv, HandlerWasAllowed
<1>3. PICK known \in Known : IF known THEN Relocate(Home) ELSE Stays(known)
  BY DEF OnLoadLogin
<1>4. known \in BOOLEAN
  BY KnownOrNot
<1>5. CASE known
  BY <1>1, <1>3, <1>4, <1>5, HandledOpens
<1>6. CASE ~known
  BY <1>1, <1>2, <1>3, <1>4, <1>6, KnowingKeeps
<1> QED
  BY <1>5, <1>6

(* A page for signed-in users sends the others to the login page. *)
LEMMA RedirectToLoginKeeps ==
  ASSUME GuardsInv, RedirectToLogin
  PROVE  GuardsInv'
<1>1. /\ Handles("redirect to login") /\ "redirect to login" \in Events /\ LoginPage \in PageNames
      /\ handling.event = "redirect to login" /\ UNCHANGED <<policy, user, holders, ran>>
  BY DEF RedirectToLogin, Handles, Events, PageNames, Outwards
<1>2. HandlerWasAllowed'
  BY <1>1 DEF GuardsInv, HandlerWasAllowed
<1>3. CASE Waits("redirect to login")
  BY <1>1, <1>3, WaitingKeeps
<1>4. ASSUME NEW known \in Known, Stays(known) PROVE GuardsInv'
  BY <1>1, <1>2, <1>4, KnowingKeeps, KnownOrNot
<1>5. ASSUME NEW known \in Known, Redirect(LoginPage, known) PROVE GuardsInv'
  BY <1>1, <1>5, HandledOpens, KnownOrNot
<1> QED
  BY <1>3, <1>4, <1>5 DEF RedirectToLogin

(* The guard of a page for users with a right lets in who has it, by what  *)
(* the event loaded or by asking now, or sends them away.                  *)
LEMMA RequireKeeps ==
  ASSUME GuardsInv, Require
  PROVE  GuardsInv'
<1>1. /\ Handles("require") /\ "require" \in Events
      /\ handling.event = "require" /\ UNCHANGED <<policy, user, holders, ran>>
  BY DEF Require, Handles, Events, Outwards
<1>2. HandlerWasAllowed' /\ policy # NoPolicy /\ GuardsTypes
  BY <1>1, HandlesIsOpen DEF GuardsInv, HandlerWasAllowed
<1>3. /\ LoginPage \in PageNames /\ policy.refused \in PageNames
      /\ policy.asks[LoginPage] # "right" /\ policy.asks[policy.refused] # "right"
  <2>1. policy \in Policies
    BY <1>2 DEF GuardsTypes
  <2> QED
    BY <2>1, GuardsAssumption DEF PolicyRecord, PageNames
<1>4. CASE Waits("require")
  BY <1>1, <1>4, WaitingKeeps
<1>5. ASSUME NEW known \in Known, Redirect(LoginPage, known) \/ Redirect(policy.refused, known)
      PROVE  GuardsInv'
  BY <1>1, <1>3, <1>5, HandledOpens, KnownOrNot
<1>6. ASSUME NEW known \in Known, handling.user # Guest, Allowed, Stays(known)
      PROVE  GuardsInv'
  <2>1. known \in BOOLEAN
    BY <1>6, KnownOrNot
  <2>2. /\ visit'.page = visit.page /\ meanwhile' = meanwhile /\ policy' = policy
        /\ Awaits(queue) => Awaits(queue')
    BY <1>1, <1>2, <1>6, <2>1, Becoming DEF Stays, GuardsTypes
  <2>3. policy.asks[visit.page] = "right" => Awaits(queue) \/ handling.user \in meanwhile.users
          \/ meanwhile.users \cap meanwhile.held # {}
    BY DEF GuardsInv, GuardComes
  <2>4. GuardDone
    <3>1. CASE handling.flag
      BY <1>6, <2>2, <3>1 DEF GuardDone, GuardsInv, GuardComes
    <3>2. CASE ~handling.flag
      <4>1. handling.user \in meanwhile.held
        BY <1>2, <1>6, <3>2 DEF Allowed, GuardsInv, MeanwhileKept
      <4> QED
        BY <2>2, <2>3, <4>1 DEF GuardDone
    <3> QED
      BY <1>2, <3>1, <3>2 DEF GuardsTypes
  <2> QED
    BY <1>1, <1>2, <1>6, <2>1, <2>4, KnowingKeeps
<1> QED
  BY <1>4, <1>5, <1>6 DEF Require

(* A handler runs for a user whom the event found to have the right, or    *)
(* the database does now; others stay, or are sent away.                   *)
LEMMA ClickKeeps ==
  ASSUME GuardsInv, Click
  PROVE  GuardsInv'
<1>1. /\ Handles("click") /\ "click" \in Events
      /\ handling.event = "click" /\ UNCHANGED <<policy, user, holders>>
  BY DEF Click, Handles, Events, Outwards
<1>2. policy # NoPolicy /\ handling # Resting
  BY <1>1, HandlesIsOpen
<1>3. policy.sentTo \in PageNames
  <2>1. policy \in Policies
    BY <1>2 DEF GuardsInv, GuardsTypes
  <2> QED
    BY <2>1, GuardsAssumption DEF PolicyRecord, PageNames
<1>4. ASSUME NEW known \in Known, Redirect(policy.sentTo, known), ran' = ran
      PROVE  GuardsInv'
  BY <1>1, <1>3, <1>4, HandledOpens, KnownOrNot
<1>5. ASSUME NEW known \in Known, Allowed, ran' = [by |-> handling.user, held |-> handling.held],
             Stays(known)
      PROVE  GuardsInv'
  <2>1. handling.user \in handling.held
    BY <1>2, <1>5 DEF Allowed, GuardsInv, HandlingKept
  <2>2. HandlerWasAllowed'
    BY <1>5, <2>1 DEF HandlerWasAllowed
  <2> QED
    BY <1>1, <1>5, <2>2, KnowingKeeps, KnownOrNot
<1>6. ASSUME NEW known \in Known, Stays(known), ran' = ran
      PROVE  GuardsInv'
  <2>1. HandlerWasAllowed'
    BY <1>6 DEF GuardsInv, HandlerWasAllowed
  <2> QED
    BY <1>1, <1>6, <2>1, KnowingKeeps, KnownOrNot
<1> QED
  BY <1>4, <1>5, <1>6 DEF Click

-----------------------------------------------------------------------------
(* The rest of the world. *)

(* The user goes to another page, or loads one. *)
LEMMA VisitsKeeps ==
  ASSUME GuardsInv, NEW page \in PageNames, Visits(page)
  PROVE  GuardsInv'
<1>1. /\ policy # NoPolicy /\ handling' = handling /\ UNCHANGED <<policy, user, holders, ran>>
      /\ queue \in Seq(Events) /\ visit.hydrated \in BOOLEAN /\ visit.known \in BOOLEAN
  BY DEF Visits, Outside, GuardsInv, GuardsTypes
<1>2. <<>> \in Seq(Events)
  OBVIOUS
<1>3. CASE OpensPage(page, visit.hydrated, visit.known, queue)
  BY <1>1, <1>3, OpeningKeeps
<1>4. CASE OpensPage(page, FALSE, visit.known, <<>>)
  BY <1>1, <1>2, <1>4, OpeningKeeps
<1>5. CASE Stays(visit.known)
  <2>1. /\ visit' \in [page : PageNames, hydrated : BOOLEAN, known : BOOLEAN]
        /\ visit'.page = visit.page /\ meanwhile' = meanwhile
        /\ queue' \in Seq(Events) /\ (Awaits(queue) => Awaits(queue'))
    BY <1>1, <1>5, Becoming DEF Stays, GuardsInv
  <2>2. HandlerWasAllowed'
    BY <1>1 DEF GuardsInv, HandlerWasAllowed
  <2> QED
    BY <1>1, <2>1, <2>2, StayingKeeps
<1> QED
  BY <1>3, <1>4, <1>5 DEF Visits, Redirect

(* A click waits behind what is there. *)
LEMMA ClicksKeeps ==
  ASSUME GuardsInv, Clicks
  PROVE  GuardsInv'
<1>1. GuardsTypes /\ "click" \in Events /\ queue \in Seq(Events) /\ policy # NoPolicy
  BY DEF GuardsInv, GuardsTypes, Events, Clicks, Outside
<1>2. queue' \in Seq(Events) /\ (Awaits(queue) => Awaits(queue'))
  BY <1>1, AppendAwaits DEF Clicks
<1>3. UNCHANGED <<policy, user, holders, visit, handling, ran, meanwhile>>
  BY DEF Clicks, Outside
<1>4. GuardsTypes'
  BY <1>1, <1>2, <1>3 DEF GuardsTypes
<1> QED
  BY <1>1, <1>2, <1>3, <1>4 DEF GuardsInv, NothingBefore, MeanwhileKept, HandlingKept, GuardComes,
     HandlerWasAllowed

(* Somebody signs in or out elsewhere; the page has then seen them too. *)
LEMMA UserChangesKeeps ==
  ASSUME GuardsInv, UserChanges
  PROVE  GuardsInv'
<1>1. PICK u \in Visitors \cup {Guest} :
        user' = u /\ meanwhile' = [meanwhile EXCEPT !.users = @ \cup {u}]
  BY DEF UserChanges
<1>2. UNCHANGED <<policy, holders, visit, queue, handling, ran>> /\ GuardsTypes
  BY DEF UserChanges, Outside, GuardsInv
<1>3. /\ meanwhile' \in [users : SUBSET (Visitors \cup {Guest}), held : SUBSET Visitors]
      /\ meanwhile'.users = meanwhile.users \cup {u} /\ meanwhile'.held = meanwhile.held
  BY <1>1, <1>2 DEF GuardsTypes
<1>4. GuardsTypes'
  BY <1>1, <1>2, <1>3 DEF GuardsTypes
<1>5. MeanwhileKept' /\ GuardComes'
  BY <1>1, <1>2, <1>3 DEF GuardsInv, MeanwhileKept, GuardComes
<1> QED
  BY <1>2, <1>4, <1>5 DEF GuardsInv, NothingBefore, HandlingKept, HandlerWasAllowed

(* A right is given or taken; page and event have then seen its holders. *)
LEMMA RightsChangeKeeps ==
  ASSUME GuardsInv, RightsChange
  PROVE  GuardsInv'
<1>1. /\ UNCHANGED <<policy, user, visit, queue, ran>> /\ GuardsTypes /\ policy # NoPolicy
      /\ meanwhile' = [meanwhile EXCEPT !.held = @ \cup holders']
      /\ handling' = [handling EXCEPT !.held = IF handling = Resting THEN {} ELSE @ \cup holders']
  BY DEF RightsChange, Outside, GuardsInv
<1>2. holders' \in SUBSET Visitors
  BY <1>1 DEF RightsChange, GuardsTypes
<1>3. /\ meanwhile' \in [users : SUBSET (Visitors \cup {Guest}), held : SUBSET Visitors]
      /\ meanwhile'.users = meanwhile.users /\ meanwhile'.held = meanwhile.held \cup holders'
  BY <1>1, <1>2 DEF GuardsTypes
<1>4. /\ handling' \in [event : Events \cup {"none"}, user : Visitors \cup {Guest}, flag : BOOLEAN,
                       held : SUBSET Visitors]
      /\ handling'.event = handling.event /\ handling'.user = handling.user
      /\ handling'.flag = handling.flag
      /\ handling # Resting => handling'.held = handling.held \cup holders'
  BY <1>1, <1>2 DEF GuardsTypes
<1>5. ASSUME handling = Resting PROVE handling' = Resting
  <2>1. handling' = [Resting EXCEPT !.held = {}]
    BY <1>1, <1>5
  <2> QED
    BY <2>1 DEF Resting
<1>6. GuardsTypes'
  BY <1>1, <1>2, <1>3, <1>4 DEF GuardsTypes
<1>7. MeanwhileKept' /\ GuardComes'
  BY <1>1, <1>3, <1>4 DEF GuardsInv, MeanwhileKept, GuardComes
<1>8. HandlingKept'
  BY <1>4, <1>5 DEF GuardsInv, HandlingKept
<1> QED
  BY <1>1, <1>6, <1>7, <1>8 DEF GuardsInv, NothingBefore, HandlerWasAllowed

(* Every step keeps the invariant. *)
LEMMA GuardsInductive ==
  ASSUME GuardsInv, [GuardsNext]_guardVars
  PROVE  GuardsInv'
<1>1. CASE \E p \in Policies : OpenSite(p)
  BY <1>1, OpenSiteKeeps
<1>2. CASE TakeEvent
  BY <1>2, TakeEventKeeps
<1>3. CASE HandleEvent
  BY <1>3, LoadKeeps, HydratedKeeps, OnLoadLoginKeeps, RedirectToLoginKeeps, RequireKeeps,
     ClickKeeps DEF HandleEvent
<1>4. CASE \E p \in {Home, LoginPage, "panel"} : Visits(p)
  BY <1>4, VisitsKeeps DEF PageNames
<1>5. CASE Clicks \/ UserChanges \/ RightsChange
  BY <1>5, ClicksKeeps, UserChangesKeeps, RightsChangeKeeps
<1>6. CASE UNCHANGED guardVars
  <2>1. UNCHANGED <<policy, user, holders, visit, queue, handling, ran, meanwhile>>
    BY <1>6 DEF guardVars
  <2>2. GuardsTypes'
    BY <2>1 DEF GuardsInv, GuardsTypes
  <2> QED
    BY <2>1, <2>2 DEF GuardsInv, NothingBefore, MeanwhileKept, HandlingKept, GuardComes,
       HandlerWasAllowed
<1> QED
  BY <1>1, <1>2, <1>3, <1>4, <1>5, <1>6 DEF GuardsNext

(* The tab, its events and what they know are always as GuardsInv says. *)
THEOREM GuardsInvariant == GuardsSpec => []GuardsInv
<1>1. GuardsInit => GuardsInv
  BY GuardsStart
<1>2. GuardsInv /\ [GuardsNext]_guardVars => GuardsInv'
  BY GuardsInductive
<1> QED
  BY <1>1, <1>2, PTL DEF GuardsSpec

(* A guarded handler runs only for users who had the right at some time    *)
(* since its event began.                                                  *)
THEOREM HandlersAreGuarded == GuardsSpec => []HandlerWasAllowed
<1>1. GuardsInv => HandlerWasAllowed
  BY DEF GuardsInv
<1> QED
  BY <1>1, GuardsInvariant, PTL

(* Nobody is left at a page for users with a right unless somebody was     *)
(* signed in, and had it, since the page was opened.                       *)
THEOREM PagesAreGuarded == GuardsSpec => []RefusedAreSentAway
<1>1. GuardsInv => RefusedAreSentAway
  <2> SUFFICES ASSUME GuardsInv, Quiet PROVE RefusedAreSentAway
    BY DEF RefusedAreSentAway
  <2>1. handling.event # "require"
    BY DEF Quiet, Resting
  <2>2. Len(queue) = 0
    BY DEF Quiet
  <2>3. ~Awaits(queue)
    BY <2>2 DEF Awaits
  <2> QED
    BY <2>1, <2>3 DEF GuardsInv, GuardComes, RefusedAreSentAway
<1> QED
  BY <1>1, GuardsInvariant, PTL

(********************************** pages **********************************)
(* What is left to be decorated is the project's. *)
PagesTypes ==
  /\ program \in Programs \cup {NoProgram}
  /\ DOMAIN left = {"views", "late"}
  /\ compiled => program # NoProgram

PagesInv == PagesTypes /\ DispatchersComplete

(* What a compilation leaves has a dispatcher for each of the states, or   *)
(* has none: that of an earlier run it kept was looked through, twice.     *)
LEMMA KeptIsComplete ==
  ASSUME NEW states, NEW before, program.webPath,
         NEW once \in Written(states, IF Missing(states, before) THEN Invalidated(before) ELSE before),
         NEW kept \in (IF Missing(states, once) THEN Written(states, Invalidated(once)) ELSE {once})
  PROVE  states \subseteq kept \/ kept = {}
<1>1. \A f : Invalidated(f) = NoContext
  BY DEF Invalidated, Found
<1>2. CASE Missing(states, once)
  BY <1>1, <1>2 DEF Written
<1>3. CASE ~Missing(states, once)
  <2>1. kept = once
    BY <1>3
  <2>2. CASE once = states
    BY <2>1, <2>2
  <2>3. CASE once # states
    <3>1. once = before /\ once # NoContext
      BY <1>1, <2>3 DEF Written
    <3> QED
      BY <1>3, <2>1, <3>1 DEF Missing, DispatchKeys, Found
  <2> QED
    BY <2>2, <2>3
<1> QED
  BY <1>2, <1>3

LEMMA PagesInvKept == PagesInv /\ [PagesNext]_pagesVars => PagesInv'
<1> SUFFICES ASSUME PagesInv, [PagesNext]_pagesVars PROVE PagesInv'
  OBVIOUS
<1>1. ASSUME NEW p \in Programs, StartProject(p) PROVE PagesInv'
  <2>1. compiled' = compiled /\ program = NoProgram /\ DOMAIN left' = {"views", "late"} /\ program' = p
    BY <1>1 DEF StartProject
  <2> QED
    BY <2>1 DEF PagesInv, PagesTypes, DispatchersComplete
<1>2. CASE Decorate
  <2>1. DOMAIN left' = {"views", "late"}
    BY <1>2 DEF Decorate, PagesInv, PagesTypes
  <2> QED
    BY <1>2, <2>1 DEF Decorate, PagesInv, PagesTypes, DispatchersComplete
<1>3. CASE EnsureAuth
  BY <1>3 DEF EnsureAuth, PagesInv, PagesTypes, DispatchersComplete
<1>4. ASSUME NEW again \in BOOLEAN, Prepare(again) PROVE PagesInv'
  <2>1. DOMAIN left' = {"views", "late"}
    BY <1>4 DEF Prepare, Prepares, PagesInv, PagesTypes
  <2> QED
    BY <1>4, <2>1 DEF Prepare, PagesInv, PagesTypes, DispatchersComplete
<1>5. CASE CompileApp
  <2>1. left' = [left EXCEPT !.views = <<>>] /\ UNCHANGED program /\ program # NoProgram
    BY <1>5 DEF CompileApp, Prepares
  <2>2. DOMAIN left' = {"views", "late"} /\ left'.late = left.late
    BY <2>1 DEF PagesInv, PagesTypes
  <2>3. program.webPath => Expected \subseteq context' \/ context' = {}
    <3> DEFINE E == Expected
    <3>1. \E once \in Written(E, IF Missing(E, context) THEN Invalidated(context) ELSE context) :
             context' \in IF Missing(E, once) THEN Written(E, Invalidated(once)) ELSE {once}
      BY <1>5 DEF CompileApp
    <3> HIDE DEF E
    <3>2. program.webPath => E \subseteq context' \/ context' = {}
      BY <3>1, KeptIsComplete
    <3> QED
      BY <3>2 DEF E
  <2>4. DispatchersComplete'
    <3>1. Expected = {"auth"} \cup {e.page : e \in Range(program.views) \cup
                                                  Late(left'.late)}
      BY DEF Expected
    <3>2. Decorations' = Range(program.views) \cup Late(left'.late) \cup Range(program.own)
      BY <2>1 DEF Decorations, Late
    <3> QED
      BY <2>1, <2>3, <3>1, <3>2 DEF DispatchersComplete
  <2> QED
    BY <2>1, <2>2, <2>4 DEF PagesInv, PagesTypes
<1>6. CASE UNCHANGED pagesVars
  BY <1>6 DEF pagesVars, PagesInv, PagesTypes, DispatchersComplete, Decorations, Late
<1> QED
  BY <1>1, <1>2, <1>3, <1>4, <1>5, <1>6 DEF PagesNext

(* _compile_app removes a context.js that lacks a state and compiles again *)
(* (runtime/integration/patches/compile.py): whatever file an earlier run  *)
(* left, and whatever was decorated before, after a compilation the file,  *)
(* if it is found and has a dispatcher at all, lacks that of no state.     *)
THEOREM StatesAreDispatched == PagesSpec => []DispatchersComplete
<1>1. PagesInit => PagesInv
  BY DEF PagesInit, PagesInv, PagesTypes, DispatchersComplete, NoContext
<1>2. PagesInv => DispatchersComplete
  BY DEF PagesInv
<1> QED
  BY <1>1, <1>2, PagesInvKept, PTL DEF PagesSpec

(* Pages are decorated one after the other. *)
LEMMA RegisteredInTurn ==
  ASSUME NEW a, NEW s, Len(s) \in Nat
  PROVE  \E h : /\ h[0] = a
                /\ \A k \in 1 .. Len(s) : h[k] = Registered(h[k - 1], s[k])
                /\ RegisteredAll(a, s) = h[Len(s)]
<1> DEFINE n == Len(s)
           Upto(m, h) == h = [k \in 0 .. m |-> IF k = 0 THEN a ELSE Registered(h[k - 1], s[k])]
           good == {m \in 0 .. n : \E h : Upto(m, h)}
<1>1. 0 \in good
  <2> DEFINE h == [k \in 0 .. 0 |-> a]
  <2>1. Upto(0, h) /\ 0 \in 0 .. n
    OBVIOUS
  <2> HIDE DEF h, Upto
  <2> QED
    BY <2>1
<1>2. ASSUME NEW m \in 1 .. n, m - 1 \in good PROVE m \in good
  <2>1. PICK g : Upto(m - 1, g)
    BY <1>2
  <2> DEFINE h == [k \in 0 .. m |-> IF k = m THEN Registered(g[m - 1], s[m]) ELSE g[k]]
  <2>2. \A k \in 0 .. m - 1 : h[k] = g[k]
    OBVIOUS
  <2>3. h[m] = Registered(h[m - 1], s[m]) /\ m # 0
    BY <2>2
  <2>4. ASSUME NEW k \in 0 .. m PROVE h[k] = IF k = 0 THEN a ELSE Registered(h[k - 1], s[k])
    <3>1. CASE k = m
      BY <2>3, <3>1
    <3>2. CASE k # m
      <4>1. k \in 0 .. m - 1 /\ (k # 0 => k - 1 \in 0 .. m - 1)
        BY <3>2
      <4>2. g[k] = IF k = 0 THEN a ELSE Registered(g[k - 1], s[k])
        BY <2>1, <4>1
      <4> QED
        BY <2>2, <4>1, <4>2
    <3> QED
      BY <3>1, <3>2
  <2>5. h = [k \in 0 .. m |-> h[k]]
    OBVIOUS
  <2> HIDE DEF h
  <2>6. [k \in 0 .. m |-> h[k]]
        = [k \in 0 .. m |-> IF k = 0 THEN a ELSE Registered(h[k - 1], s[k])]
    BY <2>4
  <2>7. Upto(m, h)
    BY <2>5, <2>6
  <2>8. m \in 0 .. n
    OBVIOUS
  <2> HIDE DEF Upto
  <2> QED
    BY <2>7, <2>8
<1>3. n \in good
  <2> HIDE DEF good
  <2>1. \A m \in 1 .. n : m - 1 \in good => m \in good
    BY <1>2
  <2>2. n \in Nat
    OBVIOUS
  <2> HIDE DEF n
  <2>3. \A m \in 0 .. n : m \in good
    BY <1>1, <2>1, <2>2, EachInTurn
  <2> QED
    BY <2>2, <2>3
<1> DEFINE f == CHOOSE h : Upto(n, h)
<1>4. Upto(n, f)
  <2> HIDE DEF Upto
  <2> QED
    BY <1>3
<1>5. RegisteredAll(a, s) = f[n]
  BY DEF RegisteredAll, InTurn, AfterEach
<1> HIDE DEF f
<1>6. f[0] = a
  BY <1>4
<1>7. ASSUME NEW k \in 1 .. n PROVE f[k] = Registered(f[k - 1], s[k])
  <2>1. k \in 0 .. n /\ k # 0
    OBVIOUS
  <2> QED
    BY <1>4, <2>1
<1> QED
  BY <1>5, <1>6, <1>7

(* Pages are added one after the other. *)
LEMMA AddedInTurn ==
  ASSUME NEW a, NEW s, Len(s) \in Nat
  PROVE  \E h : /\ h[0] = a
                /\ \A k \in 1 .. Len(s) : h[k] = Added(h[k - 1], s[k])
                /\ AddedAll(a, s) = h[Len(s)]
<1> DEFINE n == Len(s)
           Upto(m, h) == h = [k \in 0 .. m |-> IF k = 0 THEN a ELSE Added(h[k - 1], s[k])]
           good == {m \in 0 .. n : \E h : Upto(m, h)}
<1>1. 0 \in good
  <2> DEFINE h == [k \in 0 .. 0 |-> a]
  <2>1. Upto(0, h) /\ 0 \in 0 .. n
    OBVIOUS
  <2> HIDE DEF h, Upto
  <2> QED
    BY <2>1
<1>2. ASSUME NEW m \in 1 .. n, m - 1 \in good PROVE m \in good
  <2>1. PICK g : Upto(m - 1, g)
    BY <1>2
  <2> DEFINE h == [k \in 0 .. m |-> IF k = m THEN Added(g[m - 1], s[m]) ELSE g[k]]
  <2>2. \A k \in 0 .. m - 1 : h[k] = g[k]
    OBVIOUS
  <2>3. h[m] = Added(h[m - 1], s[m]) /\ m # 0
    BY <2>2
  <2>4. ASSUME NEW k \in 0 .. m PROVE h[k] = IF k = 0 THEN a ELSE Added(h[k - 1], s[k])
    <3>1. CASE k = m
      BY <2>3, <3>1
    <3>2. CASE k # m
      <4>1. k \in 0 .. m - 1 /\ (k # 0 => k - 1 \in 0 .. m - 1)
        BY <3>2
      <4>2. g[k] = IF k = 0 THEN a ELSE Added(g[k - 1], s[k])
        BY <2>1, <4>1
      <4> QED
        BY <2>2, <4>1, <4>2
    <3> QED
      BY <3>1, <3>2
  <2>5. h = [k \in 0 .. m |-> h[k]]
    OBVIOUS
  <2> HIDE DEF h
  <2>6. [k \in 0 .. m |-> h[k]]
        = [k \in 0 .. m |-> IF k = 0 THEN a ELSE Added(h[k - 1], s[k])]
    BY <2>4
  <2>7. Upto(m, h)
    BY <2>5, <2>6
  <2>8. m \in 0 .. n
    OBVIOUS
  <2> HIDE DEF Upto
  <2> QED
    BY <2>7, <2>8
<1>3. n \in good
  <2> HIDE DEF good
  <2>1. \A m \in 1 .. n : m - 1 \in good => m \in good
    BY <1>2
  <2>2. n \in Nat
    OBVIOUS
  <2> HIDE DEF n
  <2>3. \A m \in 0 .. n : m \in good
    BY <1>1, <2>1, <2>2, EachInTurn
  <2> QED
    BY <2>2, <2>3
<1> DEFINE f == CHOOSE h : Upto(n, h)
<1>4. Upto(n, f)
  <2> HIDE DEF Upto
  <2> QED
    BY <1>3
<1>5. AddedAll(a, s) = f[n]
  BY DEF AddedAll, InTurn, AfterEach
<1> HIDE DEF f
<1>6. f[0] = a
  BY <1>4
<1>7. ASSUME NEW k \in 1 .. n PROVE f[k] = Added(f[k - 1], s[k])
  <2>1. k \in 0 .. n /\ k # 0
    OBVIOUS
  <2> QED
    BY <1>4, <2>1
<1> QED
  BY <1>5, <1>6, <1>7

(* So are canned ones, *)
LEMMA RegisterPageInTurn ==
  ASSUME NEW a, NEW s, Len(s) \in Nat
  PROVE  \E h : /\ h[0] = a
                /\ \A k \in 1 .. Len(s) : h[k] = RegisterPage(h[k - 1], s[k])
                /\ RegisteredPages(a, s) = h[Len(s)]
<1> DEFINE n == Len(s)
           Upto(m, h) == h = [k \in 0 .. m |-> IF k = 0 THEN a ELSE RegisterPage(h[k - 1], s[k])]
           good == {m \in 0 .. n : \E h : Upto(m, h)}
<1>1. 0 \in good
  <2> DEFINE h == [k \in 0 .. 0 |-> a]
  <2>1. Upto(0, h) /\ 0 \in 0 .. n
    OBVIOUS
  <2> HIDE DEF h, Upto
  <2> QED
    BY <2>1
<1>2. ASSUME NEW m \in 1 .. n, m - 1 \in good PROVE m \in good
  <2>1. PICK g : Upto(m - 1, g)
    BY <1>2
  <2> DEFINE h == [k \in 0 .. m |-> IF k = m THEN RegisterPage(g[m - 1], s[m]) ELSE g[k]]
  <2>2. \A k \in 0 .. m - 1 : h[k] = g[k]
    OBVIOUS
  <2>3. h[m] = RegisterPage(h[m - 1], s[m]) /\ m # 0
    BY <2>2
  <2>4. ASSUME NEW k \in 0 .. m PROVE h[k] = IF k = 0 THEN a ELSE RegisterPage(h[k - 1], s[k])
    <3>1. CASE k = m
      BY <2>3, <3>1
    <3>2. CASE k # m
      <4>1. k \in 0 .. m - 1 /\ (k # 0 => k - 1 \in 0 .. m - 1)
        BY <3>2
      <4>2. g[k] = IF k = 0 THEN a ELSE RegisterPage(g[k - 1], s[k])
        BY <2>1, <4>1
      <4> QED
        BY <2>2, <4>1, <4>2
    <3> QED
      BY <3>1, <3>2
  <2>5. h = [k \in 0 .. m |-> h[k]]
    OBVIOUS
  <2> HIDE DEF h
  <2>6. [k \in 0 .. m |-> h[k]]
        = [k \in 0 .. m |-> IF k = 0 THEN a ELSE RegisterPage(h[k - 1], s[k])]
    BY <2>4
  <2>7. Upto(m, h)
    BY <2>5, <2>6
  <2>8. m \in 0 .. n
    OBVIOUS
  <2> HIDE DEF Upto
  <2> QED
    BY <2>7, <2>8
<1>3. n \in good
  <2> HIDE DEF good
  <2>1. \A m \in 1 .. n : m - 1 \in good => m \in good
    BY <1>2
  <2>2. n \in Nat
    OBVIOUS
  <2> HIDE DEF n
  <2>3. \A m \in 0 .. n : m \in good
    BY <1>1, <2>1, <2>2, EachInTurn
  <2> QED
    BY <2>2, <2>3
<1> DEFINE f == CHOOSE h : Upto(n, h)
<1>4. Upto(n, f)
  <2> HIDE DEF Upto
  <2> QED
    BY <1>3
<1>5. RegisteredPages(a, s) = f[n]
  BY DEF RegisteredPages, InTurn, AfterEach
<1> HIDE DEF f
<1>6. f[0] = a
  BY <1>4
<1>7. ASSUME NEW k \in 1 .. n PROVE f[k] = RegisterPage(f[k - 1], s[k])
  <2>1. k \in 0 .. n /\ k # 0
    OBVIOUS
  <2> QED
    BY <1>4, <2>1
<1> QED
  BY <1>5, <1>6, <1>7

(* and those that were decorated. *)
LEMMA AddedIfFreeInTurn ==
  ASSUME NEW a, NEW s, Len(s) \in Nat
  PROVE  \E h : /\ h[0] = a
                /\ \A k \in 1 .. Len(s) : h[k] = AddedIfFree(h[k - 1], s[k])
                /\ AddedWhereFree(a, s) = h[Len(s)]
<1> DEFINE n == Len(s)
           Upto(m, h) == h = [k \in 0 .. m |-> IF k = 0 THEN a ELSE AddedIfFree(h[k - 1], s[k])]
           good == {m \in 0 .. n : \E h : Upto(m, h)}
<1>1. 0 \in good
  <2> DEFINE h == [k \in 0 .. 0 |-> a]
  <2>1. Upto(0, h) /\ 0 \in 0 .. n
    OBVIOUS
  <2> HIDE DEF h, Upto
  <2> QED
    BY <2>1
<1>2. ASSUME NEW m \in 1 .. n, m - 1 \in good PROVE m \in good
  <2>1. PICK g : Upto(m - 1, g)
    BY <1>2
  <2> DEFINE h == [k \in 0 .. m |-> IF k = m THEN AddedIfFree(g[m - 1], s[m]) ELSE g[k]]
  <2>2. \A k \in 0 .. m - 1 : h[k] = g[k]
    OBVIOUS
  <2>3. h[m] = AddedIfFree(h[m - 1], s[m]) /\ m # 0
    BY <2>2
  <2>4. ASSUME NEW k \in 0 .. m PROVE h[k] = IF k = 0 THEN a ELSE AddedIfFree(h[k - 1], s[k])
    <3>1. CASE k = m
      BY <2>3, <3>1
    <3>2. CASE k # m
      <4>1. k \in 0 .. m - 1 /\ (k # 0 => k - 1 \in 0 .. m - 1)
        BY <3>2
      <4>2. g[k] = IF k = 0 THEN a ELSE AddedIfFree(g[k - 1], s[k])
        BY <2>1, <4>1
      <4> QED
        BY <2>2, <4>1, <4>2
    <3> QED
      BY <3>1, <3>2
  <2>5. h = [k \in 0 .. m |-> h[k]]
    OBVIOUS
  <2> HIDE DEF h
  <2>6. [k \in 0 .. m |-> h[k]]
        = [k \in 0 .. m |-> IF k = 0 THEN a ELSE AddedIfFree(h[k - 1], s[k])]
    BY <2>4
  <2>7. Upto(m, h)
    BY <2>5, <2>6
  <2>8. m \in 0 .. n
    OBVIOUS
  <2> HIDE DEF Upto
  <2> QED
    BY <2>7, <2>8
<1>3. n \in good
  <2> HIDE DEF good
  <2>1. \A m \in 1 .. n : m - 1 \in good => m \in good
    BY <1>2
  <2>2. n \in Nat
    OBVIOUS
  <2> HIDE DEF n
  <2>3. \A m \in 0 .. n : m \in good
    BY <1>1, <2>1, <2>2, EachInTurn
  <2> QED
    BY <2>2, <2>3
<1> DEFINE f == CHOOSE h : Upto(n, h)
<1>4. Upto(n, f)
  <2> HIDE DEF Upto
  <2> QED
    BY <1>3
<1>5. AddedWhereFree(a, s) = f[n]
  BY DEF AddedWhereFree, InTurn, AfterEach
<1> HIDE DEF f
<1>6. f[0] = a
  BY <1>4
<1>7. ASSUME NEW k \in 1 .. n PROVE f[k] = AddedIfFree(f[k - 1], s[k])
  <2>1. k \in 0 .. n /\ k # 0
    OBVIOUS
  <2> QED
    BY <1>4, <2>1
<1> QED
  BY <1>5, <1>6, <1>7

(* Sorting goes through the routes. *)
LEMMA SortedInTurn ==
  ASSUME NEW entries, Len(Spellings) \in Nat
  PROVE  \E h : /\ h[0] = <<>>
                /\ \A k \in 1 .. Len(Spellings) : h[k] = h[k - 1] \o OfRoute(entries, Spellings[k])
                /\ Sorted(entries) = h[Len(Spellings)]
<1> DEFINE n == Len(Spellings)
           Upto(m, h) == h = [k \in 0 .. m |-> IF k = 0 THEN <<>> ELSE h[k - 1] \o OfRoute(entries, Spellings[k])]
           good == {m \in 0 .. n : \E h : Upto(m, h)}
<1>1. 0 \in good
  <2> DEFINE h == [k \in 0 .. 0 |-> <<>>]
  <2>1. Upto(0, h) /\ 0 \in 0 .. n
    OBVIOUS
  <2> HIDE DEF h, Upto
  <2> QED
    BY <2>1
<1>2. ASSUME NEW m \in 1 .. n, m - 1 \in good PROVE m \in good
  <2>1. PICK g : Upto(m - 1, g)
    BY <1>2
  <2> DEFINE h == [k \in 0 .. m |-> IF k = m THEN g[m - 1] \o OfRoute(entries, Spellings[m]) ELSE g[k]]
  <2>2. \A k \in 0 .. m - 1 : h[k] = g[k]
    OBVIOUS
  <2>3. h[m] = h[m - 1] \o OfRoute(entries, Spellings[m]) /\ m # 0
    BY SMTT(30), <2>2
  <2>4. ASSUME NEW k \in 0 .. m PROVE h[k] = IF k = 0 THEN <<>> ELSE h[k - 1] \o OfRoute(entries, Spellings[k])
    <3>1. CASE k = m
      BY <2>3, <3>1
    <3>2. CASE k # m
      <4>1. k \in 0 .. m - 1 /\ (k # 0 => k - 1 \in 0 .. m - 1)
        BY <3>2
      <4>2. g[k] = IF k = 0 THEN <<>> ELSE g[k - 1] \o OfRoute(entries, Spellings[k])
        BY <2>1, <4>1
      <4> QED
        BY <2>2, <4>1, <4>2
    <3> QED
      BY <3>1, <3>2
  <2>5. h = [k \in 0 .. m |-> h[k]]
    OBVIOUS
  <2> HIDE DEF h
  <2>6. [k \in 0 .. m |-> h[k]]
        = [k \in 0 .. m |-> IF k = 0 THEN <<>> ELSE h[k - 1] \o OfRoute(entries, Spellings[k])]
    BY <2>4
  <2>7. Upto(m, h)
    BY <2>5, <2>6
  <2>8. m \in 0 .. n
    OBVIOUS
  <2> HIDE DEF Upto
  <2> QED
    BY <2>7, <2>8
<1>3. n \in good
  <2> HIDE DEF good
  <2>1. \A m \in 1 .. n : m - 1 \in good => m \in good
    BY <1>2
  <2>2. n \in Nat
    OBVIOUS
  <2> HIDE DEF n
  <2>3. \A m \in 0 .. n : m \in good
    BY <1>1, <2>1, <2>2, EachInTurn
  <2> QED
    BY <2>2, <2>3
<1> DEFINE f == CHOOSE h : Upto(n, h)
<1>4. Upto(n, f)
  <2> HIDE DEF Upto
  <2> QED
    BY <1>3
<1>5. Sorted(entries) = f[n]
  BY DEF Sorted, InTurn, AfterEach
<1> HIDE DEF f
<1>6. f[0] = <<>>
  BY <1>4
<1>7. ASSUME NEW k \in 1 .. n PROVE f[k] = f[k - 1] \o OfRoute(entries, Spellings[k])
  <2>1. k \in 0 .. n /\ k # 0
    OBVIOUS
  <2> QED
    BY <1>4, <2>1
<1> QED
  BY <1>5, <1>6, <1>7

(* A sequence of some is one of more. *)
LEMMA SeqOver ==
  ASSUME NEW S, NEW s \in Seq(S), NEW T, \A k \in 1 .. Len(s) : s[k] \in T
  PROVE  s \in Seq(T)
OBVIOUS

LEMMA RangeIs ==
  ASSUME NEW S, NEW s \in Seq(S)
  PROVE  /\ Len(s) \in Nat /\ DOMAIN s = 1 .. Len(s)
         /\ Range(s) \subseteq S
         /\ \A e : e \in Range(s) <=> \E k \in 1 .. Len(s) : s[k] = e
         /\ s \in Seq(Range(s))
<1>1. Len(s) \in Nat /\ DOMAIN s = 1 .. Len(s) /\ \A k \in 1 .. Len(s) : s[k] \in S
  OBVIOUS
<1>2. \A k \in 1 .. Len(s) : s[k] \in Range(s)
  BY <1>1 DEF Range
<1>3. s \in Seq(Range(s))
  BY <1>2, SeqOver
<1> QED
  BY <1>1, <1>3 DEF Range

LEMMA RangeOfBoth ==
  ASSUME NEW S, NEW s \in Seq(S), NEW t \in Seq(S)
  PROVE  s \o t \in Seq(S) /\ Range(s \o t) = Range(s) \cup Range(t)
<1>1. /\ s \o t \in Seq(S) /\ Len(s) \in Nat /\ Len(t) \in Nat /\ Len(s \o t) = Len(s) + Len(t)
      /\ \A i \in 1 .. Len(s) + Len(t) : (s \o t)[i] = IF i <= Len(s) THEN s[i] ELSE t[i - Len(s)]
  OBVIOUS
<1>2. ASSUME NEW e \in Range(s \o t) PROVE e \in Range(s) \cup Range(t)
  <2>1. PICK i \in 1 .. Len(s) + Len(t) : (s \o t)[i] = e
    BY <1>1, RangeIs
  <2>2. CASE i <= Len(s)
    <3>1. i \in 1 .. Len(s) /\ s[i] = e
      BY <1>1, <2>1, <2>2
    <3> QED
      BY <3>1, RangeIs
  <2>3. CASE ~(i <= Len(s))
    <3>1. i - Len(s) \in 1 .. Len(t) /\ t[i - Len(s)] = e
      BY <1>1, <2>1, <2>3
    <3> QED
      BY <3>1, RangeIs
  <2> QED
    BY <2>2, <2>3
<1>3. ASSUME NEW e \in Range(s) PROVE e \in Range(s \o t)
  <2>1. PICK i \in 1 .. Len(s) : s[i] = e
    BY RangeIs
  <2>2. i \in 1 .. Len(s \o t) /\ (s \o t)[i] = e
    BY <1>1, <2>1
  <2> QED
    BY <1>1, <2>2, RangeIs
<1>4. ASSUME NEW e \in Range(t) PROVE e \in Range(s \o t)
  <2>1. PICK i \in 1 .. Len(t) : t[i] = e
    BY RangeIs
  <2>2. i + Len(s) \in 1 .. Len(s \o t) /\ (s \o t)[i + Len(s)] = e
    BY <1>1, <2>1
  <2> QED
    BY <1>1, <2>2, RangeIs
<1> QED
  BY <1>1, <1>2, <1>3, <1>4

LEMMA RangeOfPicked ==
  ASSUME NEW S, NEW s \in Seq(S), NEW at \in SUBSET (DOMAIN s)
  PROVE  Picked(s, at) \in Seq(S) /\ Range(Picked(s, at)) = {s[k] : k \in at}
<1> DEFINE p == Picked(s, at)
           n == Cardinality(at)
           pos == Positions(at)
<1>1. /\ p \in Seq(S) /\ n \in Nat /\ DOMAIN p = 1 .. n
      /\ pos \in [1 .. n -> at]
      /\ \A k \in at : \E i \in 1 .. n : pos[i] = k
      /\ \A i \in 1 .. n : p[i] = s[pos[i]]
  BY PickedIs
<1> HIDE DEF p, n, pos
<1>2. ASSUME NEW e \in Range(p) PROVE e \in {s[k] : k \in at}
  <2>1. PICK i \in 1 .. n : p[i] = e
    BY <1>1 DEF Range
  <2>2. pos[i] \in at
    BY <1>1
  <2> QED
    BY <1>1, <2>1, <2>2
<1>3. ASSUME NEW k \in at PROVE s[k] \in Range(p)
  <2>1. PICK i \in 1 .. n : pos[i] = k
    BY <1>1
  <2> QED
    BY <1>1, <2>1 DEF Range
<1>4. Range(p) = {s[k] : k \in at}
  BY <1>2, <1>3
<1> QED
  BY <1>1, <1>4 DEF p

(* Of the entries of a route one is kept. *)
LEMMA WithoutRepeatsIs ==
  ASSUME NEW M, NEW s \in Seq(M)
  PROVE  /\ WithoutRepeats(s) \in Seq(M)
         /\ \A e \in Range(s) : \E d \in Range(WithoutRepeats(s)) : d.route = e.route
<1> DEFINE at == {k \in DOMAIN s : \A j \in 1 .. k - 1 : s[j].route # s[k].route}
<1>1. WithoutRepeats(s) \in Seq(M) /\ Range(WithoutRepeats(s)) = {s[k] : k \in at}
  <2>1. at \in SUBSET (DOMAIN s)
    OBVIOUS
  <2>2. WithoutRepeats(s) = Picked(s, at)
    BY DEF WithoutRepeats
  <2> HIDE DEF at
  <2> QED
    BY <2>1, <2>2, RangeOfPicked
<1>2. ASSUME NEW e \in Range(s) PROVE \E k \in at : s[k].route = e.route
  <2> DEFINE those == {k \in DOMAIN s : s[k].route = e.route}
  <2>1. DOMAIN s = 1 .. Len(s) /\ Len(s) \in Nat /\ those # {}
    BY RangeIs
  <2>2. PICK m \in those : \A k \in those : m <= k
    <3>1. those \in SUBSET Nat
      BY <2>1
    <3> HIDE DEF those
    <3> QED
      BY <2>1, <3>1, LeastOne
  <2>3. ASSUME NEW j \in 1 .. m - 1 PROVE s[j].route # s[m].route
    <3>1. j \in DOMAIN s /\ ~(m <= j)
      BY <2>1, <2>2
    <3> QED
      BY <2>2, <3>1
  <2> QED
    BY <2>2, <2>3
<1> QED
  BY <1>1, <1>2

-----------------------------------------------------------------------------
(* Registrations: what was decorated is filed, and stays so. *)
Buckets == {AppName, ""}
Filing(M) == [decorated : [Buckets -> Seq(M)], registry : Seq(M)]

Filed(reg, e) ==
  IF e.by = "page"
  THEN \E d \in Range(reg.registry) : d = e \/ (e.route # NoRoute /\ d.route = e.route)
  ELSE \E b \in Buckets : \E d \in Range(reg.decorated[b]) : d.route = e.route

(* Migration empties every bucket but the app's and loses no route. *)
LEMMA MigratedIs ==
  ASSUME NEW M, NEW buckets \in [Buckets -> Seq(M)]
  PROVE  /\ Migrated(buckets) \in [Buckets -> Seq(M)]
         /\ Migrated(buckets)[""] = <<>>
         /\ \A b \in Buckets : \A e \in Range(buckets[b]) :
              \E d \in Range(Migrated(buckets)[AppName]) : d.route = e.route
<1> DEFINE all == buckets[AppName] \o buckets[""]
<1>1. buckets[AppName] \in Seq(M) /\ buckets[""] \in Seq(M)
  BY DEF Buckets
<1>2. all \in Seq(M) /\ Range(all) = Range(buckets[AppName]) \cup Range(buckets[""])
  BY <1>1, RangeOfBoth
<1>3. /\ WithoutRepeats(all) \in Seq(M)
      /\ \A e \in Range(all) : \E d \in Range(WithoutRepeats(all)) : d.route = e.route
  <2> HIDE DEF all
  <2> QED
    BY <1>2, WithoutRepeatsIs
<1>4. Migrated(buckets) = [b \in Buckets |-> IF b = AppName THEN WithoutRepeats(all) ELSE <<>>]
  BY DEF Migrated, Buckets
<1> HIDE DEF all
<1>5. AppName \in Buckets /\ "" \in Buckets /\ "" # AppName /\ <<>> \in Seq(M)
  <2>1. <<>> \in Seq(M)
    OBVIOUS
  <2>2. "" # AppName
    BY DEF AppName
  <2> QED
    BY <2>1, <2>2 DEF Buckets
<1>6. Migrated(buckets)[AppName] = WithoutRepeats(all) /\ Migrated(buckets)[""] = <<>>
  BY <1>4, <1>5
<1>7. Migrated(buckets) \in [Buckets -> Seq(M)]
  BY <1>3, <1>4, <1>5
<1>8. ASSUME NEW b \in Buckets, NEW e \in Range(buckets[b]) PROVE e \in Range(all)
  BY <1>2 DEF Buckets
<1> QED
  BY <1>3, <1>6, <1>7, <1>8

LEMMA MigratedFiles ==
  ASSUME NEW M, NEW reg \in Filing(M)
  PROVE  LET r == [reg EXCEPT !.decorated = Migrated(@)] IN
         /\ r \in Filing(M) /\ r.decorated[""] = <<>>
         /\ \A e : Filed(reg, e) => Filed(r, e)
<1> DEFINE r == [reg EXCEPT !.decorated = Migrated(@)]
<1>1. reg.decorated \in [Buckets -> Seq(M)] /\ reg.registry \in Seq(M)
  BY DEF Filing
<1>2. r.decorated = Migrated(reg.decorated) /\ r.registry = reg.registry
  BY DEF Filing
<1>3. r = [decorated |-> r.decorated, registry |-> r.registry]
  BY DEF Filing
<1> HIDE DEF r
<1>4. r \in Filing(M) /\ r.decorated[""] = <<>>
  BY <1>1, <1>2, <1>3, MigratedIs DEF Filing
<1>5. ASSUME NEW e, Filed(reg, e) PROVE Filed(r, e)
  <2>1. CASE e.by = "page"
    BY <1>2, <1>5, <2>1 DEF Filed
  <2>2. CASE e.by # "page"
    <3>1. PICK b \in Buckets : \E d \in Range(reg.decorated[b]) : d.route = e.route
      BY <1>5, <2>2 DEF Filed
    <3>2. PICK d \in Range(reg.decorated[b]) : d.route = e.route
      BY <3>1
    <3>3. \E x \in Range(r.decorated[AppName]) : x.route = d.route
      <4>1. \A c \in Buckets : \A f \in Range(reg.decorated[c]) :
              \E x \in Range(Migrated(reg.decorated)[AppName]) : x.route = f.route
        BY <1>1, MigratedIs
      <4> QED
        BY <1>2, <3>2, <4>1
    <3> QED
      BY <2>2, <3>2, <3>3 DEF Filed, Buckets
  <2> QED
    BY <2>1, <2>2
<1> QED
  BY <1>4, <1>5 DEF r

LEMMA EntryAppended ==
  ASSUME NEW M, NEW s \in Seq(M), NEW x \in M
  PROVE  Append(s, x) \in Seq(M) /\ Range(Append(s, x)) = Range(s) \cup {x}
<1> DEFINE one == <<x>>
<1>1. Append(s, x) = s \o one /\ one \in Seq(M)
  OBVIOUS
<1>2. Range(one) = {x}
  BY DEF Range
<1> HIDE DEF one
<1>3. s \o one \in Seq(M) /\ Range(s \o one) = Range(s) \cup Range(one)
  BY <1>1, RangeOfBoth
<1> QED
  BY <1>1, <1>2, <1>3

LEMMA BucketedIs ==
  ASSUME NEW M, NEW buckets \in [Buckets -> Seq(M)], NEW x \in M, x.bucket \in Buckets
  PROVE  /\ Bucketed(buckets, x) \in [Buckets -> Seq(M)]
         /\ x \in Range(Bucketed(buckets, x)[x.bucket])
         /\ \A b \in Buckets : Range(buckets[b]) \subseteq Range(Bucketed(buckets, x)[b])
<1> DEFINE more == Append(buckets[x.bucket], x)
<1>1. more \in Seq(M) /\ Range(more) = Range(buckets[x.bucket]) \cup {x}
  BY EntryAppended
<1> HIDE DEF more
<1>2. Bucketed(buckets, x) = [buckets EXCEPT ![x.bucket] = more]
  BY DEF Bucketed, more
<1>3. \A b \in Buckets : Bucketed(buckets, x)[b] = IF b = x.bucket THEN more ELSE buckets[b]
  BY <1>2
<1>4. Bucketed(buckets, x) \in [Buckets -> Seq(M)]
  BY <1>1, <1>2
<1> QED
  BY <1>1, <1>3, <1>4

(* A decorator files its page and loses no other. *)
LEMMA RegisteredFiles ==
  ASSUME NEW M \in SUBSET Entry, NEW reg \in Filing(M), NEW x \in M
  PROVE  /\ Registered(reg, x) \in Filing(M)
         /\ Filed(Registered(reg, x), x)
         /\ \A e : Filed(reg, e) => Filed(Registered(reg, x), e)
<1> DEFINE r == Registered(reg, x)
           more == Bucketed(reg.decorated, x)
<1>1. x.bucket \in Buckets /\ x.by \in {"page", "rx.page"}
  BY DEF Entry, Buckets
<1>2. reg.decorated \in [Buckets -> Seq(M)] /\ reg.registry \in Seq(M)
  BY DEF Filing
<1>3. /\ more \in [Buckets -> Seq(M)]
      /\ x \in Range(more[x.bucket])
      /\ \A b \in Buckets : Range(reg.decorated[b]) \subseteq Range(more[b])
  BY <1>1, <1>2, BucketedIs
<1> HIDE DEF more
<1>4. CASE x.by = "rx.page"
  <2>1. r = [reg EXCEPT !.decorated = more]
    BY <1>4 DEF Registered, more
  <2>2. r.decorated = more /\ r.registry = reg.registry /\ r \in Filing(M)
    BY <1>2, <1>3, <2>1 DEF Filing
  <2> HIDE DEF r
  <2>3. Filed(r, x)
    BY <1>1, <1>3, <1>4, <2>2 DEF Filed
  <2>4. \A e : Filed(reg, e) => Filed(r, e)
    BY <1>3, <2>2 DEF Filed
  <2> QED
    BY <2>2, <2>3, <2>4 DEF r
<1>5. CASE x.by = "page"
  <2> DEFINE known == x.route # NoRoute /\ \E k \in DOMAIN reg.registry : reg.registry[k].route = x.route
             list == IF known THEN reg.registry ELSE Append(reg.registry, x)
             s == [decorated |-> more, registry |-> reg.registry]
  <2>1. r = [decorated |-> Migrated(more), registry |-> list]
    BY <1>5 DEF Registered, more
  <2>2. list \in Seq(M) /\ Range(reg.registry) \subseteq Range(list)
    BY <1>2, EntryAppended
  <2>3. \E d \in Range(list) : d = x \/ (x.route # NoRoute /\ d.route = x.route)
    <3>1. CASE known
      BY <3>1 DEF Range
    <3>2. CASE ~known
      BY <1>2, <3>2, EntryAppended
    <3> QED
      BY <3>1, <3>2
  <2> HIDE DEF list
  <2>4. /\ s \in Filing(M)
        /\ [s EXCEPT !.decorated = Migrated(@)] = [decorated |-> Migrated(more), registry |-> reg.registry]
    BY <1>2, <1>3 DEF Filing
  <2> DEFINE q == [decorated |-> Migrated(more), registry |-> reg.registry]
  <2>5. q \in Filing(M) /\ \A e : Filed(s, e) => Filed(q, e)
    <3> HIDE DEF s, q
    <3>1. q = [s EXCEPT !.decorated = Migrated(@)]
      BY <2>4 DEF q
    <3> QED
      BY <2>4, <3>1, MigratedFiles
  <2>6. r.decorated = q.decorated /\ r.registry = list /\ q.registry = reg.registry
    BY <2>1
  <2>7. r \in Filing(M)
    BY <2>1, <2>2, <2>5 DEF Filing
  <2>8. s.decorated = more /\ s.registry = reg.registry
    OBVIOUS
  <2> HIDE DEF r, q, s
  <2>9. Filed(r, x)
    BY <1>5, <2>3, <2>6 DEF Filed
  <2>10. ASSUME NEW e, Filed(reg, e) PROVE Filed(r, e)
    <3>1. Filed(s, e)
      BY <1>3, <2>8, <2>10 DEF Filed
    <3>2. Filed(q, e)
      BY <2>5, <3>1
    <3> QED
      BY <2>2, <2>6, <3>2 DEF Filed
  <2> QED
    BY <2>7, <2>9, <2>10 DEF r
<1> QED
  BY <1>1, <1>4, <1>5

LEMMA AllRegistered ==
  ASSUME NEW M \in SUBSET Entry, NEW reg \in Filing(M), NEW s \in Seq(M)
  PROVE  /\ RegisteredAll(reg, s) \in Filing(M)
         /\ \A e : Filed(reg, e) => Filed(RegisteredAll(reg, s), e)
         /\ \A e \in Range(s) : Filed(RegisteredAll(reg, s), e)
<1>1. Len(s) \in Nat
  OBVIOUS
<1>2. PICK h : /\ h[0] = reg
               /\ \A k \in 1 .. Len(s) : h[k] = Registered(h[k - 1], s[k])
               /\ RegisteredAll(reg, s) = h[Len(s)]
  <2> DEFINE InTurns(a, t, h) == /\ h[0] = a
                                 /\ \A k \in 1 .. Len(t) : h[k] = Registered(h[k - 1], t[k])
                                 /\ RegisteredAll(a, t) = h[Len(t)]
  <2>1. \A a, t : Len(t) \in Nat => \E h : InTurns(a, t, h)
    BY RegisteredInTurn
  <2>2. \E h : InTurns(reg, s, h)
    <3> HIDE DEF InTurns
    <3> QED
      BY <1>1, <2>1
  <2> QED
    BY <2>2
<1> DEFINE n == Len(s)
           Keeps(k) == /\ h[k] \in Filing(M)
                       /\ \A e : Filed(reg, e) => Filed(h[k], e)
                       /\ \A j \in 1 .. k : Filed(h[k], s[j])
           good == {k \in 0 .. n : Keeps(k)}
<1>3. 0 \in good
  BY <1>1, <1>2
<1>4. ASSUME NEW k \in 1 .. n, k - 1 \in good PROVE k \in good
  <2>1. Keeps(k - 1) /\ s[k] \in M /\ h[k] = Registered(h[k - 1], s[k])
    BY <1>2, <1>4
  <2>2. /\ h[k] \in Filing(M) /\ Filed(h[k], s[k])
        /\ \A e : Filed(h[k - 1], e) => Filed(h[k], e)
    BY <2>1, RegisteredFiles
  <2>3. \A j \in 1 .. k : j = k \/ j \in 1 .. k - 1
    OBVIOUS
  <2>4. Keeps(k)
    BY <2>1, <2>2, <2>3
  <2> HIDE DEF Keeps
  <2> QED
    BY <2>4
<1>5. n \in good
  <2>0. n \in Nat
    BY <1>1
  <2> HIDE DEF good, n
  <2>1. \A k \in 1 .. n : k - 1 \in good => k \in good
    BY <1>4
  <2>2. \A k \in 0 .. n : k \in good
    BY <2>0, <1>3, <2>1, EachInTurn
  <2> QED
    BY <2>0, <2>2
<1>6. Keeps(n)
  BY <1>5
<1>7. ASSUME NEW e \in Range(s) PROVE Filed(RegisteredAll(reg, s), e)
  <2>1. PICK k \in 1 .. n : s[k] = e
    BY RangeIs
  <2> QED
    BY <1>2, <1>6, <2>1
<1> QED
  BY <1>2, <1>6, <1>7

-----------------------------------------------------------------------------
(* The order the pages are added in leaves none out. *)
LEMMA SortedIs ==
  ASSUME NEW M \in SUBSET Entry, NEW s \in Seq(M)
  PROVE  Sorted(s) \in Seq(M) /\ Range(s) \subseteq Range(Sorted(s))
<1> DEFINE n == Len(Spellings)
<1>1. Spellings \in Seq(STRING) /\ n \in Nat
  BY PagesAssumption
<1>2. PICK h : /\ h[0] = <<>>
               /\ \A k \in 1 .. n : h[k] = h[k - 1] \o OfRoute(s, Spellings[k])
               /\ Sorted(s) = h[n]
  <2> HIDE DEF n
  <2>1. Len(Spellings) \in Nat
    BY <1>1 DEF n
  <2>2. \E h : /\ h[0] = <<>>
               /\ \A k \in 1 .. Len(Spellings) : h[k] = h[k - 1] \o OfRoute(s, Spellings[k])
               /\ Sorted(s) = h[Len(Spellings)]
    BY <2>1, SortedInTurn
  <2> QED
    BY <2>2 DEF n
<1> HIDE DEF n
<1>3. \A k \in 1 .. n : /\ OfRoute(s, Spellings[k]) \in Seq(M)
                        /\ \A e \in Range(s) : e.route = Spellings[k] => e \in Range(OfRoute(s, Spellings[k]))
  <2> SUFFICES ASSUME NEW r
               PROVE  /\ OfRoute(s, r) \in Seq(M)
                      /\ \A e \in Range(s) : e.route = r => e \in Range(OfRoute(s, r))
    OBVIOUS
  <2> DEFINE at == {k \in DOMAIN s : s[k].route = r}
  <2>1. at \in SUBSET (DOMAIN s) /\ OfRoute(s, r) = Picked(s, at)
    BY DEF OfRoute
  <2>2. \A e \in Range(s) : e.route = r => e \in {s[k] : k \in at}
    BY DEF Range
  <2> HIDE DEF at
  <2> QED
    BY <2>1, <2>2, RangeOfPicked
<1> DEFINE Has(k) == /\ h[k] \in Seq(M)
                     /\ \A j \in 1 .. k : \A e \in Range(s) : e.route = Spellings[j] => e \in Range(h[k])
           good == {k \in 0 .. n : Has(k)}
<1>4. 0 \in good
  <2>1. <<>> \in Seq(M)
    OBVIOUS
  <2>2. \A j \in 1 .. 0 : FALSE
    OBVIOUS
  <2>3. Has(0) /\ 0 \in 0 .. n
    BY <1>1, <1>2, <2>1, <2>2
  <2> HIDE DEF Has
  <2> QED
    BY <2>3
<1>5. ASSUME NEW k \in 1 .. n, k - 1 \in good PROVE k \in good
  <2> DEFINE those == OfRoute(s, Spellings[k])
  <2>1. /\ Has(k - 1) /\ h[k] = h[k - 1] \o those /\ those \in Seq(M)
        /\ \A e \in Range(s) : e.route = Spellings[k] => e \in Range(those)
    BY <1>2, <1>3, <1>5
  <2> HIDE DEF those
  <2>2. h[k] \in Seq(M) /\ Range(h[k]) = Range(h[k - 1]) \cup Range(those)
    BY <2>1, RangeOfBoth
  <2>3. \A j \in 1 .. k : j = k \/ j \in 1 .. k - 1
    OBVIOUS
  <2>4. Has(k)
    BY <2>1, <2>2, <2>3
  <2> HIDE DEF Has
  <2> QED
    BY <2>4
<1>6. Has(n)
  <2> HIDE DEF good
  <2>1. \A k \in 1 .. n : k - 1 \in good => k \in good
    BY <1>5
  <2>2. \A k \in 0 .. n : k \in good
    BY <1>1, <1>4, <2>1, EachInTurn
  <2>3. n \in good
    BY <1>1, <2>2
  <2> QED
    BY <2>3 DEF good
<1>7. ASSUME NEW e \in Range(s) PROVE e \in Range(h[n])
  <2>1. e \in Entry
    BY RangeIs
  <2>2. e.route \in Range(Spellings)
    BY <2>1 DEF Entry
  <2>3. PICK j \in 1 .. n : Spellings[j] = e.route
    <3>1. \E j \in 1 .. Len(Spellings) : Spellings[j] = e.route
      BY <1>1, <2>2, RangeIs
    <3> QED
      BY <3>1 DEF n
  <2> QED
    BY <1>6, <2>3
<1> QED
  BY <1>2, <1>6, <1>7

-----------------------------------------------------------------------------
(* An app that has only pages of M, each at its route, and refused none. *)
AppOf(a, M) ==
  /\ DOMAIN a = {"pages", "loads", "refused", "imported"} /\ a.refused = FALSE
  /\ \A r \in DOMAIN a.pages : \E d \in M : RouteOf(d) = r /\ d.page = a.pages[r]

LEMMA AppChanged ==
  ASSUME NEW a, DOMAIN a = {"pages", "loads", "refused", "imported"}, NEW x, NEW y
  PROVE  LET b == [a EXCEPT !.pages = x, !.loads = y]
             c == [a EXCEPT !.loads = y]
             d == [a EXCEPT !.imported = y]
         IN  /\ DOMAIN b = DOMAIN a /\ DOMAIN c = DOMAIN a /\ DOMAIN d = DOMAIN a
             /\ b.pages = x /\ b.refused = a.refused /\ b.imported = a.imported
             /\ c.pages = a.pages /\ c.refused = a.refused /\ c.imported = a.imported
             /\ d.pages = a.pages /\ d.refused = a.refused /\ d.imported = y
OBVIOUS

(* It is given a page of M, or has one at that route. *)
Grown(a, b, e, M) ==
  /\ AppOf(b, M) /\ b.imported = a.imported
  /\ DOMAIN b.pages = DOMAIN a.pages \cup {RouteOf(e)}

LEMMA AddedGrows ==
  ASSUME NEW M, NEW a, AppOf(a, M), NEW e \in M,
         RouteOf(e) \notin DOMAIN a.pages \/ \A d \in M : RouteOf(d) = RouteOf(e) => d.page = e.page
  PROVE  Grown(a, Added(a, e), e, M)
<1> DEFINE r == RouteOf(e)
           pages == [k \in DOMAIN a.pages \cup {r} |-> IF k = r THEN e.page ELSE a.pages[k]]
           loads == IF e.load THEN [k \in DOMAIN a.loads \cup {r} |-> IF k = r THEN e.page ELSE a.loads[k]]
                              ELSE a.loads
           b == [a EXCEPT !.pages = pages, !.loads = loads]
<1>1. ~(r \in DOMAIN a.pages /\ a.pages[r] # e.page)
  BY DEF AppOf
<1>2. Added(a, e) = b
  BY <1>1 DEF Added
<1> HIDE DEF r, pages, loads
<1>3. DOMAIN b = DOMAIN a /\ b.pages = pages /\ b.refused = a.refused /\ b.imported = a.imported
  BY AppChanged DEF AppOf
<1> HIDE DEF b
<1>5. DOMAIN pages = DOMAIN a.pages \cup {r} /\ \A k \in DOMAIN pages : pages[k] = IF k = r THEN e.page ELSE a.pages[k]
  BY DEF pages
<1>6. \A k \in DOMAIN pages : \E d \in M : RouteOf(d) = k /\ d.page = pages[k]
  BY <1>5 DEF AppOf, r
<1>7. AppOf(b, M)
  BY <1>3, <1>6 DEF AppOf
<1> QED
  BY <1>2, <1>3, <1>5, <1>7 DEF Grown, r

(* Where a route that is spelled out is taken, nothing is added. *)
LEMMA AddedIfFreeGrows ==
  ASSUME NEW M, NEW a, AppOf(a, M), NEW e \in M,
         e.route = NoRoute => \A d \in M : RouteOf(d) = RouteOf(e) => d.page = e.page
  PROVE  Grown(a, AddedIfFree(a, e), e, M)
<1>1. CASE e.route # NoRoute /\ Format[e.route] \in DOMAIN a.pages
  <2>1. AddedIfFree(a, e) = a /\ RouteOf(e) \in DOMAIN a.pages
    BY <1>1 DEF AddedIfFree, RouteOf
  <2> QED
    BY <2>1 DEF Grown
<1>2. CASE ~(e.route # NoRoute /\ Format[e.route] \in DOMAIN a.pages)
  <2>1. AddedIfFree(a, e) = Added(a, e)
    BY <1>2 DEF AddedIfFree
  <2>2. RouteOf(e) \notin DOMAIN a.pages \/ e.route = NoRoute
    BY <1>2 DEF RouteOf
  <2>3. RouteOf(e) \notin DOMAIN a.pages \/ \A d \in M : RouteOf(d) = RouteOf(e) => d.page = e.page
    BY <2>2
  <2> QED
    BY <2>1, <2>3, AddedGrows
<1> QED
  BY <1>1, <1>2

(* After some of that, an app has all it was given and all it had. *)
Given(a, b, s, M) ==
  /\ AppOf(b, M) /\ b.imported = a.imported
  /\ DOMAIN a.pages \subseteq DOMAIN b.pages
  /\ \A e \in Range(s) : RouteOf(e) \in DOMAIN b.pages

LEMMA GrownInTurn ==
  ASSUME NEW M, NEW s \in Seq(M), NEW h, AppOf(h[0], M),
         \A k \in 1 .. Len(s) : AppOf(h[k - 1], M) => Grown(h[k - 1], h[k], s[k], M)
  PROVE  Given(h[0], h[Len(s)], s, M)
<1> DEFINE n == Len(s)
           Has(k) == /\ AppOf(h[k], M) /\ h[k].imported = h[0].imported
                     /\ DOMAIN h[0].pages \subseteq DOMAIN h[k].pages
                     /\ \A j \in 1 .. k : RouteOf(s[j]) \in DOMAIN h[k].pages
           good == {k \in 0 .. n : Has(k)}
<1>1. n \in Nat
  OBVIOUS
<1>2. 0 \in good
  BY <1>1
<1>3. ASSUME NEW k \in 1 .. n, k - 1 \in good PROVE k \in good
  <2>1. Has(k - 1)
    BY <1>3
  <2>2. Grown(h[k - 1], h[k], s[k], M)
    BY <2>1
  <2>3. \A j \in 1 .. k : j = k \/ j \in 1 .. k - 1
    OBVIOUS
  <2>4. Has(k)
    BY <2>1, <2>2, <2>3 DEF Grown
  <2> HIDE DEF Has
  <2> QED
    BY <2>4
<1>4. Has(n)
  <2> HIDE DEF good
  <2>1. \A k \in 1 .. n : k - 1 \in good => k \in good
    BY <1>3
  <2> HIDE DEF n
  <2>2. \A k \in 0 .. n : k \in good
    BY <1>1, <1>2, <2>1, EachInTurn
  <2>3. n \in good
    BY <1>1, <2>2
  <2> QED
    BY <2>3 DEF good
<1>5. \A e \in Range(s) : \E j \in 1 .. n : s[j] = e
  BY RangeIs
<1> QED
  BY <1>4, <1>5 DEF Given

(* So it is with the pages of the app module, *)
LEMMA AllAdded ==
  ASSUME NEW M, NEW a, AppOf(a, M), NEW s \in Seq(M),
         \A d, e \in M : RouteOf(d) = RouteOf(e) => d.page = e.page
  PROVE  Given(a, AddedAll(a, s), s, M)
<1>1. Len(s) \in Nat /\ \A k \in 1 .. Len(s) : s[k] \in M
  OBVIOUS
<1>2. PICK h : /\ h[0] = a
               /\ \A k \in 1 .. Len(s) : h[k] = Added(h[k - 1], s[k])
               /\ AddedAll(a, s) = h[Len(s)]
  BY <1>1, AddedInTurn
<1>3. \A x : \A e \in M : AppOf(x, M) => Grown(x, Added(x, e), e, M)
  BY AddedGrows
<1>4. \A k \in 1 .. Len(s) : AppOf(h[k - 1], M) => Grown(h[k - 1], h[k], s[k], M)
  BY <1>1, <1>2, <1>3
<1>5. Given(h[0], h[Len(s)], s, M)
  BY <1>2, <1>4, GrownInTurn
<1> QED
  BY <1>2, <1>5

(* with the canned ones, *)
LEMMA AllCanned ==
  ASSUME NEW M, NEW a, AppOf(a, M), NEW s \in Seq(M), \A e \in Range(s) : e.route # NoRoute
  PROVE  Given(a, RegisteredPages(a, s), s, M)
<1>1. Len(s) \in Nat /\ \A k \in 1 .. Len(s) : s[k] \in M /\ s[k].route # NoRoute
  BY RangeIs
<1>2. PICK h : /\ h[0] = a
               /\ \A k \in 1 .. Len(s) : h[k] = RegisterPage(h[k - 1], s[k])
               /\ RegisteredPages(a, s) = h[Len(s)]
  BY <1>1, RegisterPageInTurn
<1>3. \A x : \A e \in M : e.route # NoRoute => RegisterPage(x, e) = AddedIfFree(x, e)
  BY DEF RegisterPage, AddedIfFree
<1>4. \A x : \A e \in M : AppOf(x, M) /\ e.route # NoRoute => Grown(x, AddedIfFree(x, e), e, M)
  BY AddedIfFreeGrows
<1>5. \A k \in 1 .. Len(s) : AppOf(h[k - 1], M) => Grown(h[k - 1], h[k], s[k], M)
  BY <1>1, <1>2, <1>3, <1>4
<1>6. Given(h[0], h[Len(s)], s, M)
  BY <1>2, <1>5, GrownInTurn
<1> QED
  BY <1>2, <1>6

(* and with the decorated ones. *)
LEMMA AllDecorated ==
  ASSUME NEW M, NEW a, AppOf(a, M), NEW s \in Seq(M),
         \A d, e \in M : RouteOf(d) = RouteOf(e) /\ e.route = NoRoute => d.page = e.page
  PROVE  Given(a, AddedWhereFree(a, s), s, M)
<1>1. Len(s) \in Nat /\ \A k \in 1 .. Len(s) : s[k] \in M
  OBVIOUS
<1>2. PICK h : /\ h[0] = a
               /\ \A k \in 1 .. Len(s) : h[k] = AddedIfFree(h[k - 1], s[k])
               /\ AddedWhereFree(a, s) = h[Len(s)]
  BY <1>1, AddedIfFreeInTurn
<1>3. \A x : \A e \in M : AppOf(x, M) => Grown(x, AddedIfFree(x, e), e, M)
  BY AddedIfFreeGrows
<1>4. \A k \in 1 .. Len(s) : AppOf(h[k - 1], M) => Grown(h[k - 1], h[k], s[k], M)
  BY <1>1, <1>2, <1>3
<1>5. Given(h[0], h[Len(s)], s, M)
  BY <1>2, <1>4, GrownInTurn
<1> QED
  BY <1>2, <1>5

LEMMA LoadsAside ==
  ASSUME NEW M, NEW a, AppOf(a, M), NEW entries
  PROVE  /\ AppOf(WithLoads(a, entries), M)
         /\ WithLoads(a, entries).pages = a.pages /\ WithLoads(a, entries).imported = a.imported
<1>1. \E x : WithLoads(a, entries) = [a EXCEPT !.loads = x]
  BY DEF WithLoads
<1>2. PICK x : WithLoads(a, entries) = [a EXCEPT !.loads = x]
  BY <1>1
<1> DEFINE b == [a EXCEPT !.loads = x]
<1>3. DOMAIN b = DOMAIN a /\ b.pages = a.pages /\ b.refused = a.refused /\ b.imported = a.imported
  BY AppChanged DEF AppOf
<1> HIDE DEF b
<1>4. AppOf(b, M)
  BY <1>3 DEF AppOf
<1> QED
  BY <1>2, <1>3, <1>4 DEF b

-----------------------------------------------------------------------------
(* The pages of a program, and what it says of those of one route. *)
KnownPages == Decorations \cup CannedOf(program)

LEMMA CannedPages ==
  ASSUME NEW auth \in SUBSET AuthSettings
  PROVE  AuthPages(auth) \in Seq(Entry) /\ \A e \in Range(AuthPages(auth)) : e.route # NoRoute
<1> DEFINE Can == {e \in Entry : e.route # NoRoute}
           Canned(page, route, load) ==
             [page |-> page, route |-> route, by |-> "page", bucket |-> AppName, load |-> load]
<1>1. \A page \in CannedNames : \A route \in Range(Spellings) \ {NoRoute} : \A load \in BOOLEAN :
        Canned(page, route, load) \in Can
  BY DEF Entry
<1>2. {LoginRoute, RegisterRoute, ResetRoute, ConfirmRoute} \subseteq Range(Spellings) \ {NoRoute}
  BY PagesAssumption
<1> DEFINE login == Canned("login", LoginRoute, TRUE)
           register == Canned("register", RegisterRoute, TRUE)
           reset == Canned("reset", ResetRoute, FALSE)
           confirm == Canned("confirm", ConfirmRoute, TRUE)
<1>3. login \in Can /\ register \in Can /\ reset \in Can /\ confirm \in Can
  <2> HIDE DEF Can, Canned
  <2> QED
    BY <1>1, <1>2 DEF CannedNames
<1>4. AuthPages(auth) = IF "enabled" \notin auth THEN <<>>
                        ELSE <<login>> \o (IF "signup" \in auth THEN <<register>> ELSE <<>>)
                                    \o (IF "reset" \in auth THEN <<reset, confirm>> ELSE <<>>)
  BY DEF AuthPages
<1> HIDE DEF Can, login, register, reset, confirm
<1>5. AuthPages(auth) \in Seq(Can)
  BY <1>3, <1>4
<1>6. AuthPages(auth) \in Seq(Entry)
  BY <1>5, SeqOver DEF Can
<1> QED
  BY <1>5, <1>6, RangeIs DEF Can

LEMMA ProgramIs ==
  ASSUME NEW p \in Programs
  PROVE  /\ p.views \in Seq(Entry) /\ p.late \in Seq(Entry) /\ p.own \in Seq(Entry)
         /\ p.auth \in SUBSET AuthSettings
         /\ CannedOf(p) \subseteq Entry /\ \A e \in CannedOf(p) : e.route # NoRoute
         /\ Members(p) \subseteq Entry
         /\ \A d, e \in Members(p) :
              RouteOf(d) = RouteOf(e) /\ (e.route = NoRoute \/ {d, e} \subseteq Range(p.own)) => d.page = e.page
<1>1. p \in ProgramRecord
  BY PagesAssumption
<1>2. p.views \in Seq(Entry) /\ p.late \in Seq(Entry) /\ p.own \in Seq(Entry) /\ p.auth \in SUBSET AuthSettings
  BY <1>1 DEF ProgramRecord
<1>3. CannedOf(p) \subseteq Entry /\ \A e \in CannedOf(p) : e.route # NoRoute
  <2>1. CASE p.helper = "none"
    BY <2>1 DEF CannedOf
  <2>2. CASE p.helper # "none"
    BY <1>2, <2>2, CannedPages, RangeIs DEF CannedOf
  <2> QED
    BY <2>1, <2>2
<1>4. Members(p) \subseteq Entry
  BY <1>2, <1>3, RangeIs DEF Members
<1> QED
  BY <1>2, <1>3, <1>4, PagesAssumption

(* What waits to be decorated is the rest of what is decorated late. *)
RestOf(s, t) ==
  /\ t \in Seq(Entry) /\ Len(t) <= Len(s)
  /\ \A k \in 1 .. Len(t) : t[k] = s[Len(s) - Len(t) + k]

(* What was decorated is filed and only that, and the app has only pages   *)
(* of the program: its own if its module was imported, and, while the      *)
(* pages are fresh, all that are filed.                                    *)
FiledSoFar ==
  /\ program \in Programs
  /\ DOMAIN left = {"views", "late"}
  /\ left.views \in {program.views, <<>>} /\ RestOf(program.late, left.late)
  /\ Registration \in Filing(KnownPages)
  /\ \A e \in Late(left.late) : Filed(Registration, e)
  /\ left.views = <<>> => \A e \in Range(program.views) : Filed(Registration, e)

AppSoFar ==
  /\ AppOf(app, KnownPages)
  /\ app.imported \in BOOLEAN
  /\ ~app.imported => DOMAIN app.pages = {}
  /\ app.imported => \A e \in Range(program.own) : RouteOf(e) \in DOMAIN app.pages

AppServes ==
  fresh => /\ left.views = <<>> /\ app.imported /\ decorated[""] = <<>>
           /\ \A e \in Range(registry) \cup Range(decorated[AppName]) : RouteOf(e) \in DOMAIN app.pages

ServeInv ==
  \/ /\ program = NoProgram /\ app = NoApp /\ fresh = FALSE
     /\ decorated = [b \in Buckets |-> <<>>] /\ registry = <<>>
  \/ FiledSoFar /\ AppSoFar /\ AppServes

LEMMA KnownIs ==
  ASSUME program \in Programs, RestOf(program.late, left.late)
  PROVE  /\ KnownPages \subseteq Members(program) /\ KnownPages \subseteq Entry
         /\ Range(program.views) \subseteq KnownPages /\ Range(program.own) \subseteq KnownPages
         /\ CannedOf(program) \subseteq KnownPages /\ Late(left.late) \subseteq KnownPages
         /\ \A d, e \in KnownPages : RouteOf(d) = RouteOf(e) /\ e.route = NoRoute => d.page = e.page
         /\ \A d, e \in Range(program.own) : RouteOf(d) = RouteOf(e) => d.page = e.page
<1>1. Late(left.late) \subseteq Range(program.late)
  <2>1. \A k \in 1 .. Len(program.late) - Len(left.late) : k \in 1 .. Len(program.late)
    BY ProgramIs DEF RestOf
  <2>2. DOMAIN program.late = 1 .. Len(program.late)
    BY ProgramIs
  <2> QED
    BY <2>1, <2>2 DEF Late, Range
<1>2. KnownPages \subseteq Members(program)
  BY <1>1 DEF KnownPages, Decorations, Members
<1>3. /\ Range(program.views) \subseteq KnownPages /\ Range(program.own) \subseteq KnownPages
      /\ CannedOf(program) \subseteq KnownPages /\ Late(left.late) \subseteq KnownPages
  BY DEF KnownPages, Decorations
<1>4. /\ Members(program) \subseteq Entry
      /\ \A d, e \in Members(program) :
           RouteOf(d) = RouteOf(e) /\ (e.route = NoRoute \/ {d, e} \subseteq Range(program.own)) => d.page = e.page
  BY ProgramIs
<1>5. \A d, e \in KnownPages : RouteOf(d) = RouteOf(e) /\ e.route = NoRoute => d.page = e.page
  BY <1>2, <1>4
<1>6. \A d, e \in Range(program.own) : RouteOf(d) = RouteOf(e) => d.page = e.page
  BY <1>2, <1>3, <1>4
<1> QED
  BY <1>2, <1>3, <1>4, <1>5, <1>6

(* The import of the app module adds its own pages. *)
LEMMA LoadedServes ==
  ASSUME FiledSoFar, AppSoFar
  PROVE  /\ AppOf(Loaded(app), KnownPages) /\ Loaded(app).imported = TRUE
         /\ \A e \in Range(program.own) : RouteOf(e) \in DOMAIN Loaded(app).pages
<1>1. CASE app.imported
  <2>1. Loaded(app) = app /\ app.imported = TRUE
    BY <1>1 DEF Loaded, AppSoFar
  <2> QED
    BY <1>1, <2>1 DEF AppSoFar
<1>2. CASE ~app.imported
  <2> DEFINE a == [app EXCEPT !.imported = TRUE]
             own == AddedAll(a, program.own)
             O == Range(program.own)
             M == KnownPages
  <2>1. DOMAIN a = DOMAIN app /\ a.pages = app.pages /\ a.refused = app.refused /\ a.imported = TRUE
    BY AppChanged DEF AppSoFar, AppOf
  <2>2. program.own \in Seq(O) /\ O \subseteq M /\ \A d, e \in O : RouteOf(d) = RouteOf(e) => d.page = e.page
    BY ProgramIs, RangeIs, KnownIs DEF FiledSoFar
  <2> HIDE DEF a, O, M
  <2>3. AppOf(a, O)
    BY <1>2, <2>1 DEF AppSoFar, AppOf
  <2>4. Given(a, own, program.own, O)
    BY <2>2, <2>3, AllAdded
  <2> HIDE DEF own
  <2>5. /\ AppOf(own, M) /\ own.imported = TRUE
        /\ \A e \in Range(program.own) : RouteOf(e) \in DOMAIN own.pages
    BY <2>1, <2>2, <2>4 DEF Given, AppOf
  <2>6. CASE program.helper = "add"
    <3> DEFINE canned == AuthPages(program.auth)
    <3>1. Loaded(app) = RegisteredPages(own, canned)
      BY <1>2, <2>6 DEF Loaded, own, a
    <3>2. canned \in Seq(Entry) /\ \A e \in Range(canned) : e.route # NoRoute
      BY ProgramIs, CannedPages DEF FiledSoFar
    <3>3. Range(canned) \subseteq M
      BY <2>6, KnownIs DEF FiledSoFar, CannedOf, M
    <3> HIDE DEF canned
    <3>4. canned \in Seq(M)
      BY <3>2, <3>3, RangeIs, SeqOver
    <3>5. Given(own, RegisteredPages(own, canned), canned, M)
      BY <2>5, <3>2, <3>4, AllCanned
    <3> QED
      BY <2>5, <3>1, <3>5 DEF Given, M
  <2>7. CASE program.helper # "add"
    <3>1. Loaded(app) = own
      BY <1>2, <2>7 DEF Loaded, own, a
    <3> QED
      BY <2>5, <3>1 DEF M
  <2> QED
    BY <2>6, <2>7
<1> QED
  BY <1>1, <1>2

(* Preparing adds what is filed. *)
LEMMA PreparedServes ==
  ASSUME FiledSoFar, AppSoFar, NEW reg \in Filing(KnownPages)
  PROVE  /\ AppOf(PreparedApp(reg), KnownPages) /\ PreparedApp(reg).imported = TRUE
         /\ \A e \in Range(program.own) \cup Range(reg.registry) \cup Range(reg.decorated[AppName]) :
              RouteOf(e) \in DOMAIN PreparedApp(reg).pages
<1> DEFINE M == KnownPages
           a == Loaded(app)
           first == reg.decorated[AppName]
           b == AddedWhereFree(a, Sorted(first))
           c == AddedWhereFree(b, Sorted(reg.registry))
           d == WithLoads(c, first)
<1>1. PreparedApp(reg) = d
  BY DEF PreparedApp, ApplyDecorated, ApplyRegistry
<1>2. first \in Seq(M) /\ reg.registry \in Seq(M)
  BY DEF Filing, Buckets
<1>3. M \subseteq Entry /\ \A x, e \in M : RouteOf(x) = RouteOf(e) /\ e.route = NoRoute => x.page = e.page
  BY KnownIs DEF FiledSoFar
<1>4. /\ AppOf(a, M) /\ a.imported = TRUE
      /\ \A e \in Range(program.own) : RouteOf(e) \in DOMAIN a.pages
  BY LoadedServes
<1> HIDE DEF M, a, first
<1>5. /\ Sorted(first) \in Seq(M) /\ Range(first) \subseteq Range(Sorted(first))
      /\ Sorted(reg.registry) \in Seq(M) /\ Range(reg.registry) \subseteq Range(Sorted(reg.registry))
  BY <1>2, <1>3, SortedIs
<1>6. Given(a, b, Sorted(first), M)
  BY <1>3, <1>4, <1>5, AllDecorated
<1> HIDE DEF b
<1>7. Given(b, c, Sorted(reg.registry), M)
  <2>1. AppOf(b, M)
    BY <1>6 DEF Given
  <2> QED
    BY <1>3, <1>5, <2>1, AllDecorated
<1> HIDE DEF c
<1>8. AppOf(d, M) /\ d.pages = c.pages /\ d.imported = c.imported
  BY <1>7, LoadsAside DEF Given
<1> HIDE DEF d
<1>9. d.imported = TRUE /\ DOMAIN a.pages \subseteq DOMAIN d.pages
  BY <1>4, <1>6, <1>7, <1>8 DEF Given
<1>10. \A e \in Range(first) \cup Range(reg.registry) : RouteOf(e) \in DOMAIN d.pages
  BY <1>5, <1>6, <1>7, <1>8 DEF Given
<1> QED
  BY <1>1, <1>4, <1>8, <1>9, <1>10 DEF M, first

LEMMA FilingGrows ==
  ASSUME NEW M, NEW N, M \subseteq N, NEW reg \in Filing(M)
  PROVE  reg \in Filing(N)
<1>1. \A s \in Seq(M) : s \in Seq(N)
  OBVIOUS
<1>2. [Buckets -> Seq(M)] \subseteq [Buckets -> Seq(N)]
  BY <1>1
<1> QED
  BY <1>1, <1>2 DEF Filing

LEMMA AppOfMore ==
  ASSUME NEW M, NEW N, M \subseteq N, NEW a, AppOf(a, M)
  PROVE  AppOf(a, N)
BY DEF AppOf

LEMMA ServeInit == PagesInit => ServeInv
BY DEF PagesInit, ServeInv, Buckets

LEMMA StartServes ==
  ASSUME NEW p \in Programs, StartProject(p), ServeInv
  PROVE  ServeInv'
<1>1. program = NoProgram /\ program' = p /\ left' = [views |-> p.views, late |-> p.late]
      /\ decorated' = decorated /\ registry' = registry /\ app' = app /\ fresh' = fresh
  BY DEF StartProject
<1>2. CASE FiledSoFar /\ AppSoFar /\ AppServes
  <2>1. program \in Programs /\ program \in ProgramRecord
    BY <1>2, PagesAssumption DEF FiledSoFar
  <2>2. program.helper \in {"none", "add", "ensure"}
    BY <2>1 DEF ProgramRecord
  <2>3. program.helper = "none yet"
    BY <1>1 DEF NoProgram
  <2> QED
    BY <2>2, <2>3
<1>3. CASE /\ program = NoProgram /\ app = NoApp /\ fresh = FALSE
           /\ decorated = [b \in Buckets |-> <<>>] /\ registry = <<>>
  <2>1. p.late \in Seq(Entry) /\ left'.views = p.views /\ left'.late = p.late
    BY <1>1, ProgramIs
  <2>2. RestOf(p.late, left'.late)
    BY <2>1 DEF RestOf
  <2>3. Late(left.late)' = {}
    <3>1. Len(p.late) - Len(p.late) = 0
      BY <2>1
    <3> QED
      BY <1>1, <2>1, <3>1 DEF Late
  <2>4. Registration' \in Filing(KnownPages')
    <3> DEFINE K == KnownPages'
    <3>1. <<>> \in Seq(K)
      OBVIOUS
    <3>2. decorated' \in [Buckets -> Seq(K)] /\ registry' \in Seq(K)
      BY <1>1, <1>3, <3>1
    <3> HIDE DEF K
    <3>3. Registration' \in Filing(K)
      BY <3>2 DEF Registration, Filing
    <3> QED
      BY <3>3 DEF K
  <2>5. left'.views = <<>> => \A e \in Range(p.views) : Filed(Registration, e)'
    BY <2>1 DEF Range
  <2>6. FiledSoFar'
    BY <1>1, <2>1, <2>2, <2>3, <2>4, <2>5 DEF FiledSoFar, Filing
  <2>7. AppSoFar' /\ AppServes'
    BY <1>1, <1>3 DEF AppSoFar, AppOf, AppServes, NoApp
  <2> QED
    BY <2>6, <2>7 DEF ServeInv
<1> QED
  BY <1>2, <1>3 DEF ServeInv

LEMMA DecorateServes ==
  ASSUME Decorate, FiledSoFar, AppSoFar
  PROVE  FiledSoFar' /\ AppSoFar' /\ AppServes'
<1> DEFINE x == Head(left.late)
           s == program.late
           t == left.late
           r == Registered(Registration, x)
           K == KnownPages'
<1>1. /\ t # <<>> /\ left' = [left EXCEPT !.late = Tail(@)] /\ fresh' = FALSE
      /\ decorated' = r.decorated /\ registry' = r.registry
      /\ program' = program /\ app' = app
  BY DEF Decorate, Registers
<1>2. s \in Seq(Entry) /\ RestOf(s, t)
  BY ProgramIs DEF FiledSoFar
<1>3. t \in Seq(Entry) /\ Len(t) \in Nat /\ Len(t) > 0 /\ Len(s) \in Nat /\ Len(t) <= Len(s)
  BY <1>1, <1>2 DEF RestOf
<1>4. left'.views = left.views /\ left'.late = Tail(t)
  BY <1>1 DEF FiledSoFar
<1> DEFINE n == Len(s)
           w == Len(t)
           m == n - w
<1>5. n \in Nat /\ w \in Nat /\ w > 0 /\ m \in Nat /\ n - w = m /\ n - (w - 1) = m + 1 /\ w - 1 \in Nat
  <2> HIDE DEF n, w, m
  <2>1. n \in Nat /\ w \in Nat /\ w > 0 /\ w <= n /\ m = n - w
    BY <1>3 DEF n, w, m
  <2> QED
    BY <2>1
<1>6. /\ t \in Seq(Entry) /\ Tail(t) \in Seq(Entry) /\ Len(Tail(t)) = w - 1 /\ x = t[1]
      /\ \A k \in 1 .. w - 1 : Tail(t)[k] = t[k + 1]
      /\ \A k \in 1 .. w : t[k] = s[m + k]
  BY <1>1, <1>2, <1>3 DEF RestOf
<1>7. Late(left.late) = {s[k] : k \in 1 .. m} /\ Late(left.late)' = {s[k] : k \in 1 .. n - (w - 1)}
  <2>1. Len(left'.late) = w - 1 /\ program'.late = s
    BY <1>1, <1>4, <1>6
  <2>2. Late(left.late)' = {program'.late[k] : k \in 1 .. Len(program'.late) - Len(left'.late)}
    BY DEF Late
  <2>3. Late(left.late) = {s[k] : k \in 1 .. m}
    BY DEF Late
  <2> HIDE DEF w, s, m
  <2>4. Late(left.late)' = {s[k] : k \in 1 .. n - (w - 1)}
    BY <2>1, <2>2 DEF n
  <2> QED
    BY <2>3, <2>4
<1> HIDE DEF n, w, m
<1>16. RestOf(s, Tail(t))
  <2>1. ASSUME NEW k \in 1 .. w - 1 PROVE Tail(t)[k] = s[n - (w - 1) + k]
    <3>1. k + 1 \in 1 .. w /\ m + (k + 1) = n - (w - 1) + k
      BY <1>5
    <3> QED
      BY <1>6, <3>1
  <2>2. w - 1 <= n
    BY <1>5 DEF m
  <2> QED
    BY <1>6, <2>1, <2>2 DEF RestOf, n
<1>17. x = s[m + 1]
  <2>1. 1 \in 1 .. w
    BY <1>5
  <2> QED
    BY <1>6, <2>1
<1>18. Late(left.late)' = Late(left.late) \cup {x}
  <2>1. 1 .. m + 1 = (1 .. m) \cup {m + 1}
    BY <1>5
  <2>2. {s[k] : k \in 1 .. m + 1} = {s[k] : k \in 1 .. m} \cup {s[m + 1]}
    BY <2>1
  <2>3. n - (w - 1) = m + 1
    BY <1>5
  <2> QED
    BY <1>7, <1>17, <2>2, <2>3
<1>8. K = KnownPages \cup {x}
  BY <1>1, <1>18 DEF KnownPages, Decorations
<1>9. K \subseteq Entry
  <2>1. program' \in Programs /\ RestOf(program'.late, left'.late)
    BY <1>1, <1>4, <1>16 DEF FiledSoFar
  <2>2. x \in Entry
    BY <1>3, <1>5
  <2>3. KnownPages \subseteq Entry
    BY KnownIs DEF FiledSoFar
  <2> QED
    BY <1>8, <2>2, <2>3
<1> HIDE DEF K
<1>10. Registration \in Filing(K)
  BY <1>8, FilingGrows DEF FiledSoFar
<1>11. r \in Filing(K) /\ Filed(r, x) /\ \A e : Filed(Registration, e) => Filed(r, e)
  <2>1. x \in K /\ K \in SUBSET Entry
    BY <1>8, <1>9
  <2> QED
    BY <1>10, <2>1, RegisteredFiles
<1> HIDE DEF r
<1>12. Registration' = r
  BY <1>1, <1>11 DEF Registration, Filing
<1>13. \A e : Filed(r, e) => Filed(Registration, e)'
  BY <1>12 DEF Filed
<1>14. FiledSoFar'
  <2>1. Registration' \in Filing(K)
    BY <1>11, <1>12
  <2>2. \A e \in Late(left.late)' : Filed(Registration, e)'
    BY <1>18, <1>11, <1>13 DEF FiledSoFar
  <2>3. left'.views = <<>> => \A e \in Range(program'.views) : Filed(Registration, e)'
    BY <1>1, <1>4, <1>11, <1>13 DEF FiledSoFar
  <2>4. /\ program' \in Programs /\ DOMAIN left' = {"views", "late"}
        /\ left'.views \in {program'.views, <<>>} /\ RestOf(program'.late, left'.late)
    BY <1>1, <1>4, <1>16 DEF FiledSoFar
  <2> QED
    BY <2>1, <2>2, <2>3, <2>4 DEF FiledSoFar, K
<1>15. AppSoFar'
  <2>1. AppOf(app, K)
    BY <1>8, AppOfMore DEF AppSoFar
  <2> QED
    BY <1>1, <2>1 DEF AppSoFar, K
<1> QED
  BY <1>1, <1>14, <1>15 DEF AppServes

LEMMA EnsureServes ==
  ASSUME EnsureAuth, FiledSoFar, AppSoFar
  PROVE  FiledSoFar' /\ AppSoFar' /\ AppServes'
<1> DEFINE canned == AuthPages(program.auth)
           r == RegisteredAll(Registration, canned)
           M == KnownPages
<1>1. /\ program.helper = "ensure" /\ fresh' = FALSE
      /\ decorated' = r.decorated /\ registry' = r.registry
      /\ program' = program /\ left' = left /\ app' = app
  BY DEF EnsureAuth, Registers
<1>2. canned \in Seq(M)
  <2>1. canned \in Seq(Entry) /\ Range(canned) \subseteq M
    BY <1>1, ProgramIs, CannedPages, KnownIs DEF FiledSoFar, CannedOf
  <2> HIDE DEF canned, M
  <2> QED
    BY <2>1, RangeIs, SeqOver
<1>3. M \in SUBSET Entry /\ Registration \in Filing(M)
  BY KnownIs DEF FiledSoFar
<1> HIDE DEF canned, M
<1>4. r \in Filing(M) /\ \A e : Filed(Registration, e) => Filed(r, e)
  BY <1>2, <1>3, AllRegistered
<1> HIDE DEF r
<1>5. Registration' = r
  BY <1>1, <1>4 DEF Registration, Filing
<1>6. KnownPages' = M /\ Late(left.late)' = Late(left.late)
  BY <1>1 DEF KnownPages, Decorations, Late, M
<1>7. FiledSoFar'
  BY <1>1, <1>4, <1>5, <1>6 DEF FiledSoFar, Filed
<1>8. AppSoFar'
  BY <1>1, <1>6 DEF AppSoFar, M
<1> QED
  BY <1>1, <1>7, <1>8 DEF AppServes

(* Preparing imports the views, and files and adds all there is. *)
LEMMA PreparingServes ==
  ASSUME Prepares, program' = program, fresh' = TRUE, FiledSoFar, AppSoFar
  PROVE  FiledSoFar' /\ AppSoFar' /\ AppServes'
<1> DEFINE M == KnownPages
           views == left.views
           old == [Registration EXCEPT !.decorated = Migrated(@)]
           more == RegisteredAll(old, views)
           all == [more EXCEPT !.decorated = Migrated(@)]
<1>1. /\ decorated' = all.decorated /\ registry' = all.registry
      /\ app' = PreparedApp(all) /\ left' = [left EXCEPT !.views = <<>>]
  BY DEF Prepares, Registers, ImportPages
<1>2. left'.views = <<>> /\ left'.late = left.late /\ DOMAIN left' = {"views", "late"}
  BY <1>1 DEF FiledSoFar
<1>3. M \in SUBSET Entry /\ Registration \in Filing(M) /\ Range(program.views) \subseteq M
  BY KnownIs DEF FiledSoFar
<1>4. views \in Seq(M)
  <2>1. program.views \in Seq(Entry) /\ views \in {program.views, <<>>}
    BY ProgramIs DEF FiledSoFar
  <2>2. <<>> \in Seq(M)
    OBVIOUS
  <2> HIDE DEF M, views
  <2>3. program.views \in Seq(M)
    BY <1>3, <2>1, RangeIs, SeqOver
  <2> QED
    BY <2>1, <2>2, <2>3
<1>5. views # <<>> => views = program.views
  BY DEF FiledSoFar
<1> HIDE DEF M, views
<1>6. old \in Filing(M) /\ \A e : Filed(Registration, e) => Filed(old, e)
  BY <1>3, MigratedFiles
<1> HIDE DEF old
<1>7. /\ more \in Filing(M) /\ \A e : Filed(old, e) => Filed(more, e)
      /\ \A e \in Range(views) : Filed(more, e)
  BY <1>3, <1>4, <1>6, AllRegistered
<1> HIDE DEF more
<1>8. /\ all \in Filing(M) /\ all.decorated[""] = <<>>
      /\ \A e : Filed(more, e) => Filed(all, e)
  BY <1>7, MigratedFiles
<1> HIDE DEF all
<1>9. Registration' = all
  BY <1>1, <1>8 DEF Registration, Filing
<1>10. KnownPages' = M /\ Late(left.late)' = Late(left.late)
  BY <1>2 DEF KnownPages, Decorations, Late, M
<1>11. \A e : Filed(Registration, e) => Filed(all, e)
  BY <1>6, <1>7, <1>8
<1>12. \A e \in Range(program.views) : Filed(all, e)
  <2>1. CASE views = <<>>
    BY <1>11, <2>1 DEF FiledSoFar, views
  <2>2. CASE views # <<>>
    BY <1>5, <1>7, <1>8, <2>2
  <2> QED
    BY <2>1, <2>2
<1>13. FiledSoFar'
  <2>1. \A e : Filed(all, e) => Filed(Registration, e)'
    BY <1>9 DEF Filed
  <2>2. Registration' \in Filing(KnownPages') /\ program' \in Programs /\ RestOf(program'.late, left'.late)
    BY <1>2, <1>8, <1>9, <1>10 DEF FiledSoFar
  <2>3. /\ \A e \in Late(left.late)' : Filed(Registration, e)'
        /\ \A e \in Range(program'.views) : Filed(Registration, e)'
    BY <1>10, <1>11, <1>12, <2>1 DEF FiledSoFar
  <2> QED
    BY <1>2, <2>2, <2>3 DEF FiledSoFar
<1>14. /\ AppOf(app', M) /\ app'.imported = TRUE
       /\ \A e \in Range(program.own) \cup Range(all.registry) \cup Range(all.decorated[AppName]) :
            RouteOf(e) \in DOMAIN app'.pages
  <2>1. all \in Filing(KnownPages)
    BY <1>8 DEF M
  <2> QED
    BY <1>1, <2>1, PreparedServes DEF M
<1>15. AppSoFar'
  BY <1>10, <1>14 DEF AppSoFar
<1>16. AppServes'
  BY <1>1, <1>2, <1>8, <1>14 DEF AppServes
<1> QED
  BY <1>13, <1>15, <1>16

LEMMA ServeStep ==
  ASSUME ServeInv, [PagesNext]_pagesVars
  PROVE  ServeInv'
<1>1. CASE \E p \in Programs : StartProject(p)
  BY <1>1, StartServes
<1>2. ASSUME Decorate \/ EnsureAuth \/ (\E again \in BOOLEAN : Prepare(again)) \/ CompileApp
      PROVE  ServeInv'
  <2>1. program # NoProgram
    BY <1>2 DEF Decorate, EnsureAuth, Prepare, CompileApp
  <2>2. FiledSoFar /\ AppSoFar
    BY <2>1 DEF ServeInv
  <2>3. CASE Decorate
    BY <2>2, <2>3, DecorateServes DEF ServeInv
  <2>4. CASE EnsureAuth
    BY <2>2, <2>4, EnsureServes DEF ServeInv
  <2>5. CASE (\E again \in BOOLEAN : Prepare(again)) \/ CompileApp
    <3>1. Prepares /\ program' = program /\ fresh' = TRUE
      BY <2>5 DEF Prepare, CompileApp
    <3> QED
      BY <2>2, <3>1, PreparingServes DEF ServeInv
  <2> QED
    BY <1>2, <2>3, <2>4, <2>5
<1>3. CASE UNCHANGED pagesVars
  <2>1. /\ program' = program /\ left' = left /\ decorated' = decorated /\ registry' = registry
        /\ app' = app /\ fresh' = fresh
    BY <1>3 DEF pagesVars
  <2>2. KnownPages' = KnownPages /\ Registration' = Registration /\ Late(left.late)' = Late(left.late)
    BY <2>1 DEF KnownPages, Decorations, Registration, Late
  <2>3. FiledSoFar => FiledSoFar'
    BY <2>1, <2>2 DEF FiledSoFar, Filed
  <2>4. (AppSoFar => AppSoFar') /\ (AppServes => AppServes')
    BY <2>1, <2>2 DEF AppSoFar, AppServes
  <2> QED
    BY <2>1, <2>3, <2>4 DEF ServeInv
<1> QED
  BY <1>1, <1>2, <1>3 DEF PagesNext

LEMMA ServedByInv == ServeInv => EveryPageServed
<1> SUFFICES ASSUME FiledSoFar, AppSoFar, AppServes, fresh
             PROVE  EveryPageServed
  BY DEF ServeInv, EveryPageServed
<1>1. ~app.refused
  BY DEF AppSoFar, AppOf
<1>2. ASSUME NEW e \in Range(program.own) PROVE RouteOf(e) \in DOMAIN app.pages
  BY DEF AppSoFar, AppServes
<1>3. ASSUME NEW e, Filed(Registration, e), e \in Entry
      PROVE  \/ RouteOf(e) \in DOMAIN app.pages
             \/ e.by = "rx.page" /\ e.route = NoRoute
                /\ \E d \in Decorations : d.route = NoRoute /\ RouteOf(d) \in DOMAIN app.pages
  <2>1. CASE e.by = "page"
    <3>1. PICK d \in Range(registry) : d = e \/ (e.route # NoRoute /\ d.route = e.route)
      BY <1>3, <2>1 DEF Filed, Registration
    <3>2. RouteOf(d) = RouteOf(e) /\ RouteOf(d) \in DOMAIN app.pages
      BY <3>1 DEF RouteOf, AppServes
    <3> QED
      BY <3>2
  <2>2. CASE e.by # "page"
    <3>1. PICK b \in Buckets : \E d \in Range(decorated[b]) : d.route = e.route
      BY <1>3, <2>2 DEF Filed, Registration
    <3>2. PICK d \in Range(decorated[b]) : d.route = e.route
      BY <3>1
    <3>3. b = AppName
      <4>1. decorated[""] = <<>> /\ d \in Range(decorated[b])
        BY <3>2 DEF AppServes
      <4>2. \A s : s = <<>> => d \notin Range(s)
        BY DEF Range
      <4> QED
        BY <4>1, <4>2 DEF Buckets
    <3>4. RouteOf(d) \in DOMAIN app.pages
      BY <3>2, <3>3 DEF AppServes
    <3>5. d \in KnownPages
      <4> DEFINE K == KnownPages
      <4>1. decorated[b] \in Seq(K)
        BY DEF FiledSoFar, Filing, Registration
      <4> HIDE DEF K
      <4>2. d \in K
        BY <3>2, <4>1, RangeIs
      <4> QED
        BY <4>2 DEF K
    <3>6. CASE e.route # NoRoute
      BY <3>2, <3>4, <3>6 DEF RouteOf
    <3>7. CASE e.route = NoRoute
      <4>1. d \notin CannedOf(program)
        BY <3>2, <3>7, ProgramIs DEF FiledSoFar
      <4>2. d \in Decorations /\ e.by = "rx.page"
        BY <1>3, <2>2, <3>5, <4>1 DEF KnownPages, Entry
      <4> QED
        BY <3>2, <3>4, <3>7, <4>2
    <3> QED
      BY <3>6, <3>7
  <2> QED
    BY <2>1, <2>2
<1>4. ASSUME NEW e \in Range(program.views) \cup Late(left.late) PROVE Filed(Registration, e) /\ e \in Entry
  BY KnownIs DEF FiledSoFar, AppServes
<1> QED
  BY <1>1, <1>2, <1>3, <1>4 DEF EveryPageServed, Decorations

(* Once pages are prepared, every page registered is served. *)
THEOREM PagesAreServed == PagesSpec => []EveryPageServed
<1>1. ServeInv /\ [PagesNext]_pagesVars => ServeInv'
  BY ServeStep
<1> QED
  BY <1>1, ServeInit, ServedByInv, PTL DEF PagesSpec
==============================================================================
