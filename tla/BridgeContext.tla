---------------------------- MODULE BridgeContext ----------------------------
(* Which Django request the handler of an event sees.                      *)
(*                                                                         *)
(* DjangoEventBridge.preprocess binds a request to the context of the task *)
(* that runs the event, and to the handler's state and its ancestors; the  *)
(* patched process_event binds it to the handler's state once more;        *)
(* postprocess unbinds the context and leaves the states as they are.  The *)
(* events of a tab run one at a time, on any of the server's tasks.  A     *)
(* request is known by the number of the event it was built for, 0 is no   *)
(* request.  Events a handler starts in the background are left out.       *)
(*                                                                         *)
(* An operator named Op_Variant is Op with a plausible mistake in it; no   *)
(* action uses it.                                                         *)
EXTENDS Naturals, BridgeTier

CONSTANTS
  Tasks,      \* asyncio tasks that run the tab's events
  States,     \* the state tree's nodes
  Parent,     \* [States -> States \cup {NoState}]: parent_state
  NoState,
  MaxEvents   \* bound on the events of a behaviour

ASSUME ConstantsAssumption ==
  /\ NoState \notin States
  /\ Parent \in [States -> States \cup {NoState}]
  /\ MaxEvents \in Nat

VARIABLES
  request,   \* _request_var of each task
  token,     \* _reset_token_var: the request to go back to, or NoToken
  tier,      \* _event_tier_var
  wrapper,   \* _rx_request_wrapper of each state
  run,       \* the event under way
  events     \* events so far

vars == <<request, token, tier, wrapper, run, events>>

ResolvedTiers == { ResolveBridgeTier(c) : c \in Choice }
Request == 0..MaxEvents
NoToken == MaxEvents + 1
Phases == {"idle", "resolve", "bridge", "bind", "process", "again", "handler", "post"}

TypeOK ==
  /\ request \in [Tasks -> Request]
  /\ token \in [Tasks -> Request \cup {NoToken}]
  /\ tier \in [Tasks -> Tiers \cup {"unset"}]
  /\ wrapper \in [States -> Request]
  /\ run \in [pc: Phases, task: Tasks, state: States, tier: Tiers]
  /\ events \in Request

(* The handler's state and its ancestors. *)
Ancestry(s) ==
  LET up[n \in Nat] == IF n = 0 THEN {s}
                       ELSE up[n - 1] \cup { Parent[x] : x \in up[n - 1] \cap States }
  IN up[3] \ {NoState} \* Bound: trees are at most four levels deep

Init ==
  /\ request = [k \in Tasks |-> 0]
  /\ token = [k \in Tasks |-> NoToken]
  /\ tier = [k \in Tasks |-> "unset"]
  /\ wrapper = [s \in States |-> 0]
  /\ run \in [pc: {"idle"}, task: Tasks, state: States, tier: {"none"}]
  /\ events = 0

-----------------------------------------------------------------------------
(* bridge/context.py *)

(* end_event_request goes back to what was bound before. *)
Ended_Kept(k) == UNCHANGED <<request, token>>
Ended_Unchecked(k) ==
  /\ request' = [request EXCEPT ![k] = token[k]]
  /\ token' = [token EXCEPT ![k] = NoToken]
Ended(k) ==
  /\ request' = [request EXCEPT ![k] = IF token[k] = NoToken THEN @ ELSE token[k]]
  /\ token' = [token EXCEPT ![k] = NoToken]

(* begin_event_request ends a binding that leaked first. *)
Begun(k, r) ==
  LET before == IF token[k] = NoToken THEN request[k] ELSE token[k]
  IN /\ token' = [token EXCEPT ![k] = before]
     /\ request' = [request EXCEPT ![k] = r]

(* bind_request_on_state, on the handler's state and on its branch. *)
Bound_NeverRemoved(nodes, r) ==
  wrapper' = [s \in States |-> IF s \in nodes /\ r # 0 THEN r ELSE wrapper[s]]
Bound(nodes, r) == wrapper' = [s \in States |-> IF s \in nodes THEN r ELSE wrapper[s]]

At(phase) == run.pc = phase
Go(phase) == run' = [run EXCEPT !.pc = phase]

-----------------------------------------------------------------------------
(* The event. *)

(* preprocess forgets whatever an earlier event left in the task. *)
StartEvent ==
  /\ At("idle")
  /\ events < MaxEvents
  /\ events' = events + 1
  /\ \E k \in Tasks, s \in States, t \in ResolvedTiers :
       /\ run' = [pc |-> "resolve", task |-> k, state |-> s, tier |-> t]
       /\ Ended(k)
       /\ tier' = [tier EXCEPT ![k] = "unset"]
  /\ UNCHANGED wrapper

(* resolve_bridge_tier; a none event is not bridged. *)
ResolveTier ==
  /\ At("resolve")
  /\ tier' = [tier EXCEPT ![run.task] = run.tier]
  /\ Go(IF run.tier = "none" THEN "process" ELSE "bridge")
  /\ UNCHANGED <<request, token, wrapper, events>>

(* bridge_request_for_state; when no request could be built the event goes *)
(* on without.                                                             *)
Bridge ==
  /\ At("bridge")
  /\ \/ Begun(run.task, events) /\ Go("bind")
     \/ Go("process") /\ UNCHANGED <<request, token>>
  /\ UNCHANGED <<tier, wrapper, events>>

(* The branch is bound, from the root when the handler's state cannot be   *)
(* resolved.  A redirect of the middleware ends the event: the handler is  *)
(* not run, and postprocess need not be.                                   *)
BindBranch ==
  /\ At("bind")
  /\ \E s \in Ancestry(run.state) :
       /\ s = run.state \/ Parent[s] = NoState
       /\ Bound(Ancestry(s), events)
  /\ Go("process") \/ Go("post") \/ Go("idle")
  /\ UNCHANGED <<request, token, tier, events>>

(* The patched process_event: bind_django_request_for_handler_state. *)
Rebridges_Always(k) == TRUE
Rebridges(k) == tier[k] # "none"

ProcessEvent ==
  /\ At("process")
  /\ LET k == run.task IN
     IF request[k] = 0 /\ Rebridges(k)
     THEN Go("again") /\ UNCHANGED wrapper
     ELSE Go("handler") /\ Bound({run.state}, request[k])
  /\ UNCHANGED <<request, token, tier, events>>

(* The request is built from the state's own router data. *)
BridgeAgain ==
  /\ At("again")
  /\ \E r \in {events, 0} :
       /\ IF r = 0 THEN UNCHANGED <<request, token>> ELSE Begun(run.task, r)
       /\ Bound({run.state}, r)
  /\ Go("handler")
  /\ UNCHANGED <<tier, events>>

(* The handler returns, or raises: then postprocess is not run. *)
HandlerEnds ==
  /\ At("handler")
  /\ Go("post") \/ Go("idle")
  /\ UNCHANGED <<request, token, tier, wrapper, events>>

Postprocess ==
  /\ At("post")
  /\ Ended(run.task)
  /\ tier' = [tier EXCEPT ![run.task] = "unset"]
  /\ Go("idle")
  /\ UNCHANGED <<wrapper, events>>

Next ==
  \/ StartEvent \/ ResolveTier \/ Bridge \/ BindBranch
  \/ ProcessEvent \/ BridgeAgain \/ HandlerEnds \/ Postprocess

Spec == Init /\ [][Next]_vars

-----------------------------------------------------------------------------
(* Correctness. *)

(* What AuthBridgeMixin.request returns on state s in a handler: the       *)
(* wrapper, else the request of the context.                               *)
Seen(s) == IF wrapper[s] # 0 THEN wrapper[s] ELSE request[run.task]

(* A handler sees the request of its own event or none, whatever earlier   *)
(* events left in its task or on its state by redirects and exceptions.    *)
OwnRequestOnly ==
  At("handler") => {Seen(run.state), request[run.task]} \subseteq {0, events}

(* It sees the same request by self.request and by current_request().      *)
RequestsAgree == At("handler") => Seen(run.state) = request[run.task]

(* When the "event resolves to `none`, `self.request` and                  *)
(* `current_request()` are not available for that event"                   *)
(* (docs/learn/bridge.md:111).                                             *)
NoneHasNoRequest ==
  At("handler") /\ run.tier = "none" =>
    Seen(run.state) = 0 /\ request[run.task] = 0

(* That is so for the handler's ancestors too, whose computed vars read    *)
(* the request (request_binding.py:123-125).                               *)
NoneHasNoRequestOnBranch ==
  At("handler") /\ run.tier = "none" => \A s \in Ancestry(run.state) : Seen(s) = 0

=============================================================================
