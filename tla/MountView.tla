----------------------------- MODULE MountView -------------------------------
(* ReflexMountView: what Django answers to the URLs nothing else takes.    *)
(*                                                                         *)
(* In development the view passes a request on to Vite and waits; other    *)
(* requests run meanwhile.  A failure pauses the passing on for a while,   *)
(* a success ends the pause.  While it lasts, and where there is no Vite,  *)
(* the compiled application is served from the disk.                       *)
(*                                                                         *)
(* Time passes in ticks.  Vite goes up and down as it likes; `since' says  *)
(* how long ago it was last down.                                          *)
(*                                                                         *)
(* An operator named Op_Variant is Op with a plausible mistake in it; no   *)
(* action uses it.                                                         *)
EXTENDS Naturals, Sequences, FiniteSets, SequencesExt, DevPorts

CONSTANTS
  Requests,      \* requests served side by side
  Servers,       \* the server processes to look at: records of DevPorts with
                 \* baseDir and, for each directory searched, the files there
  Files,         \* what a request may ask for
  Cooldown,      \* ticks of a pause (5 seconds)
  Timeout        \* ticks a request may wait for Vite (30 seconds)

(* A process has an environment and listens somewhere. *)
ASSUME MountAssumption ==
  /\ Cooldown \in Nat /\ Timeout \in Nat
  /\ \A p \in Servers : {"envProxy", "ownPort"} \subseteq DOMAIN p /\ p.ownPort # NoTarget

VARIABLES
  server,        \* the process, its environment included; NoServer before it runs
  up,            \* Vite answers
  since,         \* ticks since it did not, up to Never
  cool,          \* ticks left of the pause
  req            \* the requests

mountVars == <<server, up, since, cool, req>>

Never == Cooldown + Timeout + 1

NoServer == [ownPort |-> NoTarget]

Shell == <<"index", ".html">>

(***************************** the files on disk ***************************)
(* A path is tried as it is, as a page exported to path.html and as one    *)
(* exported to path/index.html, in one directory after the other.  A       *)
(* directory is the set of what it has: pairs of a path and such an ending.*)
Endings == <<"as it is", ".html", "/index.html">>

SpaAsset(roots, file) ==
  LET found == {f \in (DOMAIN roots) \X (1..3) : <<file, Endings[f[2]]>> \in roots[f[1]]}
  IN  IF found = {} THEN NoTarget
      ELSE LET first == CHOOSE f \in found : \A g \in found :
                          f[1] < g[1] \/ (f[1] = g[1] /\ f[2] <= g[2])
           IN  Endings[first[2]]

SpaIndex(roots) == \E i \in DOMAIN roots : Shell \in roots[i]

(* Looking for the directories under BASE_DIR imports a module the package *)
(* does not have, so nothing is served where BASE_DIR is set; and the page *)
(* that says there is no bundle yet calls a name that is not defined.      *)
DiskAnswer(p, file) ==
  CASE p.baseDir -> "error"
    [] ~p.baseDir /\ SpaAsset(p.roots, file) # NoTarget -> SpaAsset(p.roots, file)
    [] ~p.baseDir /\ SpaAsset(p.roots, file) = NoTarget /\ SpaIndex(p.roots) -> "shell"
    [] OTHER -> IF p.debug THEN "error" ELSE "not found"

Fallback == {"starting", "error", "not found", "shell"} \cup {Endings[j] : j \in 1..3}

(********************************* the view ********************************)
Idle == [pc |-> "idle", file |-> NoTarget, force |-> FALSE, age |-> 0,
         saw |-> FALSE, answer |-> NoTarget, late |-> 0]

MountInit ==
  /\ server = NoServer
  /\ up = FALSE
  /\ since = 0
  /\ cool = 0
  /\ req = [r \in Requests |-> Idle]

StartServer ==
  /\ server = NoServer
  /\ server' \in Servers
  /\ UNCHANGED <<up, since, cool, req>>

Answered(r, answer) ==
  req' = [req EXCEPT ![r] = [Idle EXCEPT !.answer = answer, !.late = since]]

Unreached(p, force, file) == IF force THEN "starting" ELSE DiskAnswer(p, file)

(* A request that falls into the pause begins it anew. *)
Handle_Extends(r, file) ==
  /\ server # NoServer
  /\ req[r].pc = "idle"
  /\ IF ViteTarget(server) # NoTarget /\ cool > 0
     THEN /\ cool' = Cooldown
          /\ Answered(r, Unreached(server, ProxyExplicit(server), file))
     ELSE /\ cool' = cool
          /\ req' = [req EXCEPT ![r] = [Idle EXCEPT !.pc = "proxying", !.file = file, !.saw = ~up]]
  /\ UNCHANGED <<server, up, since>>

(* A process that is its own Vite stops passing on for good.               *)
DisableAfterSelfLoop(p) == IF TargetIsSelf(p) THEN [p EXCEPT !.envProxy = "off"] ELSE p

(* The view up to where it waits. *)
Handle(r, file) ==
  /\ server # NoServer
  /\ req[r].pc = "idle"
  /\ server' = DisableAfterSelfLoop(server)
  /\ LET target == ViteTarget(server')
         force == ProxyExplicit(server')
     IN  \/ /\ target # NoTarget
            /\ cool > 0
            /\ Answered(r, Unreached(server', force, file))
         \/ /\ target # NoTarget
            /\ cool = 0
            /\ req' = [req EXCEPT ![r] = [Idle EXCEPT !.pc = "proxying", !.file = file,
                                            !.force = force, !.saw = ~up]]
         \/ /\ target = NoTarget
            /\ Answered(r, IF SeparatePorts(server') THEN "not found"
                                 ELSE DiskAnswer(server', file))
  /\ UNCHANGED <<up, since, cool>>

MarkUnreachable_Adds == cool + Cooldown

MarkUnreachable == Cooldown
MarkReachable == 0

(* Vite's answer, or the failure to get one: of a request Vite was not     *)
(* there for at some moment.  What to do then was decided before waiting.  *)
ProxyEnds(r) ==
  /\ req[r].pc = "proxying"
  /\ \/ /\ up
        /\ cool' = MarkReachable
        /\ Answered(r, "vite")
     \/ /\ req[r].saw
        /\ cool' = MarkUnreachable
        /\ Answered(r, Unreached(server, req[r].force, req[r].file))
  /\ UNCHANGED <<server, up, since>>

(******************************* the environment ***************************)
ViteComesOrGoes ==
  /\ server # NoServer
  /\ up' = ~up
  /\ since' = IF up THEN 0 ELSE since
  /\ req' = [r \in Requests |->
              IF req[r].pc = "proxying" THEN [req[r] EXCEPT !.saw = @ \/ up] ELSE req[r]]
  /\ UNCHANGED <<server, cool>>

Tick ==
  /\ server # NoServer
  /\ \A r \in Requests : req[r].pc = "proxying" => req[r].age < Timeout
  /\ cool > 0 \/ (up /\ since < Never) \/ \E r \in Requests : req[r].pc = "proxying"
  /\ cool' = IF cool = 0 THEN 0 ELSE cool - 1
  /\ since' = IF up /\ since < Never THEN since + 1 ELSE since
  /\ req' = [r \in Requests |->
              IF req[r].pc = "proxying" THEN [req[r] EXCEPT !.age = @ + 1] ELSE req[r]]
  /\ UNCHANGED <<server, up>>

MountNext ==
  \/ StartServer
  \/ \E r \in Requests : ProxyEnds(r) \/ \E f \in Files : Handle(r, f)
  \/ ViteComesOrGoes
  \/ Tick

MountFairness ==
  /\ WF_mountVars(Tick)
  /\ \A r \in Requests : WF_mountVars(ProxyEnds(r))

MountSpec == MountInit /\ [][MountNext]_mountVars /\ MountFairness

(******************************** properties *******************************)
(* A request of a server that has a Vite is answered from the disk, or     *)
(* told to wait, only if Vite was down when some other request, or this    *)
(* one, was waiting for it, or during the pause that followed: never       *)
(* later, however the requests overlap (views/mount.py, _handle).          *)
FallbackHasCause ==
  \A r \in Requests :
    req[r].answer \in Fallback /\ ViteTarget(server) # NoTarget
      => req[r].late <= Cooldown + Timeout

(* Once Vite stays up, passing on is no longer paused, however many        *)
(* requests still fail that were sent before.                              *)
PauseEnds == <>[]up => <>[](cool = 0)

=============================================================================
