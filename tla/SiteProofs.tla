----------------------------- MODULE SiteProofs ------------------------------
(* What the parts of the site around the app promise, proved for any of     *)
(* their constants: when the view answers in Vite's place, that paths       *)
(* arrive at the backend, and how a process comes up.                       *)
EXTENDS MountView, WebLayout, Startup, FiniteSetTheorems, TLAPS

(****************************** mount: the view ****************************)
Fields == {"pc", "file", "force", "age", "saw", "answer", "late"}

(* The process has what MountAssumption says. *)
ServerIs(p) ==
  p = NoServer \/ ({"envProxy", "ownPort"} \subseteq DOMAIN p /\ p.ownPort # NoTarget)

(* Vite was down when the pause began, or not long before. *)
PauseHasCause ==
  /\ up \in BOOLEAN /\ since \in Nat /\ cool \in Nat
  /\ ~up => since = 0
  /\ cool > 0 => since + cool <= Cooldown + Timeout

(* A request that has seen Vite down has waited since. *)
Waited(r, ago) ==
  r.pc = "proxying" => /\ r.age \in Nat /\ r.age <= Timeout
                       /\ r.saw \in BOOLEAN /\ (r.saw => ago <= r.age)

(* Where there is a Vite, answers in its place have their cause. *)
Caused(r, p) ==
  r.answer \in Fallback /\ ViteTarget(p) # NoTarget => r.late <= Cooldown + Timeout

MountInv ==
  /\ ServerIs(server)
  /\ PauseHasCause
  /\ req = [r \in Requests |-> req[r]]
  /\ \A r \in Requests : /\ DOMAIN req[r] = Fields
                         /\ Waited(req[r], since) /\ Caused(req[r], server)
                         /\ server = NoServer => req[r].answer = NoTarget /\ req[r].pc = "idle"
-----------------------------------------------------------------------------
(* Vite's answer, and none yet, are no answers in its place. *)
LEMMA NotFallback == NoTarget \notin Fallback /\ "vite" \notin Fallback
<1>1. ASSUME NEW j \in 1 .. 3 PROVE Endings[j] \notin {"none", "vite"}
  <2>1. Endings[1] = "as it is" /\ Endings[2] = ".html" /\ Endings[3] = "/index.html"
    BY DEF Endings
  <2>2. j = 1 \/ j = 2 \/ j = 3
    OBVIOUS
  <2> QED
    BY <2>1, <2>2
<1> QED
  BY <1>1 DEF Fallback, NoTarget

(* A process that stops passing on has no Vite any longer; others stay.    *)
LEMMA DisabledIs ==
  ASSUME NEW p, ServerIs(p), p # NoServer
  PROVE  /\ ServerIs(DisableAfterSelfLoop(p)) /\ DisableAfterSelfLoop(p) # NoServer
         /\ ViteTarget(DisableAfterSelfLoop(p)) # NoTarget => ViteTarget(p) # NoTarget
<1> DEFINE q == DisableAfterSelfLoop(p)
<1>1. CASE TargetIsSelf(p)
  <2>1. q = [p EXCEPT !.envProxy = "off"]
    BY <1>1 DEF DisableAfterSelfLoop
  <2>2. DOMAIN q = DOMAIN p /\ q.envProxy = "off" /\ q.ownPort = p.ownPort
    BY <2>1 DEF ServerIs
  <2> HIDE DEF q
  <2>3. ViteTarget(q) = NoTarget
    BY <2>2 DEF ViteTarget
  <2>4. ServerIs(q) /\ q # NoServer
    BY <2>2 DEF ServerIs, NoServer
  <2> QED
    BY <2>3, <2>4 DEF q
<1>2. CASE ~TargetIsSelf(p)
  BY <1>2 DEF DisableAfterSelfLoop
<1> QED
  BY <1>1, <1>2

(* Nobody has asked for anything yet. *)
LEMMA MountStarts ==
  ASSUME MountInit
  PROVE  MountInv
<1>1. DOMAIN Idle = Fields /\ Idle.pc = "idle" /\ Idle.answer = NoTarget
  BY DEF Idle, Fields
<1>2. PauseHasCause
  <2>1. up = FALSE /\ since = 0 /\ cool = 0 /\ ~(0 > 0) /\ 0 \in Nat
    BY DEF MountInit
  <2> QED
    BY <2>1 DEF PauseHasCause
<1>3. ASSUME NEW r \in Requests
      PROVE  /\ req[r] = Idle /\ Waited(req[r], since) /\ Caused(req[r], server)
  BY <1>1, NotFallback DEF MountInit, Waited, Caused
<1> QED
  BY <1>1, <1>2, <1>3 DEF MountInit, MountInv, ServerIs

(* The process starts. *)
LEMMA StartServerKeeps ==
  ASSUME MountInv, StartServer
  PROVE  MountInv'
<1>1. ServerIs(server')
  BY MountAssumption DEF StartServer, ServerIs
<1>2. \A r \in Requests : Caused(req[r], server') /\ req[r].answer = NoTarget
  BY NotFallback DEF MountInv, StartServer, Caused
<1> QED
  BY <1>1, <1>2 DEF MountInv, StartServer, PauseHasCause

(* An answer. *)
LEMMA AnsweredIs ==
  ASSUME MountInv, NEW r \in Requests, NEW answer, Answered(r, answer)
  PROVE  /\ req' = [q \in Requests |-> req'[q]]
         /\ \A q \in Requests : q # r => req'[q] = req[q]
         /\ DOMAIN req'[r] = Fields /\ req'[r].pc = "idle"
         /\ req'[r].answer = answer /\ req'[r].late = since
BY DEF MountInv, Answered, Idle, Fields

(* A request is answered at once, during a pause or where there is no      *)
(* Vite, or goes on to Vite.                                               *)
LEMMA HandleKeeps ==
  ASSUME MountInv, NEW r \in Requests, NEW f \in Files, Handle(r, f)
  PROVE  MountInv'
<1>1. /\ ServerIs(server') /\ server' # NoServer
      /\ ViteTarget(server') # NoTarget => ViteTarget(server) # NoTarget
  BY DisabledIs DEF MountInv, Handle
<1>2. UNCHANGED <<up, since, cool>> /\ PauseHasCause
  BY DEF Handle, MountInv
<1>3. \A q \in Requests : DOMAIN req[q] = Fields /\ Waited(req[q], since) /\ Caused(req[q], server')
  BY <1>1 DEF MountInv, Caused
<1>4. ASSUME NEW answer, Answered(r, answer),
             ViteTarget(server') # NoTarget => since <= Cooldown + Timeout
      PROVE  MountInv'
  <2>1. /\ req' = [q \in Requests |-> req'[q]]
        /\ \A q \in Requests : q # r => req'[q] = req[q]
        /\ DOMAIN req'[r] = Fields /\ req'[r].pc = "idle"
        /\ req'[r].late = since
    BY <1>4, AnsweredIs
  <2>2. Waited(req'[r], since) /\ Caused(req'[r], server')
    BY <1>4, <2>1 DEF Waited, Caused
  <2> QED
    BY <1>1, <1>2, <1>3, <2>1, <2>2 DEF MountInv, PauseHasCause
<1>5. CASE ViteTarget(server') # NoTarget /\ cool > 0
           /\ Answered(r, Unreached(server', ProxyExplicit(server'), f))
  <2>1. since <= Cooldown + Timeout
    BY <1>2, <1>5, MountAssumption DEF PauseHasCause
  <2> QED
    BY <1>4, <1>5, <2>1
<1>6. CASE req' = [req EXCEPT ![r] = [Idle EXCEPT !.pc = "proxying", !.file = f,
                                        !.force = ProxyExplicit(server'), !.saw = ~up]]
  <2> DEFINE q == req'[r]
  <2>1. /\ q = [Idle EXCEPT !.pc = "proxying", !.file = f,
                 !.force = ProxyExplicit(server'), !.saw = ~up]
        /\ req' = [o \in Requests |-> req'[o]]
        /\ \A o \in Requests : o # r => req'[o] = req[o]
    BY <1>6 DEF MountInv
  <2>2. /\ DOMAIN q = Fields /\ q.pc = "proxying" /\ q.age = 0 /\ q.answer = NoTarget
        /\ q.saw = ~up
    BY <2>1 DEF Idle, Fields
  <2> HIDE DEF q
  <2>3. Waited(q, since)
    <3>1. q.saw \in BOOLEAN /\ (q.saw => since = 0)
      BY <1>2, <2>2 DEF PauseHasCause
    <3> QED
      BY <2>2, <3>1, MountAssumption DEF Waited
  <2>4. Caused(q, server')
    BY <2>2, NotFallback DEF Caused
  <2> QED
    BY <1>1, <1>2, <1>3, <2>1, <2>2, <2>3, <2>4 DEF MountInv, PauseHasCause, q
<1>7. CASE /\ ViteTarget(server') = NoTarget
           /\ Answered(r, IF SeparatePorts(server') THEN "not found" ELSE DiskAnswer(server', f))
  BY <1>4, <1>7
<1> QED
  BY <1>5, <1>6, <1>7 DEF Handle

(* Vite has answered, or was down while the request waited for it. *)
LEMMA ProxyEndsKeeps ==
  ASSUME MountInv, NEW r \in Requests, ProxyEnds(r)
  PROVE  MountInv'
<1>1. /\ UNCHANGED <<server, up, since>> /\ PauseHasCause /\ ServerIs(server)
      /\ req[r].pc = "proxying" /\ since \in Nat
      /\ req[r].age \in Nat /\ req[r].age <= Timeout /\ (req[r].saw => since <= req[r].age)
  BY DEF ProxyEnds, MountInv, PauseHasCause, Waited
<1>2. ASSUME NEW answer, Answered(r, answer), PauseHasCause',
             Caused(req'[r], server), server # NoServer \/ answer = NoTarget
      PROVE  MountInv'
  <2>1. /\ req' = [q \in Requests |-> req'[q]]
        /\ \A q \in Requests : q # r => req'[q] = req[q]
        /\ DOMAIN req'[r] = Fields /\ req'[r].pc = "idle"
        /\ req'[r].answer = answer
    BY <1>2, AnsweredIs
  <2>2. Waited(req'[r], since)
    BY <2>1 DEF Waited
  <2> QED
    BY <1>1, <1>2, <2>1, <2>2 DEF MountInv
<1>3. \A q \in Requests : Waited(req[q], since) /\ Caused(req[q], server)
  BY DEF MountInv
<1>4. server # NoServer
  BY <1>1 DEF MountInv
<1>5. CASE up /\ cool' = MarkReachable /\ Answered(r, "vite")
  <2>1. PauseHasCause'
    BY <1>1, <1>5 DEF PauseHasCause, MarkReachable
  <2>2. Caused(req'[r], server)
    BY <1>5, AnsweredIs, NotFallback DEF Caused
  <2> QED
    BY <1>2, <1>4, <1>5, <2>1, <2>2
<1>6. CASE /\ req[r].saw /\ cool' = MarkUnreachable
           /\ Answered(r, Unreached(server, req[r].force, req[r].file))
  <2>1. since <= Timeout
    BY <1>1, <1>6, MountAssumption
  <2>2. PauseHasCause'
    <3>1. cool' = Cooldown
      BY <1>6 DEF MarkUnreachable
    <3> QED
      BY <1>1, <2>1, <3>1, MountAssumption DEF PauseHasCause
  <2>3. Caused(req'[r], server)
    <3>1. since <= Cooldown + Timeout
      BY <1>1, <2>1, MountAssumption
    <3>2. req'[r].late = since
      BY <1>6, AnsweredIs
    <3> QED
      BY <3>1, <3>2 DEF Caused
  <2> QED
    BY <1>2, <1>4, <1>6, <2>2, <2>3
<1> QED
  BY <1>5, <1>6 DEF ProxyEnds

(* Vite goes up or down; who waits for it sees that it was down. *)
LEMMA ViteKeeps ==
  ASSUME MountInv, ViteComesOrGoes
  PROVE  MountInv'
<1>1. /\ UNCHANGED <<server, cool>> /\ PauseHasCause /\ up' = ~up
      /\ since' = IF up THEN 0 ELSE since
  BY DEF ViteComesOrGoes, MountInv
<1>2. up' \in BOOLEAN /\ since' \in Nat /\ cool' \in Nat /\ since' = 0
  BY <1>1 DEF PauseHasCause
<1>3. PauseHasCause'
  BY <1>1, <1>2, MountAssumption DEF PauseHasCause
<1>4. ASSUME NEW r \in Requests
      PROVE  /\ DOMAIN req'[r] = Fields /\ Waited(req'[r], since') /\ Caused(req'[r], server)
             /\ req'[r].answer = req[r].answer /\ req'[r].pc = req[r].pc
  <2>1. /\ DOMAIN req[r] = Fields /\ Waited(req[r], since) /\ Caused(req[r], server)
    BY DEF MountInv
  <2>2. CASE req[r].pc = "proxying"
    <3> DEFINE saw == req[r].saw \/ up
    <3>1. req'[r] = [req[r] EXCEPT !.saw = saw]
      BY <2>2 DEF ViteComesOrGoes
    <3>2. saw \in BOOLEAN
      OBVIOUS
    <3> HIDE DEF saw
    <3>3. /\ DOMAIN req'[r] = Fields /\ req'[r].pc = req[r].pc /\ req'[r].age = req[r].age
          /\ req'[r].answer = req[r].answer /\ req'[r].late = req[r].late
          /\ req'[r].saw = saw
      BY <2>1, <3>1 DEF Fields
    <3>4. req[r].age \in Nat /\ req[r].age <= Timeout
      BY <2>1, <2>2 DEF Waited
    <3>5. since' <= req[r].age
      BY <1>2, <3>4
    <3>6. Waited(req'[r], since')
      BY <3>2, <3>3, <3>4, <3>5 DEF Waited
    <3> QED
      BY <2>1, <3>3, <3>6 DEF Caused
  <2>3. CASE req[r].pc # "proxying"
    <3>1. req'[r] = req[r]
      BY <2>3 DEF ViteComesOrGoes
    <3> QED
      BY <2>1, <2>3, <3>1 DEF Waited
  <2> QED
    BY <2>2, <2>3
<1>5. req' = [r \in Requests |-> req'[r]]
  BY DEF ViteComesOrGoes
<1> QED
  BY <1>1, <1>3, <1>4, <1>5 DEF MountInv

(* Time passes. *)
LEMMA TickKeeps ==
  ASSUME MountInv, Tick
  PROVE  MountInv'
<1>1. /\ UNCHANGED <<server, up>> /\ PauseHasCause
      /\ cool' = IF cool = 0 THEN 0 ELSE cool - 1
      /\ since' = IF up /\ since < Never THEN since + 1 ELSE since
  BY DEF Tick, MountInv
<1>2. /\ up \in BOOLEAN /\ since \in Nat /\ cool \in Nat /\ since' \in Nat /\ cool' \in Nat
      /\ since' <= since + 1
      /\ ~up => since' = since
      /\ cool' > 0 => cool > 0 /\ cool' = cool - 1
  BY <1>1 DEF PauseHasCause
<1>3. PauseHasCause'
  BY <1>1, <1>2, MountAssumption DEF PauseHasCause
<1>4. ASSUME NEW r \in Requests
      PROVE  /\ DOMAIN req'[r] = Fields /\ Waited(req'[r], since') /\ Caused(req'[r], server)
             /\ req'[r].answer = req[r].answer /\ req'[r].pc = req[r].pc
  <2>1. /\ DOMAIN req[r] = Fields /\ Waited(req[r], since) /\ Caused(req[r], server)
    BY DEF MountInv
  <2>2. CASE req[r].pc = "proxying"
    <3>1. req'[r] = [req[r] EXCEPT !.age = @ + 1]
      BY <2>2 DEF Tick
    <3>2. /\ DOMAIN req'[r] = Fields /\ req'[r].pc = req[r].pc /\ req'[r].age = req[r].age + 1
          /\ req'[r].answer = req[r].answer /\ req'[r].late = req[r].late
          /\ req'[r].saw = req[r].saw
      BY <2>1, <3>1 DEF Fields
    <3>3. req[r].age \in Nat /\ req[r].age < Timeout /\ req[r].saw \in BOOLEAN
      BY <2>1, <2>2 DEF Waited, Tick
    <3>4. req[r].age + 1 \in Nat /\ req[r].age + 1 <= Timeout
      BY <3>3, MountAssumption
    <3>5. ASSUME req[r].saw PROVE since' <= req[r].age + 1
      <4>1. since <= req[r].age
        BY <2>1, <2>2, <3>5 DEF Waited
      <4> QED
        BY <1>2, <3>3, <4>1
    <3>6. Waited(req'[r], since')
      BY <3>2, <3>3, <3>4, <3>5 DEF Waited
    <3> QED
      BY <2>1, <3>2, <3>6 DEF Caused
  <2>3. CASE req[r].pc # "proxying"
    <3>1. req'[r] = req[r]
      BY <2>3 DEF Tick
    <3> QED
      BY <2>1, <2>3, <3>1 DEF Waited
  <2> QED
    BY <2>2, <2>3
<1>5. req' = [r \in Requests |-> req'[r]]
  BY DEF Tick
<1> QED
  BY <1>1, <1>3, <1>4, <1>5 DEF MountInv

(* The view and its requests are always as MountInv says. *)
THEOREM MountInvariant == MountSpec => []MountInv
<1>1. MountInit => MountInv
  BY MountStarts
<1>2. MountInv /\ [MountNext]_mountVars => MountInv'
  <2>1. ASSUME MountInv, MountNext PROVE MountInv'
    BY <2>1, StartServerKeeps, HandleKeeps, ProxyEndsKeeps, ViteKeeps, TickKeeps DEF MountNext
  <2>2. ASSUME MountInv, UNCHANGED mountVars PROVE MountInv'
    BY <2>2 DEF mountVars, MountInv, PauseHasCause
  <2> QED
    BY <2>1, <2>2
<1> QED
  BY <1>1, <1>2, PTL DEF MountSpec

(* Where there is a Vite, the view answers in its place only if Vite was   *)
(* down while a request waited for it, or during the pause after that.     *)
THEOREM FallbackExplained == MountSpec => []FallbackHasCause
<1>1. MountInv => FallbackHasCause
  BY DEF MountInv, Caused, FallbackHasCause
<1> QED
  BY <1>1, MountInvariant, PTL

(************************** the generated frontend *************************)
Ops == {"guard", "plugin", "config", "env", "unlink", "strip", "generate", "reset", "vite"}
Parts == [op : Ops, force : BOOLEAN]

(* Parts among which op is done come what may, or at all. *)
Forces(s, op) == \E k \in 1 .. Len(s) : s[k] = Do(op, TRUE)
Includes(s, op) == \E k \in 1 .. Len(s) : s[k].op = op

(* Components written anew are patched thereafter. *)
PatchesWhatItWrites(s) ==
  \A k \in 1 .. Len(s) : s[k].op = "generate" => \E j \in k + 1 .. Len(s) : s[j] = Do("guard", TRUE)

LayoutTypes ==
  /\ layout \in Layouts \cup {NoRun}
  /\ steps \in Seq(Parts)
  /\ config = [plugin |-> config.plugin, block |-> config.block, steady |-> config.steady]
  /\ config.plugin \in BOOLEAN
  /\ vite = [on |-> vite.on, plugin |-> vite.plugin, block |-> vite.block, ok |-> vite.ok, fresh |-> vite.fresh]
  /\ vite.ok \in BOOLEAN /\ vite.fresh \in BOOLEAN
  /\ guarded \in BOOLEAN
  /\ layout = NoRun => steps = <<>> /\ vite = ViteOff

(* What Vite has loaded it has as the files are, unless they changed, or   *)
(* the one for the plugin is gone.                                         *)
LoadedAsIs ==
  vite.ok /\ vite.fresh =>
    \/ config.plugin /\ plugin = NoFile
    \/ /\ vite.block = config.block
       /\ vite.plugin = IF config.plugin THEN plugin ELSE NoRules

(* The parts of a run of one sort leave alone what those of the other do.  *)
PartsOfSort ==
  layout # NoRun =>
    IF TwoPorts(layout)
    THEN PatchesWhatItWrites(steps) /\ \A op \in {"unlink", "strip"} : ~Includes(steps, op)
    ELSE \A op \in {"guard", "plugin", "config", "env"} : ~Includes(steps, op)

(* What is not there yet is still to come. *)
FilesComing ==
  layout # NoRun =>
    IF TwoPorts(layout)
    THEN /\ Forces(steps, "guard") \/ guarded
         /\ Forces(steps, "plugin") \/ plugin = Routes(layout)
         /\ Forces(steps, "config") \/ (config.plugin /\ config.block = Routes(layout))
    ELSE /\ Forces(steps, "strip") \/ (~config.plugin /\ config.block = NoRules)
         /\ Forces(steps, "reset") \/ env = "backend"

LayoutInv == LayoutTypes /\ LoadedAsIs /\ PartsOfSort /\ FilesComing

LEMMA LayoutDistinct ==
  /\ NoRun \notin Layouts
  /\ \A l \in Layouts : Routes(l) # NoFile
<1>1. NoRun \notin Layouts
  <2> SUFFICES ASSUME NoRun \in LayoutRecord PROVE FALSE
    BY LayoutAssumption
  <2> QED
    BY DEF NoRun, LayoutRecord
<1>2. ASSUME NEW l \in Layouts PROVE Routes(l) # NoFile
  <2>1. /\ EventPath \in DOMAIN Routes(l)
        /\ \A p \in DOMAIN Routes(l) : Routes(l)[p] # "none"
    BY LayoutAssumption DEF Routes, ProxyPrefixes
  <2>2. \A p \in DOMAIN NoFile : NoFile[p] = "none"
    BY DEF NoFile
  <2> QED
    BY <2>1, <2>2
<1> QED
  BY <1>1, <1>2

LEMMA DoIs ==
  ASSUME NEW op \in Ops, NEW force \in BOOLEAN
  PROVE  Do(op, force) \in Parts /\ Do(op, force).op = op /\ Do(op, force).force = force
BY DEF Do, Parts

LEMMA PartsOfOne ==
  ASSUME NEW op \in Ops, NEW force \in BOOLEAN
  PROVE  /\ <<Do(op, force)>> \in Seq(Parts)
         /\ \A x \in Ops : Includes(<<Do(op, force)>>, x) <=> x = op
         /\ force => Forces(<<Do(op, force)>>, op)
         /\ op # "generate" => PatchesWhatItWrites(<<Do(op, force)>>)
<1>1. <<Do(op, force)>> \in Seq(Parts) /\ Len(<<Do(op, force)>>) = 1 /\ <<Do(op, force)>>[1] = Do(op, force)
  BY DoIs
<1>2. \A k \in 1 .. Len(<<Do(op, force)>>) : <<Do(op, force)>>[k] = Do(op, force)
  BY <1>1
<1>3. 1 \in 1 .. Len(<<Do(op, force)>>)
  BY <1>1
<1> HIDE DEF Do
<1>4. \A x \in Ops : Includes(<<Do(op, force)>>, x) <=> x = op
  BY <1>2, <1>3, DoIs DEF Includes
<1>5. force => Forces(<<Do(op, force)>>, op)
  <2> SUFFICES ASSUME force PROVE Forces(<<Do(op, force)>>, op)
    OBVIOUS
  <2>1. force = TRUE
    OBVIOUS
  <2> QED
    BY <1>2, <1>3, <2>1 DEF Forces
<1>6. op # "generate" => PatchesWhatItWrites(<<Do(op, force)>>)
  BY <1>2, DoIs DEF PatchesWhatItWrites
<1> QED
  BY <1>1, <1>4, <1>5, <1>6

LEMMA PartsJoined ==
  ASSUME NEW s \in Seq(Parts), NEW u \in Seq(Parts)
  PROVE  /\ s \o u \in Seq(Parts)
         /\ \A op : Includes(s \o u, op) <=> Includes(s, op) \/ Includes(u, op)
         /\ \A op : Forces(s \o u, op) <=> Forces(s, op) \/ Forces(u, op)
         /\ PatchesWhatItWrites(u) /\ (PatchesWhatItWrites(s) \/ Forces(u, "guard")) => PatchesWhatItWrites(s \o u)
<1>1. /\ Len(s) \in Nat /\ Len(u) \in Nat /\ s \o u \in Seq(Parts) /\ Len(s \o u) = Len(s) + Len(u)
      /\ \A i \in 1 .. Len(s) + Len(u) : (s \o u)[i] = IF i <= Len(s) THEN s[i] ELSE u[i - Len(s)]
  OBVIOUS
<1>2. ASSUME NEW i \in 1 .. Len(s) PROVE i \in 1 .. Len(s \o u) /\ (s \o u)[i] = s[i]
  BY <1>1
<1>3. ASSUME NEW i \in 1 .. Len(u) PROVE Len(s) + i \in 1 .. Len(s \o u) /\ (s \o u)[Len(s) + i] = u[i]
  BY <1>1
<1>4. ASSUME NEW i \in 1 .. Len(s \o u)
      PROVE  (i \in 1 .. Len(s) /\ (s \o u)[i] = s[i]) \/ (i - Len(s) \in 1 .. Len(u) /\ (s \o u)[i] = u[i - Len(s)])
  BY <1>1
<1>5. ASSUME NEW op PROVE Includes(s \o u, op) <=> Includes(s, op) \/ Includes(u, op)
  BY <1>2, <1>3, <1>4 DEF Includes
<1>6. ASSUME NEW op PROVE Forces(s \o u, op) <=> Forces(s, op) \/ Forces(u, op)
  BY <1>2, <1>3, <1>4 DEF Forces
<1>7. ASSUME PatchesWhatItWrites(u), PatchesWhatItWrites(s) \/ Forces(u, "guard"),
             NEW k \in 1 .. Len(s \o u), (s \o u)[k].op = "generate"
      PROVE  \E j \in k + 1 .. Len(s \o u) : (s \o u)[j] = Do("guard", TRUE)
  <2>1. CASE k \in 1 .. Len(s) /\ (s \o u)[k] = s[k]
    <3>1. CASE PatchesWhatItWrites(s)
      <4>1. PICK j \in k + 1 .. Len(s) : s[j] = Do("guard", TRUE)
        BY <1>7, <2>1, <3>1 DEF PatchesWhatItWrites
      <4> QED
        <5>1. j \in 1 .. Len(s) /\ j \in k + 1 .. Len(s \o u)
          BY <4>1, <2>1, <1>1
        <5> QED
          BY <4>1, <5>1, <1>2
    <3>2. CASE Forces(u, "guard")
      <4>1. PICK j \in 1 .. Len(u) : u[j] = Do("guard", TRUE)
        BY <3>2 DEF Forces
      <4>2. Len(s) + j \in k + 1 .. Len(s \o u)
        BY <4>1, <2>1, <1>1
      <4> QED
        BY <4>1, <4>2, <1>3
    <3> QED
      BY <3>1, <3>2, <1>7
  <2>2. CASE k - Len(s) \in 1 .. Len(u) /\ (s \o u)[k] = u[k - Len(s)]
    <3>1. PICK j \in (k - Len(s)) + 1 .. Len(u) : u[j] = Do("guard", TRUE)
      BY <1>7, <2>2 DEF PatchesWhatItWrites
    <3>2. Len(s) + j \in k + 1 .. Len(s \o u) /\ j \in 1 .. Len(u)
      BY <3>1, <2>2, <1>1
    <3> QED
      BY <3>1, <3>2, <1>3
  <2> QED
    BY <2>1, <2>2, <1>4
<1> QED
  BY <1>1, <1>5, <1>6, <1>7 DEF PatchesWhatItWrites

LEMMA FinalizeParts ==
  ASSUME NEW l, NEW force \in BOOLEAN
  PROVE  /\ Finalize(l, force) \in Seq(Parts)
         /\ PatchesWhatItWrites(Finalize(l, force))
         /\ TwoPorts(l) => /\ \A op \in {"unlink", "strip"} : ~Includes(Finalize(l, force), op)
                           /\ force => \A op \in {"guard", "plugin", "config"} : Forces(Finalize(l, force), op)
         /\ ~TwoPorts(l) => /\ \A op \in {"guard", "plugin", "config", "env"} : ~Includes(Finalize(l, force), op)
                            /\ force => Forces(Finalize(l, force), "strip")
<1>1. \A op \in Ops : Do(op, force) \in Parts /\ Do(op, force).op = op /\ (force => Do(op, force) = Do(op, TRUE))
  BY DoIs
<1>2. CASE TwoPorts(l)
  <2> DEFINE a == Do("guard", force)
             b == Do("plugin", force)
             c == Do("config", force)
             d == Do("env", force)
             f == Finalize(l, force)
  <2>1. f = <<a, b, c, d>>
    BY <1>2 DEF Finalize
  <2>2. /\ a \in Parts /\ a.op = "guard" /\ b \in Parts /\ b.op = "plugin"
        /\ c \in Parts /\ c.op = "config" /\ d \in Parts /\ d.op = "env"
    BY <1>1 DEF Ops
  <2>3. force => a = Do("guard", TRUE) /\ b = Do("plugin", TRUE) /\ c = Do("config", TRUE)
    BY <1>1 DEF Ops
  <2> HIDE DEF a, b, c, d, f
  <2>4. /\ f \in Seq(Parts) /\ Len(f) = 4 /\ f[1] = a /\ f[2] = b /\ f[3] = c /\ f[4] = d
    BY <2>1, <2>2
  <2>5. \A k \in 1 .. Len(f) : f[k].op \in {"guard", "plugin", "config", "env"}
    BY <2>2, <2>4
  <2>6. PatchesWhatItWrites(f) /\ \A op \in {"unlink", "strip"} : ~Includes(f, op)
    BY <2>5 DEF PatchesWhatItWrites, Includes
  <2>7. ASSUME force PROVE \A op \in {"guard", "plugin", "config"} : Forces(f, op)
    <3>1. a = Do("guard", TRUE) /\ b = Do("plugin", TRUE) /\ c = Do("config", TRUE)
      BY <2>3, <2>7, Zenon
    <3>2. 1 \in 1 .. Len(f) /\ 2 \in 1 .. Len(f) /\ 3 \in 1 .. Len(f)
      BY <2>4
    <3> QED
      BY <2>4, <3>1, <3>2 DEF Forces
  <2> QED
    BY <1>2, <2>4, <2>6, <2>7 DEF f
<1>3. CASE ~TwoPorts(l)
  <2> DEFINE a == Do("unlink", force)
             b == Do("strip", force)
             f == Finalize(l, force)
  <2>1. f = <<a, b>>
    BY <1>3 DEF Finalize
  <2>2. a \in Parts /\ a.op = "unlink" /\ b \in Parts /\ b.op = "strip"
    BY <1>1 DEF Ops
  <2>3. force => b = Do("strip", TRUE)
    BY <1>1 DEF Ops
  <2> HIDE DEF a, b, f
  <2>4. f \in Seq(Parts) /\ Len(f) = 2 /\ f[1] = a /\ f[2] = b
    BY <2>1, <2>2
  <2>5. \A k \in 1 .. Len(f) : f[k].op \in {"unlink", "strip"}
    BY <2>2, <2>4
  <2>6. PatchesWhatItWrites(f) /\ \A op \in {"guard", "plugin", "config", "env"} : ~Includes(f, op)
    BY <2>5 DEF PatchesWhatItWrites, Includes
  <2>7. ASSUME force PROVE Forces(f, "strip")
    <3>1. b = Do("strip", TRUE)
      BY <2>3, <2>7, Zenon
    <3>2. 2 \in 1 .. Len(f)
      BY <2>4
    <3> QED
      BY <2>4, <3>1, <3>2 DEF Forces
  <2> QED
    BY <1>3, <2>4, <2>6, <2>7 DEF f
<1> QED
  BY <1>2, <1>3

(* A sequence of parts that puts right a run with the configuration l. *)
Suits(s, l) ==
  /\ s \in Seq(Parts)
  /\ IF TwoPorts(l)
     THEN /\ PatchesWhatItWrites(s) /\ \A op \in {"unlink", "strip"} : ~Includes(s, op)
          /\ \A op \in {"guard", "plugin", "config"} : Forces(s, op)
     ELSE /\ \A op \in {"guard", "plugin", "config", "env"} : ~Includes(s, op)
          /\ Forces(s, "strip")

LEMMA CompileSuits ==
  ASSUME NEW l
  PROVE  Suits(Compile(l), l)
<1> DEFINE a == Finalize(l, FALSE)
           b == <<Generates>>
           c == Finalize(l, TRUE)
<1>1. /\ a \in Seq(Parts) /\ c \in Seq(Parts) /\ PatchesWhatItWrites(a) /\ PatchesWhatItWrites(c)
      /\ TwoPorts(l) => /\ \A op \in {"unlink", "strip"} : ~Includes(a, op) /\ ~Includes(c, op)
                        /\ \A op \in {"guard", "plugin", "config"} : Forces(c, op)
      /\ ~TwoPorts(l) => /\ \A op \in {"guard", "plugin", "config", "env"} : ~Includes(a, op) /\ ~Includes(c, op)
                         /\ Forces(c, "strip")
  BY FinalizeParts
<1>2. b \in Seq(Parts) /\ \A x \in Ops : Includes(b, x) <=> x = "generate"
  BY PartsOfOne DEF Generates, Ops
<1>3. Compile(l) = a \o b \o c
  BY DEF Compile
<1> HIDE DEF a, b, c
<1>4. a \o b \in Seq(Parts) /\ \A op : Includes(a \o b, op) <=> Includes(a, op) \/ Includes(b, op)
  BY <1>1, <1>2, PartsJoined
<1>5. /\ Compile(l) \in Seq(Parts)
      /\ \A op : Includes(Compile(l), op) <=> Includes(a \o b, op) \/ Includes(c, op)
      /\ \A op : Forces(c, op) => Forces(Compile(l), op)
      /\ Forces(c, "guard") => PatchesWhatItWrites(Compile(l))
  <2> DEFINE ab == a \o b
  <2>1. ab \in Seq(Parts) /\ c \in Seq(Parts) /\ Compile(l) = ab \o c /\ PatchesWhatItWrites(c)
    BY <1>1, <1>3, <1>4
  <2> HIDE DEF ab
  <2>2. /\ ab \o c \in Seq(Parts)
        /\ \A op : Includes(ab \o c, op) <=> Includes(ab, op) \/ Includes(c, op)
        /\ \A op : Forces(ab \o c, op) <=> Forces(ab, op) \/ Forces(c, op)
        /\ Forces(c, "guard") => PatchesWhatItWrites(ab \o c)
    BY <2>1, PartsJoined
  <2> QED
    BY <2>1, <2>2 DEF ab
<1> QED
  BY <1>1, <1>2, <1>4, <1>5 DEF Suits, Ops

(* What starts Vite and what resets env.json may come before or after. *)
Beside(u) == u \in Seq(Parts) /\ PatchesWhatItWrites(u) /\ \A x \in Ops : Includes(u, x) => x \in {"reset", "vite"}

LEMMA SuitsBeside ==
  ASSUME NEW l, NEW s, Suits(s, l), NEW u, Beside(u)
  PROVE  Suits(s \o u, l) /\ Suits(u \o s, l)
<1>1. s \in Seq(Parts) /\ u \in Seq(Parts)
  BY DEF Suits, Beside
<1>2. Suits(s \o u, l)
  BY <1>1, PartsJoined DEF Suits, Beside, Ops
<1>3. Suits(u \o s, l)
  BY <1>1, PartsJoined DEF Suits, Beside, Ops
<1> QED
  BY <1>2, <1>3

LEMMA StartSuits ==
  ASSUME NEW l \in Layouts, StartRun(l)
  PROVE  Suits(steps', l) /\ Forces(steps', "reset")
<1> DEFINE reset == Do("reset", TRUE)
           start == Do("vite", TRUE)
           r == <<reset>>
           v == <<start>>
           rv == <<reset, start>>
           c == Compile(l)
<1>1. reset \in Parts /\ start \in Parts /\ reset.op = "reset" /\ start.op = "vite"
  BY DoIs DEF Ops
<1>2. Beside(r) /\ Forces(r, "reset") /\ Beside(v)
  BY PartsOfOne DEF Ops, Beside
<1>3. Beside(rv) /\ Forces(rv, "reset")
  <2> HIDE DEF reset, start
  <2>1. rv \in Seq(Parts) /\ Len(rv) = 2 /\ rv[1] = reset /\ rv[2] = start
    BY <1>1
  <2> HIDE DEF rv
  <2>2. \A k \in 1 .. Len(rv) : rv[k].op \in {"reset", "vite"}
    BY <1>1, <2>1
  <2>3. Forces(rv, "reset")
    <3>1. 1 \in 1 .. Len(rv)
      BY <2>1
    <3> QED
      BY <2>1, <3>1 DEF Forces, reset
  <2> QED
    BY <2>1, <2>2, <2>3 DEF Beside, Includes, PatchesWhatItWrites
<1>4. steps' = (r \o c) \o v \/ steps' = c \o rv
  BY DEF StartRun
<1>5. Suits(c, l) /\ c \in Seq(Parts)
  BY CompileSuits DEF Suits
<1> HIDE DEF r, v, rv, c
<1>6. Suits(r \o c, l) /\ Suits(c \o rv, l) /\ Forces(r \o c, "reset") /\ Forces(c \o rv, "reset")
  BY <1>2, <1>3, <1>5, SuitsBeside, PartsJoined DEF Beside
<1>7. Suits((r \o c) \o v, l) /\ Forces((r \o c) \o v, "reset")
  <2>1. r \o c \in Seq(Parts)
    BY <1>6 DEF Suits
  <2> QED
    BY <1>2, <1>6, <2>1, SuitsBeside, PartsJoined DEF Beside
<1> QED
  BY <1>4, <1>6, <1>7

LEMMA LayoutInitially == LayoutInit => LayoutInv
<1> SUFFICES ASSUME LayoutInit PROVE LayoutInv
  OBVIOUS
<1>1. config.plugin = FALSE /\ vite.ok = FALSE
  BY DEF LayoutInit, Generated, ViteOff
<1>2. LayoutTypes
  <2>1. config = [plugin |-> config.plugin, block |-> config.block, steady |-> config.steady]
    BY Zenon DEF LayoutInit, Generated
  <2>2. vite = [on |-> vite.on, plugin |-> vite.plugin, block |-> vite.block, ok |-> vite.ok, fresh |-> vite.fresh]
    BY Zenon DEF LayoutInit, ViteOff
  <2>3. vite.fresh = TRUE
    BY DEF LayoutInit, ViteOff
  <2>4. steps \in Seq(Parts)
    BY DEF LayoutInit
  <2> QED
    BY <1>1, <2>1, <2>2, <2>3, <2>4 DEF LayoutInit, LayoutTypes
<1> QED
  BY <1>1, <1>2 DEF LayoutInit, LayoutInv, LoadedAsIs, PartsOfSort, FilesComing

LEMMA StartRunKeeps ==
  ASSUME LayoutInv, NEW l \in Layouts, StartRun(l)
  PROVE  LayoutInv'
<1>1. layout' = l /\ vite' = vite /\ guarded' = guarded /\ plugin' = plugin /\ l # NoRun /\ layout = NoRun
  BY LayoutDistinct DEF StartRun, Begin
<1>2. Suits(steps', l) /\ Forces(steps', "reset")
  BY StartSuits
<1>3. /\ config' = [plugin |-> config'.plugin, block |-> config'.block, steady |-> config'.steady]
      /\ config'.plugin \in BOOLEAN
  <2>1. CASE config' = config
    BY <2>1 DEF LayoutInv, LayoutTypes
  <2>2. CASE config' = Generated
    BY <2>2 DEF Generated
  <2>3. CASE config' = Patched(Generated, Routes(l))
    BY <2>3 DEF Patched, WithBlock, WithoutBlock, WithPlugin, Steady, Generated
  <2> QED
    BY <2>1, <2>2, <2>3 DEF StartRun
<1>4. LayoutTypes'
  <2>1. steps' \in Seq(Parts)
    BY <1>2 DEF Suits
  <2>2. layout' \in Layouts \cup {NoRun} /\ (layout' = NoRun => steps' = <<>> /\ vite' = ViteOff)
    BY <1>1
  <2> QED
    BY <1>1, <1>3, <2>1, <2>2 DEF LayoutInv, LayoutTypes
<1>5. LoadedAsIs'
  BY <1>1 DEF LoadedAsIs, LayoutInv, LayoutTypes, ViteOff
<1>6. PartsOfSort' /\ FilesComing'
  <2>1. CASE TwoPorts(l)
    BY <1>1, <1>2, <2>1 DEF PartsOfSort, FilesComing, Suits
  <2>2. CASE ~TwoPorts(l)
    BY <1>1, <1>2, <2>2 DEF PartsOfSort, FilesComing, Suits
  <2> QED
    BY <2>1, <2>2
<1> QED
  BY <1>4, <1>5, <1>6 DEF LayoutInv

LEMMA AfterHead ==
  ASSUME NEW s \in Seq(Parts), s # <<>>
  PROVE  /\ Head(s) \in Parts /\ Tail(s) \in Seq(Parts)
         /\ Includes(s, Head(s).op)
         /\ \A op : Includes(Tail(s), op) => Includes(s, op)
         /\ \A op : Forces(s, op) => Forces(Tail(s), op) \/ Head(s) = Do(op, TRUE)
         /\ PatchesWhatItWrites(s) =>
              PatchesWhatItWrites(Tail(s)) /\ (Head(s).op = "generate" => Forces(Tail(s), "guard"))
<1>1. /\ Len(s) \in Nat /\ Len(s) > 0 /\ Tail(s) \in Seq(Parts) /\ Len(Tail(s)) = Len(s) - 1
      /\ Head(s) = s[1] /\ s[1] \in Parts
      /\ \A k \in 1 .. Len(Tail(s)) : Tail(s)[k] = s[k + 1]
  OBVIOUS
<1>2. 1 \in 1 .. Len(s)
  BY <1>1
<1>3. ASSUME NEW k \in 1 .. Len(Tail(s)) PROVE k + 1 \in 1 .. Len(s) /\ s[k + 1] = Tail(s)[k]
  BY <1>1
<1>4. ASSUME NEW k \in 1 .. Len(s), k # 1 PROVE k - 1 \in 1 .. Len(Tail(s)) /\ s[k] = Tail(s)[k - 1]
  <2>1. k - 1 \in 1 .. Len(Tail(s)) /\ (k - 1) + 1 = k
    BY <1>1, <1>4
  <2> QED
    BY <1>1, <2>1
<1>5. Includes(s, Head(s).op)
  BY <1>1, <1>2 DEF Includes
<1>6. ASSUME NEW op, Includes(Tail(s), op) PROVE Includes(s, op)
  BY <1>3, <1>6 DEF Includes
<1>7. ASSUME NEW op, Forces(s, op) PROVE Forces(Tail(s), op) \/ Head(s) = Do(op, TRUE)
  BY <1>1, <1>4, <1>7 DEF Forces
<1>8. ASSUME PatchesWhatItWrites(s) PROVE PatchesWhatItWrites(Tail(s))
  <2> SUFFICES ASSUME NEW k \in 1 .. Len(Tail(s)), Tail(s)[k].op = "generate"
               PROVE  \E j \in k + 1 .. Len(Tail(s)) : Tail(s)[j] = Do("guard", TRUE)
    BY DEF PatchesWhatItWrites
  <2>1. PICK j \in k + 1 + 1 .. Len(s) : s[j] = Do("guard", TRUE)
    BY <1>3, <1>8 DEF PatchesWhatItWrites
  <2>2. j \in 1 .. Len(s) /\ j # 1 /\ j - 1 \in k + 1 .. Len(Tail(s))
    BY <2>1, <1>1
  <2> QED
    BY <2>1, <2>2, <1>4
<1>9. ASSUME PatchesWhatItWrites(s), Head(s).op = "generate" PROVE Forces(Tail(s), "guard")
  <2>1. PICK j \in 1 + 1 .. Len(s) : s[j] = Do("guard", TRUE)
    BY <1>1, <1>2, <1>9 DEF PatchesWhatItWrites
  <2>2. j \in 1 .. Len(s) /\ j # 1
    BY <2>1, <1>1
  <2> QED
    BY <2>1, <2>2, <1>4 DEF Forces
<1> QED
  BY <1>1, <1>5, <1>6, <1>7, <1>8, <1>9

LEMMA ReloadKeeps ==
  ASSUME LayoutInv, NEW l \in Layouts, Reload(l)
  PROVE  LayoutInv'
<1>1. /\ layout' = l /\ layout # NoRun /\ layout \in Layouts /\ l # NoRun /\ steps = <<>> /\ steps' = Compile(l)
      /\ UNCHANGED <<plugin, env, guarded, config, vite>>
  BY LayoutDistinct DEF Reload, Begin, LayoutInv, LayoutTypes
<1>2. TwoPorts(l) <=> TwoPorts(layout)
  <2>1. l.process = layout.process /\ l.enabled = layout.enabled
    <3>1. layout \in LayoutRecord
      BY <1>1, LayoutAssumption
    <3>2. l = [layout EXCEPT !.prefixes = l.prefixes]
      BY DEF Reload
    <3> QED
      BY <3>1, <3>2 DEF LayoutRecord
  <2> QED
    BY <2>1 DEF TwoPorts
<1>3. Suits(steps', l)
  BY <1>1, CompileSuits
<1>4. LayoutTypes'
  <2>1. steps' \in Seq(Parts)
    BY <1>3 DEF Suits
  <2> QED
    BY <1>1, <2>1 DEF LayoutInv, LayoutTypes
<1>5. LoadedAsIs'
  BY <1>1 DEF LoadedAsIs, LayoutInv
<1>6. PartsOfSort' /\ FilesComing'
  <2>1. CASE TwoPorts(l)
    BY <1>1, <1>3, <2>1 DEF PartsOfSort, FilesComing, Suits
  <2>2. CASE ~TwoPorts(l)
    <3>1. env' = "backend"
      <4>1. ~Forces(steps, "reset")
        BY <1>1 DEF Forces
      <4> QED
        BY <1>1, <1>2, <2>2, <4>1 DEF LayoutInv, FilesComing
    <3> QED
      BY <1>1, <1>3, <2>2, <3>1 DEF PartsOfSort, FilesComing, Suits
  <2> QED
    BY <2>1, <2>2
<1> QED
  BY <1>4, <1>5, <1>6 DEF LayoutInv

LEMMA ViteLoadsKeeps ==
  ASSUME LayoutInv, ViteLoads
  PROVE  LayoutInv'
<1>1. UNCHANGED <<layout, steps, plugin, config, env, guarded>> /\ vite.on
  BY DEF ViteLoads
<1>2. layout # NoRun
  BY <1>1 DEF LayoutInv, LayoutTypes, ViteOff
<1>3. LayoutTypes' /\ LoadedAsIs'
  <2>1. CASE config.plugin /\ plugin = NoFile
    <3>1. vite' = [vite EXCEPT !.fresh = TRUE]
      BY <2>1 DEF ViteLoads
    <3>2. /\ vite' = [on |-> vite'.on, plugin |-> vite'.plugin, block |-> vite'.block, ok |-> vite'.ok,
                      fresh |-> vite'.fresh]
          /\ vite'.ok \in BOOLEAN /\ vite'.fresh \in BOOLEAN
      BY <3>1 DEF LayoutInv, LayoutTypes
    <3> QED
      BY <1>1, <1>2, <2>1, <3>2 DEF LayoutInv, LayoutTypes, LoadedAsIs
  <2>2. CASE ~(config.plugin /\ plugin = NoFile)
    <3>1. vite' = [on |-> TRUE, ok |-> TRUE, fresh |-> TRUE, block |-> config.block,
                   plugin |-> IF config.plugin THEN plugin ELSE NoRules]
      BY <2>2 DEF ViteLoads
    <3>2. /\ vite' = [on |-> vite'.on, plugin |-> vite'.plugin, block |-> vite'.block, ok |-> vite'.ok,
                      fresh |-> vite'.fresh]
          /\ vite'.ok \in BOOLEAN /\ vite'.fresh \in BOOLEAN
          /\ vite'.block = config.block /\ vite'.plugin = IF config.plugin THEN plugin ELSE NoRules
      BY <3>1
    <3> QED
      BY <1>1, <1>2, <3>2 DEF LayoutInv, LayoutTypes, LoadedAsIs
  <2> QED
    BY <2>1, <2>2
<1> QED
  BY <1>1, <1>3 DEF LayoutInv, PartsOfSort, FilesComing

LEMMA KilledKeeps ==
  ASSUME LayoutInv, Killed
  PROVE  LayoutInv'
<1>1. layout' = NoRun /\ steps' = <<>> /\ vite' = ViteOff /\ UNCHANGED <<plugin, config, env, guarded>>
  BY DEF Killed
<1>2. /\ vite' = [on |-> vite'.on, plugin |-> vite'.plugin, block |-> vite'.block, ok |-> vite'.ok,
                  fresh |-> vite'.fresh]
      /\ vite'.ok = FALSE /\ vite'.fresh \in BOOLEAN
  BY <1>1 DEF ViteOff
<1>3. LayoutTypes'
  <2>1. steps' \in Seq(Parts)
    BY <1>1
  <2>2. vite'.ok \in BOOLEAN
    BY <1>2, Zenon
  <2> QED
    BY <1>1, <1>2, <2>1, <2>2 DEF LayoutInv, LayoutTypes
<1> QED
  BY <1>1, <1>2, <1>3 DEF LayoutInv, LoadedAsIs, PartsOfSort, FilesComing

LEMMA RecordsChanged ==
  ASSUME NEW a, NEW b, NEW c, NEW d, NEW e, NEW x
  PROVE  /\ [[on |-> a, plugin |-> b, block |-> c, ok |-> d, fresh |-> e] EXCEPT !.fresh = x]
              = [on |-> a, plugin |-> b, block |-> c, ok |-> d, fresh |-> x]
         /\ [[plugin |-> a, block |-> b, steady |-> c] EXCEPT !.plugin = x] = [plugin |-> x, block |-> b, steady |-> c]
         /\ [[plugin |-> a, block |-> b, steady |-> c] EXCEPT !.block = x] = [plugin |-> a, block |-> x, steady |-> c]
         /\ [[plugin |-> a, block |-> b, steady |-> c] EXCEPT !.steady = x] = [plugin |-> a, block |-> b, steady |-> x]
OBVIOUS

LEMMA TouchedIs ==
  ASSUME LayoutTypes, NEW changed \in BOOLEAN
  PROVE  LET v == Touched(changed) IN
         /\ v = [on |-> v.on, plugin |-> v.plugin, block |-> v.block, ok |-> v.ok, fresh |-> v.fresh]
         /\ v.ok \in BOOLEAN /\ v.fresh \in BOOLEAN
         /\ v.plugin = vite.plugin /\ v.block = vite.block /\ v.ok = vite.ok
         /\ v.fresh => vite.fresh /\ ~changed
<1> DEFINE x == vite.fresh /\ ~changed
           w == [on |-> vite.on, plugin |-> vite.plugin, block |-> vite.block, ok |-> vite.ok, fresh |-> vite.fresh]
           v == Touched(changed)
<1>1. v = [on |-> vite.on, plugin |-> vite.plugin, block |-> vite.block, ok |-> vite.ok, fresh |-> x]
  <2>1. vite = w
    BY DEF LayoutTypes
  <2>2. v = [w EXCEPT !.fresh = x]
    BY <2>1, Zenon DEF Touched
  <2> QED
    BY <2>2, RecordsChanged, Zenon
<1>2. x \in BOOLEAN /\ (x => vite.fresh /\ ~changed)
  OBVIOUS
<1> HIDE DEF x, v
<1>3. v.plugin = vite.plugin /\ v.block = vite.block /\ v.ok = vite.ok /\ v.fresh = x /\ v.on = vite.on
  BY <1>1
<1>4. v = [on |-> v.on, plugin |-> v.plugin, block |-> v.block, ok |-> v.ok, fresh |-> v.fresh]
  BY <1>1, <1>3
<1>5. v.ok \in BOOLEAN /\ v.fresh \in BOOLEAN
  BY <1>2, <1>3 DEF LayoutTypes
<1>6. v.fresh => vite.fresh /\ ~changed
  BY <1>2, <1>3
<1> QED
  BY <1>3, <1>4, <1>5, <1>6 DEF v

LEMMA ConfigsAre ==
  ASSUME LayoutTypes, NEW routes
  PROVE  /\ LET c == Patched(config, routes) IN
            /\ c = [plugin |-> c.plugin, block |-> c.block, steady |-> c.steady]
            /\ c.plugin = TRUE /\ c.block = routes
         /\ LET c == Stripped(config) IN
            /\ c = [plugin |-> c.plugin, block |-> c.block, steady |-> c.steady]
            /\ c.plugin = FALSE /\ c.block = NoRules
<1> DEFINE yes == TRUE
           no == FALSE
<1>0. yes = TRUE /\ no = FALSE
  OBVIOUS
<1>1. PICK p, b, s : config = [plugin |-> p, block |-> b, steady |-> s]
  BY DEF LayoutTypes
<1>2. /\ \A c : Steady(c) = [c EXCEPT !.steady = yes] /\ WithPlugin(c) = [c EXCEPT !.plugin = yes]
      /\ \A c : WithoutBlock(c) = [c EXCEPT !.block = NoRules]
      /\ \A c : Stripped(c) = [WithoutBlock(c) EXCEPT !.plugin = no]
      /\ \A c : Patched(c, routes) = [WithoutBlock(WithPlugin(Steady(c))) EXCEPT !.block = routes]
  BY Zenon DEF Steady, WithPlugin, WithoutBlock, Stripped, Patched, WithBlock
<1> HIDE DEF yes, no
<1>3. Patched(config, routes) = [plugin |-> yes, block |-> routes, steady |-> yes]
  <2> DEFINE w == WithoutBlock(WithPlugin(Steady(config)))
  <2>1. Steady(config) = [plugin |-> p, block |-> b, steady |-> yes]
    BY <1>1, <1>2, RecordsChanged
  <2>2. WithPlugin(Steady(config)) = [plugin |-> yes, block |-> b, steady |-> yes]
    BY <1>2, <2>1, RecordsChanged
  <2>3. w = [plugin |-> yes, block |-> NoRules, steady |-> yes]
    BY <1>2, <2>2, RecordsChanged
  <2>4. Patched(config, routes) = [w EXCEPT !.block = routes]
    BY <1>2
  <2> HIDE DEF w
  <2> QED
    BY <2>3, <2>4, RecordsChanged
<1>4. Stripped(config) = [plugin |-> no, block |-> NoRules, steady |-> s]
  <2>1. WithoutBlock(config) = [plugin |-> p, block |-> NoRules, steady |-> s]
    BY <1>1, <1>2, RecordsChanged
  <2> QED
    BY <1>2, <2>1, RecordsChanged
<1> QED
  BY <1>0, <1>3, <1>4

LEMMA StepKeeps ==
  ASSUME LayoutInv, Step
  PROVE  LayoutInv'
<1> DEFINE h == Head(steps)
<1>1. /\ LayoutTypes /\ LoadedAsIs /\ PartsOfSort /\ FilesComing
      /\ steps \in Seq(Parts) /\ steps # <<>> /\ steps' = Tail(steps) /\ layout' = layout
  BY DEF Step, LayoutInv, LayoutTypes
<1>2. layout # NoRun
  BY <1>1 DEF LayoutTypes
<1>3. /\ h \in Parts /\ steps' \in Seq(Parts)
      /\ Includes(steps, h.op)
      /\ \A op : Includes(steps', op) => Includes(steps, op)
      /\ \A op : Forces(steps, op) => Forces(steps', op) \/ h = Do(op, TRUE)
      /\ PatchesWhatItWrites(steps) =>
           PatchesWhatItWrites(steps') /\ (h.op = "generate" => Forces(steps', "guard"))
  BY <1>1, AfterHead
<1> HIDE DEF h
<1>4. /\ TwoPorts(layout) => h.op \notin {"unlink", "strip"}
      /\ ~TwoPorts(layout) => h.op \notin {"guard", "plugin", "config", "env"}
  BY <1>1, <1>2, <1>3 DEF PartsOfSort
<1>5. PartsOfSort'
  BY <1>1, <1>2, <1>3 DEF PartsOfSort
<1>6. \A op \in Ops : Forces(steps, op) => Forces(steps', op) \/ (h.op = op /\ h.force)
  BY <1>3, DoIs
<1>7. CASE h.op \in {"plugin", "unlink"}
  <2>1. WritesPlugin
    BY <1>7 DEF Step, h
  <2> DEFINE changed == config.plugin /\ (plugin' # plugin \/ h.force)
  <2>2. /\ vite' = Touched(changed) /\ UNCHANGED <<config, env, guarded>> /\ changed \in BOOLEAN
        /\ plugin' = IF h.op = "plugin" THEN Routes(layout) ELSE NoFile
    BY <2>1 DEF WritesPlugin, h
  <2>3. /\ vite' = [on |-> vite'.on, plugin |-> vite'.plugin, block |-> vite'.block, ok |-> vite'.ok,
                    fresh |-> vite'.fresh]
        /\ vite'.ok \in BOOLEAN /\ vite'.fresh \in BOOLEAN
        /\ vite'.plugin = vite.plugin /\ vite'.block = vite.block /\ vite'.ok = vite.ok
        /\ vite'.fresh => vite.fresh /\ ~changed
    <3> HIDE DEF changed
    <3> QED
      BY <1>1, <2>2, TouchedIs
  <2>4. LayoutTypes'
    BY <1>1, <1>2, <1>3, <2>2, <2>3 DEF LayoutTypes
  <2>5. LoadedAsIs'
    BY <1>1, <2>2, <2>3 DEF LoadedAsIs
  <2>6. FilesComing'
    <3>1. h.op # "guard" /\ h.op # "config" /\ h.op # "strip" /\ h.op # "reset"
      BY <1>7
    <3> QED
      BY <1>1, <1>2, <1>4, <1>6, <2>2, <3>1, <1>7 DEF FilesComing, Ops
  <2> QED
    BY <1>5, <2>4, <2>5, <2>6 DEF LayoutInv
<1>8. CASE h.op \in {"config", "strip"}
  <2>1. WritesConfig
    BY <1>8 DEF Step, h
  <2>2. /\ vite' = Touched(config' # config) /\ UNCHANGED <<plugin, env, guarded>>
        /\ config' = IF h.op = "strip" THEN Stripped(config)
                     ELSE IF h.force \/ ~Complete(config, Routes(layout))
                          THEN Patched(config, Routes(layout)) ELSE config
    BY <2>1 DEF WritesConfig, StripConfig, h
  <2>3. /\ vite' = [on |-> vite'.on, plugin |-> vite'.plugin, block |-> vite'.block, ok |-> vite'.ok,
                    fresh |-> vite'.fresh]
        /\ vite'.ok \in BOOLEAN /\ vite'.fresh \in BOOLEAN
        /\ vite'.plugin = vite.plugin /\ vite'.block = vite.block /\ vite'.ok = vite.ok
        /\ vite'.fresh => vite.fresh /\ config' = config
    BY <1>1, <2>2, TouchedIs
  <2>4. CASE h.op = "strip"
    <3>1. config' = Stripped(config)
      BY <2>1, <2>4 DEF WritesConfig, StripConfig, h
    <3>2. /\ config' = [plugin |-> config'.plugin, block |-> config'.block, steady |-> config'.steady]
          /\ config'.plugin = FALSE /\ config'.block = NoRules
      BY <1>1, <3>1, ConfigsAre
    <3>3. LayoutTypes'
      BY <1>1, <1>2, <1>3, <2>2, <2>3, <3>2 DEF LayoutTypes
    <3>4. LoadedAsIs'
      BY <1>1, <2>2, <2>3 DEF LoadedAsIs
    <3>5. FilesComing'
      BY <1>1, <1>2, <1>4, <1>6, <2>2, <2>4, <3>2 DEF FilesComing, Ops
    <3> QED
      BY <1>5, <3>3, <3>4, <3>5 DEF LayoutInv
  <2>5. CASE h.op = "config"
    <3>1. \/ config' = Patched(config, Routes(layout))
          \/ config' = config /\ ~h.force
      BY <2>2, <2>5
    <3>2. /\ config' = [plugin |-> config'.plugin, block |-> config'.block, steady |-> config'.steady]
          /\ config'.plugin \in BOOLEAN
      BY <1>1, <3>1, ConfigsAre DEF LayoutTypes
    <3>3. \/ config'.plugin /\ config'.block = Routes(layout)
          \/ config' = config /\ ~h.force
      BY <1>1, <3>1, ConfigsAre
    <3>4. LayoutTypes'
      BY <1>1, <1>2, <1>3, <2>2, <2>3, <3>2 DEF LayoutTypes
    <3>5. LoadedAsIs'
      BY <1>1, <2>2, <2>3 DEF LoadedAsIs
    <3>6. FilesComing'
      BY <1>1, <1>2, <1>4, <1>6, <2>2, <2>5, <3>3 DEF FilesComing, Ops
    <3> QED
      BY <1>5, <3>4, <3>5, <3>6 DEF LayoutInv
  <2> QED
    BY <1>8, <2>4, <2>5
<1>9. CASE h.op \notin {"plugin", "unlink", "config", "strip"}
  <2>1. OtherWrites
    BY <1>9 DEF Step, h
  <2>2. UNCHANGED <<plugin, config>>
    BY <2>1 DEF OtherWrites
  <2>3. /\ vite' = [on |-> vite'.on, plugin |-> vite'.plugin, block |-> vite'.block, ok |-> vite'.ok,
                    fresh |-> vite'.fresh]
        /\ vite'.ok \in BOOLEAN /\ vite'.fresh \in BOOLEAN
        /\ vite' = vite \/ ~vite'.fresh
    <3>1. CASE h.op = "vite"
      <4>1. vite' = [on |-> TRUE, plugin |-> NoRules, block |-> NoRules, ok |-> FALSE, fresh |-> FALSE]
        BY <2>1, <3>1 DEF OtherWrites, ViteOff, h
      <4> HIDE DEF NoRules
      <4> QED
        BY <4>1
    <3>2. CASE h.op # "vite"
      BY <1>1, <2>1, <3>2 DEF OtherWrites, LayoutTypes, h
    <3> QED
      BY <3>1, <3>2
  <2>4. /\ guarded' \in BOOLEAN
        /\ h.op = "guard" => guarded'
        /\ h.op # "generate" /\ guarded => guarded'
    BY <1>1, <2>1 DEF OtherWrites, GuardedAfter, LayoutTypes, h
  <2>5. /\ h.op = "reset" => env' = "backend"
        /\ h.op # "env" /\ env = "backend" => env' = "backend"
    BY <2>1 DEF OtherWrites, EnvAfter, h
  <2>6. LayoutTypes'
    BY <1>1, <1>2, <1>3, <2>2, <2>3, <2>4 DEF LayoutTypes
  <2>7. LoadedAsIs'
    BY <1>1, <2>2, <2>3 DEF LoadedAsIs
  <2>8. FilesComing'
    <3>1. CASE TwoPorts(layout)
      <4>1. h.op = "generate" => Forces(steps', "guard")
        BY <1>1, <1>2, <1>3, <3>1 DEF PartsOfSort
      <4> QED
        BY <1>1, <1>2, <1>6, <1>9, <2>2, <2>4, <3>1, <4>1 DEF FilesComing, Ops
    <3>2. CASE ~TwoPorts(layout)
      BY <1>1, <1>2, <1>4, <1>6, <1>9, <2>2, <2>5, <3>2 DEF FilesComing, Ops
    <3> QED
      BY <3>1, <3>2
  <2> QED
    BY <1>5, <2>6, <2>7, <2>8 DEF LayoutInv
<1> QED
  BY <1>7, <1>8, <1>9

LEMMA LayoutInvKept == LayoutInv /\ [LayoutNext]_layoutVars => LayoutInv'
<1> SUFFICES ASSUME LayoutInv, [LayoutNext]_layoutVars PROVE LayoutInv'
  OBVIOUS
<1>1. CASE UNCHANGED layoutVars
  BY <1>1 DEF layoutVars, LayoutInv, LayoutTypes, LoadedAsIs, PartsOfSort, FilesComing
<1> QED
  BY <1>1, StartRunKeeps, ReloadKeeps, StepKeeps, ViteLoadsKeeps, KilledKeeps DEF LayoutNext

LEMMA EndsThere ==
  ASSUME NEW first, NEW p, NEW last, Hop(Hop(first, p), p) = last, Hop(last, p) = last
  PROVE  Answerer(first, p) = last
BY DEF Answerer

(* From server to server, a path ends where it belongs, with all in place. *)
LEMMA PathsArrive ==
  ASSUME layout \in Layouts, NEW p,
         IF TwoPorts(layout) THEN vite.plugin = Routes(layout) /\ vite.block = Routes(layout)
                             ELSE vite.plugin = NoRules /\ vite.block = NoRules
  PROVE  IF TwoPorts(layout)
         THEN Answerer("vite", p) = CASE p \in layout.prefixes -> "django"
                                      [] p \in Reserved -> "reflex"
                                      [] OTHER -> "vite"
         ELSE Answerer("vite", p) = "vite" /\ Answerer("django", p) # "lost"
<1>1. layout.prefixes \cap Reserved = {}
  BY LayoutAssumption
<1>2. CASE TwoPorts(layout)
  <2>1. ViteTarget(layout.process) = NoTarget
    BY <1>2 DEF TwoPorts, ViteTarget
  <2>2. /\ DOMAIN Routes(layout) = layout.prefixes \cup Reserved
        /\ \A q \in layout.prefixes \cup Reserved :
             Routes(layout)[q] = IF q \in layout.prefixes /\ layout.server THEN "django" ELSE "reflex"
    BY DEF Routes, ProxyPrefixes
  <2>3. Hop("django", p) = "django"
    BY <2>1 DEF Hop
  <2>4. Hop("reflex", p) = IF p \in layout.prefixes THEN "django" ELSE "reflex"
    BY <1>1 DEF Hop, ShouldRouteToDjango
  <2>5. Hop("vite", p) = IF p \in layout.prefixes \cup Reserved THEN Routes(layout)[p] ELSE "vite"
    <3>1. vite.plugin = Routes(layout) /\ vite.block = Routes(layout)
      BY <1>2
    <3>2. CASE p \in layout.prefixes \cup Reserved
      <4>1. MatchRoute(p) = Routes(layout)[p] /\ MatchRoute(p) # NoTarget
        BY <2>2, <3>1, <3>2 DEF MatchRoute, NoTarget
      <4> QED
        BY <3>2, <4>1 DEF Hop
    <3>3. CASE p \notin layout.prefixes \cup Reserved
      <4>1. MatchRoute(p) = NoTarget
        BY <2>2, <3>1, <3>3 DEF MatchRoute
      <4> QED
        BY <2>2, <3>1, <3>3, <4>1 DEF Hop
    <3> QED
      BY <3>2, <3>3
  <2>6. Answerer("vite", p) = CASE p \in layout.prefixes -> "django"
                                [] p \in Reserved -> "reflex"
                                [] OTHER -> "vite"
    <3>1. CASE p \in layout.prefixes
      <4>1. Hop("vite", p) \in {"django", "reflex"}
        BY <2>2, <2>5, <3>1
      <4>2. Hop(Hop("vite", p), p) = "django"
        BY <2>3, <2>4, <3>1, <4>1
      <4>3. Answerer("vite", p) = "django"
        BY <2>3, <4>2, EndsThere
      <4> QED
        BY <1>1, <3>1, <4>3
    <3>2. CASE p \notin layout.prefixes
      BY <2>2, <2>4, <2>5, <3>2, EndsThere
    <3> QED
      BY <3>1, <3>2
  <2> QED
    BY <1>2, <2>6
<1>3. CASE ~TwoPorts(layout)
  <2>1. vite.plugin = NoRules /\ vite.block = NoRules
    BY <1>3
  <2>2. Hop("vite", p) = "vite"
    BY <2>1 DEF Hop, MatchRoute, NoRules, NoTarget
  <2>3. Answerer("vite", p) = "vite"
    BY <2>2, EndsThere
  <2> DEFINE t == ViteTarget(layout.process)
  <2>4. t \in Ports \cup {NoTarget}
    <3>1. layout.process \in ProcessRecord
      BY LayoutAssumption DEF LayoutRecord
    <3>2. layout.process.vitePort \in Ports
      BY <3>1 DEF ProcessRecord
    <3> QED
      BY <3>2 DEF ViteTarget
  <2>5. Hop("django", p) = IF p \notin layout.prefixes /\ t # NoTarget THEN t ELSE "django"
    BY DEF Hop
  <2>6. Hop("django", p) = "django" => Answerer("django", p) = "django"
    BY EndsThere
  <2>7. ASSUME Hop("django", p) # "django" PROVE Answerer("django", p) = t
    <3>1. Hop(t, p) = t /\ Hop("django", p) = t
      <4>1. t # "django" /\ p \notin layout.prefixes
        BY <2>5, <2>7
      <4>2. CASE t = "vite"
        BY <2>2, <2>5, <2>7, <4>1, <4>2
      <4>3. CASE t # "vite"
        <5>1. Hop(t, p) = t
          BY <4>1, <4>3 DEF Hop, ShouldRouteToDjango
        <5> QED
          BY <2>5, <2>7, <5>1
      <4> QED
        BY <4>2, <4>3
    <3> QED
      BY <3>1, EndsThere
  <2>8. Answerer("django", p) # "lost"
    <3>1. CASE Hop("django", p) = "django"
      <4>1. Answerer("django", p) = "django"
        BY <2>6, <3>1
      <4> QED
        BY <4>1
    <3>2. CASE Hop("django", p) # "django"
      BY <2>4, <2>7, <3>2 DEF Ports, NoTarget
    <3> QED
      BY <3>1, <3>2
  <2> QED
    BY <1>3, <2>3, <2>8
<1> QED
  BY <1>2, <1>3

(* The compilation sees to it that everything is in place in the end,      *)
(* whatever the files said when it began (dev/vite_proxy.py,               *)
(* finalize_web_dev_layout, dev/frontend_stability.py): no order of runs   *)
(* and no kill between two files gets in the way of a path.                *)
THEOREM EveryPathArrives == LayoutSpec => []Arrives
<1>1. LayoutInv => Arrives
  <2> SUFFICES ASSUME LayoutInv, Settled
               PROVE  \A p \in Paths :
                        IF TwoPorts(layout)
                        THEN /\ Answerer("vite", p) = CASE p \in layout.prefixes -> "django"
                                                         [] p \in Reserved -> "reflex"
                                                         [] OTHER -> "vite"
                             /\ env = "vite" => vite.block[EventPath] = "reflex"
                             /\ guarded
                        ELSE /\ Answerer("vite", p) = "vite"
                             /\ Answerer("django", p) # "lost"
                             /\ env = "backend"
    BY DEF Arrives
  <2>1. layout \in Layouts /\ layout # NoRun /\ steps = <<>> /\ vite.ok /\ vite.fresh
    BY DEF LayoutInv, LayoutTypes, Settled
  <2>2. \A op : ~Forces(steps, op)
    BY <2>1 DEF Forces
  <2>3. CASE TwoPorts(layout)
    <3>1. guarded /\ plugin = Routes(layout) /\ config.plugin /\ config.block = Routes(layout)
      BY <2>1, <2>2, <2>3 DEF LayoutInv, FilesComing
    <3>2. vite.plugin = Routes(layout) /\ vite.block = Routes(layout)
      BY <2>1, <3>1, LayoutDistinct DEF LayoutInv, LoadedAsIs
    <3>3. vite.block[EventPath] = "reflex"
      BY <2>1, <3>2, LayoutAssumption DEF Routes, ProxyPrefixes
    <3> QED
      BY <2>1, <2>3, <3>1, <3>2, <3>3, PathsArrive
  <2>4. CASE ~TwoPorts(layout)
    <3>1. ~config.plugin /\ config.block = NoRules /\ env = "backend"
      BY <2>1, <2>2, <2>4 DEF LayoutInv, FilesComing
    <3>2. vite.plugin = NoRules /\ vite.block = NoRules
      BY <2>1, <3>1 DEF LayoutInv, LoadedAsIs
    <3> QED
      BY <2>1, <2>4, <3>1, <3>2, PathsArrive
  <2> QED
    BY <2>3, <2>4
<1> QED
  BY <1>1, LayoutInitially, LayoutInvKept, PTL DEF LayoutSpec

(********************************** start-up *******************************)
Calls == {"install", "configure", "resolve", "ensure", "auto mount", "patch", "hook", "reflex ready", "admin ready",
          "all ready", "refresh", "import", "reload", "mount", "mount it", "append"}
Areas == Segments \cup {Admin}
Patterns == Areas \cup {CatchAll}
PillarRecord == [embed : {"on", "off"}, mount : {"on", "off"}, server : {"url", "unset"}, bridge : {"on", "off"}]

DjangoRecord == [configured : BOOLEAN, admin : BOOLEAN, wrapped : BOOLEAN, marked : BOOLEAN, ready : BOOLEAN]

UrlsRecord ==
  [patterns : Seq(Patterns) \cup {NotImported}, complete : BOOLEAN, spared : SUBSET Areas,
   imported : BOOLEAN, deferred : BOOLEAN, tooEarly : BOOLEAN]

SiteRecord ==
  [config : PillarRecord \cup {NoConfig}, installed : BOOLEAN, busy : BOOLEAN, refused : BOOLEAN,
   mounted : BOOLEAN, registered : (SUBSET Areas) \cup {Unset}, hasty : BOOLEAN]

StartupTypes ==
  /\ boot \in Boots \cup {NoBoot}
  /\ boot = NoBoot => StartupInit
  /\ todo \in Seq(Calls)
  /\ django \in DjangoRecord /\ urls \in UrlsRecord /\ site \in SiteRecord
  /\ reflexApp = [dispatchers |-> reflexApp.dispatchers, bridge |-> reflexApp.bridge]

(* Call c is to be made before the one that is at place k now.             *)
Sooner(c, k) == \E j \in 1 .. k - 1 : todo[j] = c
Pending(c) == \E k \in 1 .. Len(todo) : todo[k] = c
Once(c) == \A j, k \in 1 .. Len(todo) : todo[j] = c /\ todo[k] = c => j = k

Mountable == MountPillar(boot, TRUE) = "on"
Final == django.configured /\ site.config = Pillars(boot, TRUE)

(* A mount mounts, or there is none to be, and this is how it goes on. *)
Mounts == django.configured /\ (site.mounted \/ MountEnabled \/ ~Mountable)
Mounting == {"auto mount", "mount", "mount it"}

(* The project leaves prefixes and the catch-all to the integration. *)
Unsaid == CatchAll \notin Range(boot.urls) /\ boot.prefix = Unset

(* The admin knows every model, or has been overtaken. *)
Told == django.admin \/ site.hasty

(* What a pending call may count on: the settings, every model known to    *)
(* the admin, the configuration as it will be.  With reflex_django before  *)
(* the admin it is ready just before the admin is.                         *)
Founded(k) ==
  /\ todo[k] # "reload"
  /\ todo[k] = "resolve" => django.configured \/ Sooner("configure", k)
  /\ todo[k] = "resolve" =>
       Told \/ Sooner("admin ready", k) \/ (~django.configured /\ Sooner("configure", k))
  /\ todo[k] = "refresh" => django.admin
  /\ todo[k] = "all ready" => django.admin \/ Sooner("admin ready", k)
  /\ todo[k] \in {"auto mount", "import", "mount"} => Told
  /\ todo[k] = "auto mount" => Mounts
  /\ todo[k] = "install" =>
       Told \/ site.busy \/ site.installed \/ Sooner("admin ready", k) \/ (~django.configured /\ k = 1)
  /\ todo[k] = "reflex ready" /\ boot.order # "before" => django.admin \/ Sooner("admin ready", k)
  /\ todo[k] = "reflex ready" /\ boot.order = "before" => k + 1 \in 1 .. Len(todo) /\ todo[k + 1] = "admin ready"
  /\ todo[k] = "mount" => urls.patterns # NotImported \/ Sooner("import", k)
  /\ todo[k] \in {"append", "mount it"} => urls.patterns # NotImported
  /\ todo[k] = "append" => CatchAll \in Range(boot.urls)
  /\ todo[k] = "mount it" /\ Unsaid => site.registered # Unset
  /\ todo[k] = "patch" => Final /\ (site.mounted \/ \E c \in Mounting : Sooner(c, k))

AllFounded == \A k \in 1 .. Len(todo) : Founded(k)

(* The integration is installed once, or refused for good, after Django is *)
(* configured and with the application mounted as it says.                 *)
InstalledOnce ==
  /\ Once("patch") /\ Once("resolve") /\ ~(Pending("patch") /\ Pending("resolve"))
  /\ Pending("patch") \/ Pending("resolve") => site.busy /\ ~site.installed
  /\ site.refused => todo = <<>> /\ ~site.installed
  /\ site.installed => site.mounted /\ Final

(* The admin is discovered once, in the end, and what reflex_django put    *)
(* off for it then goes ahead at once.                                     *)
AdminOnce ==
  /\ Once("admin ready")
  /\ Pending("admin ready") => django.configured /\ ~django.admin
  /\ Pending("reflex ready") => django.configured
  /\ django.configured /\ ~django.admin => Pending("admin ready") \/ site.refused
  /\ django.ready => django.admin
  /\ django.admin => django.configured
  /\ django.wrapped /\ ~django.admin => todo # <<>> /\ Head(todo) = "admin ready" /\ MountEnabled

(* Where asking for the configuration installs nothing, or all is done in  *)
(* the course of the installation, what adds a catch-all is not overtaken. *)
Single == boot.door = "reflex" \/ ~boot.pth

NotOvertaken ==
  Single =>
    \A k \in 1 .. Len(todo) : todo[k] \in Mounters =>
      /\ k = 1 \/ (k = 2 /\ todo[1] = "install" /\ (site.busy \/ site.installed))
      /\ CatchAll \notin Range(urls.patterns)

ReflexFirst == boot.door = "reflex" /\ ~site.busy /\ ~site.installed => todo \in {<<>>, <<"install">>}

Orderly == NotOvertaken /\ ReflexFirst

(* Prefixes that are registered are those of a mount on its way. *)
Halfway ==
  Unsaid /\ site.registered # Unset /\ CatchAll \notin Range(urls.patterns) => Pending("mount it") \/ site.refused

(* There is nothing behind a catch-all but others. *)
Behind(patterns) ==
  \A k, j \in DOMAIN patterns : patterns[k] = CatchAll /\ k <= j => patterns[j] = CatchAll

UrlsMounted ==
  /\ ~urls.tooEarly
  /\ site.mounted /\ Mountable => CatchAll \in Range(urls.patterns)
  /\ Behind(urls.patterns)
  /\ Single => Ordered(urls.patterns)

UrlsAgreed ==
  Unsaid =>
    /\ site.registered # Unset => site.registered = Discovered(urls.patterns) /\ Admin \in Range(urls.patterns)
    /\ CatchAll \in Range(urls.patterns) => site.registered # Unset /\ urls.spared = Discovered(urls.patterns)
    /\ reflexApp.dispatchers # <<>> =>
         CatchAll \in Range(urls.patterns) /\ reflexApp.dispatchers = <<Discovered(urls.patterns)>>

UrlsComplete == Admin \in Range(urls.patterns) /\ ~site.hasty => urls.complete

UrlsRight == UrlsMounted /\ UrlsAgreed /\ UrlsComplete

StartupInv ==
  /\ StartupTypes
  /\ boot # NoBoot => AllFounded /\ InstalledOnce /\ AdminOnce /\ Orderly /\ Halfway /\ UrlsRight

LEMMA Joined ==
  ASSUME NEW S, NEW u \in Seq(S), NEW v \in Seq(S)
  PROVE  /\ Len(u) \in Nat /\ Len(v) \in Nat /\ u \o v \in Seq(S) /\ Len(u \o v) = Len(u) + Len(v)
         /\ \A i \in 1 .. Len(u) + Len(v) : (u \o v)[i] = IF i <= Len(u) THEN u[i] ELSE v[i - Len(u)]
OBVIOUS

(* What takes the place of the head of a sequence comes first, and the     *)
(* rest is moved.                                                          *)
LEMMA HeadReplaced ==
  ASSUME NEW S, NEW s \in Seq(S), s # <<>>, NEW u \in Seq(S), NEW t, t = u \o Tail(s)
  PROVE  /\ t \in Seq(S) /\ Len(s) \in Nat \ {0} /\ Len(u) \in Nat /\ Len(t) = Len(u) + Len(s) - 1
         /\ \A k \in 1 .. Len(u) : k \in 1 .. Len(t) /\ t[k] = u[k]
         /\ \A i \in 2 .. Len(s) : i - 1 + Len(u) \in Len(u) + 1 .. Len(t) /\ t[i - 1 + Len(u)] = s[i]
         /\ \A k \in 1 .. Len(t) :
              k \in 1 .. Len(u) \/ (k + 1 - Len(u) \in 2 .. Len(s) /\ t[k] = s[k + 1 - Len(u)])
<1>1. /\ Len(s) \in Nat \ {0} /\ Tail(s) \in Seq(S) /\ Len(Tail(s)) = Len(s) - 1
      /\ \A i \in 1 .. Len(s) - 1 : Tail(s)[i] = s[i + 1]
  OBVIOUS
<1> DEFINE v == Tail(s)
<1> HIDE DEF v
<1>2. v \in Seq(S) /\ Len(v) = Len(s) - 1 /\ \A i \in 1 .. Len(s) - 1 : v[i] = s[i + 1]
  BY <1>1 DEF v
<1>3. /\ Len(u) \in Nat /\ Len(v) \in Nat /\ u \o v \in Seq(S) /\ Len(u \o v) = Len(u) + Len(v)
      /\ \A i \in 1 .. Len(u) + Len(v) : (u \o v)[i] = IF i <= Len(u) THEN u[i] ELSE v[i - Len(u)]
  BY <1>2, Joined
<1>4. /\ t \in Seq(S) /\ Len(t) = Len(u) + Len(s) - 1
      /\ \A i \in 1 .. Len(t) : t[i] = IF i <= Len(u) THEN u[i] ELSE v[i - Len(u)]
  <2>1. t = u \o v
    BY DEF v
  <2> QED
    BY <2>1, <1>1, <1>2, <1>3
<1>5. ASSUME NEW k \in 1 .. Len(u) PROVE k \in 1 .. Len(t) /\ t[k] = u[k]
  <2>1. k \in 1 .. Len(t) /\ k <= Len(u)
    BY <1>1, <1>3, <1>4
  <2> QED
    BY <2>1, <1>4
<1>6. ASSUME NEW i \in 2 .. Len(s)
      PROVE  i - 1 + Len(u) \in Len(u) + 1 .. Len(t) /\ t[i - 1 + Len(u)] = s[i]
  <2>1. /\ i - 1 + Len(u) \in Len(u) + 1 .. Len(t) /\ i - 1 + Len(u) \in 1 .. Len(t) /\ ~(i - 1 + Len(u) <= Len(u))
        /\ i - 1 + Len(u) - Len(u) = i - 1 /\ i - 1 \in 1 .. Len(s) - 1 /\ i - 1 + 1 = i
    BY <1>1, <1>3, <1>4
  <2>2. PICK j \in 1 .. Len(t) : j = i - 1 + Len(u)
    BY <2>1
  <2>3. t[j] = v[j - Len(u)]
    BY <2>1, <2>2, <1>4
  <2>4. j - Len(u) = i - 1
    BY <2>1, <2>2
  <2>5. v[i - 1] = s[i - 1 + 1]
    BY <2>1, <1>2
  <2> QED
    BY <2>1, <2>2, <2>3, <2>4, <2>5
<1>7. ASSUME NEW k \in 1 .. Len(t), k \notin 1 .. Len(u)
      PROVE  k + 1 - Len(u) \in 2 .. Len(s) /\ t[k] = s[k + 1 - Len(u)]
  <2>1. k + 1 - Len(u) \in 2 .. Len(s) /\ k + 1 - Len(u) - 1 + Len(u) = k
    BY <1>1, <1>3, <1>4, <1>7
  <2> QED
    BY <2>1, <1>6
<1>8. Len(s) \in Nat \ {0} /\ Len(u) \in Nat
  BY <1>1, <1>3
<1> QED
  BY <1>4, <1>5, <1>6, <1>7, <1>8

(* A call among those made. *)
Among(c, calls) == \E k \in 1 .. Len(calls) : calls[k] = c

(* What was to be made before a call that waits still is, or takes the     *)
(* place of what is made now.                                              *)
LEMMA Waiting ==
  ASSUME todo \in Seq(Calls), todo # <<>>, NEW calls \in Seq(Calls), Makes(calls), NEW i \in 2 .. Len(todo)
  PROVE  /\ i - 1 + Len(calls) \in 1 .. Len(todo') /\ todo'[i - 1 + Len(calls)] = todo[i]
         /\ \A c : Sooner(c, i) => Head(todo) = c \/ Sooner(c, i - 1 + Len(calls))'
         /\ \A c : Among(c, calls) => Sooner(c, i - 1 + Len(calls))'
         /\ \A c : i + 1 \in 1 .. Len(todo) /\ todo[i + 1] = c =>
                   i - 1 + Len(calls) + 1 \in 1 .. Len(todo') /\ todo'[i - 1 + Len(calls) + 1] = c
<1> DEFINE n == Len(calls)
           t == todo'
<1>1. /\ t \in Seq(Calls) /\ Len(todo) \in Nat \ {0} /\ n \in Nat /\ Len(t) = n + Len(todo) - 1
      /\ \A k \in 1 .. n : k \in 1 .. Len(t) /\ t[k] = calls[k]
      /\ \A j \in 2 .. Len(todo) : j - 1 + n \in n + 1 .. Len(t) /\ t[j - 1 + n] = todo[j]
  BY HeadReplaced DEF Makes
<1>2. Head(todo) = todo[1]
  OBVIOUS
<1> HIDE DEF n, t
<1>3. i - 1 + n \in 1 .. Len(t) /\ t[i - 1 + n] = todo[i]
  BY <1>1
<1>4. ASSUME NEW c, NEW j \in 1 .. i - 1, todo[j] = c, todo[1] # c
      PROVE  \E m \in 1 .. i - 1 + n - 1 : t[m] = c
  <2>1. Len(todo) \in Nat /\ n \in Nat
    BY <1>1
  <2>2. j # 1
    BY <1>4
  <2>3. j \in 2 .. Len(todo) /\ j - 1 + n \in 1 .. i - 1 + n - 1
    BY <2>1, <2>2
  <2>4. t[j - 1 + n] = todo[j]
    BY <2>3, <1>1
  <2> QED
    BY <2>3, <2>4, <1>4
<1>5. ASSUME NEW c, NEW j \in 1 .. n, calls[j] = c
      PROVE  \E m \in 1 .. i - 1 + n - 1 : t[m] = c
  <2>1. j \in 1 .. i - 1 + n - 1
    BY <1>1
  <2> QED
    BY <2>1, <1>1, <1>5
<1>7. ASSUME NEW c, i + 1 \in 1 .. Len(todo), todo[i + 1] = c
      PROVE  i - 1 + n + 1 \in 1 .. Len(t) /\ t[i - 1 + n + 1] = c
  <2>1. PICK j \in 2 .. Len(todo) : j = i + 1
    BY <1>1, <1>7
  <2>2. j - 1 + n \in 1 .. Len(t) /\ t[j - 1 + n] = todo[j]
    BY <1>1
  <2>3. j - 1 + n = i - 1 + n + 1
    BY <2>1, <1>1
  <2> QED
    BY <2>1, <2>2, <2>3, <1>7
<1>8. \A c : Sooner(c, i) => Head(todo) = c \/ Sooner(c, i - 1 + Len(calls))'
  BY <1>2, <1>4 DEF Sooner, n, t
<1>9. \A c : Among(c, calls) => Sooner(c, i - 1 + Len(calls))'
  BY <1>5 DEF Sooner, Among, n, t
<1>11. \A c : i + 1 \in 1 .. Len(todo) /\ todo[i + 1] = c =>
                   i - 1 + Len(calls) + 1 \in 1 .. Len(todo') /\ todo'[i - 1 + Len(calls) + 1] = c
  BY <1>7 DEF n, t
<1> QED
  BY <1>3, <1>8, <1>9, <1>11 DEF n, t

(* What is to be made is made now, or was to be made before; a call is     *)
(* dropped only when it is made.                                           *)
LEMMA Made ==
  ASSUME todo \in Seq(Calls), todo # <<>>, NEW calls \in Seq(Calls), Makes(calls)
  PROVE  /\ todo' \in Seq(Calls)
         /\ \A k \in 1 .. Len(calls) : k \in 1 .. Len(todo') /\ todo'[k] = calls[k]
         /\ \A c : Pending(c)' => Among(c, calls) \/ Pending(c)
         /\ \A c : Pending(c) => Head(todo) = c \/ Pending(c)'
         /\ \A c : Among(c, calls) => Pending(c)'
         /\ \A c : Once(c) /\ ~Among(c, calls) => Once(c)' /\ (Head(todo) = c => ~Pending(c)')
         /\ Pending(Head(todo))
<1> DEFINE n == Len(calls)
           t == todo'
<1>1. /\ t \in Seq(Calls) /\ Len(todo) \in Nat \ {0} /\ n \in Nat /\ Len(t) = n + Len(todo) - 1
      /\ \A k \in 1 .. n : k \in 1 .. Len(t) /\ t[k] = calls[k]
      /\ \A j \in 2 .. Len(todo) : j - 1 + n \in n + 1 .. Len(t) /\ t[j - 1 + n] = todo[j]
      /\ \A k \in 1 .. Len(t) : k \in 1 .. n \/ (k + 1 - n \in 2 .. Len(todo) /\ t[k] = todo[k + 1 - n])
  BY SMTT(30), HeadReplaced DEF Makes
<1>2. Head(todo) = todo[1] /\ 1 \in 1 .. Len(todo)
  BY <1>1
<1> HIDE DEF n, t
<1>3. ASSUME NEW c, NEW k \in 1 .. Len(t), t[k] = c
      PROVE  (\E j \in 1 .. n : calls[j] = c) \/ (\E j \in 1 .. Len(todo) : todo[j] = c)
  <2>1. CASE k \in 1 .. n
    BY <2>1, <1>1, <1>3
  <2>2. CASE k + 1 - n \in 2 .. Len(todo) /\ t[k] = todo[k + 1 - n]
    <3>1. k + 1 - n \in 1 .. Len(todo)
      BY <2>2, <1>1
    <3> QED
      BY <2>2, <3>1, <1>3
  <2> QED
    BY <2>1, <2>2, <1>1
<1>4. ASSUME NEW c, NEW k \in 1 .. Len(todo), todo[k] = c, todo[1] # c
      PROVE  \E j \in 1 .. Len(t) : t[j] = c
  <2>1. k \in 2 .. Len(todo)
    BY <1>1, <1>4
  <2>2. k - 1 + n \in 1 .. Len(t)
    BY <1>1, <2>1
  <2> QED
    BY <2>1, <2>2, <1>1, <1>4
<1>5. ASSUME NEW c, ~Among(c, calls), NEW k \in 1 .. Len(t), t[k] = c
      PROVE  k + 1 - n \in 2 .. Len(todo) /\ todo[k + 1 - n] = c
  BY <1>1, <1>5 DEF Among, n
<1>6. ASSUME NEW c, Once(c), ~Among(c, calls)
      PROVE  /\ \A j, k \in 1 .. Len(t) : t[j] = c /\ t[k] = c => j = k
             /\ todo[1] = c => ~\E k \in 1 .. Len(t) : t[k] = c
  <2>1. ASSUME NEW j \in 1 .. Len(t), NEW k \in 1 .. Len(t), t[j] = c, t[k] = c PROVE j = k
    <3>1. /\ j + 1 - n \in 2 .. Len(todo) /\ todo[j + 1 - n] = c
          /\ k + 1 - n \in 2 .. Len(todo) /\ todo[k + 1 - n] = c
      BY <2>1, <1>5, <1>6
    <3>2. j + 1 - n \in 1 .. Len(todo) /\ k + 1 - n \in 1 .. Len(todo)
      BY <3>1, <1>1
    <3>3. j + 1 - n = k + 1 - n
      BY <3>1, <3>2, <1>6 DEF Once
    <3> QED
      BY <3>3, <1>1
  <2>2. ASSUME todo[1] = c, NEW k \in 1 .. Len(t), t[k] = c PROVE FALSE
    <3>1. k + 1 - n \in 2 .. Len(todo) /\ todo[k + 1 - n] = c
      BY <2>2, <1>5, <1>6
    <3>2. k + 1 - n \in 1 .. Len(todo) /\ k + 1 - n # 1
      BY <3>1, <1>1
    <3> QED
      BY <3>1, <3>2, <2>2, <1>2, <1>6 DEF Once
  <2> QED
    BY <2>1, <2>2
<1>7. \A c : Pending(c)' => Among(c, calls) \/ Pending(c)
  BY <1>3 DEF Pending, Among, n, t
<1>8. \A c : Pending(c) => Head(todo) = c \/ Pending(c)'
  BY <1>2, <1>4 DEF Pending, t
<1>9. \A c : Among(c, calls) => Pending(c)'
  BY <1>1 DEF Pending, Among, n, t
<1>10. \A c : Once(c) /\ ~Among(c, calls) => Once(c)' /\ (Head(todo) = c => ~Pending(c)')
  BY <1>2, <1>6 DEF Pending, Once, t
<1>11. Pending(Head(todo))
  BY <1>2 DEF Pending
<1> QED
  BY <1>1, <1>7, <1>8, <1>9, <1>10, <1>11 DEF n, t

(* A call that is not waiting and is made once waits once. *)
LEMMA OnceMade ==
  ASSUME todo \in Seq(Calls), todo # <<>>, NEW calls \in Seq(Calls), Makes(calls), NEW c, ~Pending(c),
         \A j, k \in 1 .. Len(calls) : calls[j] = c /\ calls[k] = c => j = k
  PROVE  Once(c)'
<1> DEFINE n == Len(calls)
           t == todo'
<1>1. /\ Len(todo) \in Nat \ {0} /\ n \in Nat
      /\ \A k \in 1 .. n : t[k] = calls[k]
      /\ \A k \in 1 .. Len(t) : k \in 1 .. n \/ (k + 1 - n \in 2 .. Len(todo) /\ t[k] = todo[k + 1 - n])
  BY HeadReplaced DEF Makes
<1> HIDE DEF n, t
<1>2. ASSUME NEW k \in 1 .. Len(t), t[k] = c PROVE k \in 1 .. n /\ calls[k] = c
  <2>1. ASSUME k + 1 - n \in 2 .. Len(todo), t[k] = todo[k + 1 - n] PROVE FALSE
    <3>1. k + 1 - n \in 1 .. Len(todo)
      BY <1>1, <2>1
    <3> QED
      BY <1>2, <2>1, <3>1 DEF Pending
  <2> QED
    BY <1>1, <1>2, <2>1
<1>3. \A j, k \in 1 .. Len(t) : t[j] = c /\ t[k] = c => j = k
  BY <1>2 DEF n
<1> QED
  BY <1>3 DEF Once, t

(* A process that has something to do has been started. *)
LEMMA Running ==
  ASSUME StartupInv, todo # <<>>
  PROVE  /\ boot \in Boots /\ boot # NoBoot /\ todo \in Seq(Calls) /\ 1 \in 1 .. Len(todo)
         /\ AllFounded /\ InstalledOnce /\ AdminOnce /\ Orderly /\ Halfway /\ UrlsRight
         /\ Founded(1) /\ todo[1] = Head(todo) /\ \A c : ~Sooner(c, 1)
         /\ ~site.refused /\ Pending(Head(todo))
<1>1. boot # NoBoot
  BY DEF StartupInv, StartupTypes, StartupInit
<1>2. /\ todo \in Seq(Calls) /\ boot \in Boots /\ AllFounded /\ InstalledOnce /\ AdminOnce /\ Orderly /\ Halfway
      /\ UrlsRight
  BY <1>1 DEF StartupInv, StartupTypes
<1>3. 1 \in 1 .. Len(todo) /\ todo[1] = Head(todo)
  BY <1>2
<1>4. \A c : ~Sooner(c, 1)
  BY DEF Sooner
<1>5. ~site.refused /\ Pending(Head(todo)) /\ Founded(1)
  BY <1>2, <1>3 DEF InstalledOnce, Pending, AllFounded
<1> QED
  BY <1>1, <1>2, <1>3, <1>4, <1>5

LEMMA TypesAre ==
  ASSUME StartupInv
  PROVE  django \in DjangoRecord /\ urls \in UrlsRecord /\ site \in SiteRecord /\ django.configured \in BOOLEAN
<1> QED
  BY DEF StartupInv, StartupTypes, DjangoRecord

(* A step after which what was founded still is. *)
Solid(calls) ==
  /\ boot' = boot
  /\ django.configured \/ Head(todo) = "configure" => django'.configured
  /\ django'.configured /\ ~django.configured => Among("admin ready", calls)
  /\ django.admin \/ Head(todo) = "admin ready" => django'.admin
  /\ Told => Told'
  /\ Told \/ site.busy \/ site.installed => Told' \/ site'.busy \/ site'.installed
  /\ site.mounted \/ Head(todo) \in Mounting => site'.mounted \/ \E c \in Mounting : Among(c, calls)
  /\ Mounts => Mounts'
  /\ Final => Final'
  /\ urls.patterns # NotImported \/ Head(todo) = "import" => urls'.patterns # NotImported
  /\ site.registered # Unset => site'.registered # Unset

LEMMA FoundedStays ==
  ASSUME todo \in Seq(Calls), todo # <<>>, NEW calls \in Seq(Calls), Makes(calls), Solid(calls),
         NEW i \in 2 .. Len(todo), Founded(i)
  PROVE  Founded(i - 1 + Len(calls))'
<1> DEFINE w == i - 1 + Len(calls)
<1>1. /\ todo'[w] = todo[i]
      /\ \A c : Sooner(c, i) => Head(todo) = c \/ Sooner(c, w)'
      /\ \A c : Among(c, calls) => Sooner(c, w)'
      /\ \A c : i + 1 \in 1 .. Len(todo) /\ todo[i + 1] = c => w + 1 \in 1 .. Len(todo') /\ todo'[w + 1] = c
  BY Waiting
<1>2. i # 1
  OBVIOUS
<1> HIDE DEF w
<1>3. todo'[w] # "reload"
  BY <1>1 DEF Founded
<1>4. todo'[w] = "resolve" => django'.configured \/ Sooner("configure", w)'
  BY <1>1 DEF Founded, Solid
<1>5. todo'[w] = "resolve" =>
        Told' \/ Sooner("admin ready", w)' \/ (~django'.configured /\ Sooner("configure", w)')
  <2>1. Sooner("admin ready", i) => Told' \/ Sooner("admin ready", w)'
    BY <1>1 DEF Solid, Told
  <2>2. Told => Told'
    BY DEF Solid
  <2>3. ~django.configured /\ Sooner("configure", i) =>
          Sooner("admin ready", w)' \/ (~django'.configured /\ Sooner("configure", w)')
    BY <1>1 DEF Solid
  <2> QED
    BY <1>1, <2>1, <2>2, <2>3 DEF Founded
<1>6. todo'[w] = "refresh" => django'.admin
  BY <1>1 DEF Founded, Solid
<1>7. todo'[w] = "all ready" => django'.admin \/ Sooner("admin ready", w)'
  BY <1>1 DEF Founded, Solid
<1>8. /\ todo'[w] \in {"auto mount", "import", "mount"} => Told'
      /\ todo'[w] = "auto mount" => Mounts'
  BY <1>1 DEF Founded, Solid
<1>9. todo'[w] = "install" =>
        Told' \/ site'.busy \/ site'.installed \/ Sooner("admin ready", w)' \/ (~django'.configured /\ w = 1)
  <2>1. Sooner("admin ready", i) => Told' \/ Sooner("admin ready", w)'
    BY <1>1 DEF Solid, Told
  <2> QED
    BY <1>1, <1>2, <2>1 DEF Founded, Solid
<1>10. todo'[w] = "reflex ready" /\ boot'.order # "before" => django'.admin \/ Sooner("admin ready", w)'
  BY <1>1 DEF Founded, Solid
<1>11. todo'[w] = "reflex ready" /\ boot'.order = "before" => w + 1 \in 1 .. Len(todo') /\ todo'[w + 1] = "admin ready"
  BY <1>1 DEF Founded, Solid
<1>12. /\ todo'[w] = "mount" => urls'.patterns # NotImported \/ Sooner("import", w)'
       /\ todo'[w] \in {"append", "mount it"} => urls'.patterns # NotImported
  BY <1>1 DEF Founded, Solid
<1>13. /\ todo'[w] = "append" => CatchAll \in Range(boot'.urls)
       /\ todo'[w] = "mount it" /\ Unsaid' => site'.registered # Unset
  BY <1>1 DEF Founded, Solid, Unsaid
<1>14. todo'[w] = "patch" => Final' /\ (site'.mounted \/ \E c \in Mounting : Sooner(c, w)')
  <2>1. (\E c \in Mounting : Sooner(c, i)) => site'.mounted \/ \E c \in Mounting : Sooner(c, w)'
    BY <1>1 DEF Solid
  <2>2. site.mounted => site'.mounted \/ \E c \in Mounting : Sooner(c, w)'
    BY <1>1 DEF Solid
  <2> QED
    BY <1>1, <2>1, <2>2 DEF Founded, Solid
<1>15. Founded(w)'
  BY <1>3, <1>4, <1>5, <1>6, <1>7, <1>8, <1>9, <1>10, <1>11, <1>12, <1>13, <1>14 DEF Founded
<1> QED
  BY <1>15 DEF w

(* All calls are founded when those that are made are. *)
LEMMA FoundedKept ==
  ASSUME todo \in Seq(Calls), todo # <<>>, NEW calls \in Seq(Calls), Makes(calls), Solid(calls), AllFounded,
         \A k \in 1 .. Len(calls) : Founded(k)'
  PROVE  AllFounded'
<1>1. /\ Len(todo) \in Nat \ {0} /\ Len(calls) \in Nat /\ Len(todo') = Len(calls) + Len(todo) - 1
      /\ \A k \in 1 .. Len(todo') :
           k \in 1 .. Len(calls) \/ (k + 1 - Len(calls) \in 2 .. Len(todo) /\ todo'[k] = todo[k + 1 - Len(calls)])
  BY HeadReplaced DEF Makes
<1>2. ASSUME NEW k \in 1 .. Len(todo') PROVE Founded(k)'
  <2>1. CASE k \in 1 .. Len(calls)
    BY <2>1
  <2>2. CASE k \notin 1 .. Len(calls)
    <3>1. PICK i \in 2 .. Len(todo) : i = k + 1 - Len(calls)
      BY <2>2, <1>1
    <3>2. i \in 1 .. Len(todo) /\ k = i - 1 + Len(calls)
      BY <3>1, <1>1
    <3>3. Founded(i - 1 + Len(calls))'
      BY <3>2, FoundedStays DEF AllFounded
    <3> QED
      BY <3>2, <3>3
  <2> QED
    BY <2>1, <2>2
<1> QED
  BY <1>2 DEF AllFounded

LEMMA PillarsAre ==
  ASSUME NEW b \in Boots, NEW c \in BOOLEAN
  PROVE  Pillars(b, c) \in PillarRecord /\ Pillars(b, c) # NoConfig /\ Pillars(b, c).mount = MountPillar(b, c)
<1>1. b \in BootRecord
  BY StartupAssumption
<1>2. /\ b.embed \in {"on", "off", "unset"} /\ b.mount \in {"on", "off", "unset"} /\ b.bridge \in {"on", "off", "unset"}
      /\ b.settingMount \in {"on", "off", "unset"} /\ b.server \in {"url", "unset"}
      /\ b.settingServer \in {"url", "unset"}
  BY <1>1 DEF BootRecord
<1>3. /\ Default(b.profile).embed \in {"on", "off"} /\ Default(b.profile).mount \in {"on", "off"}
      /\ Default(b.profile).bridge \in {"on", "off"}
  BY DEF Default
<1>4. SettingMount(b, c) \in {"on", "off", "unset"} /\ SettingServer(b, c) \in {"url", "unset"}
  BY <1>2 DEF SettingMount, SettingServer
<1>5. /\ EmbedPillar(b, c) \in {"on", "off"} /\ MountPillar(b, c) \in {"on", "off"}
      /\ ProxyPillar(b, c) \in {"url", "unset"} /\ BridgePillar(b) \in {"on", "off"}
  BY <1>2, <1>3, <1>4 DEF EmbedPillar, MountPillar, ProxyPillar, BridgePillar, Or
<1>6. Pillars(b, c) \in PillarRecord /\ Pillars(b, c).mount = MountPillar(b, c)
  BY <1>5 DEF Pillars, PillarRecord
<1>7. ASSUME Pillars(b, c) = NoConfig PROVE FALSE
  <2>1. "embed" \in DOMAIN Pillars(b, c)
    BY DEF Pillars
  <2>2. "embed" \notin DOMAIN NoConfig
    BY DEF NoConfig
  <2> QED
    BY <2>1, <2>2, <1>7
<1> QED
  BY <1>6, <1>7

(* What the configuration and the settings say changes with them only. *)
LEMMA Unmoved ==
  ASSUME boot' = boot, site'.config = site.config, django'.configured = django.configured
  PROVE  /\ MountEnabled' = MountEnabled /\ Mountable' = Mountable /\ Final' = Final
         /\ (site.mounted => site'.mounted) => (Mounts => Mounts')
<1>1. MountEnabled' = MountEnabled /\ Mountable' = Mountable /\ Final' = Final
  BY DEF MountEnabled, Mountable, Final
<1> QED
  BY <1>1 DEF Mounts

LEMMA TypesStay ==
  ASSUME StartupInv, todo # <<>>, boot' = boot, todo' \in Seq(Calls), django' \in DjangoRecord, urls' \in UrlsRecord,
         site' \in SiteRecord, reflexApp' = reflexApp
  PROVE  StartupTypes'
<1>1. boot \in Boots /\ boot # NoBoot
  BY Running
<1> QED
  BY <1>1 DEF StartupTypes, StartupInv

LEMMA InstalledStays ==
  ASSUME InstalledOnce, ~site.refused, todo \in Seq(Calls), todo # <<>>, NEW calls \in Seq(Calls), Makes(calls),
         ~Among("patch", calls), ~Among("resolve", calls), site'.busy = site.busy, site'.installed = site.installed,
         site'.refused = site.refused, site.mounted => site'.mounted, Final => Final'
  PROVE  InstalledOnce'
<1>1. /\ Once("patch")' /\ (Pending("patch")' => Pending("patch"))
      /\ Once("resolve")' /\ (Pending("resolve")' => Pending("resolve"))
  BY Made DEF InstalledOnce
<1> QED
  BY <1>1 DEF InstalledOnce

LEMMA AdminStays ==
  ASSUME AdminOnce, todo \in Seq(Calls), todo # <<>>, NEW calls \in Seq(Calls), Makes(calls),
         Head(todo) # "admin ready", ~Among("admin ready", calls), ~Among("reflex ready", calls),
         django'.configured = django.configured, django'.admin = django.admin, django'.wrapped = django.wrapped,
         django'.ready => django.admin, site.refused => site'.refused
  PROVE  AdminOnce'
<1>1. /\ Once("admin ready")' /\ (Pending("admin ready")' <=> Pending("admin ready"))
      /\ Pending("reflex ready")' => Pending("reflex ready")
  BY Made DEF AdminOnce
<1> QED
  BY <1>1 DEF AdminOnce

(* Where mounting is not overtaken, it is so by the calls that neither ask *)
(* for the configuration nor add a catch-all.                              *)
LEMMA NoMounter ==
  ASSUME Orderly, Single, todo # <<>>, Head(todo) = todo[1], Head(todo) # "install", Head(todo) \notin Mounters
  PROVE  \A c \in Mounters : ~Pending(c)
<1> QED
  BY DEF Orderly, NotOvertaken, Pending

LEMMA OrderlyStays ==
  ASSUME Orderly, todo \in Seq(Calls), todo # <<>>, NEW calls \in Seq(Calls), Makes(calls), boot' = boot,
         Head(todo) # "install", Head(todo) \notin Mounters, \A c \in Mounters : ~Among(c, calls),
         site.busy \/ site.installed => site'.busy \/ site'.installed
  PROVE  Orderly'
<1>0. Head(todo) = todo[1] /\ 1 \in 1 .. Len(todo) /\ Len(<<"install">>) = 1 /\ <<"install">>[1] = "install"
  OBVIOUS
<1>1. ASSUME Single PROVE \A k \in 1 .. Len(todo') : todo'[k] \notin Mounters
  <2>1. \A c \in Mounters : ~Pending(c)
    BY <1>0, <1>1, NoMounter
  <2>2. \A c \in Mounters : ~Pending(c)'
    BY <2>1, Made
  <2> QED
    BY <2>2 DEF Pending
<1>2. NotOvertaken'
  BY <1>1 DEF NotOvertaken, Single
<1>3. ReflexFirst'
  BY <1>0 DEF Orderly, ReflexFirst
<1> QED
  BY <1>2, <1>3 DEF Orderly

LEMMA HalfwayStays ==
  ASSUME Halfway, todo \in Seq(Calls), todo # <<>>, NEW calls \in Seq(Calls), Makes(calls), boot' = boot,
         Head(todo) # "mount it", site.refused => site'.refused,
         Unsaid /\ site'.registered # Unset /\ CatchAll \notin Range(urls'.patterns) =>
           site.registered # Unset /\ CatchAll \notin Range(urls.patterns)
  PROVE  Halfway'
<1>1. Pending("mount it") => Pending("mount it")'
  BY Made
<1>2. Unsaid' = Unsaid
  BY DEF Unsaid
<1> QED
  BY <1>1, <1>2 DEF Halfway

LEMMA UrlsStay ==
  ASSUME UrlsRight, boot' = boot, reflexApp' = reflexApp, urls'.patterns = urls.patterns,
         urls'.complete = urls.complete, urls'.spared = urls.spared, urls'.tooEarly = urls.tooEarly,
         site'.mounted => site.mounted \/ ~Mountable,
         Unsaid => site'.registered = site.registered, site.hasty => site'.hasty
  PROVE  UrlsRight'
<1>1. UrlsMounted'
  BY DEF UrlsRight, UrlsMounted, Mountable, Single
<1>2. UrlsAgreed'
  BY DEF UrlsRight, UrlsAgreed, Unsaid
<1>3. UrlsComplete'
  BY DEF UrlsRight, UrlsComplete
<1> QED
  BY <1>1, <1>2, <1>3 DEF UrlsRight

LEMMA FewCalls ==
  /\ <<>> \in Seq(Calls) /\ (\A k \in 1 .. Len(<<>>) : FALSE) /\ \A c : ~Among(c, <<>>)
  /\ \A a \in Calls : /\ <<a>> \in Seq(Calls) /\ (\A k \in 1 .. Len(<<a>>) : k = 1) /\ <<a>>[1] = a
                      /\ \A c : Among(c, <<a>>) <=> c = a
  /\ \A a, b \in Calls : /\ <<a, b>> \in Seq(Calls) /\ (\A k \in 1 .. Len(<<a, b>>) : k = 1 \/ k = 2)
                         /\ <<a, b>>[1] = a /\ <<a, b>>[2] = b /\ 1 \in 1 .. Len(<<a, b>>) /\ 2 \in 1 .. Len(<<a, b>>)
                         /\ \A c : Among(c, <<a, b>>) <=> c = a \/ c = b
<1>1. <<>> \in Seq(Calls) /\ Len(<<>>) = 0
  OBVIOUS
<1>2. \A k \in 1 .. Len(<<>>) : FALSE
  BY <1>1
<1>3. \A c : ~Among(c, <<>>)
  BY <1>2 DEF Among
<1>4. ASSUME NEW a \in Calls
      PROVE  /\ <<a>> \in Seq(Calls) /\ (\A k \in 1 .. Len(<<a>>) : k = 1) /\ <<a>>[1] = a
             /\ \A c : Among(c, <<a>>) <=> c = a
  <2>1. <<a>> \in Seq(Calls) /\ Len(<<a>>) = 1 /\ <<a>>[1] = a
    OBVIOUS
  <2>2. \A k \in 1 .. Len(<<a>>) : k = 1
    BY <2>1
  <2>3. 1 \in 1 .. Len(<<a>>)
    BY <2>1
  <2>4. \A c : Among(c, <<a>>) <=> c = a
    BY <2>1, <2>2, <2>3 DEF Among
  <2> QED
    BY <2>1, <2>2, <2>4
<1>5. ASSUME NEW a \in Calls, NEW b \in Calls
      PROVE  /\ <<a, b>> \in Seq(Calls) /\ (\A k \in 1 .. Len(<<a, b>>) : k = 1 \/ k = 2)
             /\ <<a, b>>[1] = a /\ <<a, b>>[2] = b /\ 1 \in 1 .. Len(<<a, b>>) /\ 2 \in 1 .. Len(<<a, b>>)
             /\ \A c : Among(c, <<a, b>>) <=> c = a \/ c = b
  <2>1. <<a, b>> \in Seq(Calls) /\ Len(<<a, b>>) = 2 /\ <<a, b>>[1] = a /\ <<a, b>>[2] = b
    OBVIOUS
  <2>2. \A k \in 1 .. Len(<<a, b>>) : k = 1 \/ k = 2
    BY <2>1
  <2>3. 1 \in 1 .. Len(<<a, b>>) /\ 2 \in 1 .. Len(<<a, b>>)
    BY <2>1
  <2>4. \A c : Among(c, <<a, b>>) <=> c = a \/ c = b
    BY <2>1, <2>2, <2>3 DEF Among
  <2> QED
    BY <2>1, <2>2, <2>3, <2>4
<1> QED
  BY <1>1, <1>2, <1>3, <1>4, <1>5

(* The calls made, and that they come first. *)
LEMMA MadeFirst ==
  ASSUME todo \in Seq(Calls), todo # <<>>, NEW calls \in Seq(Calls), Makes(calls)
  PROVE  todo' \in Seq(Calls) /\ \A k \in 1 .. Len(calls) : k \in 1 .. Len(todo') /\ todo'[k] = calls[k]
<1> QED
  BY Made

(* A step of a call that neither installs nor gets Django ready. *)
LEMMA Ordinary ==
  ASSUME StartupInv, todo # <<>>, NEW calls \in Seq(Calls), Makes(calls), boot' = boot, reflexApp' = reflexApp,
         django' \in DjangoRecord, urls' \in UrlsRecord, site' \in SiteRecord,
         Head(todo) = "configure" => django.configured, Head(todo) # "admin ready",
         ~Among("admin ready", calls), ~Among("reflex ready", calls), ~Among("patch", calls),
         ~Among("resolve", calls),
         django'.configured = django.configured, django'.admin = django.admin, django'.wrapped = django.wrapped,
         django'.ready = django.ready,
         site'.config = site.config, site'.installed = site.installed, site'.busy = site.busy,
         site'.refused = site.refused, site.hasty => site'.hasty, site.mounted => site'.mounted,
         Head(todo) \in Mounting => site'.mounted \/ \E c \in Mounting : Among(c, calls),
         urls.patterns # NotImported \/ Head(todo) = "import" => urls'.patterns # NotImported,
         site.registered # Unset => site'.registered # Unset,
         \A k \in 1 .. Len(calls) : Founded(k)',
         Orderly', Halfway', UrlsRight'
  PROVE  StartupInv'
<1>1. /\ todo \in Seq(Calls) /\ boot # NoBoot /\ AllFounded /\ InstalledOnce /\ AdminOnce /\ ~site.refused
  BY Running
<1>2. (Mounts => Mounts') /\ Final' = Final
  BY Unmoved
<1>3. Solid(calls)
  BY <1>2 DEF Solid, Told
<1>4. AllFounded'
  BY <1>1, <1>3, FoundedKept
<1>5. todo' \in Seq(Calls)
  BY <1>1, Made
<1>6. StartupTypes'
  BY <1>5, TypesStay
<1>7. InstalledOnce'
  BY <1>1, <1>2, InstalledStays
<1>8. AdminOnce'
  BY <1>1, AdminStays DEF AdminOnce
<1> QED
  BY <1>4, <1>6, <1>7, <1>8 DEF StartupInv

(* What getting Django ready makes, in whatever order. *)
ReadyCalls(q, order) ==
  /\ q \in Seq(Calls)
  /\ Among("admin ready", q) /\ ~Among("patch", q) /\ ~Among("resolve", q)
  /\ \A j, k \in 1 .. Len(q) : q[j] = "admin ready" /\ q[k] = "admin ready" => j = k
  /\ \A k \in 1 .. Len(q) :
       /\ q[k] \in {"hook", "admin ready", "reflex ready", "all ready", "install"}
       /\ q[k] \in {"all ready", "install"} => \E j \in 1 .. k - 1 : j \in 1 .. Len(q) /\ q[j] = "admin ready"
       /\ q[k] = "reflex ready" =>
            IF order = "before" THEN k + 1 \in 1 .. Len(q) /\ q[k + 1] = "admin ready"
            ELSE \E j \in 1 .. k - 1 : j \in 1 .. Len(q) /\ q[j] = "admin ready"

LEMMA ReadyBefore == ReadyCalls(<<"hook", "reflex ready", "admin ready", "all ready", "install">>, "before")
<1> DEFINE q == <<"hook", "reflex ready", "admin ready", "all ready", "install">>
<1>1. q \in Seq(Calls)
  BY DEF Calls
<1>0. Len(q) = 5
  OBVIOUS
<1>2. /\ q[1] = "hook" /\ q[2] = "reflex ready" /\ q[3] = "admin ready" /\ q[4] = "all ready"
      /\ q[5] = "install"
  OBVIOUS
<1> HIDE DEF q
<1>3. /\ \A k \in 1 .. Len(q) : k = 1 \/ k = 2 \/ k = 3 \/ k = 4 \/ k = 5
      /\ 3 \in 1 .. Len(q)
  BY <1>0
<1>4. 3 \in 1 .. 4 - 1 /\ 3 \in 1 .. 5 - 1 /\ 2 + 1 = 3
  OBVIOUS
<1>5. ASSUME NEW k \in 1 .. Len(q)
      PROVE  /\ q[k] \in {"hook", "admin ready", "reflex ready", "all ready", "install"}
             /\ q[k] \in {"all ready", "install"} => \E j \in 1 .. k - 1 : j \in 1 .. Len(q) /\ q[j] = "admin ready"
             /\ q[k] = "reflex ready" => k + 1 \in 1 .. Len(q) /\ q[k + 1] = "admin ready"
             /\ q[k] = "admin ready" => k = 3
             /\ q[k] # "patch" /\ q[k] # "resolve"
  <2>1. CASE k = 1
    BY <2>1, <1>2
  <2>2. CASE k = 2
    BY <2>2, <1>2, <1>3, <1>4
  <2>3. CASE k = 3
    BY <2>3, <1>2
  <2>4. CASE k = 4
    BY <2>4, <1>2, <1>3, <1>4
  <2>5. CASE k = 5
    BY <2>5, <1>2, <1>3, <1>4
  <2> QED
    BY <1>3, <2>1, <2>2, <2>3, <2>4, <2>5
<1>6. Among("admin ready", q) /\ ~Among("patch", q) /\ ~Among("resolve", q)
  BY <1>2, <1>3, <1>5 DEF Among
<1> QED
  BY <1>1, <1>5, <1>6 DEF q, ReadyCalls

LEMMA ReadyAfter ==
  ASSUME NEW order, order # "before"
  PROVE  ReadyCalls(<<"hook", "admin ready", "reflex ready", "all ready", "install">>, order)
<1> DEFINE q == <<"hook", "admin ready", "reflex ready", "all ready", "install">>
<1>1. q \in Seq(Calls)
  BY DEF Calls
<1>0. Len(q) = 5
  OBVIOUS
<1>2. /\ q[1] = "hook" /\ q[2] = "admin ready" /\ q[3] = "reflex ready" /\ q[4] = "all ready"
      /\ q[5] = "install"
  OBVIOUS
<1> HIDE DEF q
<1>3. /\ \A k \in 1 .. Len(q) : k = 1 \/ k = 2 \/ k = 3 \/ k = 4 \/ k = 5
      /\ 2 \in 1 .. Len(q)
  BY <1>0
<1>4. 2 \in 1 .. 3 - 1 /\ 2 \in 1 .. 4 - 1 /\ 2 \in 1 .. 5 - 1
  OBVIOUS
<1>5. ASSUME NEW k \in 1 .. Len(q)
      PROVE  /\ q[k] \in {"hook", "admin ready", "reflex ready", "all ready", "install"}
             /\ q[k] \in {"all ready", "install", "reflex ready"} =>
                  \E j \in 1 .. k - 1 : j \in 1 .. Len(q) /\ q[j] = "admin ready"
             /\ q[k] = "admin ready" => k = 2
             /\ q[k] # "patch" /\ q[k] # "resolve"
  <2>1. CASE k = 1
    BY <2>1, <1>2
  <2>2. CASE k = 2
    BY <2>2, <1>2
  <2>3. CASE k = 3
    BY <2>3, <1>2, <1>3, <1>4
  <2>4. CASE k = 4
    BY <2>4, <1>2, <1>3, <1>4
  <2>5. CASE k = 5
    BY <2>5, <1>2, <1>3, <1>4
  <2> QED
    BY <1>3, <2>1, <2>2, <2>3, <2>4, <2>5
<1>6. Among("admin ready", q) /\ ~Among("patch", q) /\ ~Among("resolve", q)
  BY <1>2, <1>3, <1>5 DEF Among
<1> QED
  BY <1>1, <1>5, <1>6 DEF q, ReadyCalls

LEMMA ReadyWithout ==
  ASSUME NEW order PROVE ReadyCalls(<<"hook", "admin ready", "all ready", "install">>, order)
<1> DEFINE q == <<"hook", "admin ready", "all ready", "install">>
<1>1. q \in Seq(Calls)
  BY DEF Calls
<1>0. Len(q) = 4
  OBVIOUS
<1>2. /\ q[1] = "hook" /\ q[2] = "admin ready" /\ q[3] = "all ready" /\ q[4] = "install"
  OBVIOUS
<1> HIDE DEF q
<1>3. /\ \A k \in 1 .. Len(q) : k = 1 \/ k = 2 \/ k = 3 \/ k = 4
      /\ 2 \in 1 .. Len(q)
  BY <1>0
<1>4. 2 \in 1 .. 3 - 1 /\ 2 \in 1 .. 4 - 1
  OBVIOUS
<1>5. ASSUME NEW k \in 1 .. Len(q)
      PROVE  /\ q[k] \in {"hook", "admin ready", "all ready", "install"}
             /\ q[k] \in {"all ready", "install"} => \E j \in 1 .. k - 1 : j \in 1 .. Len(q) /\ q[j] = "admin ready"
             /\ q[k] = "admin ready" => k = 2
             /\ q[k] # "patch" /\ q[k] # "resolve" /\ q[k] # "reflex ready"
  <2>1. CASE k = 1
    BY <2>1, <1>2
  <2>2. CASE k = 2
    BY <2>2, <1>2
  <2>3. CASE k = 3
    BY <2>3, <1>2, <1>3, <1>4
  <2>4. CASE k = 4
    BY <2>4, <1>2, <1>3, <1>4
  <2> QED
    BY <1>3, <2>1, <2>2, <2>3, <2>4
<1>6. Among("admin ready", q) /\ ~Among("patch", q) /\ ~Among("resolve", q)
  BY <1>2, <1>3, <1>5 DEF Among
<1> QED
  BY <1>1, <1>5, <1>6 DEF q, ReadyCalls

(* Returning from a call that was not to do anything. *)
LEMMA OrderlySkips ==
  ASSUME Orderly, todo \in Seq(Calls), todo # <<>>, Makes(<<>>), boot' = boot, urls' = urls,
         site'.busy = site.busy, site'.installed = site.installed,
         Head(todo) \notin Mounters, Head(todo) = "install" => site.busy \/ site.installed
  PROVE  Orderly'
<1>1. <<>> \in Seq(Calls) /\ (\A k \in 1 .. Len(<<>>) : FALSE) /\ \A c : ~Among(c, <<>>)
  BY FewCalls
<1>2. CASE Head(todo) # "install"
  BY <1>1, <1>2, OrderlyStays
<1>3. CASE Head(todo) = "install"
  <2>1. /\ Len(todo) \in Nat \ {0} /\ Len(<<>>) = 0
        /\ \A k \in 1 .. Len(todo') : k + 1 - Len(<<>>) \in 2 .. Len(todo) /\ todo'[k] = todo[k + 1 - Len(<<>>)]
        /\ Len(todo') = Len(<<>>) + Len(todo) - 1
    BY <1>1, HeadReplaced DEF Makes
  <2>2. ASSUME Single, NEW k \in 1 .. Len(todo'), todo'[k] \in Mounters
        PROVE  k = 1 /\ CatchAll \notin Range(urls.patterns)
    <3>1. PICK i \in 2 .. Len(todo) : i = k + 1 /\ todo[i] \in Mounters
      BY <2>1, <2>2
    <3>2. i \in 1 .. Len(todo) /\ i # 1
      BY <2>1, <3>1
    <3>3. (i = 1 \/ i = 2) /\ CatchAll \notin Range(urls.patterns)
      BY <2>2, <3>1, <3>2 DEF Orderly, NotOvertaken
    <3> QED
      BY <2>1, <3>1, <3>2, <3>3
  <2>3. NotOvertaken'
    BY <2>2 DEF NotOvertaken, Single
  <2>4. ReflexFirst'
    BY <1>3 DEF ReflexFirst
  <2> QED
    BY <2>3, <2>4 DEF Orderly
<1> QED
  BY <1>2, <1>3

(* A call that returns and leaves all as it is. *)
LEMMA Skipped ==
  ASSUME StartupInv, todo # <<>>, Makes(<<>>), UNCHANGED <<boot, django, urls, site, reflexApp>>,
         Head(todo) # "admin ready", Head(todo) = "import" => urls.patterns # NotImported,
         Head(todo) \notin Mounting, Head(todo) \notin Mounters,
         Head(todo) = "configure" => django.configured, Head(todo) = "install" => site.busy \/ site.installed
  PROVE  StartupInv'
<1>1. /\ todo \in Seq(Calls) /\ boot # NoBoot /\ Orderly /\ Halfway /\ UrlsRight
  BY Running
<1>2. <<>> \in Seq(Calls) /\ (\A k \in 1 .. Len(<<>>) : FALSE) /\ \A c : ~Among(c, <<>>)
  BY FewCalls
<1>3. Orderly'
  BY <1>1, OrderlySkips
<1>4. Halfway'
  BY <1>1, <1>2, HalfwayStays DEF Mounters
<1>5. UrlsRight'
  BY <1>1, UrlsStay
<1>6. django' \in DjangoRecord /\ urls' \in UrlsRecord /\ site' \in SiteRecord
  BY TypesAre
<1> QED
  BY <1>2, <1>3, <1>4, <1>5, <1>6, Ordinary

LEMMA InstallKeeps == ASSUME StartupInv, Install PROVE StartupInv'
<1>1. /\ todo # <<>> /\ Head(todo) = "install"
      /\ boot' = boot /\ django' = django /\ urls' = urls /\ reflexApp' = reflexApp
  BY DEF Install, Doing
<1>2. CASE site.installed \/ site.busy
  <2>1. Makes(<<>>) /\ site' = site
    BY <1>2 DEF Install, Returns
  <2>2. "install" \notin Mounting /\ "install" \notin Mounters
    BY DEF Mounting, Mounters
  <2> QED
    BY <1>1, <1>2, <2>1, <2>2, Skipped
<1>3. CASE ~(site.installed \/ site.busy)
  <2> DEFINE s == <<"configure", "resolve">>
             p == Pillars(boot, django.configured)
  <2>1. Makes(s) /\ site' = [site EXCEPT !.busy = TRUE, !.config = p]
    BY <1>3 DEF Install
  <2>2. /\ boot \in Boots /\ boot # NoBoot /\ todo \in Seq(Calls) /\ 1 \in 1 .. Len(todo)
        /\ AllFounded /\ InstalledOnce /\ AdminOnce /\ Orderly /\ Halfway /\ UrlsRight
        /\ Founded(1) /\ todo[1] = Head(todo) /\ (\A c : ~Sooner(c, 1)) /\ ~site.refused
    BY <1>1, Running
  <2>3. /\ s \in Seq(Calls) /\ (\A k \in 1 .. Len(s) : k = 1 \/ k = 2) /\ s[1] = "configure" /\ s[2] = "resolve"
        /\ 1 \in 1 .. Len(s) /\ 2 \in 1 .. Len(s)
        /\ \A c : Among(c, s) <=> c = "configure" \/ c = "resolve"
    <3>1. "configure" \in Calls /\ "resolve" \in Calls
      BY DEF Calls
    <3> QED
      BY <3>1, FewCalls
  <2>4. site \in SiteRecord /\ urls \in UrlsRecord /\ django \in DjangoRecord /\ django.configured \in BOOLEAN
    BY TypesAre
  <2>5. p \in PillarRecord /\ p # NoConfig /\ p.mount = MountPillar(boot, django.configured)
    BY <2>2, <2>4, PillarsAre
  <2>6. django.configured => p = Pillars(boot, TRUE)
    BY <2>4
  <2> HIDE DEF s, p
  <2>7. /\ site' \in SiteRecord /\ site'.busy /\ site'.config = p /\ site'.installed = site.installed
        /\ site'.refused = site.refused /\ site'.mounted = site.mounted /\ site'.registered = site.registered
        /\ site'.hasty = site.hasty
    BY <2>1, <2>4, <2>5 DEF SiteRecord
  <2>8. todo' \in Seq(Calls) /\ \A k \in 1 .. Len(s) : k \in 1 .. Len(todo') /\ todo'[k] = s[k]
    BY <1>1, <2>1, <2>2, <2>3, MadeFirst
  <2>9. Final => Final'
    BY <1>1, <2>6, <2>7 DEF Final
  <2>10. Mounts => Mounts'
    <3>1. django.configured => MountEnabled' = (p.mount = "on")
      BY <2>5, <2>7 DEF MountEnabled
    <3>2. django.configured => Mountable' = (p.mount = "on")
      BY <1>1, <2>4, <2>5 DEF Mountable
    <3> QED
      BY <1>1, <3>1, <3>2 DEF Mounts
  <2>11. Solid(s)
    <3>1. Head(todo) \notin Mounting /\ Head(todo) # "configure" /\ Head(todo) # "admin ready" /\ Head(todo) # "import"
      BY <1>1 DEF Mounting
    <3> QED
      BY <1>1, <2>7, <2>9, <2>10, <3>1 DEF Solid, Told
  <2>12. ASSUME NEW k \in 1 .. Len(s) PROVE Founded(k)'
    <3>1. todo'[1] = "configure" /\ todo'[2] = "resolve"
      BY <2>3, <2>8
    <3>2. 1 \in 1 .. 2 - 1
      OBVIOUS
    <3>3. Sooner("configure", 2)'
      BY <3>1, <3>2 DEF Sooner
    <3>4. Told \/ ~django.configured
      BY <1>1, <1>3, <2>2 DEF Founded
    <3>5. Told' \/ ~django'.configured
      BY <1>1, <2>7, <3>4 DEF Told
    <3>6. CASE k = 1
      BY <3>1, <3>6 DEF Founded
    <3>7. CASE k = 2
      BY <3>1, <3>3, <3>5, <3>7 DEF Founded
    <3> QED
      BY <2>3, <3>6, <3>7
  <2>13. AllFounded'
    BY <1>1, <2>1, <2>2, <2>3, <2>11, <2>12, FoundedKept
  <2>14. StartupTypes'
    BY <1>1, <2>4, <2>7, <2>8, TypesStay
  <2>15. InstalledOnce'
    <3>1. ~Pending("patch") /\ ~Pending("resolve")
      BY <1>3, <2>2 DEF InstalledOnce
    <3>2. ASSUME NEW j \in 1 .. Len(s), NEW k \in 1 .. Len(s), s[j] = "resolve", s[k] = "resolve" PROVE j = k
      BY <2>3, <3>2
    <3>3. Once("resolve")'
      BY <1>1, <2>1, <2>2, <2>3, <3>1, <3>2, OnceMade
    <3>4. Once("patch")' /\ ~Pending("patch")'
      BY <1>1, <2>1, <2>2, <2>3, <3>1, Made DEF InstalledOnce
    <3> QED
      BY <1>3, <2>2, <2>7, <2>9, <3>3, <3>4 DEF InstalledOnce
  <2>16. AdminOnce'
    <3>1. django'.ready => django.admin
      BY <1>1, <2>2 DEF AdminOnce
    <3>0. \A c : c # "configure" /\ c # "resolve" => ~Among(c, s)
      BY <2>3
    <3>2. ~Among("admin ready", s) /\ ~Among("reflex ready", s)
      BY <3>0
    <3> QED
      BY <1>1, <2>1, <2>2, <2>3, <2>7, <3>1, <3>2, AdminStays
  <2>17. Orderly'
    <3>1. ASSUME Single, NEW c \in Mounters PROVE ~Pending(c)
      <4>1. \A k \in 1 .. Len(todo) : todo[k] \in Mounters => k = 1
        BY <1>3, <2>2, <3>1 DEF Orderly, NotOvertaken
      <4> QED
        BY <1>1, <2>2, <4>1 DEF Pending, Mounters
    <3>2. ASSUME Single, NEW c \in Mounters PROVE ~Pending(c)'
      BY <1>1, <2>1, <2>2, <2>3, <3>1, <3>2, Made DEF Mounters
    <3>3. NotOvertaken'
      BY <1>1, <3>2 DEF NotOvertaken, Single, Pending
    <3>4. ReflexFirst'
      BY <2>7 DEF ReflexFirst
    <3> QED
      BY <3>3, <3>4 DEF Orderly
  <2>18. Halfway'
    BY <1>1, <2>1, <2>2, <2>3, <2>7, HalfwayStays
  <2>19. UrlsRight'
    BY <1>1, <2>2, <2>7, UrlsStay
  <2> QED
    BY <2>13, <2>14, <2>15, <2>16, <2>17, <2>18, <2>19 DEF StartupInv
<1> QED
  BY <1>2, <1>3

LEMMA ResolveMakes ==
  LET s == <<"ensure", "auto mount", "patch">> IN
  /\ s \in Seq(Calls) /\ \A k \in 1 .. Len(s) : k = 1 \/ k = 2 \/ k = 3
  /\ 1 \in 1 .. Len(s) /\ 2 \in 1 .. Len(s) /\ 3 \in 1 .. Len(s)
  /\ s[1] = "ensure" /\ s[2] = "auto mount" /\ s[3] = "patch"
  /\ \A c : Among(c, s) <=> c = "ensure" \/ c = "auto mount" \/ c = "patch"
<1> DEFINE s == <<"ensure", "auto mount", "patch">>
<1>1. s \in Seq(Calls)
  BY DEF Calls
<1>2. Len(s) = 3
  OBVIOUS
<1>3. s[1] = "ensure" /\ s[2] = "auto mount" /\ s[3] = "patch"
  OBVIOUS
<1> HIDE DEF s
<1>4. \A k \in 1 .. Len(s) : k = 1 \/ k = 2 \/ k = 3
  BY <1>2
<1>5. 1 \in 1 .. Len(s) /\ 2 \in 1 .. Len(s) /\ 3 \in 1 .. Len(s)
  BY <1>2
<1>6. \A c : Among(c, s) <=> c = "ensure" \/ c = "auto mount" \/ c = "patch"
  BY <1>3, <1>4, <1>5 DEF Among
<1> QED
  BY <1>1, <1>3, <1>4, <1>5, <1>6 DEF s

(* The configuration is accepted.                                          *)
LEMMA AcceptKeeps ==
  ASSUME StartupInv, Resolve, Valid(Pillars(boot, django.configured)) PROVE StartupInv'
<1>1. /\ todo # <<>> /\ Head(todo) = "resolve"
      /\ boot' = boot /\ django' = django /\ urls' = urls /\ reflexApp' = reflexApp
  BY DEF Resolve, Doing
<1>2. /\ boot \in Boots /\ boot # NoBoot /\ todo \in Seq(Calls) /\ 1 \in 1 .. Len(todo)
      /\ AllFounded /\ InstalledOnce /\ AdminOnce /\ Orderly /\ Halfway /\ UrlsRight
      /\ Founded(1) /\ todo[1] = Head(todo) /\ (\A c : ~Sooner(c, 1)) /\ ~site.refused /\ Pending(Head(todo))
  BY <1>1, Running
<1>3. django.configured /\ Told
  BY <1>1, <1>2 DEF Founded
<1>4. site.busy /\ ~site.installed /\ ~Pending("patch")
  BY <1>1, <1>2 DEF InstalledOnce
<1> DEFINE p == Pillars(boot, django.configured)
           s == <<"ensure", "auto mount", "patch">>
<1>5. site \in SiteRecord /\ urls \in UrlsRecord /\ django \in DjangoRecord /\ django.configured \in BOOLEAN
  BY TypesAre
<1>6. p = Pillars(boot, TRUE)
  BY <1>3, <1>5
<1>7. p \in PillarRecord /\ p # NoConfig /\ p.mount = MountPillar(boot, TRUE)
  BY <1>2, <1>6, PillarsAre
<1>8. Makes(s) /\ site' = [site EXCEPT !.config = p, !.registered = FromPlugin(p)]
  BY DEF Resolve
<1>9. /\ s \in Seq(Calls) /\ (\A k \in 1 .. Len(s) : k = 1 \/ k = 2 \/ k = 3)
      /\ 1 \in 1 .. Len(s) /\ 2 \in 1 .. Len(s) /\ 3 \in 1 .. Len(s)
      /\ s[1] = "ensure" /\ s[2] = "auto mount" /\ s[3] = "patch"
      /\ \A c : Among(c, s) <=> c = "ensure" \/ c = "auto mount" \/ c = "patch"
  BY ResolveMakes
<1> HIDE DEF p, s
<1>10. boot.prefix \in (SUBSET Segments) \cup {Unset}
  BY <1>2, StartupAssumption DEF BootRecord
<1>11. site.registered \in (SUBSET Areas) \cup {Unset}
  BY <1>5 DEF SiteRecord
<1>12. /\ FromPlugin(p) \in (SUBSET Areas) \cup {Unset}
       /\ site.registered # Unset => FromPlugin(p) # Unset
       /\ Unsaid => FromPlugin(p) = site.registered
  BY <1>10, <1>11 DEF FromPlugin, Merged, Areas, Unsaid
<1>13. /\ site' \in SiteRecord /\ site'.busy = site.busy /\ site'.config = p /\ site'.installed = site.installed
       /\ site'.refused = site.refused /\ site'.mounted = site.mounted /\ site'.registered = FromPlugin(p)
       /\ site'.hasty = site.hasty
  BY <1>5, <1>7, <1>8, <1>12 DEF SiteRecord
<1>14. todo' \in Seq(Calls) /\ \A k \in 1 .. Len(s) : k \in 1 .. Len(todo') /\ todo'[k] = s[k]
  BY <1>1, <1>2, <1>8, <1>9, MadeFirst
<1>15. Final'
  BY <1>1, <1>3, <1>6, <1>13 DEF Final
<1>16. Mounts'
  <2>1. MountEnabled' = (p.mount = "on")
    BY <1>7, <1>13 DEF MountEnabled
  <2>2. Mountable' = (p.mount = "on")
    BY <1>1, <1>7 DEF Mountable
  <2> QED
    BY <1>1, <1>3, <2>1, <2>2 DEF Mounts
<1>17. Solid(s)
  <2>1. Head(todo) \notin Mounting /\ Head(todo) # "import"
    BY <1>1 DEF Mounting
  <2> QED
    BY <1>1, <1>12, <1>13, <1>15, <1>16, <2>1 DEF Solid, Told
<1>18. ASSUME NEW k \in 1 .. Len(s) PROVE Founded(k)'
  <2>1. todo'[1] = "ensure" /\ todo'[2] = "auto mount" /\ todo'[3] = "patch"
    BY <1>9, <1>14
  <2>2. 2 \in 1 .. 3 - 1
    OBVIOUS
  <2>3. \E c \in Mounting : Sooner(c, 3)'
    BY <2>1, <2>2 DEF Sooner, Mounting
  <2>4. Told'
    BY <1>1, <1>3, <1>13 DEF Told
  <2>5. CASE k = 1
    BY <2>1, <2>5 DEF Founded
  <2>6. CASE k = 2
    BY <1>16, <2>1, <2>4, <2>6 DEF Founded
  <2>7. CASE k = 3
    BY <1>15, <2>1, <2>3, <2>7 DEF Founded
  <2> QED
    BY <1>9, <2>5, <2>6, <2>7
<1>19. AllFounded'
  BY <1>1, <1>2, <1>8, <1>9, <1>17, <1>18, FoundedKept
<1>20. StartupTypes'
  BY <1>1, <1>5, <1>13, <1>14, TypesStay
<1>21. InstalledOnce'
  <2>1. ASSUME NEW j \in 1 .. Len(s), NEW k \in 1 .. Len(s), s[j] = "patch", s[k] = "patch" PROVE j = k
    BY <1>9, <2>1
  <2>2. Once("patch")'
    BY <1>1, <1>2, <1>4, <1>8, <1>9, <2>1, OnceMade
  <2>3. Once("resolve")' /\ ~Pending("resolve")'
    BY <1>1, <1>2, <1>8, <1>9, Made DEF InstalledOnce
  <2> QED
    BY <1>2, <1>4, <1>13, <2>2, <2>3 DEF InstalledOnce
<1>22. AdminOnce'
  <2>1. django'.ready => django.admin
    BY <1>1, <1>2 DEF AdminOnce
  <2>0. \A c : c # "ensure" /\ c # "auto mount" /\ c # "patch" => ~Among(c, s)
    BY <1>9
  <2>2. ~Among("admin ready", s) /\ ~Among("reflex ready", s)
    BY <2>0
  <2> QED
    BY <1>1, <1>2, <1>8, <1>9, <1>13, <2>1, <2>2, AdminStays
<1>23. Orderly'
  BY <1>1, <1>2, <1>8, <1>9, <1>13, OrderlyStays DEF Mounters
<1>24. Halfway'
  BY <1>1, <1>2, <1>8, <1>9, <1>12, <1>13, HalfwayStays
<1>25. UrlsRight'
  BY <1>1, <1>2, <1>12, <1>13, UrlsStay
<1> QED
  BY <1>19, <1>20, <1>21, <1>22, <1>23, <1>24, <1>25 DEF StartupInv

(* The configuration is refused, and forgiven where only ports were asked  *)
(* for.                                                                    *)
LEMMA RefuseKeeps ==
  ASSUME StartupInv, Resolve, ~Valid(Pillars(boot, django.configured)) PROVE StartupInv'
<1>1. /\ todo # <<>> /\ Head(todo) = "resolve"
      /\ boot' = boot /\ django' = django /\ urls' = urls /\ reflexApp' = reflexApp
      /\ site' = [site EXCEPT !.busy = FALSE, !.refused = ~Forgiven]
      /\ IF Forgiven THEN Makes(<<>>) ELSE todo' = <<>>
  BY DEF Resolve, Doing, Returns
<1>2. /\ boot \in Boots /\ boot # NoBoot /\ todo \in Seq(Calls) /\ 1 \in 1 .. Len(todo)
      /\ AllFounded /\ InstalledOnce /\ AdminOnce /\ Orderly /\ Halfway /\ UrlsRight
      /\ Founded(1) /\ todo[1] = Head(todo) /\ (\A c : ~Sooner(c, 1)) /\ ~site.refused /\ Pending(Head(todo))
  BY <1>1, Running
<1>3. Told
  BY <1>1, <1>2 DEF Founded
<1>4. site.busy /\ ~site.installed /\ ~Pending("patch")
  BY <1>1, <1>2 DEF InstalledOnce
<1>5. site \in SiteRecord /\ urls \in UrlsRecord /\ django \in DjangoRecord
  BY TypesAre
<1> DEFINE f == ~Forgiven
<1>6. f \in BOOLEAN
  BY DEF Forgiven
<1>7. site' = [site EXCEPT !.busy = FALSE, !.refused = f]
  BY <1>1
<1> HIDE DEF f
<1>8. /\ site' \in SiteRecord /\ ~site'.busy /\ site'.refused = f /\ site'.config = site.config
      /\ site'.installed = site.installed /\ site'.mounted = site.mounted /\ site'.registered = site.registered
      /\ site'.hasty = site.hasty
  BY <1>5, <1>6, <1>7 DEF SiteRecord
<1>9. UrlsRight'
  BY <1>1, <1>2, <1>8, UrlsStay
<1>10. ASSUME ~Forgiven PROVE StartupInv'
  <2>1. todo' = <<>> /\ site'.refused
    BY <1>1, <1>8, <1>10 DEF f
  <2>2. \A k \in 1 .. Len(todo') : FALSE
    BY <2>1, FewCalls
  <2>3. /\ AllFounded' /\ Once("patch")' /\ Once("resolve")' /\ Once("admin ready")'
        /\ \A c : ~Pending(c)'
    BY <2>2 DEF AllFounded, Once, Pending
  <2>4. StartupTypes'
    <3>1. todo' \in Seq(Calls)
      BY <2>1, FewCalls
    <3> QED
      BY <1>1, <1>5, <1>8, <3>1, TypesStay
  <2>5. InstalledOnce'
    BY <1>4, <1>8, <2>1, <2>3 DEF InstalledOnce
  <2>6. AdminOnce'
    BY <1>1, <1>2, <2>1, <2>3 DEF AdminOnce
  <2>7. Orderly'
    BY <2>1, <2>2 DEF Orderly, NotOvertaken, ReflexFirst
  <2>8. Halfway'
    BY <2>1 DEF Halfway
  <2> QED
    BY <1>9, <2>3, <2>4, <2>5, <2>6, <2>7, <2>8 DEF StartupInv
<1>11. ASSUME Forgiven PROVE StartupInv'
  <2>1. Makes(<<>>) /\ ~site'.refused
    BY <1>1, <1>8, <1>11 DEF f
  <2>2. <<>> \in Seq(Calls) /\ (\A k \in 1 .. Len(<<>>) : FALSE) /\ \A c : ~Among(c, <<>>)
    BY FewCalls
  <2>3. todo' \in Seq(Calls)
    BY <1>1, <1>2, <2>1, <2>2, MadeFirst
  <2>4. (Mounts => Mounts') /\ Final' = Final
    BY <1>1, <1>8, Unmoved
  <2>5. Solid(<<>>)
    <3>1. Head(todo) \notin Mounting /\ Head(todo) # "import"
      BY <1>1 DEF Mounting
    <3> QED
      BY <1>1, <1>3, <1>8, <2>4, <3>1 DEF Solid, Told
  <2>6. AllFounded'
    BY <1>1, <1>2, <2>1, <2>2, <2>5, FoundedKept
  <2>7. StartupTypes'
    BY <1>1, <1>5, <1>8, <2>3, TypesStay
  <2>8. InstalledOnce'
    <3>1. /\ Once("patch")' /\ ~Pending("patch")' /\ Once("resolve")' /\ ~Pending("resolve")'
      BY <1>1, <1>2, <1>4, <2>1, <2>2, Made DEF InstalledOnce
    <3> QED
      BY <1>4, <1>8, <2>1, <3>1 DEF InstalledOnce
  <2>9. AdminOnce'
    <3>1. django'.ready => django.admin
      BY <1>1, <1>2 DEF AdminOnce
    <3> QED
      BY <1>1, <1>2, <2>1, <2>2, <3>1, AdminStays
  <2>10. Orderly'
    <3>1. 2 \in 1 .. Len(todo) /\ todo[2] \in Mounters
      BY <1>2, <1>11 DEF Forgiven
    <3>2. ~Single
      BY <1>1, <1>2, <3>1 DEF Orderly, NotOvertaken
    <3> QED
      BY <1>1, <3>2 DEF Orderly, NotOvertaken, ReflexFirst, Single
  <2>11. Halfway'
    BY <1>1, <1>2, <1>8, <2>1, <2>2, HalfwayStays
  <2> QED
    BY <1>9, <2>6, <2>7, <2>8, <2>9, <2>10, <2>11 DEF StartupInv
<1> QED
  BY <1>10, <1>11

LEMMA ResolveKeeps == ASSUME StartupInv, Resolve PROVE StartupInv'
<1> QED
  BY AcceptKeeps, RefuseKeeps

LEMMA PatchKeeps == ASSUME StartupInv, Patch PROVE StartupInv'
<1>1. /\ todo # <<>> /\ Head(todo) = "patch" /\ Makes(<<>>) /\ site' = [site EXCEPT !.installed = TRUE, !.busy = FALSE]
      /\ boot' = boot /\ django' = django /\ urls' = urls /\ reflexApp' = reflexApp
  BY DEF Patch, Doing, Returns
<1>2. /\ boot \in Boots /\ boot # NoBoot /\ todo \in Seq(Calls) /\ 1 \in 1 .. Len(todo)
      /\ AllFounded /\ InstalledOnce /\ AdminOnce /\ Orderly /\ Halfway /\ UrlsRight
      /\ Founded(1) /\ todo[1] = Head(todo) /\ (\A c : ~Sooner(c, 1)) /\ ~site.refused /\ Pending(Head(todo))
  BY <1>1, Running
<1>3. site.mounted /\ Final /\ ~Pending("resolve")
  BY <1>1, <1>2 DEF Founded, InstalledOnce
<1>4. site \in SiteRecord /\ urls \in UrlsRecord /\ django \in DjangoRecord
  BY TypesAre
<1>5. /\ site' \in SiteRecord /\ site'.installed /\ ~site'.busy /\ site'.config = site.config
      /\ site'.refused = site.refused /\ site'.mounted = site.mounted /\ site'.registered = site.registered
      /\ site'.hasty = site.hasty
  BY <1>1, <1>4 DEF SiteRecord
<1>6. <<>> \in Seq(Calls) /\ (\A k \in 1 .. Len(<<>>) : FALSE) /\ \A c : ~Among(c, <<>>)
  BY FewCalls
<1>7. (Mounts => Mounts') /\ Final' = Final
  BY <1>1, <1>5, Unmoved
<1>8. Solid(<<>>)
  <2>1. Head(todo) \notin Mounting /\ Head(todo) # "import"
    BY <1>1 DEF Mounting
  <2> QED
    BY <1>1, <1>5, <1>7, <2>1 DEF Solid, Told
<1>9. AllFounded'
  BY <1>1, <1>2, <1>6, <1>8, FoundedKept
<1>10. todo' \in Seq(Calls) /\ Once("patch")' /\ ~Pending("patch")' /\ Once("resolve")' /\ ~Pending("resolve")'
  BY <1>1, <1>2, <1>3, <1>6, Made DEF InstalledOnce
<1>11. StartupTypes'
  BY <1>1, <1>4, <1>5, <1>10, TypesStay
<1>12. InstalledOnce'
  BY <1>2, <1>3, <1>5, <1>7, <1>10 DEF InstalledOnce
<1>13. AdminOnce'
  <2>1. django'.ready => django.admin
    BY <1>1, <1>2 DEF AdminOnce
  <2> QED
    BY <1>1, <1>2, <1>5, <1>6, <2>1, AdminStays
<1>14. Orderly'
  BY <1>1, <1>2, <1>5, <1>6, OrderlyStays DEF Mounters
<1>15. Halfway'
  BY <1>1, <1>2, <1>5, <1>6, HalfwayStays
<1>16. UrlsRight'
  BY <1>1, <1>2, <1>5, UrlsStay
<1> QED
  BY <1>9, <1>11, <1>12, <1>13, <1>14, <1>15, <1>16 DEF StartupInv

LEMMA ConfigureKeeps == ASSUME StartupInv, Configure PROVE StartupInv'
<1>1. /\ todo # <<>> /\ Head(todo) = "configure"
      /\ boot' = boot /\ site' = site /\ urls' = urls /\ reflexApp' = reflexApp
  BY DEF Configure, Doing
<1>2. CASE django.configured
  <2>1. Makes(<<>>) /\ django' = django
    BY <1>2 DEF Configure, Returns
  <2>2. "configure" \notin Mounting /\ "configure" \notin Mounters
    BY DEF Mounting, Mounters
  <2> QED
    BY <1>1, <1>2, <2>1, <2>2, Skipped
<1>3. CASE ~django.configured
  <2>1. django' = [django EXCEPT !.configured = TRUE]
    BY <1>3 DEF Configure
  <2>2. \E q : Makes(q) /\ ReadyCalls(q, boot.order)
    <3>1. CASE boot.order = "before"
      <4>1. Makes(<<"hook", "reflex ready", "admin ready", "all ready", "install">>)
        BY <1>3, <3>1 DEF Configure
      <4> QED
        BY <3>1, <4>1, ReadyBefore
    <3>2. CASE boot.order = "after"
      <4>1. Makes(<<"hook", "admin ready", "reflex ready", "all ready", "install">>)
        BY <1>3, <3>2 DEF Configure
      <4> QED
        BY <3>2, <4>1, ReadyAfter
    <3>3. CASE boot.order # "before" /\ boot.order # "after"
      <4>1. Makes(<<"hook", "admin ready", "all ready", "install">>)
        BY <1>3, <3>3 DEF Configure
      <4> QED
        BY <4>1, ReadyWithout
    <3> QED
      BY <3>1, <3>2, <3>3
  <2>3. PICK q : Makes(q) /\ ReadyCalls(q, boot.order)
    BY <2>2
  <2>4. /\ boot \in Boots /\ boot # NoBoot /\ todo \in Seq(Calls) /\ 1 \in 1 .. Len(todo)
        /\ AllFounded /\ InstalledOnce /\ AdminOnce /\ Orderly /\ Halfway /\ UrlsRight /\ ~site.refused
    BY <1>1, Running
  <2>5. django \in DjangoRecord /\ urls \in UrlsRecord /\ site \in SiteRecord
    BY TypesAre
  <2>6. /\ django' \in DjangoRecord /\ django'.configured /\ django'.admin = django.admin
        /\ django'.wrapped = django.wrapped /\ django'.ready = django.ready
    BY <2>1, <2>5 DEF DjangoRecord
  <2>7. q \in Seq(Calls) /\ Among("admin ready", q) /\ ~Among("patch", q) /\ ~Among("resolve", q)
    BY <2>3 DEF ReadyCalls
  <2>8. todo' \in Seq(Calls) /\ \A k \in 1 .. Len(q) : k \in 1 .. Len(todo') /\ todo'[k] = q[k]
    BY <1>1, <2>3, <2>4, <2>7, MadeFirst
  <2>9. ~Mounts /\ ~Final
    BY <1>3 DEF Mounts, Final
  <2>10. Solid(q)
    <3>1. Head(todo) \notin Mounting /\ Head(todo) # "import"
      BY <1>1 DEF Mounting
    <3> QED
      BY <1>1, <2>6, <2>7, <2>9, <3>1 DEF Solid, Told
  <2>11. ASSUME NEW k \in 1 .. Len(q) PROVE Founded(k)'
    <3>1. todo'[k] \in {"hook", "admin ready", "reflex ready", "all ready", "install"}
      BY <2>3, <2>8 DEF ReadyCalls
    <3>2. (\E j \in 1 .. k - 1 : j \in 1 .. Len(q) /\ q[j] = "admin ready") => Sooner("admin ready", k)'
      BY <2>8 DEF Sooner
    <3>3. /\ todo'[k] \in {"all ready", "install"} => Sooner("admin ready", k)'
          /\ todo'[k] = "reflex ready" /\ boot.order # "before" => Sooner("admin ready", k)'
      BY <2>3, <2>8, <3>2 DEF ReadyCalls
    <3>4. todo'[k] = "reflex ready" /\ boot.order = "before" =>
            k + 1 \in 1 .. Len(todo') /\ todo'[k + 1] = "admin ready"
      BY <2>3, <2>8 DEF ReadyCalls
    <3> QED
      BY <1>1, <3>1, <3>3, <3>4 DEF Founded
  <2>12. AllFounded'
    BY <1>1, <2>3, <2>4, <2>7, <2>10, <2>11, FoundedKept
  <2>13. StartupTypes'
    BY <1>1, <2>5, <2>6, <2>8, TypesStay
  <2>14. InstalledOnce'
    BY <1>1, <2>3, <2>4, <2>7, <2>9, InstalledStays
  <2>15. AdminOnce'
    <3>1. ~Pending("admin ready") /\ ~django.admin /\ ~django.ready
      BY <1>3, <2>4 DEF AdminOnce
    <3>2. Once("admin ready")'
      BY <1>1, <2>3, <2>4, <2>7, <3>1, OnceMade DEF ReadyCalls
    <3>3. Pending("admin ready")'
      BY <1>1, <2>3, <2>4, <2>7, Made
    <3>4. ~django.wrapped
      BY <1>1, <2>4, <3>1 DEF AdminOnce
    <3> QED
      BY <2>6, <3>1, <3>2, <3>3, <3>4 DEF AdminOnce
  <2>16. Orderly'
    <3>1. \A c \in Mounters : ~Among(c, q)
      BY <2>3 DEF ReadyCalls, Among, Mounters
    <3> QED
      BY <1>1, <2>3, <2>4, <2>7, <3>1, OrderlyStays DEF Mounters
  <2>17. Halfway'
    BY <1>1, <2>3, <2>4, <2>7, HalfwayStays
  <2>18. UrlsRight'
    BY <1>1, <2>4, UrlsStay
  <2> QED
    BY <2>12, <2>13, <2>14, <2>15, <2>16, <2>17, <2>18 DEF StartupInv
<1> QED
  BY <1>2, <1>3

LEMMA HookKeeps == ASSUME StartupInv, Hook PROVE StartupInv'
<1>1. /\ todo # <<>> /\ Head(todo) = "hook"
      /\ boot' = boot /\ django' = django /\ urls' = urls /\ reflexApp' = reflexApp
  BY DEF Hook, Doing
<1> DEFINE h == site.hasty \/ (todo' # Tail(todo) /\ Head(todo') = "install" /\ ~site.busy /\ ~django.admin)
<1>2. /\ boot \in Boots /\ boot # NoBoot /\ todo \in Seq(Calls) /\ 1 \in 1 .. Len(todo)
      /\ AllFounded /\ InstalledOnce /\ AdminOnce /\ Orderly /\ Halfway /\ UrlsRight /\ ~site.refused
  BY <1>1, Running
<1>3. site \in SiteRecord /\ urls \in UrlsRecord /\ django \in DjangoRecord
  BY TypesAre
<1>4. /\ site' \in SiteRecord /\ site'.hasty = h /\ site'.config = site.config /\ site'.installed = site.installed
      /\ site'.busy = site.busy /\ site'.refused = site.refused /\ site'.mounted = site.mounted
      /\ site'.registered = site.registered
  <2>1. h \in BOOLEAN
    BY <1>3 DEF SiteRecord
  <2>2. site' = [site EXCEPT !.hasty = h]
    BY DEF Hook
  <2> HIDE DEF h
  <2> QED
    BY <1>3, <2>1, <2>2 DEF SiteRecord
<1>5. site.hasty => site'.hasty
  BY <1>4
<1>7. \E q \in Seq(Calls) :
        /\ Makes(q) /\ ~Among("admin ready", q) /\ ~Among("reflex ready", q) /\ ~Among("patch", q)
        /\ ~Among("resolve", q) /\ (\A c \in Mounters : ~Among(c, q))
        /\ \A k \in 1 .. Len(q) : Founded(k)'
  <2>1. CASE Returns
    <3>1. Makes(<<>>)
      BY <2>1 DEF Returns
    <3> QED
      BY <3>1, FewCalls
  <2>2. ASSUME NEW call \in {"configure", "ensure", "install"}, Makes(<<call>>)
        PROVE  \E q \in Seq(Calls) :
                 /\ Makes(q) /\ ~Among("admin ready", q) /\ ~Among("reflex ready", q) /\ ~Among("patch", q)
                 /\ ~Among("resolve", q) /\ (\A c \in Mounters : ~Among(c, q))
                 /\ \A k \in 1 .. Len(q) : Founded(k)'
    <3>1. call \in Calls
      BY DEF Calls
    <3>2. /\ <<call>> \in Seq(Calls) /\ (\A k \in 1 .. Len(<<call>>) : k = 1) /\ <<call>>[1] = call
          /\ \A c : Among(c, <<call>>) <=> c = call
      BY <3>1, FewCalls
    <3>3. /\ todo' \in Seq(Calls)
          /\ \A k \in 1 .. Len(<<call>>) : k \in 1 .. Len(todo') /\ todo'[k] = <<call>>[k]
      BY <1>1, <1>2, <2>2, <3>2, Made
    <3>4. ASSUME NEW k \in 1 .. Len(<<call>>) PROVE Founded(k)'
      <4>1. k = 1 /\ 1 \in 1 .. Len(todo') /\ todo'[1] = call
        BY <3>2, <3>3
      <4>2. todo' # Tail(todo) /\ Head(todo') = call
        <5>1. todo' # <<>> /\ Head(todo') = call
          BY <3>3, <4>1
        <5>2. Len(todo') = Len(<<call>>) + Len(todo) - 1 /\ Len(Tail(todo)) = Len(todo) - 1 /\ Len(todo) \in Nat
          BY <1>1, <1>2, <2>2, <3>2, HeadReplaced DEF Makes
        <5>3. Len(<<call>>) = 1
          OBVIOUS
        <5>4. Len(todo') # Len(Tail(todo))
          BY <5>2, <5>3
        <5> QED
          BY <5>1, <5>4
      <4>3. call = "install" => site'.hasty \/ site'.busy \/ django'.admin
        BY <1>1, <1>4, <4>2
      <4>4. call = "configure" \/ call = "ensure" \/ call = "install"
        OBVIOUS
      <4>5. call = "install" => Told' \/ site'.busy
        BY <4>3 DEF Told
      <4> QED
        BY <4>1, <4>4, <4>5 DEF Founded
    <3>5. \A c : c # call => ~Among(c, <<call>>)
      BY <3>2
    <3>6. \A c \in Mounters : c # call
      BY DEF Mounters
    <3> QED
      BY <2>2, <3>2, <3>4, <3>5, <3>6
  <2> QED
    BY <2>1, <2>2 DEF Hook
<1>8. PICK q \in Seq(Calls) :
        /\ Makes(q) /\ ~Among("admin ready", q) /\ ~Among("reflex ready", q) /\ ~Among("patch", q)
        /\ ~Among("resolve", q) /\ (\A c \in Mounters : ~Among(c, q))
        /\ \A k \in 1 .. Len(q) : Founded(k)'
  BY <1>7
<1>9. Orderly'
  BY <1>1, <1>2, <1>4, <1>8, OrderlyStays DEF Mounters
<1>10. Halfway'
  BY <1>1, <1>2, <1>4, <1>8, HalfwayStays
<1>11. UrlsRight'
  BY <1>1, <1>2, <1>4, <1>5, UrlsStay
<1>12. Head(todo) \notin Mounting /\ Head(todo) # "import"
  BY <1>1 DEF Mounting
<1> QED
  BY <1>1, <1>3, <1>4, <1>5, <1>8, <1>9, <1>10, <1>11, <1>12, Ordinary

LEMMA ReflexReadyKeeps == ASSUME StartupInv, ReflexReady PROVE StartupInv'
<1>1. /\ todo # <<>> /\ Head(todo) = "reflex ready"
      /\ boot' = boot /\ urls' = urls /\ site' = site /\ reflexApp' = reflexApp
  BY DEF ReflexReady, Doing
<1> DEFINE w == MountEnabled /\ boot.order = "before"
<1>2. /\ boot \in Boots /\ boot # NoBoot /\ todo \in Seq(Calls) /\ 1 \in 1 .. Len(todo)
      /\ AllFounded /\ InstalledOnce /\ AdminOnce /\ Orderly /\ Halfway /\ UrlsRight
      /\ Founded(1) /\ todo[1] = Head(todo) /\ (\A c : ~Sooner(c, 1)) /\ ~site.refused /\ Pending(Head(todo))
  BY <1>1, Running
<1>3. django.configured
  BY <1>1, <1>2 DEF AdminOnce
<1>4. site \in SiteRecord /\ urls \in UrlsRecord /\ django \in DjangoRecord
  BY TypesAre
<1>5. /\ django' \in DjangoRecord /\ django'.configured = django.configured /\ django'.admin = django.admin
      /\ django'.wrapped = w /\ django'.ready = django.ready
  <2>1. w \in BOOLEAN
    OBVIOUS
  <2>2. django' = [django EXCEPT !.wrapped = w]
    BY DEF ReflexReady
  <2> HIDE DEF w
  <2> QED
    BY <1>4, <2>1, <2>2 DEF DjangoRecord
<1>6. (Mounts => Mounts') /\ Final' = Final /\ MountEnabled' = MountEnabled
  BY <1>1, <1>5, Unmoved
<1>7. \E q \in Seq(Calls) :
        /\ Makes(q) /\ ~Among("admin ready", q) /\ ~Among("reflex ready", q) /\ ~Among("patch", q)
        /\ ~Among("resolve", q) /\ (\A c \in Mounters : ~Among(c, q))
        /\ \A k \in 1 .. Len(q) : Founded(k)'
  <2>1. CASE ~(MountEnabled /\ boot.order # "before")
    <3>1. Makes(<<>>)
      BY <2>1 DEF ReflexReady, Returns
    <3> QED
      BY <3>1, FewCalls
  <2>2. CASE MountEnabled /\ boot.order # "before"
    <3>1. Makes(<<"auto mount">>)
      BY <2>2 DEF ReflexReady
    <3>2. "auto mount" \in Calls
      BY DEF Calls
    <3>3. /\ <<"auto mount">> \in Seq(Calls) /\ (\A k \in 1 .. Len(<<"auto mount">>) : k = 1)
          /\ <<"auto mount">>[1] = "auto mount" /\ \A c : Among(c, <<"auto mount">>) <=> c = "auto mount"
      BY <3>2, FewCalls
    <3>4. \A k \in 1 .. Len(<<"auto mount">>) : k \in 1 .. Len(todo') /\ todo'[k] = <<"auto mount">>[k]
      BY <1>1, <1>2, <3>1, <3>3, Made
    <3>5. ASSUME NEW k \in 1 .. Len(<<"auto mount">>) PROVE Founded(k)'
      <4>1. todo'[k] = "auto mount"
        BY <3>3, <3>4
      <4>2. Told'
        BY <1>1, <1>2, <1>5, <2>2 DEF Founded, Told
      <4>3. Mounts
        BY <1>3, <2>2 DEF Mounts
      <4> QED
        BY <1>6, <4>1, <4>2, <4>3 DEF Founded
    <3>6. \A c : c # "auto mount" => ~Among(c, <<"auto mount">>)
      BY <3>3
    <3>7. \A c \in Mounters : c # "auto mount"
      BY DEF Mounters
    <3> QED
      BY <3>1, <3>3, <3>5, <3>6, <3>7
  <2> QED
    BY <2>1, <2>2
<1>8. PICK q \in Seq(Calls) :
        /\ Makes(q) /\ ~Among("admin ready", q) /\ ~Among("reflex ready", q) /\ ~Among("patch", q)
        /\ ~Among("resolve", q) /\ (\A c \in Mounters : ~Among(c, q))
        /\ \A k \in 1 .. Len(q) : Founded(k)'
  BY <1>7
<1>9. Solid(q)
  <2>1. Head(todo) \notin Mounting /\ Head(todo) # "import"
    BY <1>1 DEF Mounting
  <2> QED
    BY <1>1, <1>5, <1>6, <2>1 DEF Solid, Told
<1>10. AllFounded'
  BY <1>1, <1>2, <1>8, <1>9, FoundedKept
<1>11. todo' \in Seq(Calls)
  BY <1>1, <1>2, <1>8, MadeFirst
<1>12. StartupTypes'
  BY <1>1, <1>4, <1>5, <1>11, TypesStay
<1>13. InstalledOnce'
  BY <1>1, <1>2, <1>5, <1>6, <1>8, InstalledStays
<1>14. AdminOnce'
  <2>1. /\ Once("admin ready")' /\ (Pending("admin ready")' <=> Pending("admin ready"))
        /\ Pending("reflex ready")' => Pending("reflex ready")
    BY <1>1, <1>2, <1>8, Made DEF AdminOnce
  <2>2. w => todo' # <<>> /\ Head(todo') = "admin ready"
    <3>1. ASSUME w PROVE todo' = Tail(todo)
      <4>1. Makes(<<>>)
        BY <3>1 DEF ReflexReady, Returns
      <4> QED
        BY <1>2, <4>1 DEF Makes
    <3>2. ASSUME w PROVE 1 + 1 \in 1 .. Len(todo) /\ todo[1 + 1] = "admin ready"
      BY <1>1, <1>2, <3>2 DEF Founded
    <3>0. todo \in Seq(Calls)
      BY <1>2
    <3>3. 1 + 1 \in 1 .. Len(todo) => Tail(todo) # <<>> /\ Head(Tail(todo)) = todo[1 + 1]
      BY SMTT(30), <3>0
    <3> HIDE DEF w
    <3> QED
      BY <3>1, <3>2, <3>3
  <2> QED
    BY <1>1, <1>2, <1>5, <1>6, <2>1, <2>2 DEF AdminOnce
<1>15. Orderly'
  BY <1>1, <1>2, <1>8, OrderlyStays DEF Mounters
<1>16. Halfway'
  BY <1>1, <1>2, <1>8, HalfwayStays
<1>17. UrlsRight'
  BY <1>1, <1>2, UrlsStay
<1> QED
  BY <1>10, <1>12, <1>13, <1>14, <1>15, <1>16, <1>17 DEF StartupInv

LEMMA AdminMakes ==
  LET s == <<"hook", "refresh", "auto mount">> IN
  /\ s \in Seq(Calls)
  /\ \A k \in 1 .. Len(s) : s[k] = "hook" \/ s[k] = "refresh" \/ s[k] = "auto mount"
<1> DEFINE s == <<"hook", "refresh", "auto mount">>
<1>1. s \in Seq(Calls)
  BY DEF Calls
<1>2. Len(s) = 3
  OBVIOUS
<1>3. s[1] = "hook" /\ s[2] = "refresh" /\ s[3] = "auto mount"
  OBVIOUS
<1> HIDE DEF s
<1>4. \A k \in 1 .. Len(s) : k = 1 \/ k = 2 \/ k = 3
  BY <1>2
<1> QED
  BY <1>1, <1>3, <1>4 DEF s

LEMMA AdminReadyKeeps == ASSUME StartupInv, AdminReady PROVE StartupInv'
<1>1. /\ todo # <<>> /\ Head(todo) = "admin ready" /\ django' = [django EXCEPT !.admin = TRUE]
      /\ boot' = boot /\ urls' = urls /\ site' = site /\ reflexApp' = reflexApp
  BY DEF AdminReady, Doing
<1>2. /\ boot \in Boots /\ boot # NoBoot /\ todo \in Seq(Calls) /\ 1 \in 1 .. Len(todo)
      /\ AllFounded /\ InstalledOnce /\ AdminOnce /\ Orderly /\ Halfway /\ UrlsRight
      /\ ~site.refused /\ Pending(Head(todo))
  BY <1>1, Running
<1>3. django.configured /\ ~django.admin
  BY <1>1, <1>2 DEF AdminOnce
<1>4. site \in SiteRecord /\ urls \in UrlsRecord /\ django \in DjangoRecord
  BY TypesAre
<1>5. /\ django' \in DjangoRecord /\ django'.configured = django.configured /\ django'.admin
      /\ django'.wrapped = django.wrapped /\ django'.ready = django.ready
  BY <1>1, <1>4 DEF DjangoRecord
<1>6. (Mounts => Mounts') /\ Final' = Final
  BY <1>1, <1>5, Unmoved
<1>7. \E q \in Seq(Calls) :
        /\ Makes(q)
        /\ \A k \in 1 .. Len(q) : q[k] = "hook" \/ q[k] = "refresh" \/ (q[k] = "auto mount" /\ django.wrapped)
  <2>1. CASE ~django.wrapped
    <3>1. Makes(<<"hook">>)
      BY <2>1 DEF AdminReady
    <3>2. "hook" \in Calls
      BY DEF Calls
    <3>3. (\A k \in 1 .. Len(<<"hook">>) : k = 1) /\ <<"hook">>[1] = "hook" /\ <<"hook">> \in Seq(Calls)
      BY <3>2, FewCalls
    <3>4. \A k \in 1 .. Len(<<"hook">>) : <<"hook">>[k] = "hook"
      BY <3>3
    <3> QED
      BY <3>1, <3>3, <3>4
  <2>2. CASE django.wrapped
    <3>1. Makes(<<"hook", "refresh", "auto mount">>)
      BY <2>2 DEF AdminReady
    <3> QED
      BY <2>2, <3>1, AdminMakes
  <2> QED
    BY <2>1, <2>2
<1>8. PICK q \in Seq(Calls) :
        /\ Makes(q)
        /\ \A k \in 1 .. Len(q) : q[k] = "hook" \/ q[k] = "refresh" \/ (q[k] = "auto mount" /\ django.wrapped)
  BY <1>7
<1>9. /\ ~Among("patch", q) /\ ~Among("admin ready", q) /\ ~Among("reflex ready", q) /\ ~Among("resolve", q)
      /\ \A c \in Mounters : ~Among(c, q)
  BY <1>8 DEF Among, Mounters
<1>10. Solid(q)
  <2>1. Head(todo) \notin Mounting /\ Head(todo) # "import"
    BY <1>1 DEF Mounting
  <2> QED
    BY <1>1, <1>5, <1>6, <2>1 DEF Solid, Told
<1>11. todo' \in Seq(Calls) /\ \A k \in 1 .. Len(q) : todo'[k] = q[k]
  BY <1>1, <1>2, <1>8, MadeFirst
<1>12. ASSUME NEW k \in 1 .. Len(q) PROVE Founded(k)'
  <2>1. todo'[k] = "hook" \/ todo'[k] = "refresh" \/ (todo'[k] = "auto mount" /\ django.wrapped)
    BY <1>8, <1>11
  <2>2. django.wrapped => Mounts'
    <3>1. django.wrapped => MountEnabled
      BY <1>2, <1>3 DEF AdminOnce
    <3> QED
      BY <1>3, <1>6, <3>1 DEF Mounts
  <2> QED
    BY <1>3, <1>5, <2>1, <2>2 DEF Founded, Told
<1>13. AllFounded'
  BY <1>1, <1>2, <1>8, <1>10, <1>12, FoundedKept
<1>14. StartupTypes'
  BY <1>1, <1>4, <1>5, <1>11, TypesStay
<1>15. InstalledOnce'
  BY <1>1, <1>2, <1>5, <1>6, <1>8, <1>9, InstalledStays
<1>16. AdminOnce'
  <2>1. /\ Once("admin ready")' /\ ~Pending("admin ready")'
        /\ Pending("reflex ready")' => Pending("reflex ready")
    BY <1>1, <1>2, <1>8, <1>9, Made DEF AdminOnce
  <2> QED
    BY <1>2, <1>3, <1>5, <2>1 DEF AdminOnce
<1>17. Orderly'
  BY <1>1, <1>2, <1>8, <1>9, OrderlyStays DEF Mounters
<1>18. Halfway'
  BY <1>1, <1>2, <1>8, HalfwayStays
<1>19. UrlsRight'
  BY <1>1, <1>2, UrlsStay
<1> QED
  BY <1>13, <1>14, <1>15, <1>16, <1>17, <1>18, <1>19 DEF StartupInv

LEMMA AllReadyKeeps == ASSUME StartupInv, AllReady PROVE StartupInv'
<1>1. /\ todo # <<>> /\ Head(todo) = "all ready" /\ Makes(<<>>) /\ django' = [django EXCEPT !.ready = TRUE]
      /\ boot' = boot /\ urls' = urls /\ site' = site /\ reflexApp' = reflexApp
  BY DEF AllReady, Doing, Returns
<1>2. /\ boot \in Boots /\ boot # NoBoot /\ todo \in Seq(Calls) /\ 1 \in 1 .. Len(todo)
      /\ AllFounded /\ InstalledOnce /\ AdminOnce /\ Orderly /\ Halfway /\ UrlsRight
      /\ Founded(1) /\ todo[1] = Head(todo) /\ (\A c : ~Sooner(c, 1)) /\ ~site.refused
  BY <1>1, Running
<1>3. django.admin
  BY <1>1, <1>2 DEF Founded
<1>4. site \in SiteRecord /\ urls \in UrlsRecord /\ django \in DjangoRecord
  BY TypesAre
<1>5. /\ django' \in DjangoRecord /\ django'.configured = django.configured /\ django'.admin = django.admin
      /\ django'.wrapped = django.wrapped
  BY <1>1, <1>4 DEF DjangoRecord
<1>6. (Mounts => Mounts') /\ Final' = Final
  BY <1>1, <1>5, Unmoved
<1>7. <<>> \in Seq(Calls) /\ (\A k \in 1 .. Len(<<>>) : FALSE) /\ \A c : ~Among(c, <<>>)
  BY FewCalls
<1>8. Solid(<<>>)
  <2>1. Head(todo) \notin Mounting /\ Head(todo) # "import"
    BY <1>1 DEF Mounting
  <2> QED
    BY <1>1, <1>5, <1>6, <2>1 DEF Solid, Told
<1>9. AllFounded'
  BY <1>1, <1>2, <1>7, <1>8, FoundedKept
<1>10. todo' \in Seq(Calls)
  BY <1>1, <1>2, <1>7, MadeFirst
<1>11. StartupTypes'
  BY <1>1, <1>4, <1>5, <1>10, TypesStay
<1>12. InstalledOnce'
  BY <1>1, <1>2, <1>5, <1>6, <1>7, InstalledStays
<1>13. AdminOnce'
  BY <1>1, <1>2, <1>3, <1>5, <1>7, AdminStays
<1>14. Orderly'
  BY <1>1, <1>2, <1>7, OrderlyStays DEF Mounters
<1>15. Halfway'
  BY <1>1, <1>2, <1>7, HalfwayStays
<1>16. UrlsRight'
  BY <1>1, <1>2, UrlsStay
<1> QED
  BY <1>9, <1>11, <1>12, <1>13, <1>14, <1>15, <1>16 DEF StartupInv

(* What is in a sequence to which something is added at an end, and where  *)
(* its catch-alls are.                                                     *)
LEMMA Lengthened ==
  ASSUME NEW S, NEW s \in Seq(S), NEW x \in S
  PROVE  /\ Append(s, x) \in Seq(S)
         /\ \A y : y \in Range(Append(s, x)) <=> y \in Range(s) \/ y = x
         /\ CatchAll \notin Range(s) => Ordered(Append(s, x))
         /\ Behind(s) /\ x = CatchAll => Behind(Append(s, x))
         /\ <<x>> \o s \in Seq(S) /\ Range(<<x>> \o s) = Range(s) \cup {x}
         /\ Ordered(s) /\ x # CatchAll => Ordered(<<x>> \o s)
         /\ Behind(s) /\ x # CatchAll => Behind(<<x>> \o s)
<1> DEFINE a == Append(s, x)
           b == <<x>>
           p == b \o s
<1>1. /\ Len(s) \in Nat /\ DOMAIN s = 1 .. Len(s) /\ a \in Seq(S) /\ Len(a) = Len(s) + 1 /\ DOMAIN a = 1 .. Len(s) + 1
      /\ \A k \in 1 .. Len(s) : a[k] = s[k]
      /\ a[Len(s) + 1] = x
  OBVIOUS
<1>2. b \in Seq(S) /\ Len(b) = 1 /\ b[1] = x
  OBVIOUS
<1> HIDE DEF a, b
<1>3. /\ Len(b) \in Nat /\ p \in Seq(S) /\ Len(p) = Len(b) + Len(s)
      /\ \A i \in 1 .. Len(b) + Len(s) : p[i] = IF i <= Len(b) THEN b[i] ELSE s[i - Len(b)]
  BY <1>2, Joined
<1> HIDE DEF p
<1>4. Len(p) = 1 + Len(s) /\ DOMAIN p = 1 .. Len(p)
  BY <1>1, <1>2, <1>3
<1>5. p[1] = x /\ 1 \in 1 .. Len(p)
  BY <1>1, <1>2, <1>3, <1>4
<1>6. ASSUME NEW k \in 1 .. Len(s) PROVE p[k + 1] = s[k] /\ k + 1 \in 1 .. Len(p)
  <2>1. PICK i \in 1 .. Len(b) + Len(s) : i = k + 1
    BY <1>1, <1>2
  <2>2. ~(i <= Len(b)) /\ i - Len(b) = k
    BY <1>1, <1>2, <2>1
  <2>3. p[i] = s[i - Len(b)]
    BY <1>3, <2>2
  <2> QED
    BY <1>1, <1>4, <2>1, <2>2, <2>3
<1>7. ASSUME NEW k \in 1 .. Len(p), k # 1 PROVE k - 1 \in 1 .. Len(s) /\ p[k] = s[k - 1]
  <2>1. PICK j \in 1 .. Len(s) : j = k - 1
    BY <1>1, <1>4, <1>7
  <2>2. p[j + 1] = s[j] /\ j + 1 = k
    BY <1>4, <1>6, <2>1
  <2> QED
    BY <2>1, <2>2
<1>8. \A y : y \in Range(a) <=> y \in Range(s) \/ y = x
  <2>1. \A k \in 1 .. Len(s) + 1 : k \in 1 .. Len(s) \/ k = Len(s) + 1
    BY <1>1
  <2>2. /\ \A k \in 1 .. Len(s) : k \in 1 .. Len(s) + 1
        /\ Len(s) + 1 \in 1 .. Len(s) + 1
    BY <1>1
  <2> QED
    BY <1>1, <2>1, <2>2 DEF Range
<1>9. Range(p) = Range(s) \cup {x}
  <2>1. ASSUME NEW y \in Range(p) PROVE y \in Range(s) \cup {x}
    BY <1>1, <1>4, <1>5, <1>7, <2>1 DEF Range
  <2>2. ASSUME NEW y \in Range(s) PROVE y \in Range(p)
    BY <1>1, <1>4, <1>6, <2>2 DEF Range
  <2>3. x \in Range(p)
    BY <1>4, <1>5 DEF Range
  <2> QED
    BY <2>1, <2>2, <2>3
<1>10. ASSUME CatchAll \notin Range(s) PROVE Ordered(a)
  <2>1. \A k \in 1 .. Len(s) + 1 : k \in 1 .. Len(s) \/ k = Len(s) + 1
    BY <1>1
  <2>2. \A k \in 1 .. Len(s) : a[k] # CatchAll
    BY <1>1, <1>10 DEF Range
  <2> QED
    BY <1>1, <2>1, <2>2 DEF Ordered
<1>11. ASSUME Ordered(s), x # CatchAll PROVE Ordered(p)
  <2>1. ASSUME NEW k \in 1 .. Len(p), p[k] = CatchAll PROVE k = Len(p)
    <3>1. k - 1 \in 1 .. Len(s) /\ s[k - 1] = CatchAll
      BY <1>5, <1>7, <1>11, <2>1
    <3>2. k - 1 = Len(s)
      BY <1>1, <1>11, <3>1 DEF Ordered
    <3> QED
      BY <1>1, <1>4, <3>2
  <2> QED
    BY <1>4, <2>1 DEF Ordered
<1>12. ASSUME Behind(s), x = CatchAll PROVE Behind(a)
  <2>1. ASSUME NEW k \in 1 .. Len(s) + 1, NEW j \in 1 .. Len(s) + 1, a[k] = CatchAll, k <= j PROVE a[j] = CatchAll
    <3>1. CASE j = Len(s) + 1
      BY <1>1, <1>12, <3>1
    <3>2. CASE j # Len(s) + 1
      <4>1. j \in 1 .. Len(s) /\ k \in 1 .. Len(s)
        BY <1>1, <2>1, <3>2
      <4>2. s[k] = CatchAll
        BY <1>1, <2>1, <4>1
      <4>3. s[j] = CatchAll
        BY <1>1, <1>12, <2>1, <4>1, <4>2 DEF Behind
      <4> QED
        BY <1>1, <4>1, <4>3
    <3> QED
      BY <3>1, <3>2
  <2> QED
    BY <1>1, <2>1 DEF Behind
<1>13. ASSUME Behind(s), x # CatchAll PROVE Behind(p)
  <2>1. ASSUME NEW k \in 1 .. Len(p), NEW j \in 1 .. Len(p), p[k] = CatchAll, k <= j PROVE p[j] = CatchAll
    <3>1. k # 1 /\ j # 1
      BY <1>4, <1>1, <1>5, <1>13, <2>1
    <3>2. k - 1 \in 1 .. Len(s) /\ j - 1 \in 1 .. Len(s) /\ p[k] = s[k - 1] /\ p[j] = s[j - 1] /\ k - 1 <= j - 1
      BY <1>1, <1>4, <1>7, <2>1, <3>1
    <3> QED
      BY <1>1, <1>13, <2>1, <3>2 DEF Behind
  <2> QED
    BY <1>4, <2>1 DEF Behind
<1> QED
  BY <1>1, <1>3, <1>8, <1>9, <1>10, <1>11, <1>12, <1>13 DEF a, b, p

LEMMA NotYet ==
  CatchAll \notin Range(NotImported) /\ Admin \notin Range(NotImported) /\ Ordered(NotImported) /\ Behind(NotImported)
<1>1. Len(NotImported) = 1
  BY DEF NotImported
<1>2. NotImported[1] = "not imported" /\ DOMAIN NotImported = 1 .. Len(NotImported)
  BY DEF NotImported
<1>3. \A k \in 1 .. 1 : k = 1
  OBVIOUS
<1>4. DOMAIN NotImported = 1 .. 1
  BY <1>1, <1>2
<1>5. "not imported" # CatchAll /\ "not imported" # Admin
  BY DEF CatchAll, Admin
<1>6. \A k \in DOMAIN NotImported : NotImported[k] = "not imported"
  BY <1>2, <1>3, <1>4
<1> QED
  BY <1>5, <1>6 DEF Range, Ordered, Behind

(* A URLconf is not mistaken for one that is not imported. *)
LEMMA Known == \A s \in Seq(Patterns) : s # NotImported /\ Mounted(s) \in SUBSET Areas
<1> SUFFICES ASSUME NEW s \in Seq(Patterns) PROVE s # NotImported /\ Mounted(s) \in SUBSET Areas
  OBVIOUS
<1>1. "not imported" \notin Segments
  BY StartupAssumption
<1>2. "not imported" \notin Patterns
  BY <1>1 DEF Patterns, Areas, Admin, CatchAll
<1>3. \A k \in 1 .. Len(s) : s[k] \in Patterns
  OBVIOUS
<1>4. ASSUME s = NotImported PROVE FALSE
  <2>1. Len(NotImported) = 1
    BY DEF NotImported
  <2>2. NotImported[1] = "not imported"
    BY DEF NotImported
  <2>3. NotImported[1] \notin Patterns
    BY <1>2, <2>2
  <2>4. 1 \in 1 .. Len(s) /\ s[1] = NotImported[1]
    BY <1>4, <2>1
  <2> QED
    BY <1>3, <2>3, <2>4
<1>5. Range(s) \subseteq Areas \cup {CatchAll}
  BY <1>3 DEF Range, Patterns
<1>6. Mounted(s) \in SUBSET Areas
  BY <1>5 DEF Mounted, Discovered
<1> QED
  BY <1>4, <1>6

(* What urls.py lists: no catch-all, and all there is but for that.        *)
LEMMA ListedIs ==
  ASSUME NEW b \in Boots
  PROVE  /\ Listed(b.urls) \in Seq(Patterns) /\ CatchAll \notin Range(Listed(b.urls))
         /\ CatchAll \notin Range(b.urls) => Listed(b.urls) = b.urls
<1> DEFINE s == b.urls
           l == Listed(s)
<1>1. s \in Seq(Patterns) /\ Ordered(s)
  <2>1. s \in Seq(Segments \cup {CatchAll}) /\ Ordered(s)
    BY StartupAssumption DEF BootRecord
  <2>2. Segments \cup {CatchAll} \subseteq Patterns
    BY DEF Areas, Patterns
  <2> QED
    BY <2>1, <2>2
<1> HIDE DEF s
<1>2. CASE CatchAll \notin Range(s)
  BY <1>1, <1>2 DEF Listed, s
<1>3. CASE CatchAll \in Range(s)
  <2>1. l = SubSeq(s, 1, Len(s) - 1)
    BY <1>3 DEF Listed, Front
  <2>2. PICK m \in DOMAIN s : s[m] = CatchAll
    BY <1>3 DEF Range
  <2>3. /\ Len(s) \in Nat \ {0} /\ DOMAIN s = 1 .. Len(s)
    BY <1>1, <2>2
  <2> HIDE DEF l
  <2>4. /\ l \in Seq(Patterns) /\ Len(l) = Len(s) - 1 /\ DOMAIN l = 1 .. Len(s) - 1
        /\ \A k \in 1 .. Len(s) - 1 : l[k] = s[k]
    BY <1>1, <2>1, <2>3
  <2>5. ASSUME NEW k \in DOMAIN l, l[k] = CatchAll PROVE FALSE
    <3>1. k \in 1 .. Len(s) /\ k # Len(s) /\ s[k] = CatchAll
      BY <2>3, <2>4, <2>5
    <3> QED
      BY <1>1, <2>3, <3>1 DEF Ordered
  <2>6. CatchAll \notin Range(l)
    BY <2>5 DEF Range
  <2> QED
    BY <1>3, <2>4, <2>6 DEF l, s
<1> QED
  BY <1>2, <1>3

(* The URLconf with the admin in it. *)
LEMMA WithAdminIs ==
  ASSUME NEW s \in Seq(Patterns)
  PROVE  /\ WithAdmin(s) \in Seq(Patterns) /\ Range(WithAdmin(s)) = Range(s) \cup {Admin}
         /\ Ordered(s) => Ordered(WithAdmin(s))
         /\ Behind(s) => Behind(WithAdmin(s))
         /\ Admin \in Range(s) => WithAdmin(s) = s
<1>1. Admin \in Patterns /\ Admin # CatchAll
  BY DEF Patterns, Areas, Admin, CatchAll
<1>2. CASE Admin \in Range(s)
  BY <1>2 DEF WithAdmin
<1>3. CASE Admin \notin Range(s)
  <2>1. WithAdmin(s) = <<Admin>> \o s
    BY <1>3 DEF WithAdmin
  <2>2. /\ <<Admin>> \o s \in Seq(Patterns) /\ Range(<<Admin>> \o s) = Range(s) \cup {Admin}
        /\ Ordered(s) => Ordered(<<Admin>> \o s)
        /\ Behind(s) => Behind(<<Admin>> \o s)
    BY <1>1, Lengthened
  <2> QED
    BY <1>3, <2>1, <2>2
<1> QED
  BY <1>2, <1>3

(* A call that sees to the URLconf, or has it imported.                    *)
LEMMA LoadKeeps ==
  ASSUME StartupInv, todo # <<>>, Head(todo) = "refresh" \/ Head(todo) = "ensure", boot' = boot,
         reflexApp' = reflexApp, site' = site, django' \in DjangoRecord,
         django'.configured = django.configured, django'.admin = django.admin, django'.wrapped = django.wrapped,
         django'.ready = django.ready, urls' \in UrlsRecord, urls'.patterns = urls.patterns,
         urls'.complete = urls.complete, urls'.spared = urls.spared, urls'.tooEarly = urls.tooEarly,
         Makes(<<>>) \/ (Makes(<<"import">>) /\ Told)
  PROVE  StartupInv'
<1>1. /\ todo \in Seq(Calls) /\ boot # NoBoot /\ Orderly /\ Halfway /\ UrlsRight
  BY Running
<1>2. \E q \in Seq(Calls) : Makes(q) /\ \A c : Among(c, q) => c = "import" /\ Told
  <2>1. CASE Makes(<<>>)
    BY <2>1, FewCalls
  <2>2. CASE Makes(<<"import">>) /\ Told
    <3>1. "import" \in Calls
      BY DEF Calls
    <3>2. <<"import">> \in Seq(Calls) /\ \A c : Among(c, <<"import">>) <=> c = "import"
      BY <3>1, FewCalls
    <3> QED
      BY <2>2, <3>2
  <2> QED
    BY <2>1, <2>2
<1>3. PICK q \in Seq(Calls) : Makes(q) /\ \A c : Among(c, q) => c = "import" /\ Told
  BY <1>2
<1>4. ASSUME NEW k \in 1 .. Len(q) PROVE Founded(k)'
  <2>1. q[k] = "import" /\ Told
    BY <1>3 DEF Among
  <2>2. todo'[k] = "import"
    BY <1>1, <1>3, <2>1, MadeFirst
  <2>3. Told'
    BY <2>1 DEF Told
  <2> QED
    BY <2>2, <2>3 DEF Founded
<1>5. /\ ~Among("admin ready", q) /\ ~Among("reflex ready", q) /\ ~Among("patch", q) /\ ~Among("resolve", q)
      /\ \A c \in Mounters : ~Among(c, q)
  <2>1. \A c : c # "import" => ~Among(c, q)
    BY <1>3
  <2> QED
    BY <2>1 DEF Mounters
<1>6. Orderly'
  <2>1. Head(todo) # "install" /\ Head(todo) \notin Mounters
    BY DEF Mounters
  <2> QED
    BY <1>1, <1>3, <1>5, <2>1, OrderlyStays
<1>7. Halfway'
  BY <1>1, <1>3, HalfwayStays
<1>8. UrlsRight'
  BY <1>1, UrlsStay
<1>9. site' \in SiteRecord
  BY TypesAre
<1>10. Head(todo) \notin Mounting /\ Head(todo) # "import" /\ Head(todo) # "admin ready" /\ Head(todo) # "configure"
  BY DEF Mounting
<1> QED
  BY <1>3, <1>4, <1>5, <1>6, <1>7, <1>8, <1>9, <1>10, Ordinary

(* Loading the URLconf once the admin is ready. *)
LEMMA LoadUrlsIs ==
  ASSUME urls \in UrlsRecord, django.admin, ~urls.tooEarly, LoadUrls(FALSE)
  PROVE  /\ Makes(<<"import">>)
         /\ urls' \in UrlsRecord /\ urls'.patterns = urls.patterns /\ urls'.complete = urls.complete
         /\ urls'.spared = urls.spared /\ urls'.tooEarly = urls.tooEarly
<1>1. Makes(<<"import">>)
  BY DEF LoadUrls
<1> DEFINE t == urls.tooEarly \/ (~django.admin /\ DefersImport)
<1>2. t = FALSE /\ urls.tooEarly = FALSE
  BY DEF UrlsRecord
<1>3. urls' = [urls EXCEPT !.imported = TRUE, !.deferred = FALSE, !.tooEarly = t]
  BY DEF LoadUrls
<1> HIDE DEF t
<1>4. /\ urls' \in UrlsRecord /\ urls'.patterns = urls.patterns /\ urls'.complete = urls.complete
      /\ urls'.spared = urls.spared /\ urls'.tooEarly = t
  BY <1>2, <1>3 DEF UrlsRecord
<1> QED
  BY <1>1, <1>2, <1>4

LEMMA RefreshKeeps == ASSUME StartupInv, Refresh PROVE StartupInv'
<1>1. /\ todo # <<>> /\ Head(todo) = "refresh" /\ django' = [django EXCEPT !.marked = TRUE]
      /\ boot' = boot /\ site' = site /\ reflexApp' = reflexApp
  BY DEF Refresh, Doing
<1>2. UrlsRight /\ Founded(1) /\ todo[1] = Head(todo)
  BY <1>1, Running
<1>3. django.admin
  BY <1>1, <1>2 DEF Founded
<1>4. site \in SiteRecord /\ urls \in UrlsRecord /\ django \in DjangoRecord
  BY TypesAre
<1>5. /\ django' \in DjangoRecord /\ django'.configured = django.configured /\ django'.admin = django.admin
      /\ django'.wrapped = django.wrapped /\ django'.ready = django.ready
  BY <1>1, <1>4 DEF DjangoRecord
<1>6. urls.tooEarly = FALSE
  BY <1>2, <1>4 DEF UrlsRight, UrlsMounted, UrlsRecord
<1>7. CASE LoadUrls(FALSE)
  BY <1>1, <1>3, <1>4, <1>5, <1>6, <1>7, LoadUrlsIs, LoadKeeps DEF Told
<1>8. CASE Makes(<<>>) /\ urls' = urls
  BY <1>1, <1>4, <1>5, <1>8, LoadKeeps
<1>9. LoadUrls(urls.tooEarly) \/ (Makes(<<>>) /\ urls' = urls)
  BY DEF Refresh, Returns
<1> QED
  BY <1>6, <1>7, <1>8, <1>9

LEMMA EnsureKeeps == ASSUME StartupInv, Ensure PROVE StartupInv'
<1>1. /\ todo # <<>> /\ Head(todo) = "ensure" /\ boot' = boot /\ django' = django /\ site' = site
      /\ reflexApp' = reflexApp
  BY DEF Ensure, Doing
<1>2. UrlsRight /\ AdminOnce
  BY <1>1, Running
<1>3. site \in SiteRecord /\ urls \in UrlsRecord /\ django \in DjangoRecord
  BY TypesAre
<1>4. CASE Makes(<<>>) /\ urls' = urls
  BY <1>1, <1>3, <1>4, LoadKeeps
<1>5. CASE Makes(<<>>) /\ urls' = [urls EXCEPT !.deferred = TRUE]
  <2>1. /\ urls' \in UrlsRecord /\ urls'.patterns = urls.patterns /\ urls'.spared = urls.spared
        /\ urls'.complete = urls.complete /\ urls'.tooEarly = urls.tooEarly
    BY <1>3, <1>5 DEF UrlsRecord
  <2> QED
    BY <1>1, <1>3, <1>5, <2>1, LoadKeeps
<1>6. CASE django.ready /\ LoadUrls(FALSE)
  <2>1. django.admin /\ ~urls.tooEarly
    BY <1>2, <1>6 DEF AdminOnce, UrlsRight, UrlsMounted
  <2> QED
    BY <1>1, <1>3, <1>6, <2>1, LoadUrlsIs, LoadKeeps DEF Told
<1> QED
  BY <1>4, <1>5, <1>6 DEF Ensure, Returns

LEMMA AutoMountKeeps == ASSUME StartupInv, AutoMount PROVE StartupInv'
<1>1. /\ todo # <<>> /\ Head(todo) = "auto mount"
      /\ boot' = boot /\ django' = django /\ urls' = urls /\ reflexApp' = reflexApp
  BY DEF AutoMount, Doing
<1>2. /\ todo \in Seq(Calls) /\ Orderly /\ Halfway /\ UrlsRight /\ Founded(1) /\ todo[1] = Head(todo)
  BY <1>1, Running
<1>3. Mounts /\ Told
  BY <1>1, <1>2 DEF Founded
<1>4. site \in SiteRecord /\ urls \in UrlsRecord /\ django \in DjangoRecord
  BY TypesAre
<1>5. "auto mount" \in Mounting /\ "auto mount" \notin Mounters
  BY DEF Mounting, Mounters
<1>6. CASE site.mounted \/ ~MountEnabled
  <2>1. Makes(<<>>) /\ site' = [site EXCEPT !.mounted = TRUE]
    BY <1>6 DEF AutoMount, Returns
  <2>2. /\ site' \in SiteRecord /\ site'.mounted
        /\ site'.config = site.config /\ site'.installed = site.installed /\ site'.busy = site.busy
        /\ site'.refused = site.refused /\ site'.hasty = site.hasty /\ site'.registered = site.registered
    BY <1>4, <2>1 DEF SiteRecord
  <2>3. site.mounted \/ ~Mountable
    BY <1>3, <1>6 DEF Mounts
  <2>4. <<>> \in Seq(Calls) /\ (\A k \in 1 .. Len(<<>>) : FALSE) /\ \A c : ~Among(c, <<>>)
    BY FewCalls
  <2>5. Orderly'
    BY <1>1, <1>2, <1>5, <2>1, <2>2, <2>4, OrderlyStays
  <2>6. Halfway'
    BY <1>1, <1>2, <2>1, <2>2, <2>4, HalfwayStays
  <2>7. UrlsRight'
    BY <1>1, <1>2, <2>2, <2>3, UrlsStay
  <2>8. Head(todo) # "configure" /\ Head(todo) # "admin ready" /\ Head(todo) # "import"
    BY <1>1
  <2> QED
    BY <1>1, <1>4, <2>1, <2>2, <2>4, <2>5, <2>6, <2>7, <2>8, Ordinary
<1>7. CASE ~(site.mounted \/ ~MountEnabled)
  <2> DEFINE s == <<"import", "mount">>
  <2>1. Makes(s) /\ site' = site
    BY <1>7 DEF AutoMount
  <2>2. /\ s \in Seq(Calls) /\ (\A k \in 1 .. Len(s) : k = 1 \/ k = 2) /\ s[1] = "import" /\ s[2] = "mount"
        /\ 1 \in 1 .. Len(s) /\ 2 \in 1 .. Len(s)
        /\ \A c : Among(c, s) <=> c = "import" \/ c = "mount"
    <3>1. "import" \in Calls /\ "mount" \in Calls
      BY DEF Calls
    <3> QED
      BY <3>1, FewCalls
  <2> HIDE DEF s
  <2>3. \A c : c # "import" /\ c # "mount" => ~Among(c, s)
    BY <2>2
  <2>4. /\ ~Among("admin ready", s) /\ ~Among("reflex ready", s) /\ ~Among("patch", s) /\ ~Among("resolve", s)
        /\ \A c \in Mounters : ~Among(c, s)
    BY <2>3 DEF Mounters
  <2>5. \E c \in Mounting : Among(c, s)
    BY <2>2 DEF Mounting
  <2>6. ASSUME NEW k \in 1 .. Len(s) PROVE Founded(k)'
    <3>1. todo'[1] = "import" /\ todo'[2] = "mount"
      BY <1>1, <1>2, <2>1, <2>2, MadeFirst
    <3>2. 1 \in 1 .. 2 - 1
      OBVIOUS
    <3>3. Sooner("import", 2)'
      BY <3>1, <3>2 DEF Sooner
    <3>4. Told'
      BY <1>1, <1>3, <2>1 DEF Told
    <3>5. CASE k = 1
      BY <3>1, <3>4, <3>5 DEF Founded
    <3>6. CASE k = 2
      BY <3>1, <3>3, <3>4, <3>6 DEF Founded
    <3> QED
      BY <2>2, <3>5, <3>6
  <2>7. Orderly'
    BY <1>1, <1>2, <1>5, <2>1, <2>2, <2>4, OrderlyStays
  <2>8. Halfway'
    BY <1>1, <1>2, <2>1, <2>2, HalfwayStays
  <2>9. UrlsRight'
    BY <1>1, <1>2, <2>1, UrlsStay
  <2>10. Head(todo) # "configure" /\ Head(todo) # "admin ready" /\ Head(todo) # "import"
    BY <1>1
  <2> QED
    BY <1>1, <1>4, <2>1, <2>2, <2>4, <2>5, <2>6, <2>7, <2>8, <2>9, <2>10, Ordinary
<1> QED
  BY <1>6, <1>7


(* What asks for the configuration before it makes a call. *)
LEMMA AsksIs ==
  ASSUME NEW c \in Calls, c # "install"
  PROVE  /\ AsksConfig(c) \in Seq(Calls) /\ Among(c, AsksConfig(c))
         /\ \A x : Among(x, AsksConfig(c)) => x = "install" \/ x = c
         /\ \A k \in 1 .. Len(AsksConfig(c)) :
              (AsksConfig(c)[k] = "install" /\ k = 1)
                \/ (AsksConfig(c)[k] = c /\ k = 1)
                \/ (AsksConfig(c)[k] = c /\ k = 2 /\ boot.pth
                      /\ 1 \in 1 .. Len(AsksConfig(c)) /\ AsksConfig(c)[1] = "install")
<1>1. "install" \in Calls
  BY DEF Calls
<1>2. CASE boot.pth
  <2>1. AsksConfig(c) = <<"install", c>>
    BY <1>2 DEF AsksConfig
  <2> QED
    BY <1>1, <1>2, <2>1, FewCalls
<1>3. CASE ~boot.pth
  <2>1. AsksConfig(c) = <<c>>
    BY <1>3 DEF AsksConfig
  <2> QED
    BY <2>1, FewCalls
<1> QED
  BY <1>2, <1>3

(* A catch-all that is to be added is not overtaken: the integration is at *)
(* work or installed, or is not asked for.                                 *)
LEMMA OrderlyAsks ==
  ASSUME Orderly, todo \in Seq(Calls), todo # <<>>, Head(todo) # "install", Head(todo) \notin Mounters,
         NEW c \in Mounters, Makes(AsksConfig(c)), boot' = boot, site'.busy = site.busy,
         site'.installed = site.installed, CatchAll \notin Range(urls'.patterns)
  PROVE  Orderly'
<1> DEFINE q == AsksConfig(c)
<1>1. c \in Calls /\ c # "install"
  BY DEF Calls, Mounters
<1>2. /\ q \in Seq(Calls)
      /\ \A k \in 1 .. Len(q) :
           (q[k] = "install" /\ k = 1) \/ (q[k] = c /\ k = 1)
             \/ (q[k] = c /\ k = 2 /\ boot.pth /\ 1 \in 1 .. Len(q) /\ q[1] = "install")
  BY <1>1, AsksIs
<1> HIDE DEF q
<1>3. Makes(q)
  BY DEF q
<1>4. /\ Head(todo) = todo[1] /\ todo \notin {<<>>, <<"install">>}
  <2>1. Head(todo) = todo[1] /\ Len(<<"install">>) = 1 /\ <<"install">>[1] = "install"
    OBVIOUS
  <2> QED
    BY <2>1
<1>5. boot.door = "reflex" => site.busy \/ site.installed
  BY <1>4 DEF Orderly, ReflexFirst
<1>6. ReflexFirst'
  BY <1>5 DEF ReflexFirst
<1>7. ASSUME Single, NEW k \in 1 .. Len(todo'), todo'[k] \in Mounters
      PROVE  k = 1 \/ (k = 2 /\ todo'[1] = "install" /\ (site.busy \/ site.installed))
  <2>1. \A x \in Mounters : ~Pending(x)
    BY <1>4, <1>7, NoMounter
  <2>2. /\ Len(todo) \in Nat \ {0} /\ Len(q) \in Nat
        /\ k \in 1 .. Len(q) \/ (k + 1 - Len(q) \in 2 .. Len(todo) /\ todo'[k] = todo[k + 1 - Len(q)])
    BY <1>2, <1>3, HeadReplaced DEF Makes
  <2>3. ASSUME NEW i \in 2 .. Len(todo), todo'[k] = todo[i] PROVE FALSE
    <3>1. i \in 1 .. Len(todo)
      BY <2>2
    <3> QED
      BY <1>7, <2>1, <2>3, <3>1 DEF Pending
  <2>4. k \in 1 .. Len(q)
    BY <2>2, <2>3
  <2>5. todo'[k] = q[k] /\ (1 \in 1 .. Len(q) => todo'[1] = q[1])
    BY <1>2, <1>3, <2>4, MadeFirst
  <2>6. boot.pth => site.busy \/ site.installed
    BY <1>5, <1>7 DEF Single
  <2> QED
    BY <1>2, <2>4, <2>5, <2>6
<1>8. NotOvertaken'
  BY <1>7 DEF NotOvertaken, Single
<1> QED
  BY <1>6, <1>8 DEF Orderly

(* What importing the URLconf makes of it. *)
LEMMA ImportIs ==
  ASSUME StartupInv, todo # <<>>, Head(todo) = "import", Import, urls.patterns = NotImported
  PROVE  \E r \in (SUBSET Areas) \cup {Unset} : \E l \in Seq(Patterns) : \E b \in BOOLEAN :
           /\ urls' = [urls EXCEPT !.patterns = l, !.complete = b]
           /\ site' = [site EXCEPT !.registered = r]
           /\ CatchAll \notin Range(l) /\ (Admin \in Range(l) => b = django.admin)
           /\ site.registered # Unset => r # Unset
           /\ \/ Makes(<<>>) /\ r = site.registered
              \/ Makes(AsksConfig("append")) /\ CatchAll \in Range(boot.urls)
<1> DEFINE l == Listed(boot.urls)
           b == IF Admin \in Range(l) THEN django.admin ELSE urls.complete
           r == IF l # boot.urls THEN Merged(site.registered, Mounted(l)) ELSE site.registered
<1>1. ~(urls.patterns # NotImported /\ Doing("import"))
  OBVIOUS
<1>2. /\ urls' = [urls EXCEPT !.patterns = l, !.complete = b]
      /\ site' = [site EXCEPT !.registered = r]
      /\ Makes(IF l # boot.urls THEN AsksConfig("append") ELSE <<>>)
  BY <1>1 DEF Import
<1>3. /\ l \in Seq(Patterns) /\ CatchAll \notin Range(l)
      /\ CatchAll \notin Range(boot.urls) => l = boot.urls
  BY Running, ListedIs
<1>4. b \in BOOLEAN /\ (Admin \in Range(l) => b = django.admin)
  BY TypesAre DEF UrlsRecord, DjangoRecord
<1>5. Mounted(l) \in SUBSET Areas
  BY <1>3, Known
<1>6. site.registered \in (SUBSET Areas) \cup {Unset}
  BY TypesAre DEF SiteRecord
<1> HIDE DEF l
<1>7. r \in (SUBSET Areas) \cup {Unset} /\ (site.registered # Unset => r # Unset)
  BY <1>5, <1>6 DEF Merged
<1>8. \/ Makes(<<>>) /\ r = site.registered
      \/ Makes(AsksConfig("append")) /\ CatchAll \in Range(boot.urls)
  BY <1>2, <1>3
<1> HIDE DEF b, r
<1> QED
  BY <1>2, <1>3, <1>4, <1>7, <1>8

LEMMA ImportKeeps == ASSUME StartupInv, Import PROVE StartupInv'
<1>1. todo # <<>> /\ boot' = boot /\ django' = django /\ reflexApp' = reflexApp
  BY DEF Import, Doing
<1>2. /\ boot \in Boots /\ todo \in Seq(Calls) /\ Orderly /\ Halfway /\ UrlsRight /\ Founded(1) /\ todo[1] = Head(todo)
  BY <1>1, Running
<1>3. Head(todo) = "import" /\ Told
  <2>1. Head(todo) # "reload"
    BY <1>2 DEF Founded
  <2>2. Head(todo) = "import"
    BY <2>1 DEF Import, Doing
  <2> QED
    BY <1>2, <2>2 DEF Founded
<1>4. "import" \notin Mounting /\ "import" \notin Mounters
  BY DEF Mounting, Mounters
<1>5. CASE urls.patterns # NotImported
  <2>1. Makes(<<>>) /\ urls' = urls /\ site' = site
    BY <1>1, <1>3, <1>5 DEF Import, Doing, Returns
  <2> QED
    BY <1>1, <1>3, <1>4, <1>5, <2>1, Skipped
<1>6. CASE urls.patterns = NotImported
  <2>1. PICK r \in (SUBSET Areas) \cup {Unset} : \E l \in Seq(Patterns) : \E b \in BOOLEAN :
               /\ urls' = [urls EXCEPT !.patterns = l, !.complete = b]
               /\ site' = [site EXCEPT !.registered = r]
               /\ CatchAll \notin Range(l) /\ (Admin \in Range(l) => b = django.admin)
               /\ site.registered # Unset => r # Unset
               /\ \/ Makes(<<>>) /\ r = site.registered
                  \/ Makes(AsksConfig("append")) /\ CatchAll \in Range(boot.urls)
    BY <1>1, <1>3, <1>6, ImportIs
  <2>2. PICK l \in Seq(Patterns), b \in BOOLEAN :
               /\ urls' = [urls EXCEPT !.patterns = l, !.complete = b]
               /\ site' = [site EXCEPT !.registered = r]
               /\ CatchAll \notin Range(l) /\ (Admin \in Range(l) => b = django.admin)
               /\ site.registered # Unset => r # Unset
               /\ \/ Makes(<<>>) /\ r = site.registered
                  \/ Makes(AsksConfig("append")) /\ CatchAll \in Range(boot.urls)
    BY <2>1
  <2>3. site \in SiteRecord /\ urls \in UrlsRecord /\ django \in DjangoRecord
    BY TypesAre
  <2>4. /\ urls' \in UrlsRecord /\ urls'.patterns = l /\ urls'.complete = b
        /\ urls'.spared = urls.spared /\ urls'.tooEarly = urls.tooEarly
    BY <2>2, <2>3 DEF UrlsRecord
  <2>5. /\ site' \in SiteRecord /\ site'.registered = r
        /\ site'.config = site.config /\ site'.installed = site.installed /\ site'.busy = site.busy
        /\ site'.refused = site.refused /\ site'.mounted = site.mounted /\ site'.hasty = site.hasty
    BY <2>2, <2>3 DEF SiteRecord
  <2>6. l # NotImported
    BY Known
  <2>7. CatchAll \notin Range(urls.patterns) /\ Admin \notin Range(urls.patterns)
    BY <1>6, NotYet
  <2>8. Unsaid => r = site.registered
    BY <2>2 DEF Unsaid
  <2>9. UrlsRight'
    <3>1. UrlsMounted'
      BY <1>1, <1>2, <2>2, <2>4, <2>5, <2>7 DEF UrlsRight, UrlsMounted, Mountable, Single, Behind, Ordered, Range
    <3>2. UrlsAgreed'
      BY <1>1, <1>2, <2>2, <2>4, <2>5, <2>7, <2>8 DEF UrlsRight, UrlsAgreed, Unsaid
    <3>3. UrlsComplete'
      BY <1>1, <1>3, <2>2, <2>4, <2>5 DEF UrlsComplete, Told
    <3> QED
      BY <3>1, <3>2, <3>3 DEF UrlsRight
  <2>10. Told'
    BY <1>1, <1>3, <2>5 DEF Told
  <2>11. Head(todo) # "configure" /\ Head(todo) # "admin ready" /\ Head(todo) # "install" /\ Head(todo) # "mount it"
    BY <1>3
  <2>12. CASE Makes(<<>>)
    <3>1. <<>> \in Seq(Calls) /\ (\A k \in 1 .. Len(<<>>) : FALSE) /\ \A c : ~Among(c, <<>>)
      BY FewCalls
    <3>2. Orderly'
      BY <1>1, <1>2, <1>3, <1>4, <2>5, <2>11, <2>12, <3>1, OrderlyStays
    <3>3. Halfway'
      BY <1>1, <1>2, <2>4, <2>5, <2>7, <2>8, <2>11, <2>12, <3>1, HalfwayStays
    <3> QED
      BY <1>1, <1>3, <1>4, <2>2, <2>3, <2>4, <2>5, <2>6, <2>9, <2>11, <2>12, <3>1, <3>2, <3>3, Ordinary
  <2>13. CASE Makes(AsksConfig("append")) /\ CatchAll \in Range(boot.urls)
    <3> DEFINE q == AsksConfig("append")
    <3>0. "append" \in Calls /\ "append" \in Mounters
      BY DEF Calls, Mounters
    <3>1. /\ q \in Seq(Calls) /\ (\A x : Among(x, q) => x = "install" \/ x = "append")
          /\ \A k \in 1 .. Len(q) : q[k] = "install" \/ q[k] = "append"
      BY <3>0, AsksIs
    <3>2. Orderly'
      BY <1>1, <1>2, <1>3, <1>4, <2>2, <2>4, <2>5, <2>11, <2>13, <3>0, OrderlyAsks
    <3> HIDE DEF q
    <3>3. Makes(q)
      BY <2>13 DEF q
    <3>4. Halfway'
      BY <1>1, <1>2, <2>4, <2>5, <2>7, <2>8, <2>11, <3>1, <3>3, HalfwayStays
    <3>5. ASSUME NEW k \in 1 .. Len(q) PROVE Founded(k)'
      <4>1. todo'[k] = q[k]
        BY <1>1, <1>2, <3>1, <3>3, MadeFirst
      <4>2. todo'[k] = "install" \/ todo'[k] = "append"
        BY <3>1, <4>1
      <4> QED
        BY <1>1, <2>4, <2>6, <2>10, <2>13, <4>2 DEF Founded
    <3>6. \A x : x # "install" /\ x # "append" => ~Among(x, q)
      BY <3>1
    <3>7. /\ ~Among("admin ready", q) /\ ~Among("reflex ready", q) /\ ~Among("patch", q) /\ ~Among("resolve", q)
      BY <3>6
    <3> QED
      BY <1>1, <1>3, <1>4, <2>2, <2>3, <2>4, <2>5, <2>6, <2>9, <2>11, <3>1, <3>2, <3>3, <3>4, <3>5, <3>7, Ordinary
  <2> QED
    BY <2>2, <2>12, <2>13
<1> QED
  BY <1>5, <1>6

LEMMA MountKeeps == ASSUME StartupInv, Mount PROVE StartupInv'
<1>1. /\ todo # <<>> /\ Head(todo) = "mount"
      /\ boot' = boot /\ django' = django /\ reflexApp' = reflexApp
  BY DEF Mount, Doing
<1>2. /\ boot \in Boots /\ todo \in Seq(Calls) /\ Orderly /\ Halfway /\ UrlsRight
      /\ Founded(1) /\ todo[1] = Head(todo) /\ \A c : ~Sooner(c, 1)
  BY <1>1, Running
<1>3. Told /\ urls.patterns # NotImported
  BY <1>1, <1>2 DEF Founded
<1>4. site \in SiteRecord /\ urls \in UrlsRecord /\ django \in DjangoRecord
  BY TypesAre
<1> DEFINE old == urls.patterns
           p == WithAdmin(old)
           b == IF p = old THEN urls.complete ELSE django.admin
<1>5. old \in Seq(Patterns)
  BY <1>3, <1>4 DEF UrlsRecord
<1>6. /\ p \in Seq(Patterns) /\ Range(p) = Range(old) \cup {Admin}
      /\ Ordered(old) => Ordered(p)
      /\ Behind(old) => Behind(p)
      /\ Admin \in Range(old) => p = old
  BY <1>5, WithAdminIs
<1>7. urls' = [urls EXCEPT !.patterns = p, !.complete = b]
  BY DEF Mount
<1>8. \/ CatchAll \in Range(p) /\ Makes(<<>>) /\ site' = [site EXCEPT !.mounted = TRUE]
      \/ /\ CatchAll \notin Range(p) /\ Makes(AsksConfig("mount it"))
         /\ site' = [site EXCEPT !.registered = Merged(@, Mounted(p))]
  BY DEF Mount, Returns
<1>9. b \in BOOLEAN
  BY <1>4 DEF UrlsRecord, DjangoRecord
<1>10. p = old => b = urls.complete
  OBVIOUS
<1>11. p # old => b = django.admin
  OBVIOUS
<1> HIDE DEF p, b
<1>12. /\ urls' \in UrlsRecord /\ urls'.patterns = p /\ urls'.complete = b /\ urls'.spared = urls.spared
       /\ urls'.tooEarly = urls.tooEarly
  BY <1>4, <1>6, <1>7, <1>9 DEF UrlsRecord
<1>13. p # NotImported /\ Mounted(p) \in SUBSET Areas
  BY <1>6, Known
<1>14. Admin # CatchAll /\ "mount" \notin Mounters
  BY DEF Admin, CatchAll, Mounters
<1>15. CatchAll \in Range(p) <=> CatchAll \in Range(old)
  BY <1>6, <1>14
<1>16. ASSUME site.hasty => site'.hasty PROVE UrlsComplete'
  BY <1>1, <1>2, <1>3, <1>6, <1>10, <1>11, <1>12, <1>16 DEF UrlsRight, UrlsComplete, Told
<1>17. Head(todo) # "configure" /\ Head(todo) # "admin ready" /\ Head(todo) # "install" /\ Head(todo) # "mount it"
       /\ Head(todo) # "import"
  BY <1>1
<1>18. UrlsMounted /\ UrlsAgreed
  BY <1>2 DEF UrlsRight
<1>19. ~urls'.tooEarly /\ Behind(urls'.patterns) /\ (Single' => Ordered(urls'.patterns))
  BY <1>1, <1>6, <1>12, <1>18 DEF UrlsMounted, Single
<1>20. CASE CatchAll \in Range(p) /\ Makes(<<>>) /\ site' = [site EXCEPT !.mounted = TRUE]
  <2>1. /\ site' \in SiteRecord /\ site'.mounted /\ site'.registered = site.registered
        /\ site'.config = site.config /\ site'.installed = site.installed /\ site'.busy = site.busy
        /\ site'.refused = site.refused /\ site'.hasty = site.hasty
    BY <1>4, <1>20 DEF SiteRecord
  <2>2. UrlsMounted'
    BY <1>12, <1>19, <1>20 DEF UrlsMounted
  <2>3. UrlsAgreed'
    <3>1. Unsaid => Admin \in Range(old)
      BY <1>15, <1>18, <1>20 DEF UrlsAgreed
    <3>2. Unsaid => p = old
      BY <1>6, <3>1
    <3> QED
      BY <1>1, <1>12, <1>18, <2>1, <3>2 DEF UrlsAgreed, Unsaid
  <2>4. UrlsRight'
    BY <1>16, <2>1, <2>2, <2>3 DEF UrlsRight
  <2>5. <<>> \in Seq(Calls) /\ (\A k \in 1 .. Len(<<>>) : FALSE) /\ \A c : ~Among(c, <<>>)
    BY FewCalls
  <2>6. Orderly'
    BY <1>1, <1>2, <1>14, <1>17, <1>20, <2>1, <2>5, OrderlyStays
  <2>7. Halfway'
    BY <1>12, <1>20 DEF Halfway
  <2> QED
    BY <1>1, <1>4, <1>12, <1>13, <1>17, <1>20, <2>1, <2>4, <2>5, <2>6, <2>7, Ordinary
<1>21. CASE /\ CatchAll \notin Range(p) /\ Makes(AsksConfig("mount it"))
            /\ site' = [site EXCEPT !.registered = Merged(@, Mounted(p))]
  <2> DEFINE r == Merged(site.registered, Mounted(p))
             q == AsksConfig("mount it")
  <2>1. r = Discovered(p) /\ r # Unset /\ r \in SUBSET Areas /\ Admin \in Range(p)
    <3>1. Admin \in Range(p)
      BY <1>6
    <3>2. Admin \in Mounted(p)
      BY <1>14, <3>1 DEF Mounted, Discovered
    <3>3. Admin \notin Unset
      BY DEF Admin, Unset
    <3>4. Mounted(p) # Unset
      BY <3>2, <3>3
    <3> QED
      BY <1>13, <3>1, <3>4 DEF Merged, Mounted
  <2>2. site' = [site EXCEPT !.registered = r]
    BY <1>21
  <2> HIDE DEF r
  <2>3. /\ site' \in SiteRecord /\ site'.registered = r /\ site'.mounted = site.mounted
        /\ site'.config = site.config /\ site'.installed = site.installed /\ site'.busy = site.busy
        /\ site'.refused = site.refused /\ site'.hasty = site.hasty
    BY <1>4, <2>1, <2>2 DEF SiteRecord
  <2>4. CatchAll \notin Range(old)
    BY <1>15, <1>21
  <2>5. UrlsMounted'
    <3>1. Mountable' = Mountable
      BY <1>1 DEF Mountable
    <3> QED
      BY <1>18, <1>19, <2>3, <2>4, <3>1 DEF UrlsMounted
  <2>6. UrlsAgreed'
    BY <1>1, <1>12, <1>18, <1>21, <2>1, <2>3, <2>4 DEF UrlsAgreed, Unsaid
  <2>7. UrlsRight'
    BY <1>16, <2>3, <2>5, <2>6 DEF UrlsRight
  <2>8. "mount it" \in Calls /\ "mount it" \in Mounters /\ "mount it" \in Mounting /\ "mount it" # "install"
    BY DEF Calls, Mounters, Mounting
  <2>9. /\ q \in Seq(Calls) /\ Among("mount it", q) /\ (\A x : Among(x, q) => x = "install" \/ x = "mount it")
        /\ \A k \in 1 .. Len(q) : q[k] = "install" \/ q[k] = "mount it"
    BY <2>8, AsksIs
  <2>10. Orderly'
    BY <1>1, <1>2, <1>12, <1>14, <1>17, <1>21, <2>3, <2>8, OrderlyAsks
  <2> HIDE DEF q
  <2>11. Makes(q)
    BY <1>21 DEF q
  <2>12. Halfway'
    <3>1. Pending("mount it")'
      BY <1>1, <1>2, <2>9, <2>11, Made
    <3> QED
      BY <3>1 DEF Halfway
  <2>13. Told'
    BY <1>1, <1>3, <2>3 DEF Told
  <2>14. ASSUME NEW k \in 1 .. Len(q) PROVE Founded(k)'
    <3>1. todo'[k] = q[k]
      BY <1>1, <1>2, <2>9, <2>11, MadeFirst
    <3>2. todo'[k] = "install" \/ todo'[k] = "mount it"
      BY <2>9, <3>1
    <3> QED
      BY <1>12, <1>13, <2>1, <2>3, <2>13, <3>2 DEF Founded
  <2>15. \A x : x # "install" /\ x # "mount it" => ~Among(x, q)
    BY <2>9
  <2>16. /\ ~Among("admin ready", q) /\ ~Among("reflex ready", q) /\ ~Among("patch", q) /\ ~Among("resolve", q)
    BY <2>15
  <2> QED
    BY <1>1, <1>4, <1>12, <1>13, <1>17, <2>1, <2>3, <2>7, <2>8, <2>9, <2>10, <2>11, <2>12, <2>14, <2>16, Ordinary
<1> QED
  BY <1>8, <1>20, <1>21

LEMMA AddCatchAllKeeps == ASSUME StartupInv, AddCatchAll PROVE StartupInv'
<1>1. /\ todo # <<>> /\ Head(todo) \in {"append", "mount it"} /\ Makes(<<>>)
      /\ boot' = boot /\ django' = django /\ reflexApp' = reflexApp
  BY DEF AddCatchAll, Doing, Returns
<1>2. /\ boot \in Boots /\ todo \in Seq(Calls) /\ Orderly /\ Halfway /\ UrlsRight /\ 1 \in 1 .. Len(todo)
      /\ Founded(1) /\ todo[1] = Head(todo)
  BY <1>1, Running
<1>3. /\ urls.patterns # NotImported
      /\ Unsaid => Head(todo) = "mount it" /\ site.registered # Unset
  BY <1>1, <1>2 DEF Founded, Unsaid
<1>4. site \in SiteRecord /\ urls \in UrlsRecord /\ django \in DjangoRecord
  BY TypesAre
<1> DEFINE old == urls.patterns
           p == Append(old, CatchAll)
           sp == IF CatchAll \in Range(old) THEN urls.spared ELSE Mounted(old)
           m == site.mounted \/ Doing("mount it")
<1>5. old \in Seq(Patterns) /\ urls.spared \in SUBSET Areas
  BY <1>3, <1>4 DEF UrlsRecord
<1>6. /\ p \in Seq(Patterns)
      /\ \A y : y \in Range(p) <=> y \in Range(old) \/ y = CatchAll
      /\ CatchAll \notin Range(old) => Ordered(p)
      /\ Behind(old) => Behind(p)
  <2>1. CatchAll \in Patterns
    BY DEF Patterns
  <2> QED
    BY <1>5, <2>1, Lengthened
<1>7. p # NotImported
  BY <1>6, Known
<1>8. sp \in SUBSET Areas
  BY <1>5, Known
<1>9. urls' = [urls EXCEPT !.patterns = p, !.spared = sp] /\ site' = [site EXCEPT !.mounted = m]
  BY DEF AddCatchAll
<1>10. m \in BOOLEAN /\ (site.mounted => m) /\ (Head(todo) = "mount it" => m)
  BY <1>1 DEF Doing
<1>11. /\ CatchAll \in Range(old) => sp = urls.spared
       /\ CatchAll \notin Range(old) => sp = Discovered(old)
  BY DEF Mounted
<1> HIDE DEF p, sp, m
<1>12. /\ urls' \in UrlsRecord /\ urls'.patterns = p /\ urls'.spared = sp /\ urls'.complete = urls.complete
       /\ urls'.tooEarly = urls.tooEarly
  BY <1>4, <1>6, <1>8, <1>9 DEF UrlsRecord
<1>13. /\ site' \in SiteRecord /\ site'.mounted = m /\ site'.registered = site.registered
       /\ site'.config = site.config /\ site'.installed = site.installed /\ site'.busy = site.busy
       /\ site'.refused = site.refused /\ site'.hasty = site.hasty
  BY <1>4, <1>9, <1>10 DEF SiteRecord
<1>14. CatchAll \in Range(p) /\ Discovered(p) = Discovered(old) /\ (Admin \in Range(p) <=> Admin \in Range(old))
  <2>1. Admin # CatchAll
    BY DEF Admin, CatchAll
  <2> QED
    BY <1>6, <2>1 DEF Discovered
<1>15. Head(todo) \in Mounters
  BY <1>1 DEF Mounters
<1>16. Single => CatchAll \notin Range(old)
  BY <1>2, <1>15 DEF Orderly, NotOvertaken
<1>17. UrlsMounted'
  BY <1>1, <1>2, <1>6, <1>12, <1>14, <1>16 DEF UrlsRight, UrlsMounted, Single
<1>18. UrlsAgreed'
  <2>1. ASSUME Unsaid
        PROVE  /\ site.registered = Discovered(old) /\ Admin \in Range(old)
               /\ CatchAll \in Range(old) => urls.spared = Discovered(old)
               /\ reflexApp.dispatchers # <<>> => reflexApp.dispatchers = <<Discovered(old)>>
    BY <1>2, <1>3, <2>1 DEF UrlsRight, UrlsAgreed
  <2>2. Unsaid => sp = Discovered(old)
    BY <1>11, <2>1
  <2> QED
    BY <1>1, <1>3, <1>12, <1>13, <1>14, <2>1, <2>2 DEF UrlsAgreed, Unsaid
<1>19. UrlsComplete'
  BY <1>2, <1>12, <1>13, <1>14 DEF UrlsRight, UrlsComplete
<1>20. UrlsRight'
  BY <1>17, <1>18, <1>19 DEF UrlsRight
<1>21. <<>> \in Seq(Calls) /\ (\A k \in 1 .. Len(<<>>) : FALSE) /\ (\A c : ~Among(c, <<>>)) /\ Len(<<>>) = 0
  BY FewCalls
<1>22. Orderly'
  <2>0. todo # <<>> /\ Makes(<<>>) /\ todo \in Seq(Calls)
    BY <1>1, <1>2
  <2>1. /\ Len(todo) \in Nat \ {0}
        /\ \A k \in 1 .. Len(todo') : k + 1 - Len(<<>>) \in 2 .. Len(todo) /\ todo'[k] = todo[k + 1 - Len(<<>>)]
    BY <1>21, <2>0, HeadReplaced DEF Makes
  <2>2. ASSUME Single, NEW k \in 1 .. Len(todo'), todo'[k] \in Mounters PROVE FALSE
    <3>1. PICK i \in 2 .. Len(todo) : todo[i] \in Mounters
      BY <2>1, <2>2
    <3>2. i \in 1 .. Len(todo) /\ i # 1
      BY <2>1, <3>1
    <3>3. todo[1] = "install"
      BY <1>2, <2>2, <3>1, <3>2 DEF Orderly, NotOvertaken
    <3> QED
      BY <1>1, <1>2, <3>3
  <2>3. NotOvertaken'
    BY <1>1, <2>2 DEF NotOvertaken, Single
  <2>4. todo # <<"install">>
    <3>1. Head(<<"install">>) = "install"
      OBVIOUS
    <3> QED
      BY <1>1, <3>1
  <2>5. boot.door = "reflex" => site.busy \/ site.installed
    BY <1>1, <1>2, <2>4 DEF Orderly, ReflexFirst
  <2>6. ReflexFirst'
    BY <1>1, <1>13, <2>5 DEF ReflexFirst
  <2> QED
    BY <2>3, <2>6 DEF Orderly
<1>23. Halfway'
  BY <1>12, <1>14 DEF Halfway
<1>24. Head(todo) # "configure" /\ Head(todo) # "admin ready" /\ (Head(todo) \in Mounting => Head(todo) = "mount it")
  BY <1>1 DEF Mounting
<1> QED
  BY <1>1, <1>4, <1>7, <1>10, <1>12, <1>13, <1>20, <1>21, <1>22, <1>23, <1>24, Ordinary

LEMMA StartKeeps == ASSUME StartupInv, NEW b \in Boots, Start(b) PROVE StartupInv'
<1>1. /\ boot = NoBoot /\ boot' = b /\ django' = django /\ urls' = urls /\ site' = site /\ reflexApp' = reflexApp
  BY DEF Start
<1>2. StartupInit
  BY <1>1 DEF StartupInv, StartupTypes
<1>3. b # NoBoot
  <2>1. b.door \in {"reflex", "django"}
    BY StartupAssumption DEF BootRecord
  <2> QED
    BY <2>1 DEF NoBoot
<1>4. PICK call \in {"install", "configure"} : todo' = <<call>> /\ (b.door = "reflex" => call = "install")
  BY DEF Start
<1>5. call \in Calls /\ call \notin Mounters
  BY DEF Calls, Mounters
<1>6. todo' \in Seq(Calls) /\ (\A k \in 1 .. Len(todo') : k = 1) /\ todo'[1] = call
  BY <1>4, <1>5, FewCalls
<1>7. /\ ~django.configured /\ ~django.admin /\ ~django.wrapped /\ ~django.ready
      /\ ~site.installed /\ ~site.busy /\ ~site.refused /\ ~site.mounted /\ site.registered = Unset
      /\ ~urls.tooEarly /\ urls.patterns = NotImported /\ reflexApp.dispatchers = <<>>
  BY <1>2 DEF StartupInit
<1>8. StartupTypes'
  BY <1>1, <1>3, <1>6 DEF StartupInv, StartupTypes
<1>9. AllFounded'
  <2>1. ASSUME NEW k \in 1 .. Len(todo') PROVE Founded(k)'
    <3>1. k = 1 /\ todo'[k] \in {"install", "configure"}
      BY <1>6, <2>1
    <3> QED
      BY <1>1, <1>7, <3>1 DEF Founded
  <2> QED
    BY <2>1 DEF AllFounded
<1>10. ASSUME NEW c, c # call PROVE ~Pending(c)'
  BY <1>6, <1>10 DEF Pending
<1>11. ~Pending("patch")' /\ ~Pending("resolve")' /\ ~Pending("admin ready")' /\ ~Pending("reflex ready")'
  BY <1>10
<1>12. Once("patch")' /\ Once("resolve")' /\ Once("admin ready")'
  BY <1>6 DEF Once
<1>13. InstalledOnce'
  BY <1>1, <1>7, <1>11, <1>12 DEF InstalledOnce
<1>14. AdminOnce'
  BY <1>1, <1>7, <1>11, <1>12 DEF AdminOnce
<1>15. Orderly'
  <2>1. NotOvertaken'
    BY <1>5, <1>6 DEF NotOvertaken
  <2>2. ReflexFirst'
    BY <1>1, <1>4 DEF ReflexFirst
  <2> QED
    BY <2>1, <2>2 DEF Orderly
<1>16. Halfway'
  BY <1>1, <1>7 DEF Halfway
<1>17. UrlsRight'
  BY <1>1, <1>7, NotYet DEF UrlsRight, UrlsMounted, UrlsAgreed, UrlsComplete
<1> QED
  BY <1>8, <1>9, <1>13, <1>14, <1>15, <1>16, <1>17 DEF StartupInv

(* A process that is up, and in which prefixes are those of a catch-all.   *)
LEMMA UpIs ==
  ASSUME StartupInv, todo = <<>>, site.installed
  PROVE  /\ boot # NoBoot /\ boot \in Boots
         /\ AllFounded /\ InstalledOnce /\ AdminOnce /\ Orderly /\ Halfway /\ UrlsRight
         /\ django.configured /\ django.admin /\ site.mounted /\ Final /\ ~site.refused
         /\ Unsaid /\ site.registered # Unset => CatchAll \in Range(urls.patterns)
<1>1. boot # NoBoot
  BY DEF StartupInv, StartupTypes, StartupInit
<1>2. \A c : ~Pending(c)
  BY FewCalls DEF Pending
<1>3. boot \in Boots /\ AllFounded /\ InstalledOnce /\ AdminOnce /\ Orderly /\ Halfway /\ UrlsRight
  BY <1>1 DEF StartupInv, StartupTypes
<1>4. django.configured /\ site.mounted /\ Final /\ ~site.refused
  BY <1>3 DEF InstalledOnce, Final
<1>5. django.admin
  BY <1>2, <1>3, <1>4 DEF AdminOnce
<1>6. Unsaid /\ site.registered # Unset => CatchAll \in Range(urls.patterns)
  BY <1>2, <1>3, <1>4 DEF Halfway
<1> QED
  BY <1>1, <1>3, <1>4, <1>5, <1>6

(* Nothing that is to be done changes. *)
LEMMA Rests ==
  ASSUME todo' = todo, boot' = boot, django' = django, urls' = urls, site' = site,
         AllFounded, InstalledOnce, AdminOnce, Orderly, Halfway
  PROVE  AllFounded' /\ InstalledOnce' /\ AdminOnce' /\ Orderly' /\ Halfway'
<1>1. Mounts' = Mounts /\ Final' = Final /\ MountEnabled' = MountEnabled /\ Told' = Told /\ Unsaid' = Unsaid
  BY DEF Mounts, Final, MountEnabled, Mountable, Told, Unsaid
<1>2. \A c, k : Sooner(c, k)' = Sooner(c, k)
  BY DEF Sooner
<1>3. \A c : Pending(c)' = Pending(c) /\ Once(c)' = Once(c)
  BY DEF Pending, Once
<1>4. ASSUME NEW k \in 1 .. Len(todo) PROVE Founded(k)'
  <2>1. Founded(k)
    BY DEF AllFounded
  <2>2. \A c, j : Sooner(c, j) => Sooner(c, j)'
    BY <1>2
  <2>3. \A c : k + 1 \in 1 .. Len(todo) /\ todo[k + 1] = c => k + 1 \in 1 .. Len(todo') /\ todo'[k + 1] = c
    OBVIOUS
  <2>4. todo'[k] = todo[k]
    OBVIOUS
  <2>5. Mounts' = Mounts /\ Final' = Final /\ Told' = Told /\ Unsaid' = Unsaid
    BY <1>1
  <2>6. /\ todo'[k] # "reload"
        /\ todo'[k] = "resolve" => django'.configured \/ Sooner("configure", k)'
        /\ todo'[k] = "resolve" =>
             Told' \/ Sooner("admin ready", k)' \/ (~django'.configured /\ Sooner("configure", k)')
    BY <2>1, <2>2, <2>4, <2>5 DEF Founded
  <2>7. /\ todo'[k] = "refresh" => django'.admin
        /\ todo'[k] = "all ready" => django'.admin \/ Sooner("admin ready", k)'
        /\ todo'[k] \in {"auto mount", "import", "mount"} => Told'
        /\ todo'[k] = "auto mount" => Mounts'
    BY <2>1, <2>2, <2>4, <2>5 DEF Founded
  <2>8. todo'[k] = "install" =>
          Told' \/ site'.busy \/ site'.installed \/ Sooner("admin ready", k)' \/ (~django'.configured /\ k = 1)
    BY <2>1, <2>2, <2>4, <2>5 DEF Founded
  <2>9. /\ todo'[k] = "reflex ready" /\ boot'.order # "before" => django'.admin \/ Sooner("admin ready", k)'
        /\ todo'[k] = "reflex ready" /\ boot'.order = "before" =>
             k + 1 \in 1 .. Len(todo') /\ todo'[k + 1] = "admin ready"
    BY <2>1, <2>2, <2>3, <2>4 DEF Founded
  <2>10. /\ todo'[k] = "mount" => urls'.patterns # NotImported \/ Sooner("import", k)'
         /\ todo'[k] \in {"append", "mount it"} => urls'.patterns # NotImported
         /\ todo'[k] = "append" => CatchAll \in Range(boot'.urls)
         /\ todo'[k] = "mount it" /\ Unsaid' => site'.registered # Unset
    BY <2>1, <2>2, <2>4, <2>5 DEF Founded
  <2>11. todo'[k] = "patch" => Final' /\ (site'.mounted \/ \E c \in Mounting : Sooner(c, k)')
    BY <2>1, <2>2, <2>4, <2>5 DEF Founded
  <2> QED
    BY <2>6, <2>7, <2>8, <2>9, <2>10, <2>11 DEF Founded
<1>5. AllFounded'
  BY <1>4 DEF AllFounded
<1>6. InstalledOnce'
  BY <1>1, <1>3 DEF InstalledOnce
<1>7. AdminOnce'
  BY <1>1, <1>3 DEF AdminOnce
<1>8. Orderly'
  BY DEF Orderly, NotOvertaken, ReflexFirst, Single
<1>9. Halfway'
  BY <1>1, <1>3 DEF Halfway
<1> QED
  BY <1>5, <1>6, <1>7, <1>8, <1>9

LEMMA ApplyKeeps == ASSUME StartupInv, Apply PROVE StartupInv'
<1>1. todo = <<>> /\ site.installed /\ boot' = boot /\ todo' = todo /\ django' = django /\ urls' = urls /\ site' = site
  BY DEF Apply
<1>2. /\ boot # NoBoot /\ boot \in Boots /\ AllFounded /\ InstalledOnce /\ AdminOnce /\ Orderly /\ Halfway /\ UrlsRight
      /\ Unsaid /\ site.registered # Unset => CatchAll \in Range(urls.patterns)
  BY <1>1, UpIs
<1>3. AllFounded' /\ InstalledOnce' /\ AdminOnce' /\ Orderly' /\ Halfway'
  BY <1>1, <1>2, Rests
<1> DEFINE d == IF site.config.embed = "on" /\ reflexApp.dispatchers = <<>> /\ DjangoPrefix # {}
                THEN <<DjangoPrefix>> ELSE reflexApp.dispatchers
           b == reflexApp.bridge \/ site.config.bridge = "on"
<1>4. reflexApp' = [dispatchers |-> d, bridge |-> b]
  BY DEF Apply
<1> HIDE DEF b
<1>5. ASSUME Unsaid
      PROVE  /\ d \in {reflexApp.dispatchers, <<Discovered(urls.patterns)>>}
             /\ CatchAll \notin Range(urls.patterns) => d = <<>>
  <2>0. UrlsAgreed
    BY <1>2 DEF UrlsRight
  <2>1. ASSUME CatchAll \in Range(urls.patterns)
        PROVE  d \in {reflexApp.dispatchers, <<Discovered(urls.patterns)>>}
    <3>1. site.registered = Discovered(urls.patterns)
      BY <1>5, <2>0, <2>1 DEF UrlsAgreed
    <3>2. DjangoPrefix # {} => DjangoPrefix = Discovered(urls.patterns)
      BY <3>1 DEF DjangoPrefix
    <3> QED
      BY <3>2
  <2>2. ASSUME CatchAll \notin Range(urls.patterns)
        PROVE  d = reflexApp.dispatchers /\ d = <<>>
    <3>1. site.registered = Unset /\ reflexApp.dispatchers = <<>>
      BY <1>2, <1>5, <2>0, <2>2 DEF UrlsAgreed
    <3>2. DjangoPrefix = {}
      BY <3>1 DEF DjangoPrefix
    <3> QED
      BY <3>1, <3>2
  <2> QED
    BY <2>1, <2>2
<1> HIDE DEF d
<1>6. reflexApp'.dispatchers = d /\ reflexApp' = [dispatchers |-> reflexApp'.dispatchers, bridge |-> reflexApp'.bridge]
  BY <1>4
<1>7. UrlsAgreed'
  BY <1>1, <1>2, <1>5, <1>6 DEF UrlsRight, UrlsAgreed, Unsaid
<1>8. UrlsMounted' /\ UrlsComplete'
  BY <1>1, <1>2 DEF UrlsRight, UrlsMounted, UrlsComplete, Mountable, Single
<1>9. StartupTypes'
  BY <1>1, <1>2, <1>6 DEF StartupInv, StartupTypes
<1> QED
  BY <1>3, <1>7, <1>8, <1>9 DEF StartupInv, UrlsRight

LEMMA ServeKeeps == ASSUME StartupInv, Serve PROVE StartupInv'
<1>1. /\ todo = <<>> /\ site.installed /\ urls.patterns = NotImported /\ todo' = <<"import">>
      /\ boot' = boot /\ django' = django /\ urls' = urls /\ site' = site /\ reflexApp' = reflexApp
  BY DEF Serve
<1>2. /\ boot # NoBoot /\ boot \in Boots /\ UrlsRight /\ django.admin /\ django.configured
      /\ site.mounted /\ Final /\ ~site.refused /\ AdminOnce
  BY <1>1, UpIs
<1>3. "import" \in Calls /\ "import" \notin Mounters
  BY DEF Calls, Mounters
<1>4. todo' \in Seq(Calls) /\ (\A k \in 1 .. Len(todo') : k = 1) /\ todo'[1] = "import"
  BY <1>1, <1>3, FewCalls
<1>5. StartupTypes'
  <2>1. StartupTypes
    BY DEF StartupInv
  <2> QED
    BY <1>1, <1>2, <1>4, <2>1 DEF StartupTypes
<1>6. AllFounded'
  <2>1. Told'
    BY <1>1, <1>2 DEF Told
  <2>2. ASSUME NEW k \in 1 .. Len(todo') PROVE Founded(k)'
    <3>1. todo'[k] = "import"
      BY <1>4, <2>2
    <3> QED
      BY <2>1, <3>1 DEF Founded
  <2> QED
    BY <2>2 DEF AllFounded
<1>7. \A c : c # "import" => ~Pending(c)'
  BY <1>4 DEF Pending
<1>8. ~Pending("patch")' /\ ~Pending("resolve")' /\ ~Pending("admin ready")' /\ ~Pending("reflex ready")'
  BY <1>7
<1>9. Once("patch")' /\ Once("resolve")' /\ Once("admin ready")'
  BY <1>4 DEF Once
<1>10. InstalledOnce'
  <2>1. Final'
    BY <1>1, <1>2 DEF Final
  <2> QED
    BY <1>1, <1>2, <1>8, <1>9, <2>1 DEF InstalledOnce
<1>11. AdminOnce'
  BY <1>1, <1>2, <1>8, <1>9 DEF AdminOnce
<1>12. Orderly'
  <2>1. NotOvertaken'
    BY <1>3, <1>4 DEF NotOvertaken
  <2>2. ReflexFirst'
    BY <1>1 DEF ReflexFirst
  <2> QED
    BY <2>1, <2>2 DEF Orderly
<1>13. UrlsRight'
  BY <1>1, <1>2, UrlsStay
<1>14. Halfway'
  BY <1>1, <1>2, NotYet DEF Halfway, UrlsRight, UrlsAgreed, Unsaid
<1> QED
  BY <1>5, <1>6, <1>10, <1>11, <1>12, <1>13, <1>14 DEF StartupInv

LEMMA StartupBegins == StartupInit => StartupInv
<1> SUFFICES ASSUME StartupInit PROVE StartupInv
  OBVIOUS
<1>1. boot = NoBoot /\ todo \in Seq(Calls)
  BY FewCalls DEF StartupInit
<1>2. django \in DjangoRecord
  BY DEF StartupInit, DjangoRecord
<1>3. urls \in UrlsRecord
  BY DEF StartupInit, UrlsRecord
<1>4. site \in SiteRecord
  <2> DEFINE c == NoConfig
             r == Unset
  <2>1. /\ site = [config |-> c, installed |-> FALSE, busy |-> FALSE, refused |-> FALSE, mounted |-> FALSE,
                   registered |-> r, hasty |-> FALSE]
        /\ c \in PillarRecord \cup {NoConfig} /\ r \in (SUBSET Areas) \cup {Unset}
    <3>1. c \in PillarRecord \cup {NoConfig} /\ r \in (SUBSET Areas) \cup {Unset}
      OBVIOUS
    <3>2. site = [config |-> c, installed |-> FALSE, busy |-> FALSE, refused |-> FALSE, mounted |-> FALSE,
                  registered |-> r, hasty |-> FALSE]
      BY DEF StartupInit
    <3> QED
      BY <3>1, <3>2
  <2> HIDE DEF c, r
  <2> QED
    BY <2>1 DEF SiteRecord
<1>5. reflexApp = [dispatchers |-> reflexApp.dispatchers, bridge |-> reflexApp.bridge]
  BY DEF StartupInit
<1> QED
  BY <1>1, <1>2, <1>3, <1>4, <1>5 DEF StartupInv, StartupTypes

LEMMA StartupInvKept == StartupInv /\ [StartupNext]_startupVars => StartupInv'
<1> SUFFICES ASSUME StartupInv, [StartupNext]_startupVars PROVE StartupInv'
  OBVIOUS
<1>1. CASE UNCHANGED startupVars
  <2>1. /\ boot' = boot /\ todo' = todo /\ django' = django /\ urls' = urls /\ site' = site /\ reflexApp' = reflexApp
    BY <1>1 DEF startupVars
  <2>2. StartupTypes'
    BY <2>1 DEF StartupInv, StartupTypes, StartupInit
  <2>3. ASSUME boot # NoBoot PROVE AllFounded' /\ InstalledOnce' /\ AdminOnce' /\ Orderly' /\ Halfway' /\ UrlsRight'
    BY <2>1, <2>3, Rests, UrlsStay DEF StartupInv
  <2> QED
    BY <2>1, <2>2, <2>3 DEF StartupInv
<1>2. CASE StartupNext
  BY <1>2, StartKeeps, InstallKeeps, ResolveKeeps, PatchKeeps, ConfigureKeeps, HookKeeps, ReflexReadyKeeps,
     AdminReadyKeeps, AllReadyKeeps, RefreshKeeps, EnsureKeeps, ImportKeeps, AutoMountKeeps, MountKeeps,
     AddCatchAllKeeps, ApplyKeeps, ServeKeeps DEF StartupNext
<1> QED
  BY <1>1, <1>2

(* The invariant of start-up, and what it says of a process that is up.    *)
LEMMA StartupInvariant == StartupSpec => []StartupInv
<1> QED
  BY StartupBegins, StartupInvKept, PTL DEF StartupSpec

LEMMA UpMountable == ASSUME StartupInv, Up, MountEnabled PROVE Mountable
<1>1. boot \in Boots /\ Final
  BY UpIs DEF Up
<1>2. site.config = Pillars(boot, TRUE)
  BY <1>1 DEF Final
<1>3. site.config # NoConfig /\ site.config.mount = MountPillar(boot, TRUE)
  BY <1>1, <1>2, PillarsAre
<1> QED
  BY <1>3 DEF MountEnabled, Mountable

(* However the process is entered and whatever its code asks for on the    *)
(* way, once it is up the application is mounted behind everything Django  *)
(* answers itself; and once, unless Django is entered first and the hook   *)
(* of the package makes mounting ask for itself.                           *)
THEOREM MountedLast == StartupSpec => []CatchAllLast
<1>1. StartupInv => CatchAllLast
  <2> DEFINE p == urls.patterns
             all == {k \in DOMAIN p : p[k] = CatchAll}
  <2> SUFFICES ASSUME StartupInv, Up, MountEnabled
               PROVE  /\ Len(p) \in all
                      /\ \A k \in all : k .. Len(p) \subseteq all
                      /\ boot.door = "reflex" \/ ~boot.pth => all = {Len(p)}
    BY DEF CatchAllLast
  <2>1. CatchAll \in Range(p) /\ Behind(p) /\ (Single => Ordered(p))
    BY UpIs, UpMountable DEF Up, UrlsRight, UrlsMounted
  <2>2. p \in Seq(Patterns)
    BY <2>1, TypesAre, NotYet DEF UrlsRecord
  <2> HIDE DEF p
  <2>3. Len(p) \in Nat /\ DOMAIN p = 1 .. Len(p)
    BY <2>2
  <2>4. PICK k \in DOMAIN p : p[k] = CatchAll
    BY <2>1 DEF Range
  <2>5. Len(p) \in DOMAIN p /\ k <= Len(p)
    BY <2>3, <2>4
  <2>6. Len(p) \in all
    BY <2>1, <2>4, <2>5 DEF Behind
  <2>7. ASSUME NEW i \in all, NEW j \in i .. Len(p) PROVE j \in all
    <3>1. i \in DOMAIN p /\ p[i] = CatchAll /\ j \in DOMAIN p /\ i <= j
      BY <2>3, <2>7
    <3> QED
      BY <2>1, <3>1 DEF Behind
  <2>8. ASSUME Single PROVE all = {Len(p)}
    BY <2>1, <2>6, <2>8 DEF Ordered
  <2> QED
    BY <2>6, <2>7, <2>8 DEF Single
<1> QED
  BY <1>1, StartupInvariant, PTL

(* Once a process is up, the admin has the pages of every model, unless    *)
(* code of the user had Reflex configured before the admin was ready.      *)
THEOREM AdminHasItsPages == StartupSpec => []AdminComplete
<1>1. StartupInv => AdminComplete
  BY UpIs DEF AdminComplete, Up, UrlsRight, UrlsComplete
<1> QED
  BY <1>1, StartupInvariant, PTL

(* Once a process is up that left the prefixes and the catch-all to the    *)
(* integration, the backend sends to Django what Django answers.           *)
THEOREM DispatchIsRight == StartupSpec => []DispatchAgrees
<1>1. StartupInv => DispatchAgrees
  <2> SUFFICES ASSUME StartupInv, Up, MountEnabled, Unsaid
               PROVE  /\ reflexApp.dispatchers \in {<<>>, <<Discovered(urls.patterns)>>}
                      /\ urls.spared = Discovered(urls.patterns)
    BY DEF DispatchAgrees, Unsaid
  <2>1. CatchAll \in Range(urls.patterns) /\ UrlsAgreed
    BY UpIs, UpMountable DEF Up, UrlsRight, UrlsMounted
  <2> QED
    BY <2>1 DEF UrlsAgreed
<1> QED
  BY <1>1, StartupInvariant, PTL
==============================================================================
