----------------------------- MODULE WebLayout -------------------------------
(* The generated frontend in .web and the development server (Vite) that   *)
(* reads it.                                                               *)
(*                                                                         *)
(* With separate ports the browser talks to Vite, which has to pass Django *)
(* paths and the endpoints of Reflex on: by a plugin in a file of its own, *)
(* which vite.config.js imports, and by rules in vite.config.js.  With one *)
(* port Django passes on to Vite, and Vite must not pass anything back.    *)
(* Every compilation puts .web right, one file after the other; Vite may   *)
(* read it in between; a run may be killed in between and the next one may *)
(* be of the other sort.                                                   *)
(*                                                                         *)
(* An operator named Op_Variant is Op with a plausible mistake in it; no   *)
(* action uses it.                                                         *)
EXTENDS Naturals, Sequences, SequencesExt, Functions, DevPorts

CONSTANTS
  Layouts,       \* what a run is configured with: records of the process (see
                 \* DevPorts), proxy.enabled, an own Django server (server) and
                 \* the prefixes of Django
  Reserved,      \* the endpoints of Reflex
  EventPath,     \* the one of them that is a websocket
  Paths,         \* paths to ask for
  MaxRuns,       \* runs
  MaxReloads     \* recompilations of a run

LayoutRecord ==
  [process : ProcessRecord, enabled : BOOLEAN, server : BOOLEAN, prefixes : SUBSET STRING]

(* Prefixes that are endpoints of Reflex are refused (_check_reserved). *)
ASSUME LayoutAssumption ==
  /\ EventPath \in Reserved /\ MaxRuns \in Nat /\ MaxReloads \in Nat
  /\ \A l \in Layouts : l \in LayoutRecord /\ l.prefixes \cap Reserved = {}

VARIABLES
  layout,        \* of the run, or NoRun
  steps,         \* the parts of the compilation to come
  plugin,        \* the plugin's file: its routes, or NoFile
  config,        \* vite.config.js
  env,           \* where env.json sends the events: "backend" or "vite"
  guarded,       \* the components that use the event loop are patched
  vite,          \* on, what it has loaded, and whether that is up to date
  runs, reloads

layoutVars == <<layout, steps, plugin, config, env, guarded, vite, runs, reloads>>

NoRun == [prefixes |-> {}]
NoRules == [p \in {} |-> "none"]
NoFile == [p \in {"no such file"} |-> "none"]
ViteOff == [on |-> FALSE, plugin |-> NoRules, block |-> NoRules, ok |-> FALSE, fresh |-> TRUE]

TwoPorts(l) == SeparatePorts(l.process) /\ l.enabled

(****************************** files of .web ******************************)
ProxyPrefixes(l) == l.prefixes \cup Reserved

(* Every prefix and where it goes: to an own Django server if there is     *)
(* one, else to the backend, which has Django embedded.                    *)
Routes(l) ==
  [p \in ProxyPrefixes(l) |-> IF p \in l.prefixes /\ l.server THEN "django" ELSE "reflex"]

Generated == [plugin |-> FALSE, block |-> NoRules, steady |-> FALSE]

(* Options that keep the frontend stable, the plugin and the rules. *)
Steady(c) == [c EXCEPT !.steady = TRUE]
WithPlugin(c) == [c EXCEPT !.plugin = TRUE]
WithoutBlock(c) == [c EXCEPT !.block = NoRules]
WithBlock(c, routes) == [WithoutBlock(c) EXCEPT !.block = routes]
Patched(c, routes) == WithBlock(WithPlugin(Steady(c)), routes)

Stripped(c) == [WithoutBlock(c) EXCEPT !.plugin = FALSE]

(* A search for words: rules that are too many are not noticed, nor those  *)
(* that go to the wrong one of the right targets.                          *)
Complete(c, routes) ==
  /\ c.plugin
  /\ DOMAIN routes \subseteq DOMAIN c.block
  /\ Range(routes) \subseteq Range(c.block)

(**************************** one compilation ******************************)
Do(op, force) == [op |-> op, force |-> force]

Finalize(l, force) ==
  IF TwoPorts(l) THEN <<Do("guard", force), Do("plugin", force), Do("config", force), Do("env", force)>>
                 ELSE <<Do("unlink", force), Do("strip", force)>>

Generates == Do("generate", TRUE)

Compile_NotForced(l) == Finalize(l, FALSE) \o <<Generates>> \o Finalize(l, FALSE)

(* The plugin's pre_compile, the components written anew, and the patched  *)
(* App._compile.                                                           *)
Compile(l) == Finalize(l, FALSE) \o <<Generates>> \o Finalize(l, TRUE)

Begin(l) ==
  /\ layout' = l
  /\ UNCHANGED <<plugin, env, guarded>>

(* A run; Reflex writes vite.config.js anew or keeps it, and resets        *)
(* env.json before or after the compilation.                               *)
StartRun(l) ==
  /\ layout = NoRun
  /\ runs < MaxRuns
  /\ Begin(l)
  /\ \/ config' = IF TwoPorts(l) THEN Patched(Generated, Routes(l)) ELSE Generated
     \/ runs > 0 /\ UNCHANGED config
  /\ LET reset == Do("reset", TRUE)
         start == Do("vite", TRUE)
     IN  \/ steps' = <<reset>> \o Compile(l) \o <<start>>
         \/ steps' = Compile(l) \o <<reset, start>>
  /\ runs' = runs + 1
  /\ reloads' = 0
  /\ UNCHANGED vite

(* A changed source: the backend starts anew and compiles, Vite goes on.   *)
Reload(l) ==
  /\ layout # NoRun
  /\ steps = <<>>
  /\ reloads < MaxReloads
  /\ l = [layout EXCEPT !.prefixes = l.prefixes]
  /\ Begin(l)
  /\ steps' = Compile(l)
  /\ reloads' = reloads + 1
  /\ UNCHANGED <<config, vite, runs>>

Touched(changed) == [vite EXCEPT !.fresh = @ /\ ~changed]

WritesPlugin ==
  /\ plugin' = IF Head(steps).op = "plugin" THEN Routes(layout) ELSE NoFile
  /\ vite' = Touched(config.plugin /\ (plugin' # plugin \/ Head(steps).force))
  /\ UNCHANGED <<config, env, guarded>>

StripConfig_OnlyWithPlugin == IF plugin = NoFile THEN config ELSE Stripped(config)
StripConfig == Stripped(config)

WritesConfig ==
  /\ config' = IF Head(steps).op = "strip" THEN StripConfig
               ELSE IF Head(steps).force \/ ~Complete(config, Routes(layout))
                    THEN Patched(config, Routes(layout)) ELSE config
  /\ vite' = Touched(config' # config)
  /\ UNCHANGED <<plugin, env, guarded>>

EnvAfter(op) ==
  CASE op = "reset" -> "backend"
    [] op = "env"   -> "vite"
    [] OTHER        -> env

GuardedAfter(op) ==
  CASE op = "generate" -> FALSE
    [] op = "guard"    -> TRUE
    [] OTHER           -> guarded

OtherWrites ==
  /\ env' = EnvAfter(Head(steps).op)
  /\ guarded' = GuardedAfter(Head(steps).op)
  /\ vite' = IF Head(steps).op = "vite" THEN [ViteOff EXCEPT !.on = TRUE, !.fresh = FALSE] ELSE vite
  /\ UNCHANGED <<plugin, config>>

Step ==
  /\ steps # <<>>
  /\ CASE Head(steps).op \in {"plugin", "unlink"} -> WritesPlugin
       [] Head(steps).op \in {"config", "strip"}  -> WritesConfig
       [] OTHER -> OtherWrites
  /\ steps' = Tail(steps)
  /\ UNCHANGED <<layout, runs, reloads>>

(* Vite reads vite.config.js and what it imports; where that is missing it *)
(* goes on with what it had, or does not come up.                          *)
ViteLoads ==
  /\ vite.on
  /\ ~vite.fresh
  /\ vite' = IF config.plugin /\ plugin = NoFile
             THEN [vite EXCEPT !.fresh = TRUE]
             ELSE [on |-> TRUE, ok |-> TRUE, fresh |-> TRUE, block |-> config.block,
                   plugin |-> IF config.plugin THEN plugin ELSE NoRules]
  /\ UNCHANGED <<layout, steps, plugin, config, env, guarded, runs, reloads>>

(* The run ends, or is killed wherever it is. *)
Killed ==
  /\ layout # NoRun
  /\ layout' = NoRun
  /\ steps' = <<>>
  /\ vite' = ViteOff
  /\ UNCHANGED <<plugin, config, env, guarded, runs, reloads>>

LayoutInit ==
  /\ layout = NoRun
  /\ steps = <<>>
  /\ plugin = NoFile
  /\ config = Generated
  /\ env = "backend"
  /\ guarded = FALSE
  /\ vite = ViteOff
  /\ runs = 0
  /\ reloads = 0

LayoutNext ==
  \/ \E l \in Layouts : StartRun(l) \/ Reload(l)
  \/ Step
  \/ ViteLoads
  \/ Killed

LayoutFairness == WF_layoutVars(Step) /\ WF_layoutVars(ViteLoads)

LayoutSpec == LayoutInit /\ [][LayoutNext]_layoutVars /\ LayoutFairness

(********************************* routing *********************************)
(* Who is asked next: the plugin of Vite is asked before its rules; the    *)
(* backend keeps the endpoints of Reflex and has Django answer for the     *)
(* prefixes; Django passes the rest on to Vite if it has one.              *)
MatchRoute(p) == IF p \in DOMAIN vite.plugin THEN vite.plugin[p] ELSE NoTarget
ShouldRouteToDjango(p) == p \notin Reserved /\ p \in layout.prefixes

Hop(server, p) ==
  CASE server = "vite" /\ MatchRoute(p) # NoTarget -> MatchRoute(p)
    [] server = "vite" /\ MatchRoute(p) = NoTarget /\ p \in DOMAIN vite.block -> vite.block[p]
    [] server = "reflex" /\ ShouldRouteToDjango(p) -> "django"
    [] server = "django" /\ p \notin layout.prefixes /\ ViteTarget(layout.process) # NoTarget ->
         ViteTarget(layout.process)
    [] OTHER -> server

(* Where a request ends up, or "lost" if it goes round in circles. *)
Answerer(server, p) ==
  LET h == [i \in 1..4 |-> CASE i = 1 -> Hop(server, p)
                             [] i = 2 -> Hop(Hop(server, p), p)
                             [] i = 3 -> Hop(Hop(Hop(server, p), p), p)
                             [] OTHER -> Hop(Hop(Hop(Hop(server, p), p), p), p)]
  IN  IF h[3] = h[4] THEN h[4] ELSE "lost"

Settled == layout # NoRun /\ steps = <<>> /\ vite.ok /\ vite.fresh

(******************************** properties *******************************)
(* When a compilation is through and Vite has read its files, every path   *)
(* asked of Vite ends where it belongs, with separate ports; with one      *)
(* port, what Django passes on stays with Vite and does not come back.     *)
(* That holds after any sequence of runs of either sort, killed anywhere,  *)
(* and recompilations with other prefixes (dev/vite_proxy.py,              *)
(* finalize_web_dev_layout).                                               *)
Arrives ==
  Settled => \A p \in Paths :
    IF TwoPorts(layout)
    THEN /\ Answerer("vite", p) = CASE p \in layout.prefixes -> "django"
                                     [] p \in Reserved -> "reflex"
                                     [] OTHER -> "vite"
         /\ env = "vite" => vite.block[EventPath] = "reflex"
         /\ guarded
    ELSE /\ Answerer("vite", p) = "vite"
         /\ Answerer("django", p) # "lost"
         /\ env = "backend"

(* A development server that is started comes up, unless the run is        *)
(* killed: its configuration never imports a file that stays missing, even *)
(* after an earlier run was killed between two files.                      *)
ViteComesUp == vite.on ~> (vite.ok \/ ~vite.on)

=============================================================================
