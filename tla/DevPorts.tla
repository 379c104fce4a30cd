------------------------------ MODULE DevPorts -------------------------------
(* What the environment and the settings of a server process say about its *)
(* ports: who serves the single-page application, and whether Django has a *)
(* development server (Vite) to pass its requests on to.                   *)
(*                                                                         *)
(* A process is a record of the environment variables (envProxy, envSep,   *)
(* each set to on or off, or unset), the settings (debug, setProxy,        *)
(* setSep) and its ports: vitePort, where it believes Vite to be, viteHost,*)
(* local or the name of a machine, and ownPort, where it listens.          *)

Flags == {"on", "off", "unset"}

(* Ports have the names of the servers that listen there. *)
Ports == {"vite", "reflex", "django"}

ProcessRecord ==
  [envProxy : Flags, envSep : Flags, debug : BOOLEAN, setProxy : BOOLEAN, setSep : BOOLEAN,
   vitePort : Ports, viteHost : STRING, ownPort : Ports]

NoTarget == "none"

SeparatePorts(p) == IF p.envSep = "unset" THEN p.setSep ELSE p.envSep = "on"

ProxyExplicit(p) == p.envProxy = "on"

(* Where Django passes what its URLs leave over on to, if anywhere. *)
ViteTarget(p) ==
  IF /\ p.debug
     /\ p.envProxy # "off"
     /\ ProxyExplicit(p) \/ p.setProxy
     /\ ~SeparatePorts(p)
  THEN p.vitePort
  ELSE NoTarget

(* The port Vite is believed to have is the one the request came in by.  A *)
(* host that is not one of the local names is taken to be another machine. *)
TargetIsSelf(p) == ViteTarget(p) = p.ownPort /\ p.viteHost = "local"
=============================================================================
