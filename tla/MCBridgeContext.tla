--------------------------- MODULE MCBridgeContext ---------------------------
(* Small instances of BridgeContext: a page with two sections under a root. *)
EXTENDS BridgeContext, TLC

CONSTANTS root, page, cart, menu

Tree == root :> NoState @@ page :> root @@ cart :> page @@ menu :> page

Symmetry == Permutations(Tasks)
=============================================================================
