----------------------------- MODULE MCEventAuth -----------------------------
(* Small instances of EventAuth.  Tabs, keys and users are interchangeable. *)
EXTENDS EventAuth, TLC

Symmetry == Permutations(Tabs) \cup Permutations(Sessions) \cup Permutations(Users)
=============================================================================
