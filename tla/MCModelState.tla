----------------------------- MODULE MCModelState ----------------------------
(* Small instances of ModelState.  The values of the field are alike. *)
EXTENDS ModelState, TLC

Symmetry == Permutations(Values)

Class(n, searchable, incremental) ==
  [paginate_by |-> n, searchable |-> searchable, incremental |-> incremental]

(* A class that always reloads and two that patch their lists. *)
Classes == {Class(1, TRUE, FALSE), Class(0, FALSE, TRUE), Class(1, FALSE, TRUE)}

Patching == {Class(0, FALSE, TRUE)}

(* A class that patches what a search found. *)
PatchedSearch == {Class(0, TRUE, TRUE)}
=============================================================================
