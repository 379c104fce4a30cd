-------------------------------- MODULE Picks --------------------------------
(* A list comprehension: the elements of a sequence at some of its          *)
(* positions, in their order.                                               *)
EXTENDS Naturals, FiniteSets

(* The i-th position is the one up to which there are i of them.           *)
Rank(at, k) == Cardinality({j \in at : j <= k})
Positions(at) == [i \in 1 .. Cardinality(at) |-> CHOOSE k \in at : Rank(at, k) = i]

Picked(s, at) == LET pos == Positions(at) IN [i \in DOMAIN pos |-> s[pos[i]]]
=============================================================================
