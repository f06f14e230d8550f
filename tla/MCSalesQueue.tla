---------------------------- MODULE MCSalesQueue ----------------------------
(* SalesQueue for TLC: an order of one share and one of two.               *)
EXTENDS SalesQueue, TLC
CONSTANTS o1, o2
MCSold == o1 :> 1 @@ o2 :> 2
Symmetry == Permutations(Lots)
=============================================================================
