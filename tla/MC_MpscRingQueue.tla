-------------------------- MODULE MC_MpscRingQueue --------------------------
(* Instances of MpscRingQueue: the smallest ring the code allows, and more *)
(* values than cells, so that cells are reused in a second and third lap.  *)
EXTENDS MpscRingQueue, TLC

CONSTANTS p1, p2, p3, v1, v2, v3, v4, v5

ThreeProducers == {p1, p2, p3}
FiveValues == {v1, v2, v3, v4, v5}
Symmetry == Permutations(FiveValues) \cup Permutations(ThreeProducers)
=============================================================================
