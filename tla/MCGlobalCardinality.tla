------------------------- MODULE MCGlobalCardinality -------------------------
(* Instances of GlobalCardinality for TLC.                                   *)
EXTENDS GlobalCardinality, TLC

Symmetry == Permutations(Monitors) \cup Permutations(Goroutines)
=============================================================================
