---------------------------- MODULE MCController ----------------------------
(* Instances of Controller for TLC.                                          *)
EXTENDS Controller, TLC

Symmetry == Permutations(Workers) \cup Permutations(Jobs)
=============================================================================
