------------------------------ MODULE MCReports ------------------------------
(* An instance of Reports for TLC.                                           *)
EXTENDS Reports, TLC

\* Two families, the first with a limit: nothing, the family over it,
\* and the store over its own by the family without a limit.
MCContents == {<<0, 0>>, <<2, 0>>, <<1, 2>>}
MCFamilyLimit == <<1, 0>>

Symmetry == Permutations(Goroutines)
=============================================================================
