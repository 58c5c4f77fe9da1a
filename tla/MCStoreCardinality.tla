-------------------------- MODULE MCStoreCardinality --------------------------
(* Instances of StoreCardinality for TLC.                                    *)
EXTENDS StoreCardinality, TLC

\* Two families.  The first may be over its own threshold, the second has none
\* and can only be cut off by the store.
MCFamilyThreshold == <<2, 0>>
MCOneThreshold == <<2>>
MCContents == {<<1, 0>>, <<2, 1>>}
MCOneContents == {<<1>>, <<2>>}
MCSmallThreshold == <<1>>

Symmetry == Permutations(UIDs) \cup Permutations(Checkers)
=============================================================================
