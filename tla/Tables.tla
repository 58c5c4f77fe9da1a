-------------------------------- MODULE Tables --------------------------------
(* Go maps as functions whose domain is the set of keys present.             *)
EXTENDS Integers, FiniteSets

\* table[key] = entry
Put(table, key, entry) ==
    [k \in DOMAIN table \cup {key} |-> IF k = key THEN entry ELSE table[k]]

\* Mutant: the entry stays.
Kept(table, key) == table

\* delete(table, key)
Without(table, key) == [k \in DOMAIN table \ {key} |-> table[k]]

\* The members of the entries of a table of subsets of E, each with its key.
\* The sum of the sizes of the entries is the size of this set, which is how
\* the sums that the code keeps as running totals are stated.
Pairs(table, E) == {s \in (DOMAIN table) \X E : s[2] \in table[s[1]]}

\* table[key], the zero value if the key is absent.
CountOf(table, key) == IF key \in DOMAIN table THEN table[key] ELSE 0

\* The sum of a table of numbers up to max.
SumOf(table, max) == Cardinality(Pairs([k \in DOMAIN table |-> 1 .. table[k]], 1 .. max))
=============================================================================
