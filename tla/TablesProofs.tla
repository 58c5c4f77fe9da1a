----------------------------- MODULE TablesProofs -----------------------------
(* What Put and Without do to the number of pairs of a table: the step from  *)
(* a map that is updated to the running total kept beside it.                *)
EXTENDS Tables, FiniteSetTheorems, TLAPS

\* A set of pairs with one key is as large as the set of their second members.
LEMMA SliceSize ==
    ASSUME NEW u, NEW X, IsFiniteSet(X)
    PROVE  /\ IsFiniteSet({u} \X X)
           /\ Cardinality({u} \X X) = Cardinality(X)
<1>1. IsFiniteSet({u}) /\ Cardinality({u}) = 1
  BY FS_Singleton
<1>2. /\ IsFiniteSet({u} \X X)
      /\ Cardinality({u} \X X) = Cardinality({u}) * Cardinality(X)
  BY <1>1, FS_Product
<1>3. Cardinality(X) \in Nat
  BY FS_CardinalityType
<1> QED
  BY <1>1, <1>2, <1>3

\* The pairs of a finite table of subsets of a finite set are finitely many.
LEMMA PairsFinite ==
    ASSUME NEW A, NEW E, IsFiniteSet(DOMAIN A), IsFiniteSet(E)
    PROVE  IsFiniteSet(Pairs(A, E)) /\ Cardinality(Pairs(A, E)) \in Nat
<1>1. IsFiniteSet((DOMAIN A) \X E)
  BY FS_Product
<1>2. Pairs(A, E) \in SUBSET ((DOMAIN A) \X E)
  BY DEF Pairs
<1>3. IsFiniteSet(Pairs(A, E))
  BY <1>1, <1>2, FS_Subset
<1> QED
  BY <1>3, FS_CardinalityType

\* Deleting a key takes away the size of its entry, if it had one.
LEMMA PairsWithout ==
    ASSUME NEW A, NEW E, IsFiniteSet(DOMAIN A), IsFiniteSet(E),
           \A k \in DOMAIN A : A[k] \subseteq E,
           NEW u
    PROVE  Cardinality(Pairs(Without(A, u), E))
               = Cardinality(Pairs(A, E))
                     - (IF u \in DOMAIN A THEN Cardinality(A[u]) ELSE 0)
<1> DEFINE Slice == {s \in Pairs(A, E) : s[1] = u}
<1>1. IsFiniteSet(Pairs(A, E)) /\ Cardinality(Pairs(A, E)) \in Nat
  BY PairsFinite
<1>2. Pairs(Without(A, u), E) = Pairs(A, E) \ Slice
  BY DEF Pairs, Without
<1>3. Pairs(A, E) \cap Slice = Slice
  OBVIOUS
<1>4. Cardinality(Pairs(Without(A, u), E)) = Cardinality(Pairs(A, E)) - Cardinality(Slice)
  BY <1>1, <1>2, <1>3, FS_Difference
<1>5. CASE u \in DOMAIN A
  <2>1. Slice = {u} \X A[u]
    BY <1>5 DEF Pairs
  <2>2. IsFiniteSet(A[u])
    BY <1>5, FS_Subset
  <2>3. Cardinality(Slice) = Cardinality(A[u])
    BY <2>1, <2>2, SliceSize
  <2> QED
    BY <1>4, <1>5, <2>3
<1>6. CASE u \notin DOMAIN A
  <2>1. Slice = {}
    BY <1>6 DEF Pairs
  <2>2. Cardinality(Slice) = 0
    BY <2>1, FS_EmptySet
  <2> QED
    BY <1>1, <1>4, <1>6, <2>2
<1> QED
  BY <1>5, <1>6

\* Setting a key exchanges the size of its old entry for that of the new one.
LEMMA PairsPut ==
    ASSUME NEW A, NEW E, IsFiniteSet(DOMAIN A), IsFiniteSet(E),
           \A k \in DOMAIN A : A[k] \subseteq E,
           NEW u, NEW X, X \subseteq E
    PROVE  Cardinality(Pairs(Put(A, u, X), E))
               = Cardinality(Pairs(A, E))
                     - (IF u \in DOMAIN A THEN Cardinality(A[u]) ELSE 0)
                     + Cardinality(X)
<1> DEFINE Rest == Pairs(Without(A, u), E)
           New == {u} \X X
<1>1. IsFiniteSet(DOMAIN Without(A, u))
  <2>1. DOMAIN Without(A, u) = DOMAIN A \ {u}
    BY DEF Without
  <2> QED
    BY <2>1, FS_Difference
<1>2. IsFiniteSet(Rest) /\ Cardinality(Rest) \in Nat
  BY <1>1, PairsFinite
<1>3. IsFiniteSet(X)
  BY FS_Subset
<1>4. IsFiniteSet(New) /\ Cardinality(New) = Cardinality(X)
  BY <1>3, SliceSize
<1>5. Cardinality(X) \in Nat
  BY <1>3, FS_CardinalityType
<1>6. Pairs(Put(A, u, X), E) = Rest \cup New
  BY DEF Pairs, Put, Without
<1>7. Rest \cap New = {}
  BY DEF Pairs, Without
<1>8. Cardinality(Rest \cap New) = 0
  BY <1>7, FS_EmptySet
<1>9. Cardinality(Rest \cup New) = Cardinality(Rest) + Cardinality(New) - Cardinality(Rest \cap New)
  BY <1>2, <1>4, FS_Union
<1> HIDE DEF Rest, New
<1>10. Cardinality(Pairs(Put(A, u, X), E)) = Cardinality(Rest) + Cardinality(X)
  BY <1>2, <1>4, <1>5, <1>6, <1>8, <1>9
<1>11. Cardinality(Rest)
         = Cardinality(Pairs(A, E)) - (IF u \in DOMAIN A THEN Cardinality(A[u]) ELSE 0)
  BY PairsWithout DEF Rest
<1> QED
  BY <1>10, <1>11

----------------------------------------------------------------------------
(* Tables of numbers.                                                        *)

\* A number as the set of the numbers up to it.
Units(table) == [k \in DOMAIN table |-> 1 .. table[k]]

\* A number n is the size of the set of the numbers up to it.
LEMMA UnitsSize ==
    ASSUME NEW max \in Nat, NEW n \in 0 .. max
    PROVE  Cardinality(1 .. n) = n /\ 1 .. n \subseteq 1 .. max
<1>1. n \in Nat /\ n <= max
  OBVIOUS
<1>2. Cardinality(1 .. n) = n
  BY <1>1, FS_Interval
<1> QED
  BY <1>1, <1>2

\* What the two lemmas on pairs need to know of a table of numbers.
LEMMA UnitsArePairs ==
    ASSUME NEW T, NEW max \in Nat, IsFiniteSet(DOMAIN T), T \in [DOMAIN T -> 0 .. max]
    PROVE  /\ IsFiniteSet(DOMAIN Units(T))
           /\ IsFiniteSet(1 .. max)
           /\ \A k \in DOMAIN Units(T) : Units(T)[k] \subseteq 1 .. max
           /\ SumOf(T, max) = Cardinality(Pairs(Units(T), 1 .. max))
           /\ \A u : (IF u \in DOMAIN Units(T) THEN Cardinality(Units(T)[u]) ELSE 0)
                        = CountOf(T, u)
<1>1. IsFiniteSet(1 .. max)
  BY FS_Interval
<1>2. \A k \in DOMAIN T : T[k] \in 0 .. max
  OBVIOUS
<1>3. \A k \in DOMAIN T : Cardinality(1 .. T[k]) = T[k] /\ 1 .. T[k] \subseteq 1 .. max
  BY <1>2, UnitsSize
<1> QED
  BY <1>1, <1>3 DEF Units, SumOf, CountOf

\* The sum of a table is a number, and that of an empty one is 0.
LEMMA SumIsNat ==
    ASSUME NEW T, NEW max \in Nat, IsFiniteSet(DOMAIN T), T \in [DOMAIN T -> 0 .. max]
    PROVE  SumOf(T, max) \in Nat /\ (DOMAIN T = {} => SumOf(T, max) = 0)
<1>1. SumOf(T, max) \in Nat
  BY UnitsArePairs, PairsFinite
<1>2. ASSUME DOMAIN T = {} PROVE SumOf(T, max) = 0
  <2>1. Pairs(Units(T), 1 .. max) = {}
    BY <1>2 DEF Pairs, Units
  <2> QED
    BY <2>1, UnitsArePairs, FS_EmptySet
<1> QED
  BY <1>1, <1>2

\* Setting an entry to n takes the old number out of the sum and adds n.
LEMMA SumPut ==
    ASSUME NEW T, NEW max \in Nat, IsFiniteSet(DOMAIN T), T \in [DOMAIN T -> 0 .. max],
           NEW u, NEW n \in 0 .. max
    PROVE  SumOf(Put(T, u, n), max) = SumOf(T, max) - CountOf(T, u) + n
<1> DEFINE A == Units(T)
           E == 1 .. max
           X == 1 .. n
<1>1. /\ IsFiniteSet(DOMAIN A) /\ IsFiniteSet(E)
      /\ \A k \in DOMAIN A : A[k] \subseteq E
      /\ SumOf(T, max) = Cardinality(Pairs(A, E))
      /\ (IF u \in DOMAIN A THEN Cardinality(A[u]) ELSE 0) = CountOf(T, u)
  BY UnitsArePairs
<1>2. Cardinality(X) = n /\ X \subseteq E
  BY UnitsSize
<1>3. Units(Put(T, u, n)) = Put(A, u, X)
  BY DEF Units, Put
<1>4. SumOf(Put(T, u, n), max) = Cardinality(Pairs(Units(Put(T, u, n)), E))
  BY DEF SumOf, Units
<1>5. SumOf(Put(T, u, n), max) = Cardinality(Pairs(Put(A, u, X), E))
  BY <1>3, <1>4
<1> HIDE DEF A, E, X
<1>6. Cardinality(Pairs(Put(A, u, X), E))
        = Cardinality(Pairs(A, E)) - (IF u \in DOMAIN A THEN Cardinality(A[u]) ELSE 0)
              + Cardinality(X)
  BY <1>1, <1>2, PairsPut
<1> QED
  BY <1>1, <1>2, <1>5, <1>6

\* Deleting an entry takes its number out of the sum.
LEMMA SumWithout ==
    ASSUME NEW T, NEW max \in Nat, IsFiniteSet(DOMAIN T), T \in [DOMAIN T -> 0 .. max],
           NEW u
    PROVE  SumOf(Without(T, u), max) = SumOf(T, max) - CountOf(T, u)
<1> DEFINE A == Units(T)
           E == 1 .. max
<1>1. /\ IsFiniteSet(DOMAIN A) /\ IsFiniteSet(E)
      /\ \A k \in DOMAIN A : A[k] \subseteq E
      /\ SumOf(T, max) = Cardinality(Pairs(A, E))
      /\ (IF u \in DOMAIN A THEN Cardinality(A[u]) ELSE 0) = CountOf(T, u)
  BY UnitsArePairs
<1>2. Units(Without(T, u)) = Without(A, u)
  BY DEF Units, Without
<1>3. SumOf(Without(T, u), max) = Cardinality(Pairs(Units(Without(T, u)), E))
  BY DEF SumOf, Units
<1>4. SumOf(Without(T, u), max) = Cardinality(Pairs(Without(A, u), E))
  BY <1>2, <1>3
<1> HIDE DEF A, E
<1>5. Cardinality(Pairs(Without(A, u), E))
        = Cardinality(Pairs(A, E)) - (IF u \in DOMAIN A THEN Cardinality(A[u]) ELSE 0)
  BY <1>1, PairsWithout
<1> QED
  BY <1>1, <1>4, <1>5
=============================================================================
