------------------------- MODULE ConfigurationProofs -------------------------
(* The stores of a configuration and what they render, for any               *)
(* configurations, answers of discovery, objects and bounds: the first store *)
(* of each kind is kept, the gauges count what is too many, labels stay with *)
(* their values, scalar labels change no value, and a script gives all its   *)
(* samples or none.                                                          *)
EXTENDS Configuration, FiniteSetTheorems, FunctionTheorems, WellFoundedInduction, TLAPS

----------------------------------------------------------------------------
(* Sequences put end to end.                                                 *)

\* A set of numbers has a least one.
LEMMA LeastNumber ==
    ASSUME NEW T, T \subseteq Nat, T # {}
    PROVE  \E m \in T : \A k \in T : m <= k
<1>1. PICK m \in T : \A k \in T : <<k, m>> \notin OpToRel(<, Nat)
  BY WFMin, NatLessThanWellFounded
<1>2. ASSUME NEW k \in T PROVE m <= k
  <2>1. k \in Nat /\ m \in Nat /\ ~(k < m)
    BY <1>1 DEF OpToRel
  <2> QED
    BY <2>1
<1> QED
  BY <1>2

\* The elements of a sequence of sequences, by their places.
Places(seqs) == UNION {{i} \X DOMAIN seqs[i] : i \in DOMAIN seqs}

At2(seqs, place) == seqs[place[1]][place[2]]

Before(a, b) == a[1] < b[1] \/ (a[1] = b[1] /\ a[2] < b[2])

\* The sequence s has the elements of seqs, each once and in their order: the
\* one at n comes from the place at[n].
Flattens(at, s, seqs) ==
    /\ at \in [DOMAIN s -> Places(seqs)]
    /\ \A n \in DOMAIN s : s[n] = At2(seqs, at[n])
    /\ \A m, n \in DOMAIN s : m < n => Before(at[m], at[n])
    /\ \A place \in Places(seqs) : \E n \in DOMAIN s : at[n] = place

\* One more sequence at the end.
LEMMA FlattensMore ==
    ASSUME NEW S, NEW n \in Nat, NEW front \in [1 .. n -> Seq(S)], NEW last \in Seq(S),
           NEW seqs \in [1 .. n + 1 -> Seq(S)],
           \A i \in 1 .. n : seqs[i] = front[i], seqs[n + 1] = last,
           NEW s \in Seq(S), NEW at, Flattens(at, s, front)
    PROVE  \E new : Flattens(new, s \o last, seqs)
<1> DEFINE new == [k \in 1 .. Len(s) + Len(last) |->
                      IF k <= Len(s) THEN at[k] ELSE <<n + 1, k - Len(s)>>]
<1>1. /\ Len(s) \in Nat /\ Len(last) \in Nat
      /\ DOMAIN s = 1 .. Len(s) /\ DOMAIN last = 1 .. Len(last)
      /\ DOMAIN (s \o last) = 1 .. Len(s) + Len(last)
      /\ \A k \in 1 .. Len(s) : (s \o last)[k] = s[k]
      /\ \A k \in Len(s) + 1 .. Len(s) + Len(last) : (s \o last)[k] = last[k - Len(s)]
  OBVIOUS
<1>2. \A place : place \in Places(front) <=>
        \E i \in 1 .. n : \E j \in DOMAIN front[i] : place = <<i, j>>
  BY DEF Places
<1>3. \A place : place \in Places(seqs) <=>
        \/ place \in Places(front)
        \/ \E j \in 1 .. Len(last) : place = <<n + 1, j>>
  <2>1. \A place : place \in Places(seqs) <=>
          \E i \in 1 .. n + 1 : \E j \in DOMAIN seqs[i] : place = <<i, j>>
    BY DEF Places
  <2>2. \A i : i \in 1 .. n + 1 <=> i \in 1 .. n \/ i = n + 1
    OBVIOUS
  <2> QED
    BY <1>1, <1>2, <2>1, <2>2, Zenon
<1>4. \A k \in 1 .. Len(s) : at[k] \in Places(front) /\ s[k] = At2(front, at[k])
  BY <1>1 DEF Flattens
<1>5. \A k \in 1 .. Len(s) + Len(last) :
         new[k] \in Places(seqs) /\ (s \o last)[k] = At2(seqs, new[k])
  <2> SUFFICES ASSUME NEW k \in 1 .. Len(s) + Len(last)
               PROVE  new[k] \in Places(seqs) /\ (s \o last)[k] = At2(seqs, new[k])
    OBVIOUS
  <2>1. CASE k <= Len(s)
    <3>1. k \in 1 .. Len(s) /\ new[k] = at[k]
      BY <1>1, <2>1
    <3>2. PICK i \in 1 .. n : \E j \in DOMAIN front[i] : at[k] = <<i, j>>
      BY <1>2, <1>4, <3>1
    <3>3. At2(front, at[k]) = At2(seqs, at[k])
      BY <3>2 DEF At2
    <3> HIDE DEF new
    <3> QED
      BY <1>1, <1>3, <1>4, <3>1, <3>3
  <2>2. CASE ~(k <= Len(s))
    <3>1. k \in Len(s) + 1 .. Len(s) + Len(last) /\ k - Len(s) \in 1 .. Len(last)
      BY <1>1, <2>2
    <3>2. new[k] = <<n + 1, k - Len(s)>>
      BY <2>2
    <3> HIDE DEF new
    <3>3. At2(seqs, new[k]) = last[k - Len(s)]
      BY <3>2 DEF At2
    <3> QED
      BY <1>1, <1>3, <3>1, <3>2, <3>3
  <2> QED
    BY <2>1, <2>2
<1>6. \A k, m \in 1 .. Len(s) + Len(last) : k < m => Before(new[k], new[m])
  <2> SUFFICES ASSUME NEW k \in 1 .. Len(s) + Len(last), NEW m \in 1 .. Len(s) + Len(last),
                      k < m
               PROVE  Before(new[k], new[m])
    OBVIOUS
  <2>1. CASE m <= Len(s)
    <3>1. k \in 1 .. Len(s) /\ m \in 1 .. Len(s) /\ new[k] = at[k] /\ new[m] = at[m]
      BY <1>1, <2>1
    <3> HIDE DEF new
    <3> QED
      BY <1>1, <3>1 DEF Flattens
  <2>2. CASE k <= Len(s) /\ ~(m <= Len(s))
    <3>1. k \in 1 .. Len(s) /\ new[k] = at[k] /\ new[m] = <<n + 1, m - Len(s)>>
      BY <1>1, <2>2
    <3>2. PICK i \in 1 .. n : \E j \in DOMAIN front[i] : at[k] = <<i, j>>
      BY <1>2, <1>4, <3>1
    <3>3. i < n + 1
      OBVIOUS
    <3> HIDE DEF new
    <3> QED
      BY <3>1, <3>2, <3>3 DEF Before
  <2>3. CASE ~(k <= Len(s))
    <3>1. ~(m <= Len(s)) /\ k - Len(s) < m - Len(s)
      BY <1>1, <2>3
    <3>2. new[k] = <<n + 1, k - Len(s)>> /\ new[m] = <<n + 1, m - Len(s)>>
      BY <2>3, <3>1
    <3> HIDE DEF new
    <3> QED
      BY <3>1, <3>2 DEF Before
  <2> QED
    BY <2>1, <2>2, <2>3
<1>7. \A place \in Places(seqs) : \E k \in 1 .. Len(s) + Len(last) : new[k] = place
  <2> SUFFICES ASSUME NEW place \in Places(seqs)
               PROVE  \E k \in 1 .. Len(s) + Len(last) : new[k] = place
    OBVIOUS
  <2>1. CASE place \in Places(front)
    <3>1. PICK k \in 1 .. Len(s) : at[k] = place
      BY <1>1, <2>1 DEF Flattens
    <3>2. k \in 1 .. Len(s) + Len(last) /\ k <= Len(s)
      BY <1>1
    <3>3. new[k] = place
      BY <3>1, <3>2
    <3> QED
      BY <3>2, <3>3
  <2>2. ASSUME NEW j \in 1 .. Len(last), place = <<n + 1, j>>
        PROVE  \E k \in 1 .. Len(s) + Len(last) : new[k] = place
    <3> DEFINE k == Len(s) + j
    <3>1. k \in 1 .. Len(s) + Len(last) /\ ~(k <= Len(s)) /\ k - Len(s) = j
      BY <1>1
    <3> HIDE DEF k
    <3>2. new[k] = place
      BY <2>2, <3>1
    <3> QED
      BY <3>1, <3>2
  <2> QED
    BY <1>3, <2>1, <2>2
<1>8. Flattens(new, s \o last, seqs)
  <2>1. DOMAIN new = 1 .. Len(s) + Len(last)
    OBVIOUS
  <2>2. new \in [1 .. Len(s) + Len(last) -> Places(seqs)]
    BY <1>5
  <2> HIDE DEF new
  <2> QED
    BY <1>1, <1>5, <1>6, <1>7, <2>2 DEF Flattens
<1> QED
  BY <1>8

\* The recursion of FlattenSeq, up to the k-th sequence.
Solves(f, seqs, k) ==
    f = [i \in 1 .. k |-> IF i = 1 THEN seqs[i] ELSE f[i - 1] \o seqs[i]]

\* It has a solution.
LEMMA FlattenExists ==
    ASSUME NEW seqs, NEW n \in Nat
    PROVE  \E f : Solves(f, seqs, n)
<1> DEFINE Bad == {k \in 0 .. n : ~ \E f : Solves(f, seqs, k)}
<1>1. SUFFICES ASSUME Bad # {} PROVE FALSE
  <2>1. n \in 0 .. n
    OBVIOUS
  <2> QED
    BY <2>1
<1>2. PICK m \in Bad : \A k \in Bad : m <= k
  <2>1. Bad \subseteq Nat
    OBVIOUS
  <2> HIDE DEF Bad
  <2> QED
    BY <1>1, <2>1, LeastNumber
<1>3. m \in Nat /\ m <= n
  OBVIOUS
<1>4. m # 0
  <2> DEFINE f == [i \in 1 .. 0 |-> 0]
  <2>1. Solves(f, seqs, 0)
    BY DEF Solves
  <2> QED
    BY <2>1
<1>5. \E f : Solves(f, seqs, m - 1)
  <2>1. m - 1 \in 0 .. n /\ ~(m <= m - 1)
    BY <1>3, <1>4
  <2>2. m - 1 \notin Bad
    <3> HIDE DEF Bad
    <3> QED
      BY <1>2, <2>1
  <2> QED
    BY <2>1, <2>2
<1>6. PICK g : Solves(g, seqs, m - 1)
  BY <1>5
<1> DEFINE Step(i) == IF i = 1 THEN seqs[i] ELSE g[i - 1] \o seqs[i]
           f == [i \in 1 .. m |-> Step(i)]
<1>7. ASSUME NEW i \in 1 .. m - 1 PROVE g[i] = f[i]
  <2>1. i \in 1 .. m
    BY <1>3
  <2>2. f[i] = Step(i)
    BY <2>1
  <2>3. g[i] = Step(i)
    BY <1>6, Zenon DEF Solves
  <2> QED
    BY <2>2, <2>3
<1>8. \A i \in 1 .. m : i # 1 => i - 1 \in 1 .. m - 1
  BY <1>3
<1>9. \A i \in 1 .. m : Step(i) = IF i = 1 THEN seqs[i] ELSE f[i - 1] \o seqs[i]
  <2> HIDE DEF f
  <2> QED
    BY <1>7, <1>8
<1>10. Solves(f, seqs, m)
  <2>1. f = [i \in 1 .. m |-> IF i = 1 THEN seqs[i] ELSE f[i - 1] \o seqs[i]]
    BY <1>9, Zenon
  <2> QED
    BY <2>1, Zenon DEF Solves
<1> HIDE DEF f
<1> QED
  BY <1>2, <1>10

\* And FlattenSeq is one.
LEMMA FlattenUnfold ==
    ASSUME NEW seqs, Len(seqs) \in Nat \ {0}
    PROVE  \E f : FlattenSeq(seqs) = f[Len(seqs)] /\ Solves(f, seqs, Len(seqs))
<1> DEFINE n == Len(seqs)
           F == CHOOSE f : Solves(f, seqs, n)
<1>1. FlattenSeq(seqs) = F[n]
  BY Zenon DEF FlattenSeq, Solves
<1>2. Solves(F, seqs, n)
  BY FlattenExists
<1> QED
  BY <1>1, <1>2

\* FlattenSeq puts sequences end to end.
LEMMA FlattenSeqFlattens ==
    ASSUME NEW S, NEW seqs \in Seq(Seq(S))
    PROVE  FlattenSeq(seqs) \in Seq(S) /\ \E at : Flattens(at, FlattenSeq(seqs), seqs)
<1> DEFINE n == Len(seqs)
           Firsts(k) == [i \in 1 .. k |-> seqs[i]]
           Good(s, k) == s \in Seq(S) /\ \E at : Flattens(at, s, Firsts(k))
<1>1. n \in Nat /\ seqs \in [1 .. n -> Seq(S)] /\ Firsts(n) = seqs /\ DOMAIN seqs = 1 .. n
  OBVIOUS
<1>2. Good(<<>>, 0)
  <2>1. Places(Firsts(0)) = {} /\ DOMAIN <<>> = {}
    BY DEF Places
  <2>2. Flattens(<<>>, <<>>, Firsts(0))
    BY <2>1 DEF Flattens
  <2> QED
    BY <2>2
<1>3. ASSUME NEW k \in 0 .. n - 1, NEW s, Good(s, k)
      PROVE  Good(s \o seqs[k + 1], k + 1)
  <2>1. k \in Nat /\ k + 1 \in 1 .. n /\ seqs[k + 1] \in Seq(S)
    BY <1>1
  <2>2. /\ Firsts(k) \in [1 .. k -> Seq(S)] /\ Firsts(k + 1) \in [1 .. k + 1 -> Seq(S)]
        /\ \A i \in 1 .. k : Firsts(k + 1)[i] = Firsts(k)[i]
        /\ Firsts(k + 1)[k + 1] = seqs[k + 1]
    BY <1>1, <2>1
  <2>3. PICK at : Flattens(at, s, Firsts(k))
    BY <1>3
  <2>4. s \in Seq(S) /\ s \o seqs[k + 1] \in Seq(S)
    BY <1>3, <2>1
  <2> HIDE DEF Firsts, n
  <2>5. \E new : Flattens(new, s \o seqs[k + 1], Firsts(k + 1))
    BY <2>1, <2>2, <2>3, <2>4, FlattensMore
  <2> QED
    BY <2>4, <2>5
<1>4. CASE n = 0
  <2>1. seqs = <<>> /\ FlattenSeq(seqs) = seqs
    BY <1>1, <1>4 DEF FlattenSeq
  <2> QED
    BY <1>1, <1>2, <1>4, <2>1
<1>5. CASE n # 0
  <2>1. PICK f : FlattenSeq(seqs) = f[n] /\ Solves(f, seqs, n)
    BY <1>1, <1>5, FlattenUnfold
  <2> DEFINE Bad == {k \in 1 .. n : ~Good(f[k], k)}
  <2>2. ASSUME Bad # {} PROVE FALSE
    <3>1. PICK m \in Bad : \A k \in Bad : m <= k
      <4>1. Bad \subseteq Nat
        OBVIOUS
      <4> HIDE DEF Bad
      <4> QED
        BY <2>2, <4>1, LeastNumber
    <3>2. m \in 1 .. n /\ ~Good(f[m], m) /\ m \in Nat
      <4> HIDE DEF Good
      <4> QED
        BY <1>1
    <3>3. f[m] = IF m = 1 THEN seqs[m] ELSE f[m - 1] \o seqs[m]
      BY <2>1, <3>2, Zenon DEF Solves
    <3>4. CASE m = 1
      <4>1. <<>> \o seqs[1] = seqs[1]
        BY <1>1, <1>5
      <4>2. Good(<<>> \o seqs[0 + 1], 0 + 1)
        <5>1. 0 \in 0 .. n - 1
          BY <1>1, <1>5
        <5> HIDE DEF Good
        <5> QED
          BY <1>2, <1>3, <5>1
      <4> HIDE DEF Good
      <4> QED
        BY <3>2, <3>3, <3>4, <4>1, <4>2
    <3>5. CASE m # 1
      <4>1. m - 1 \in 1 .. n /\ ~(m <= m - 1) /\ m - 1 \in 0 .. n - 1 /\ (m - 1) + 1 = m
        BY <1>1, <3>2, <3>5
      <4>2. m - 1 \notin Bad
        <5> HIDE DEF Bad
        <5> QED
          BY <3>1, <4>1
      <4> HIDE DEF Good
      <4>3. Good(f[m - 1], m - 1)
        BY <4>1, <4>2
      <4>4. Good(f[m - 1] \o seqs[(m - 1) + 1], (m - 1) + 1)
        BY <1>3, <4>1, <4>3
      <4> QED
        BY <3>2, <3>3, <3>5, <4>1, <4>4
    <3> QED
      BY <3>4, <3>5
  <2>3. n \in 1 .. n
    BY <1>1, <1>5
  <2>4. Good(f[n], n)
    <3> HIDE DEF Good
    <3> QED
      BY <2>2, <2>3
  <2> QED
    BY <1>1, <2>1, <2>4
<1> QED
  BY <1>4, <1>5

\* So it has their elements and no others.
LEMMA FlattenElements ==
    ASSUME NEW S, NEW seqs \in Seq(Seq(S))
    PROVE  /\ FlattenSeq(seqs) \in Seq(S)
           /\ \A n \in DOMAIN FlattenSeq(seqs) :
                 \E i \in DOMAIN seqs : \E j \in DOMAIN seqs[i] :
                    FlattenSeq(seqs)[n] = seqs[i][j]
           /\ \A i \in DOMAIN seqs : \A j \in DOMAIN seqs[i] :
                 \E n \in DOMAIN FlattenSeq(seqs) : FlattenSeq(seqs)[n] = seqs[i][j]
<1> DEFINE s == FlattenSeq(seqs)
<1>1. s \in Seq(S)
  BY FlattenSeqFlattens
<1>2. PICK at : Flattens(at, s, seqs)
  BY FlattenSeqFlattens
<1> HIDE DEF s
<1>3. \A place : place \in Places(seqs) <=>
        \E i \in DOMAIN seqs : \E j \in DOMAIN seqs[i] : place = <<i, j>>
  BY DEF Places
<1>4. ASSUME NEW n \in DOMAIN s
      PROVE  \E i \in DOMAIN seqs : \E j \in DOMAIN seqs[i] : s[n] = seqs[i][j]
  <2>1. at[n] \in Places(seqs) /\ s[n] = At2(seqs, at[n])
    BY <1>2 DEF Flattens
  <2> QED
    BY <1>3, <2>1 DEF At2
<1>5. ASSUME NEW i \in DOMAIN seqs, NEW j \in DOMAIN seqs[i]
      PROVE  \E n \in DOMAIN s : s[n] = seqs[i][j]
  <2>1. <<i, j>> \in Places(seqs)
    BY <1>3
  <2>2. PICK n \in DOMAIN s : at[n] = <<i, j>>
    BY <1>2, <2>1 DEF Flattens
  <2>3. s[n] = At2(seqs, <<i, j>>)
    BY <1>2, <2>2 DEF Flattens
  <2> QED
    BY <2>3 DEF At2
<1> QED
  BY <1>1, <1>4, <1>5 DEF s

----------------------------------------------------------------------------
(* The stores a configuration gives.                                         *)

\* A configuration, or none yet, with what discovery answered its entries.
Given(c, a) == c \in Configs \cup {<<>>} /\ a \in [DOMAIN c -> Answers]

\* What an entry may come to.
Offers(store, answer) ==
    {store} \cup {Expanded(store, answer[i]) : i \in DOMAIN answer}

AllOffers(c, a) == UNION {Offers(c[e], a[e]) : e \in DOMAIN c}

\* The entries of a configuration are records in a sequence.
LEMMA EntryShape ==
    ASSUME NEW c, NEW a, Given(c, a)
    PROVE  /\ c \in Seq(ToSet(c))
           /\ \A e \in DOMAIN c :
                /\ DOMAIN c[e] = {"group", "version", "kind", "resource", "resolver", "labels",
                                  "families"}
                /\ c[e].families \in Seq(ToSet(c[e].families))
                /\ \A f \in DOMAIN c[e].families : DOMAIN c[e].families[f] =
                        {"name", "counter", "resolver", "script", "labels", "metrics"}
                /\ a[e] \in Answers
<1>1. CASE c = <<>>
  BY <1>1 DEF Given
<1>2. CASE c \in Configs
  <2>1. /\ c \in Seq(ToSet(c))
        /\ \A entry \in ToSet(c) :
            /\ DOMAIN entry = {"group", "version", "kind", "resource", "resolver", "labels",
                               "families"}
            /\ entry.families \in Seq(ToSet(entry.families))
            /\ \A family \in ToSet(entry.families) : DOMAIN family =
                    {"name", "counter", "resolver", "script", "labels", "metrics"}
    BY <1>2, ConfigsAssumption
  <2> SUFFICES ASSUME NEW e \in DOMAIN c
               PROVE  /\ DOMAIN c[e] = {"group", "version", "kind", "resource", "resolver",
                                        "labels", "families"}
                      /\ c[e].families \in Seq(ToSet(c[e].families))
                      /\ \A f \in DOMAIN c[e].families : DOMAIN c[e].families[f] =
                            {"name", "counter", "resolver", "script", "labels", "metrics"}
                      /\ a[e] \in Answers
    BY <2>1, Zenon
  <2>2. c[e] \in ToSet(c)
    BY Zenon DEF ToSet
  <2>3. \A f \in DOMAIN c[e].families : c[e].families[f] \in ToSet(c[e].families)
    BY Zenon DEF ToSet
  <2>4. a[e] \in Answers
    BY DEF Given
  <2> QED
    BY <2>1, <2>2, <2>3, <2>4, Zenon
<1> QED
  BY <1>1, <1>2 DEF Given

\* Stores of concrete kinds, with the families of one store.
AllConcrete(x, store) ==
    \A i \in DOMAIN x : ~HasWildcards(x[i]) /\ x[i].families = store.families

\* What discovery makes of an entry is of concrete kinds, and keeps its families.
LEMMA ExpandedShape ==
    ASSUME NEW c, NEW a, Given(c, a), NEW e \in DOMAIN c
    PROVE  /\ ExpandWildcards(c[e], a[e]) \in Seq(Offers(c[e], a[e]))
           /\ AllConcrete(ExpandWildcards(c[e], a[e]), c[e])
<1> DEFINE store == c[e]
           answer == a[e]
           S == Offers(store, answer)
<1>1. /\ answer \in Answers
      /\ DOMAIN store = {"group", "version", "kind", "resource", "resolver", "labels", "families"}
  BY EntryShape
<1>2. \A api : ~HasWildcards(Expanded(store, api)) /\ Expanded(store, api).families = store.families
  BY <1>1 DEF HasWildcards, Expanded, Literal
<1> HIDE DEF store, answer
<1>3. CASE ~HasWildcards(store)
  <2>1. ExpandWildcards(store, answer) = <<store>> /\ store \in S
    BY <1>3 DEF ExpandWildcards, Offers
  <2>2. <<store>> \in Seq(S)
    <3> HIDE DEF S
    <3> QED
      BY <2>1
  <2> QED
    BY <1>3, <2>1, <2>2 DEF store, answer, AllConcrete
<1>4. CASE HasWildcards(store) /\ answer = Failed
  BY <1>4 DEF ExpandWildcards, store, answer, AllConcrete
<1>5. CASE HasWildcards(store) /\ answer # Failed
  <2> DEFINE seqs == [i \in DOMAIN answer |->
                IF Matches(store, answer[i]) THEN <<Expanded(store, answer[i])>> ELSE <<>>]
             x == FlattenSeq(seqs)
  <2>1. ExpandWildcards(store, answer) = x
    BY <1>5 DEF ExpandWildcards
  <2>2. answer \in Seq(ToSet(answer))
    BY <1>1, <1>5, AnswersAssumption
  <2>3. \A i \in DOMAIN answer : seqs[i] \in Seq(S)
    <3> SUFFICES ASSUME NEW i \in DOMAIN answer PROVE seqs[i] \in Seq(S)
      OBVIOUS
    <3>1. Expanded(store, answer[i]) \in S
      BY DEF Offers
    <3> HIDE DEF S
    <3> QED
      BY <3>1
  <2>4. seqs \in Seq(Seq(S))
    <3> HIDE DEF S
    <3>1. DOMAIN answer = 1 .. Len(answer) /\ Len(answer) \in Nat
      BY <2>2
    <3> QED
      BY <2>3, <3>1
  <2>5. \A i \in DOMAIN seqs : \A j \in DOMAIN seqs[i] : seqs[i][j] = Expanded(store, answer[i])
    OBVIOUS
  <2> HIDE DEF seqs
  <2>6. x \in Seq(S)
    BY <2>4, FlattenElements
  <2>7. \A n \in DOMAIN x : \E i : x[n] = Expanded(store, answer[i])
    <3> SUFFICES ASSUME NEW n \in DOMAIN x PROVE \E i : x[n] = Expanded(store, answer[i])
      OBVIOUS
    <3>1. PICK i \in DOMAIN seqs : \E j \in DOMAIN seqs[i] : x[n] = seqs[i][j]
      <4> HIDE DEF S
      <4> QED
        BY <2>4, FlattenElements
    <3>2. \A j \in DOMAIN seqs[i] : seqs[i][j] = Expanded(store, answer[i])
      BY <2>5
    <3> HIDE DEF x
    <3> QED
      BY <3>1, <3>2, Zenon
  <2> HIDE DEF x
  <2> QED
    BY <1>2, <2>1, <2>6, <2>7 DEF store, answer, AllConcrete
<1> QED
  BY <1>3, <1>4, <1>5

\* The first pass puts them end to end.
LEMMA AllExpandedFlattens ==
    ASSUME NEW c, NEW a, Given(c, a)
    PROVE  /\ AllExpanded(c, a) \in Seq(AllOffers(c, a))
           /\ \E at : Flattens(at, AllExpanded(c, a),
                               [n \in DOMAIN c |-> ExpandWildcards(c[n], a[n])])
           /\ \A n \in DOMAIN AllExpanded(c, a) : \E e \in DOMAIN c :
                \E i \in DOMAIN ExpandWildcards(c[e], a[e]) :
                    AllExpanded(c, a)[n] = ExpandWildcards(c[e], a[e])[i]
<1> DEFINE seqs == [n \in DOMAIN c |-> ExpandWildcards(c[n], a[n])]
           S == AllOffers(c, a)
<1>1. c \in Seq(ToSet(c)) /\ DOMAIN c = 1 .. Len(c) /\ Len(c) \in Nat
  <2>1. c \in Seq(ToSet(c))
    BY EntryShape
  <2> QED
    BY <2>1
<1>2. \A e \in DOMAIN c : seqs[e] \in Seq(S)
  <2> SUFFICES ASSUME NEW e \in DOMAIN c PROVE seqs[e] \in Seq(S)
    OBVIOUS
  <2>1. seqs[e] \in Seq(Offers(c[e], a[e])) /\ Offers(c[e], a[e]) \subseteq S
    BY ExpandedShape DEF AllOffers
  <2> DEFINE O == Offers(c[e], a[e])
  <2>2. seqs[e] \in Seq(O) /\ O \subseteq S
    BY <2>1
  <2> HIDE DEF O, S, seqs
  <2> QED
    BY <2>2
<1>3. seqs \in Seq(Seq(S))
  <2> HIDE DEF S
  <2> QED
    BY <1>1, <1>2
<1>4. AllExpanded(c, a) = FlattenSeq(seqs)
  BY DEF AllExpanded
<1>5. \A n \in DOMAIN FlattenSeq(seqs) : \E e \in DOMAIN c : \E i \in DOMAIN seqs[e] :
         FlattenSeq(seqs)[n] = seqs[e][i]
  <2>1. DOMAIN seqs = DOMAIN c
    OBVIOUS
  <2> HIDE DEF seqs
  <2> QED
    BY <1>3, <2>1, FlattenElements
<1>6. FlattenSeq(seqs) \in Seq(S) /\ \E at : Flattens(at, FlattenSeq(seqs), seqs)
  <2> HIDE DEF seqs, S
  <2> QED
    BY <1>3, FlattenSeqFlattens
<1> QED
  BY <1>4, <1>5, <1>6

\* The first of its key among the stores x.
IsFirst(x, i) == \A j \in DOMAIN x : j < i => StoreKey(x[j]) # StoreKey(x[i])

\* The second pass keeps the first store of every key.
LEMMA FirstsKept ==
    ASSUME NEW S, NEW x \in Seq(S)
    PROVE  /\ Deduplicated(x) \in Seq(S)
           /\ \A n \in DOMAIN Deduplicated(x) :
                 \E i \in DOMAIN x : IsFirst(x, i) /\ Deduplicated(x)[n] = x[i]
           /\ \A i \in DOMAIN x : IsFirst(x, i) =>
                 \E n \in DOMAIN Deduplicated(x) : Deduplicated(x)[n] = x[i]
           /\ \A m, n \in DOMAIN Deduplicated(x) :
                 StoreKey(Deduplicated(x)[m]) = StoreKey(Deduplicated(x)[n]) => m = n
<1> DEFINE Earlier(i) == {j \in DOMAIN x : j < i /\ StoreKey(x[j]) = StoreKey(x[i])}
           seqs == [i \in DOMAIN x |-> IF Earlier(i) = {} THEN <<x[i]>> ELSE <<>>]
           d == FlattenSeq(seqs)
<1>1. Deduplicated(x) = d
  BY DEF Deduplicated
<1>2. \A i \in DOMAIN x : IsFirst(x, i) <=> Earlier(i) = {}
  BY DEF IsFirst
<1> HIDE DEF Earlier
<1>3. DOMAIN x = 1 .. Len(x) /\ Len(x) \in Nat /\ DOMAIN seqs = DOMAIN x
  OBVIOUS
<1>4. \A i \in DOMAIN x : seqs[i] \in Seq(S)
  OBVIOUS
<1>5. seqs \in Seq(Seq(S))
  BY <1>3, <1>4
<1>6. \A i \in DOMAIN x : \A j \in DOMAIN seqs[i] : j = 1 /\ seqs[i][j] = x[i] /\ IsFirst(x, i)
  BY <1>2
<1>7. \A i \in DOMAIN x : IsFirst(x, i) => 1 \in DOMAIN seqs[i] /\ seqs[i][1] = x[i]
  BY <1>2
<1> HIDE DEF seqs
<1>8. d \in Seq(S)
  BY <1>5, FlattenSeqFlattens
<1>9. PICK at : Flattens(at, d, seqs)
  BY <1>5, FlattenSeqFlattens
<1> HIDE DEF d
<1>10. \A n \in DOMAIN d :
          \E i \in DOMAIN x : at[n] = <<i, 1>> /\ IsFirst(x, i) /\ d[n] = x[i]
  <2> SUFFICES ASSUME NEW n \in DOMAIN d
               PROVE  \E i \in DOMAIN x : at[n] = <<i, 1>> /\ IsFirst(x, i) /\ d[n] = x[i]
    OBVIOUS
  <2>1. at[n] \in Places(seqs) /\ d[n] = At2(seqs, at[n])
    BY <1>9 DEF Flattens
  <2>2. PICK i \in DOMAIN x : \E j \in DOMAIN seqs[i] : at[n] = <<i, j>>
    BY <1>3, <2>1 DEF Places
  <2> QED
    BY <1>6, <2>1, <2>2 DEF At2
<1>11. \A i \in DOMAIN x : IsFirst(x, i) => \E n \in DOMAIN d : d[n] = x[i]
  <2> SUFFICES ASSUME NEW i \in DOMAIN x, IsFirst(x, i) PROVE \E n \in DOMAIN d : d[n] = x[i]
    OBVIOUS
  <2>1. <<i, 1>> \in Places(seqs)
    BY <1>3, <1>7 DEF Places
  <2>2. PICK n \in DOMAIN d : at[n] = <<i, 1>>
    BY <1>9, <2>1 DEF Flattens
  <2> QED
    BY <1>10, <2>2
<1>12. ASSUME NEW m \in DOMAIN d, NEW n \in DOMAIN d, StoreKey(d[m]) = StoreKey(d[n])
       PROVE  m = n
  <2>1. PICK i \in DOMAIN x : at[m] = <<i, 1>> /\ IsFirst(x, i) /\ d[m] = x[i]
    BY <1>10
  <2>2. PICK j \in DOMAIN x : at[n] = <<j, 1>> /\ IsFirst(x, j) /\ d[n] = x[j]
    BY <1>10
  <2>3. ~(i < j) /\ ~(j < i)
    BY <1>12, <2>1, <2>2 DEF IsFirst
  <2>4. i = j
    BY <1>3, <2>3
  <2>5. m \in Nat /\ n \in Nat
    BY <1>8
  <2>6. ~(m < n) /\ ~(n < m)
    <3>1. \A k, l \in DOMAIN d : k < l => Before(at[k], at[l])
      BY <1>9 DEF Flattens
    <3>2. ~Before(<<i, 1>>, <<i, 1>>)
      BY <1>3 DEF Before
    <3> QED
      BY <2>1, <2>2, <2>4, <3>1, <3>2
  <2> QED
    BY <2>5, <2>6
<1> QED
  BY <1>1, <1>8, <1>10, <1>11, <1>12

\* An element occurs as often as there are places it comes from.
LEMMA OccurrencesArePlaces ==
    ASSUME NEW S, NEW seqs \in Seq(Seq(S)), NEW s \in Seq(S), NEW at, Flattens(at, s, seqs), NEW x
    PROVE  /\ Occurrences(x, s) = Cardinality({place \in Places(seqs) : At2(seqs, place) = x})
           /\ Occurrences(x, s) \in Nat
           /\ x \in ToSet(s) => Occurrences(x, s) >= 1
<1> DEFINE I == {i \in DOMAIN s : s[i] = x}
           P == {place \in Places(seqs) : At2(seqs, place) = x}
           f == [i \in I |-> at[i]]
<1>1. DOMAIN s = 1 .. Len(s) /\ Len(s) \in Nat
  OBVIOUS
<1>2. IsFiniteSet(I)
  <2>1. IsFiniteSet(1 .. Len(s))
    BY <1>1, FS_Interval
  <2> QED
    BY <1>1, <2>1, FS_Subset
<1>3. f \in Bijection(I, P)
  <2>1. \A i \in I : at[i] \in P
    BY DEF Flattens
  <2>2. ASSUME NEW i \in I, NEW j \in I, at[i] = at[j] PROVE i = j
    <3>1. ~(i < j) /\ ~(j < i)
      <4>1. \A k \in DOMAIN s : at[k][1] \in Nat /\ at[k][2] \in Nat
        <5>1. \A place \in Places(seqs) : place[1] \in Nat /\ place[2] \in Nat
          <6>1. \A k \in DOMAIN seqs : k \in Nat /\ \A l \in DOMAIN seqs[k] : l \in Nat
            OBVIOUS
          <6> QED
            BY <6>1 DEF Places
        <5> QED
          BY <5>1 DEF Flattens
      <4>2. ~Before(at[i], at[i])
        BY <4>1 DEF Before
      <4>3. \A k, l \in DOMAIN s : k < l => Before(at[k], at[l])
        BY DEF Flattens
      <4> QED
        BY <2>2, <4>2, <4>3
    <3>2. i \in Nat /\ j \in Nat
      BY <1>1
    <3> QED
      BY <3>1, <3>2
  <2>3. \A place \in P : \E i \in I : at[i] = place
    BY DEF Flattens
  <2> HIDE DEF I, P
  <2> QED
    BY <2>1, <2>2, <2>3 DEF Bijection, Injection, Surjection, IsInjective
<1>4. Cardinality(I) = Cardinality(P) /\ Cardinality(I) \in Nat
  <2> HIDE DEF I, P, f
  <2>1. Cardinality(I) \in Nat
    BY <1>2, FS_CardinalityType
  <2>2. ExistsBijection(I, P)
    BY <1>3 DEF ExistsBijection
  <2> QED
    BY <1>2, <2>1, <2>2, FS_Bijection
<1>5. ASSUME x \in ToSet(s) PROVE Cardinality(I) >= 1
  <2>1. I # {}
    BY <1>5 DEF ToSet
  <2> HIDE DEF I
  <2>2. Cardinality(I) # 0
    BY <1>2, <2>1, FS_EmptySet
  <2> QED
    BY <1>4, <2>2
<1> QED
  BY <1>4, <1>5 DEF Occurrences

----------------------------------------------------------------------------
(* What the stores keep of the entries they come from.                       *)

\* A store, or an entry: a record, its families records in a sequence.
IsStore(s) ==
    /\ DOMAIN s = {"group", "version", "kind", "resource", "resolver", "labels", "families"}
    /\ s.families \in Seq(ToSet(s.families))
    /\ \A f \in DOMAIN s.families : DOMAIN s.families[f] =
            {"name", "counter", "resolver", "script", "labels", "metrics"}

\* Two stores of one kind whose families have the same names.
Alike(s, t) ==
    /\ s.group = t.group
    /\ s.version = t.version
    /\ s.kind = t.kind
    /\ s.resource = t.resource
    /\ DOMAIN s.families = DOMAIN t.families
    /\ \A f \in DOMAIN s.families : s.families[f].name = t.families[f].name

\* A function on the indices of a sequence is a sequence.
LEMMA SameIndices ==
    ASSUME NEW s, s \in Seq(ToSet(s)), NEW t, t = [f \in DOMAIN s |-> t[f]]
    PROVE  t \in Seq(ToSet(t))
<1>1. DOMAIN s = 1 .. Len(s) /\ Len(s) \in Nat /\ DOMAIN t = DOMAIN s
  OBVIOUS
<1>2. \A f \in DOMAIN t : t[f] \in ToSet(t)
  BY DEF ToSet
<1> DEFINE T == ToSet(t)
<1> HIDE DEF T
<1>3. \A f \in 1 .. Len(s) : t[f] \in T
  BY <1>1, <1>2 DEF T
<1>4. t \in [1 .. Len(s) -> T]
  BY <1>1, <1>3
<1>5. t \in Seq(T)
  BY <1>1, <1>4
<1> QED
  BY <1>5 DEF T

\* Families put in the place of others of the same names make the store like it.
LEMMA OtherFamilies ==
    ASSUME NEW s, IsStore(s), NEW families, families = [f \in DOMAIN s.families |-> families[f]],
           \A f \in DOMAIN s.families :
                /\ DOMAIN families[f] = {"name", "counter", "resolver", "script", "labels", "metrics"}
                /\ families[f].name = s.families[f].name
    PROVE  /\ IsStore([s EXCEPT !.families = families])
           /\ Alike([s EXCEPT !.families = families], s)
           /\ [s EXCEPT !.families = families].families = families
<1> DEFINE new == [s EXCEPT !.families = families]
<1>1. /\ DOMAIN new = DOMAIN s /\ new.families = families
      /\ new.group = s.group /\ new.version = s.version /\ new.kind = s.kind
      /\ new.resource = s.resource
  BY DEF IsStore
<1>2. families \in Seq(ToSet(families))
  <2>1. s.families \in Seq(ToSet(s.families))
    BY DEF IsStore
  <2> QED
    BY <2>1, SameIndices
<1>3. DOMAIN families = DOMAIN s.families
  OBVIOUS
<1> HIDE DEF new
<1>4. IsStore(new)
  BY <1>1, <1>2, <1>3, Zenon DEF IsStore
<1>5. Alike(new, s)
  BY <1>1, <1>3, Zenon DEF Alike
<1> QED
  BY <1>1, <1>4, <1>5 DEF new

\* The third pass keeps kinds and names.
LEMMA BuiltAlike ==
    ASSUME NEW s, IsStore(s)
    PROVE  IsStore(BuildStoreFromConfig(s)) /\ Alike(BuildStoreFromConfig(s), s)
<1> DEFINE New(f) == [s.families[f] EXCEPT
                        !.script = IF s.families[f].resolver = "starlark" THEN @ ELSE ""]
           families == [f \in DOMAIN s.families |-> New(f)]
<1>1. BuildStoreFromConfig(s) = [s EXCEPT !.families = families]
  BY Zenon DEF BuildStoreFromConfig
<1>2. ASSUME NEW f \in DOMAIN s.families
      PROVE  /\ DOMAIN families[f] = {"name", "counter", "resolver", "script", "labels", "metrics"}
             /\ families[f].name = s.families[f].name
  <2>1. DOMAIN s.families[f] = {"name", "counter", "resolver", "script", "labels", "metrics"}
    BY DEF IsStore
  <2>2. families[f] = New(f)
    OBVIOUS
  <2>3. DOMAIN New(f) = DOMAIN s.families[f] /\ New(f).name = s.families[f].name
    BY <2>1
  <2> QED
    BY <2>1, <2>2, <2>3, Zenon
<1>3. families = [f \in DOMAIN s.families |-> families[f]]
  OBVIOUS
<1> HIDE DEF families
<1>4. /\ IsStore([s EXCEPT !.families = families])
      /\ Alike([s EXCEPT !.families = families], s)
  BY <1>2, <1>3, OtherFamilies
<1> QED
  BY <1>1, <1>4, Zenon

\* And so does what families inherit.
LEMMA InheritedAlike ==
    ASSUME NEW s, IsStore(s), NEW families,
           families = [f \in DOMAIN s.families |-> InheritFamilyConfiguration(s.families[f], s)]
    PROVE  /\ IsStore([s EXCEPT !.families = families])
           /\ Alike([s EXCEPT !.families = families], s)
           /\ [s EXCEPT !.families = families].families = families
<1>2. ASSUME NEW f \in DOMAIN s.families
      PROVE  /\ DOMAIN families[f] = {"name", "counter", "resolver", "script", "labels", "metrics"}
             /\ families[f].name = s.families[f].name
  <2>1. DOMAIN s.families[f] = {"name", "counter", "resolver", "script", "labels", "metrics"}
    BY DEF IsStore
  <2>2. families[f] = InheritFamilyConfiguration(s.families[f], s)
    OBVIOUS
  <2>3. /\ DOMAIN InheritFamilyConfiguration(s.families[f], s) = DOMAIN s.families[f]
        /\ InheritFamilyConfiguration(s.families[f], s).name = s.families[f].name
    BY <2>1 DEF InheritFamilyConfiguration
  <2> QED
    BY <2>1, <2>2, <2>3, Zenon
<1>3. families = [f \in DOMAIN s.families |-> families[f]]
  OBVIOUS
<1> QED
  BY <1>2, <1>3, OtherFamilies

\* Likeness is passed on.
LEMMA AlikeTransitive ==
    ASSUME NEW s, NEW t, NEW u, Alike(s, t), Alike(t, u)
    PROVE  Alike(s, u)
BY Zenon DEF Alike

\* Stores that are alike have one key, and are equally concrete.
LEMMA AlikeKeys ==
    ASSUME NEW s, NEW t, Alike(s, t)
    PROVE  StoreKey(s) = StoreKey(t) /\ (HasWildcards(s) <=> HasWildcards(t))
BY DEF Alike, StoreKey, HasWildcards

\* Stores that are alike give their families' names alike.
LEMMA AlikeNames ==
    ASSUME NEW s, NEW t, DOMAIN s.families = DOMAIN t.families,
           \A f \in DOMAIN s.families : s.families[f].name = t.families[f].name
    PROVE  FamilyNames(<<s>>) = FamilyNames(<<t>>)
<1> DEFINE Names(u) == [f \in DOMAIN u.families |-> u.families[f].name]
           Seqs(u) == [n \in DOMAIN <<u>> |-> [f \in DOMAIN <<u>>[n].families |->
                                                  <<u>>[n].families[f].name]]
<1>1. Names(s) = Names(t)
  OBVIOUS
<1>2. \A u : Seqs(u) = [n \in {1} |-> Names(u)]
  <2> SUFFICES ASSUME NEW u PROVE Seqs(u) = [n \in {1} |-> Names(u)]
    OBVIOUS
  <2>1. DOMAIN <<u>> = {1} /\ <<u>>[1] = u
    OBVIOUS
  <2>2. \A n \in {1} : Seqs(u)[n] = Names(u)
    BY <2>1
  <2>3. DOMAIN Seqs(u) = {1}
    BY <2>1
  <2> QED
    BY <2>2, <2>3
<1>3. Seqs(s) = Seqs(t)
  <2> HIDE DEF Seqs, Names
  <2> QED
    BY <1>1, <1>2
<1>4. \A u : FamilyNames(<<u>>) = FlattenSeq(Seqs(u))
  BY DEF FamilyNames
<1> QED
  BY <1>3, <1>4, Zenon

\* An entry is a store.
LEMMA EntryIsStore ==
    ASSUME NEW c, NEW a, Given(c, a), NEW e \in DOMAIN c
    PROVE  IsStore(c[e])
BY EntryShape DEF IsStore

\* And so is all that it comes to: a store of a concrete kind.
LEMMA ExpandedIsStore ==
    ASSUME NEW c, NEW a, Given(c, a), NEW e \in DOMAIN c,
           NEW i \in DOMAIN ExpandWildcards(c[e], a[e])
    PROVE  /\ IsStore(ExpandWildcards(c[e], a[e])[i])
           /\ ~HasWildcards(ExpandWildcards(c[e], a[e])[i])
           /\ ExpandWildcards(c[e], a[e])[i].families = c[e].families
<1> DEFINE x == ExpandWildcards(c[e], a[e])
<1>1. x \in Seq(Offers(c[e], a[e])) /\ AllConcrete(x, c[e])
  BY ExpandedShape
<1>2. ~HasWildcards(x[i]) /\ x[i].families = c[e].families
  <2>1. i \in DOMAIN x
    OBVIOUS
  <2> HIDE DEF x
  <2> QED
    BY <1>1, <2>1 DEF AllConcrete
<1>3. x[i] \in Offers(c[e], a[e])
  <2> DEFINE O == Offers(c[e], a[e])
  <2>1. x \in Seq(O) /\ i \in DOMAIN x
    BY <1>1
  <2> HIDE DEF O, x
  <2>2. x[i] \in O
    BY <2>1
  <2> QED
    BY <2>2 DEF O
<1>4. IsStore(c[e])
  BY EntryIsStore
<1>5. \A api : DOMAIN Expanded(c[e], api) = DOMAIN c[e]
  BY DEF Expanded
<1> HIDE DEF x
<1>6. DOMAIN x[i] = DOMAIN c[e]
  BY <1>3, <1>5 DEF Offers
<1> DEFINE new == x[i]
           old == c[e]
<1>7. IsStore(new)
  <2>1. DOMAIN new = DOMAIN old /\ new.families = old.families /\ IsStore(old)
    BY <1>2, <1>4, <1>6
  <2> HIDE DEF new, old
  <2> QED
    BY <2>1 DEF IsStore
<1> QED
  BY <1>2, <1>7 DEF x

\* What some entry came to.
ComesFrom(s, c, a) ==
    \E e \in DOMAIN c : \E i \in DOMAIN ExpandWildcards(c[e], a[e]) :
        s = ExpandWildcards(c[e], a[e])[i]

\* The first two passes give stores of concrete kinds, each what some entry came to.
LEMMA DeduplicatedShape ==
    ASSUME NEW c, NEW a, Given(c, a)
    PROVE  /\ Deduplicated(AllExpanded(c, a)) \in Seq(AllOffers(c, a))
           /\ \A n \in DOMAIN Deduplicated(AllExpanded(c, a)) :
                /\ IsStore(Deduplicated(AllExpanded(c, a))[n])
                /\ ~HasWildcards(Deduplicated(AllExpanded(c, a))[n])
                /\ ComesFrom(Deduplicated(AllExpanded(c, a))[n], c, a)
<1> DEFINE x == AllExpanded(c, a)
           D == Deduplicated(x)
           S == AllOffers(c, a)
<1>1. x \in Seq(S)
  BY AllExpandedFlattens
<1>2. D \in Seq(S) /\ \A n \in DOMAIN D : \E i \in DOMAIN x : D[n] = x[i]
  <2> HIDE DEF x, S
  <2> QED
    BY <1>1, FirstsKept
<1>3. ASSUME NEW n \in DOMAIN D
      PROVE  \E e \in DOMAIN c : \E i \in DOMAIN ExpandWildcards(c[e], a[e]) :
                D[n] = ExpandWildcards(c[e], a[e])[i]
  <2>1. PICK k \in DOMAIN x : D[n] = x[k]
    BY <1>2
  <2>2. PICK e \in DOMAIN c : \E i \in DOMAIN ExpandWildcards(c[e], a[e]) :
                    x[k] = ExpandWildcards(c[e], a[e])[i]
    BY AllExpandedFlattens
  <2> HIDE DEF D, x
  <2> QED
    BY <2>1, <2>2
<1>4. ASSUME NEW n \in DOMAIN D PROVE IsStore(D[n]) /\ ~HasWildcards(D[n])
  <2>1. PICK e \in DOMAIN c : \E i \in DOMAIN ExpandWildcards(c[e], a[e]) :
                D[n] = ExpandWildcards(c[e], a[e])[i]
    BY <1>3
  <2>2. PICK i \in DOMAIN ExpandWildcards(c[e], a[e]) : D[n] = ExpandWildcards(c[e], a[e])[i]
    BY <2>1
  <2> HIDE DEF D
  <2>3. IsStore(ExpandWildcards(c[e], a[e])[i]) /\ ~HasWildcards(ExpandWildcards(c[e], a[e])[i])
    BY ExpandedIsStore
  <2> QED
    BY <2>2, <2>3
<1>5. \A n \in DOMAIN D : ComesFrom(D[n], c, a)
  BY <1>3 DEF ComesFrom
<1> QED
  BY <1>2, <1>4, <1>5

\* The keys of what the entry e came to.
KeysOf(c, a, e) == {StoreKey(s) : s \in ToSet(ExpandWildcards(c[e], a[e]))}

\* A key that an entry gives, and none before it, has one store: with its families.
LEMMA FirstOfEach ==
    ASSUME NEW c, NEW a, Given(c, a), NEW e \in DOMAIN c, NEW key \in KeysOf(c, a, e),
           \A d \in 1 .. e - 1 : key \notin KeysOf(c, a, d)
    PROVE  \E n \in DOMAIN Deduplicated(AllExpanded(c, a)) :
                /\ StoreKey(Deduplicated(AllExpanded(c, a))[n]) = key
                /\ \A m \in DOMAIN Deduplicated(AllExpanded(c, a)) :
                      StoreKey(Deduplicated(AllExpanded(c, a))[m]) = key => m = n
                /\ Deduplicated(AllExpanded(c, a))[n].families = c[e].families
<1> DEFINE x == AllExpanded(c, a)
           D == Deduplicated(x)
           S == AllOffers(c, a)
           seqs == [n \in DOMAIN c |-> ExpandWildcards(c[n], a[n])]
<1>1. x \in Seq(S)
  BY AllExpandedFlattens
<1>2. PICK at : Flattens(at, x, seqs)
  BY AllExpandedFlattens
<1>3. /\ \A n \in DOMAIN D : \E i \in DOMAIN x : IsFirst(x, i) /\ D[n] = x[i]
      /\ \A i \in DOMAIN x : IsFirst(x, i) => \E n \in DOMAIN D : D[n] = x[i]
      /\ \A m, n \in DOMAIN D : StoreKey(D[m]) = StoreKey(D[n]) => m = n
  <2> HIDE DEF x, S
  <2> QED
    BY <1>1, FirstsKept
<1>4. \A d \in DOMAIN c : d \in Nat \ {0}
  <2>1. c \in Seq(ToSet(c))
    BY EntryShape
  <2> QED
    BY <2>1
<1>5. \A d \in DOMAIN c : \A j \in DOMAIN seqs[d] :
         StoreKey(seqs[d][j]) \in KeysOf(c, a, d) /\ seqs[d][j].families = c[d].families
  <2> SUFFICES ASSUME NEW d \in DOMAIN c, NEW j \in DOMAIN seqs[d]
               PROVE  StoreKey(seqs[d][j]) \in KeysOf(c, a, d)
                      /\ seqs[d][j].families = c[d].families
    OBVIOUS
  <2>1. seqs[d] = ExpandWildcards(c[d], a[d])
    OBVIOUS
  <2>2. seqs[d][j] \in ToSet(ExpandWildcards(c[d], a[d]))
    BY <2>1, Zenon DEF ToSet
  <2>3. seqs[d][j].families = c[d].families
    BY <2>1, ExpandedIsStore
  <2> HIDE DEF seqs
  <2> QED
    BY <2>2, <2>3 DEF KeysOf
<1>6. PICK j0 \in DOMAIN seqs[e] : StoreKey(seqs[e][j0]) = key
  <2>1. seqs[e] = ExpandWildcards(c[e], a[e])
    OBVIOUS
  <2>2. PICK s \in ToSet(seqs[e]) : StoreKey(s) = key
    BY <2>1, Zenon DEF KeysOf
  <2> HIDE DEF seqs
  <2> QED
    BY <2>2, Zenon DEF ToSet
<1>7. DOMAIN seqs = DOMAIN c
  OBVIOUS
<1> HIDE DEF seqs, S
<1>8. \A n \in DOMAIN x : n \in Nat
  <2> HIDE DEF x
  <2> QED
    BY <1>1
<1> HIDE DEF x, D
<1>9. PICK q \in DOMAIN x : at[q] = <<e, j0>>
  <2>1. <<e, j0>> \in Places(seqs)
    BY <1>6, <1>7 DEF Places
  <2> QED
    BY <1>2, <2>1 DEF Flattens
<1>10. StoreKey(x[q]) = key
  BY <1>2, <1>6, <1>9 DEF Flattens, At2
<1> DEFINE T == {p \in DOMAIN x : StoreKey(x[p]) = key}
<1>11. PICK p \in T : \A k \in T : p <= k
  <2>1. T \subseteq Nat /\ T # {}
    BY <1>8, <1>10
  <2> HIDE DEF T
  <2> QED
    BY <2>1, LeastNumber
<1>12. IsFirst(x, p) /\ p \in DOMAIN x /\ StoreKey(x[p]) = key /\ p <= q
  <2>1. p \in DOMAIN x /\ StoreKey(x[p]) = key /\ q \in T
    BY <1>10
  <2>2. \A j \in DOMAIN x : j < p => j \notin T
    <3> HIDE DEF T
    <3> QED
      BY <1>8, <1>11, <2>1
  <2>3. IsFirst(x, p)
    BY <2>1, <2>2 DEF IsFirst
  <2>4. p <= q
    <3> HIDE DEF T
    <3> QED
      BY <1>11, <2>1
  <2> QED
    BY <2>1, <2>3, <2>4
<1> HIDE DEF T
<1>13. PICK d \in DOMAIN c : \E j \in DOMAIN seqs[d] : at[p] = <<d, j>>
  <2>1. at[p] \in Places(seqs)
    BY <1>2, <1>12 DEF Flattens
  <2> QED
    BY <1>7, <2>1 DEF Places
<1>14. PICK j \in DOMAIN seqs[d] : at[p] = <<d, j>>
  BY <1>13
<1>15. x[p] = seqs[d][j]
  BY <1>2, <1>12, <1>14 DEF Flattens, At2
<1>16. ~(d < e)
  <2>1. key \in KeysOf(c, a, d)
    BY <1>5, <1>12, <1>14, <1>15
  <2> QED
    BY <1>4, <2>1
<1>17. ~(e < d)
  <2>1. ASSUME p < q PROVE ~(e < d)
    <3>1. Before(at[p], at[q])
      BY <1>2, <1>9, <1>12, <2>1 DEF Flattens
    <3>2. d < e \/ d = e
      BY <1>9, <1>14, <3>1 DEF Before
    <3> QED
      BY <1>4, <3>2
  <2>2. ASSUME p = q PROVE d = e
    BY <1>9, <1>14, <2>2
  <2> QED
    BY <1>4, <1>8, <1>12, <2>1, <2>2
<1>18. d = e
  BY <1>4, <1>16, <1>17
<1>19. PICK n \in DOMAIN D : D[n] = x[p]
  BY <1>3, <1>12
<1>20. D[n].families = c[e].families
  BY <1>5, <1>14, <1>15, <1>18, <1>19
<1>21. \A m \in DOMAIN D : StoreKey(D[m]) = key => m = n
  BY <1>3, <1>12, <1>19
<1> QED
  BY <1>12, <1>19, <1>20, <1>21 DEF D, x

----------------------------------------------------------------------------
(* What the gauges count.                                                    *)

\* The gauge counts, and says of each element of s how many more there are.
GaugeOf(gauge, s) ==
    /\ \A k \in DOMAIN gauge : gauge[k] \in Nat
    /\ \A x \in ToSet(s) : x \in DOMAIN gauge /\ gauge[x] = Occurrences(x, s) - 1

\* That is what setting it does.
LEMMA GaugeSetCounts ==
    ASSUME NEW s, NEW gauge, \A k \in DOMAIN gauge : gauge[k] \in Nat,
           \A x : Occurrences(x, s) \in Nat /\ (x \in ToSet(s) => Occurrences(x, s) >= 1)
    PROVE  GaugeOf(GaugeSet(gauge, s), s)
<1> DEFINE New(x) == IF x \in ToSet(s) THEN Occurrences(x, s) - 1 ELSE gauge[x]
           new == [x \in ToSet(s) \cup DOMAIN gauge |-> New(x)]
<1>1. GaugeSet(gauge, s) = new
  BY Zenon DEF GaugeSet
<1>2. ASSUME NEW x \in ToSet(s) PROVE new[x] = Occurrences(x, s) - 1 /\ new[x] \in Nat
  <2>1. new[x] = Occurrences(x, s) - 1
    BY Zenon
  <2> HIDE DEF new
  <2>2. Occurrences(x, s) \in Nat /\ Occurrences(x, s) >= 1
    OBVIOUS
  <2> QED
    BY <2>1, <2>2
<1>3. ASSUME NEW x \in DOMAIN gauge, x \notin ToSet(s) PROVE new[x] \in Nat
  <2>1. new[x] = gauge[x]
    BY <1>3, Zenon
  <2> HIDE DEF new
  <2> QED
    BY <2>1
<1>4. DOMAIN new = ToSet(s) \cup DOMAIN gauge
  OBVIOUS
<1> HIDE DEF new
<1> QED
  BY <1>1, <1>2, <1>3, <1>4 DEF GaugeOf

\* The names of the families of each store.
NamesOf(D) == [n \in DOMAIN D |-> [f \in DOMAIN D[n].families |-> D[n].families[f].name]]

\* FamilyNames puts them end to end.
LEMMA NamesFlatten ==
    ASSUME NEW S, NEW D \in Seq(S), \A n \in DOMAIN D : IsStore(D[n])
    PROVE  /\ FamilyNames(D) = FlattenSeq(NamesOf(D))
           /\ \E N : NamesOf(D) \in Seq(Seq(N))
<1> DEFINE seqs == NamesOf(D)
           N == UNION {ToSet(seqs[n]) : n \in DOMAIN D}
<1>1. FamilyNames(D) = FlattenSeq(seqs)
  BY DEF FamilyNames, NamesOf
<1>2. ASSUME NEW n \in DOMAIN D PROVE seqs[n] \in Seq(N)
  <2> DEFINE t == [f \in DOMAIN D[n].families |-> D[n].families[f].name]
  <2>1. seqs[n] = t
    BY DEF NamesOf
  <2>2. D[n].families \in Seq(ToSet(D[n].families))
    BY DEF IsStore
  <2>3. t = [f \in DOMAIN D[n].families |-> t[f]]
    OBVIOUS
  <2> HIDE DEF t
  <2>4. t \in Seq(ToSet(t))
    BY <2>2, <2>3, SameIndices
  <2>5. ToSet(t) \subseteq N
    BY <2>1
  <2> DEFINE T == ToSet(t)
  <2> HIDE DEF N, T, seqs
  <2>6. t \in Seq(N)
    <3>1. t \in Seq(T) /\ T \subseteq N
      BY <2>4, <2>5 DEF T
    <3> QED
      BY <3>1
  <2> QED
    BY <2>1, <2>6
<1>3. DOMAIN D = 1 .. Len(D) /\ Len(D) \in Nat /\ seqs = [n \in DOMAIN D |-> seqs[n]]
  BY DEF NamesOf
<1> HIDE DEF N, seqs
<1>4. seqs \in Seq(Seq(N))
  BY <1>2, <1>3
<1> QED
  BY <1>1, <1>4 DEF seqs

\* The keys of what each entry came to.
KeySeqs(c, a) ==
    [e \in DOMAIN c |-> [i \in DOMAIN ExpandWildcards(c[e], a[e]) |->
                            StoreKey(ExpandWildcards(c[e], a[e])[i])]]

\* The keys of all of them.
AllKeys(c, a) == [n \in DOMAIN AllExpanded(c, a) |-> StoreKey(AllExpanded(c, a)[n])]

\* These are those, end to end.
LEMMA KeysFlatten ==
    ASSUME NEW c, NEW a, Given(c, a)
    PROVE  \E K : /\ KeySeqs(c, a) \in Seq(Seq(K))
                  /\ AllKeys(c, a) \in Seq(K)
                  /\ \E at : Flattens(at, AllKeys(c, a), KeySeqs(c, a))
<1> DEFINE x == AllExpanded(c, a)
           S == AllOffers(c, a)
           K == {StoreKey(s) : s \in S}
           seqs == [n \in DOMAIN c |-> ExpandWildcards(c[n], a[n])]
           keys == AllKeys(c, a)
           keySeqs == KeySeqs(c, a)
<1>1. x \in Seq(S)
  BY AllExpandedFlattens
<1>2. PICK at : Flattens(at, x, seqs)
  BY AllExpandedFlattens
<1>3. /\ DOMAIN seqs = DOMAIN c /\ DOMAIN keySeqs = DOMAIN c
      /\ \A e \in DOMAIN c :
            /\ DOMAIN keySeqs[e] = DOMAIN seqs[e]
            /\ \A i \in DOMAIN seqs[e] : keySeqs[e][i] = StoreKey(seqs[e][i])
            /\ keySeqs[e] = [i \in DOMAIN seqs[e] |-> keySeqs[e][i]]
      /\ keySeqs = [e \in DOMAIN c |-> keySeqs[e]]
  BY DEF KeySeqs
<1>4. /\ DOMAIN keys = DOMAIN x
      /\ \A n \in DOMAIN x : keys[n] = StoreKey(x[n])
      /\ keys = [n \in DOMAIN x |-> keys[n]]
  BY DEF AllKeys
<1>5. DOMAIN c = 1 .. Len(c) /\ Len(c) \in Nat
  <2>1. c \in Seq(ToSet(c))
    BY EntryShape
  <2> QED
    BY <2>1
<1>6. \A e \in DOMAIN c : seqs[e] \in Seq(S)
  <2> SUFFICES ASSUME NEW e \in DOMAIN c PROVE seqs[e] \in Seq(S)
    OBVIOUS
  <2> DEFINE O == Offers(c[e], a[e])
  <2>1. seqs[e] \in Seq(O) /\ O \subseteq S
    BY ExpandedShape DEF AllOffers
  <2> HIDE DEF O, S, seqs
  <2> QED
    BY <2>1
<1>7. \A s \in S : StoreKey(s) \in K
  OBVIOUS
<1> HIDE DEF x, S, K, seqs, keys, keySeqs
<1>8. keys \in Seq(K)
  <2>1. DOMAIN x = 1 .. Len(x) /\ Len(x) \in Nat /\ \A n \in DOMAIN x : x[n] \in S
    BY <1>1
  <2>2. \A n \in DOMAIN x : keys[n] \in K
    BY <1>4, <1>7, <2>1
  <2>3. keys \in [1 .. Len(x) -> K]
    BY <1>4, <2>1, <2>2
  <2> QED
    BY <2>1, <2>3
<1>9. \A e \in DOMAIN c : keySeqs[e] \in Seq(K)
  <2> SUFFICES ASSUME NEW e \in DOMAIN c PROVE keySeqs[e] \in Seq(K)
    OBVIOUS
  <2>1. /\ DOMAIN seqs[e] = 1 .. Len(seqs[e]) /\ Len(seqs[e]) \in Nat
        /\ \A i \in DOMAIN seqs[e] : seqs[e][i] \in S
    BY <1>6
  <2>2. \A i \in DOMAIN seqs[e] : keySeqs[e][i] \in K
    BY <1>3, <1>7, <2>1
  <2>3. keySeqs[e] \in [1 .. Len(seqs[e]) -> K]
    BY <1>3, <2>1, <2>2
  <2> QED
    BY <2>1, <2>3
<1>10. keySeqs \in Seq(Seq(K))
  <2>1. keySeqs \in [1 .. Len(c) -> Seq(K)]
    BY <1>3, <1>5, <1>9
  <2> QED
    BY <1>5, <2>1
<1>11. Flattens(at, keys, keySeqs)
  <2>1. Places(keySeqs) = Places(seqs)
    <3>1. \A p : p \in Places(seqs) <=>
                    \E e \in DOMAIN c : \E i \in DOMAIN seqs[e] : p = <<e, i>>
      BY <1>3 DEF Places
    <3>2. \A p : p \in Places(keySeqs) <=>
                    \E e \in DOMAIN c : \E i \in DOMAIN seqs[e] : p = <<e, i>>
      <4>1. \A p : p \in Places(keySeqs) <=>
                    \E e \in DOMAIN c : \E i \in DOMAIN keySeqs[e] : p = <<e, i>>
        BY <1>3 DEF Places
      <4> QED
        BY <1>3, <4>1, Zenon
    <3> QED
      BY <3>1, <3>2
  <2>2. \A n \in DOMAIN x : at[n] \in Places(seqs) /\ x[n] = At2(seqs, at[n])
    BY <1>2 DEF Flattens
  <2>3. ASSUME NEW n \in DOMAIN x PROVE keys[n] = At2(keySeqs, at[n])
    <3>1. PICK e \in DOMAIN c : \E i \in DOMAIN seqs[e] : at[n] = <<e, i>>
      BY <1>3, <2>2 DEF Places
    <3>2. PICK i \in DOMAIN seqs[e] : at[n] = <<e, i>>
      BY <3>1
    <3> QED
      BY <1>3, <1>4, <2>2, <3>2 DEF At2
  <2> QED
    BY <1>2, <1>4, <2>1, <2>3 DEF Flattens
<1> QED
  BY <1>8, <1>10, <1>11 DEF keys, keySeqs

\* What is counted of the first pass, and of the second.
LEMMA Counted ==
    ASSUME NEW c, NEW a, Given(c, a)
    PROVE  LET keys == AllKeys(c, a)
               D == Deduplicated(AllExpanded(c, a))
               names == FamilyNames(D)
           IN  \A x :
                /\ Occurrences(x, keys) =
                    Cardinality({place \in Places(KeySeqs(c, a)) :
                                    At2(KeySeqs(c, a), place) = x})
                /\ Occurrences(x, keys) \in Nat
                /\ x \in ToSet(keys) => Occurrences(x, keys) >= 1
                /\ Occurrences(x, names) =
                    Cardinality({place \in Places(NamesOf(D)) : At2(NamesOf(D), place) = x})
                /\ Occurrences(x, names) \in Nat
                /\ x \in ToSet(names) => Occurrences(x, names) >= 1
<1> DEFINE keys == AllKeys(c, a)
           keySeqs == KeySeqs(c, a)
           D == Deduplicated(AllExpanded(c, a))
           names == FamilyNames(D)
           nameSeqs == NamesOf(D)
<1>1. PICK K : /\ keySeqs \in Seq(Seq(K))
               /\ keys \in Seq(K)
               /\ \E at : Flattens(at, keys, keySeqs)
  BY KeysFlatten
<1>2. D \in Seq(AllOffers(c, a)) /\ \A n \in DOMAIN D : IsStore(D[n])
  BY DeduplicatedShape
<1>3. names = FlattenSeq(nameSeqs) /\ \E N : nameSeqs \in Seq(Seq(N))
  <2> HIDE DEF D
  <2> QED
    BY <1>2, NamesFlatten
<1>4. PICK N : nameSeqs \in Seq(Seq(N))
  BY <1>3
<1> HIDE DEF keys, keySeqs, names, nameSeqs
<1>5. names \in Seq(N) /\ \E at : Flattens(at, names, nameSeqs)
  BY <1>3, <1>4, FlattenSeqFlattens
<1>6. ASSUME NEW x
      PROVE  /\ Occurrences(x, keys) =
                    Cardinality({place \in Places(keySeqs) : At2(keySeqs, place) = x})
             /\ Occurrences(x, keys) \in Nat
             /\ x \in ToSet(keys) => Occurrences(x, keys) >= 1
  BY <1>1, OccurrencesArePlaces
<1>7. ASSUME NEW x
      PROVE  /\ Occurrences(x, names) =
                    Cardinality({place \in Places(nameSeqs) : At2(nameSeqs, place) = x})
             /\ Occurrences(x, names) \in Nat
             /\ x \in ToSet(names) => Occurrences(x, names) >= 1
  BY <1>4, <1>5, OccurrencesArePlaces
<1> QED
  BY <1>6, <1>7, Zenon DEF keys, keySeqs, names, nameSeqs

----------------------------------------------------------------------------
(* The inductive invariant: the stores are like those the last build kept,   *)
(* and the gauges count what it saw.                                         *)

\* The stores the second pass of the last build kept.
KeptStores == Deduplicated(AllExpanded(config, answers))

\* The stores are like them.
BuiltLikeKept ==
    /\ DOMAIN built = DOMAIN KeptStores
    /\ \A n \in DOMAIN built : IsStore(built[n]) /\ Alike(built[n], KeptStores[n])

\* What each store rendered is of the objects it was handed, family by family.
RenderedByFamily ==
    /\ DOMAIN metrics = DOMAIN built
    /\ DOMAIN objects = DOMAIN built
    /\ \A n \in DOMAIN built :
        /\ DOMAIN metrics[n] \subseteq UIDs
        /\ DOMAIN objects[n] = DOMAIN metrics[n]
        /\ \A u \in DOMAIN metrics[n] :
            DOMAIN metrics[n][u] = DOMAIN built[n].families

\* The gauges count what the last build saw.
GaugesCount ==
    /\ GaugeOf(duplicateStores, AllKeys(config, answers))
    /\ GaugeOf(duplicateFamilies, FamilyNames(KeptStores))

\* The bounded counters are in their ranges.
CountersInRange == builds \in 0 .. MaxBuilds /\ renders \in 0 .. MaxRenders

BuildInv ==
    /\ Given(config, answers)
    /\ BuiltLikeKept
    /\ RenderedByFamily
    /\ GaugesCount
    /\ CountersInRange

\* Before anything is built there is nothing to keep or to count.
LEMMA NothingKept ==
    /\ Given(<<>>, <<>>)
    /\ DOMAIN AllExpanded(<<>>, <<>>) = {}
    /\ DOMAIN Deduplicated(AllExpanded(<<>>, <<>>)) = {}
    /\ ToSet(AllKeys(<<>>, <<>>)) = {}
    /\ ToSet(FamilyNames(Deduplicated(AllExpanded(<<>>, <<>>)))) = {}
<1> DEFINE c == <<>>
           x == AllExpanded(c, c)
           D == Deduplicated(x)
<1>1. Given(c, c) /\ DOMAIN c = {}
  BY DEF Given
<1> HIDE DEF c
<1>2. DOMAIN x = {}
  BY <1>1, AllExpandedFlattens
<1>3. x \in Seq(AllOffers(c, c))
  BY <1>1, AllExpandedFlattens
<1>4. DOMAIN D = {}
  <2> DEFINE S == AllOffers(c, c)
  <2>1. x \in Seq(S)
    BY <1>3
  <2> HIDE DEF x, S
  <2> QED
    BY <1>2, <2>1, FirstsKept
<1>5. ToSet(AllKeys(c, c)) = {}
  BY <1>2 DEF AllKeys, ToSet
<1>6. ToSet(FamilyNames(D)) = {}
  <2>1. D \in Seq(AllOffers(c, c)) /\ \A n \in DOMAIN D : IsStore(D[n])
    BY <1>1, DeduplicatedShape
  <2> DEFINE seqs == NamesOf(D)
             s == FlattenSeq(seqs)
  <2>2. FamilyNames(D) = s /\ \E N : seqs \in Seq(Seq(N))
    <3> HIDE DEF D
    <3> QED
      BY <2>1, NamesFlatten
  <2>3. DOMAIN seqs = {}
    BY <1>4 DEF NamesOf
  <2>4. PICK N : seqs \in Seq(Seq(N))
    BY <2>2
  <2> HIDE DEF seqs
  <2>5. DOMAIN s = {}
    BY <2>3, <2>4, FlattenElements
  <2> HIDE DEF s, D
  <2> QED
    BY <2>2, <2>5 DEF ToSet
<1> QED
  BY <1>1, <1>2, <1>4, <1>5, <1>6 DEF c

\* The invariant holds initially.
LEMMA InitBuild == Init => BuildInv
<1> SUFFICES ASSUME Init PROVE BuildInv
  OBVIOUS
<1>1. /\ config = <<>> /\ answers = <<>> /\ built = <<>> /\ metrics = <<>> /\ objects = <<>>
      /\ duplicateStores = <<>> /\ duplicateFamilies = <<>> /\ builds = 0 /\ renders = 0
  BY DEF Init
<1>2. DOMAIN <<>> = {}
  OBVIOUS
<1>3. Given(config, answers)
  BY <1>1, NothingKept
<1>4. BuiltLikeKept
  BY <1>1, <1>2, NothingKept DEF BuiltLikeKept, KeptStores
<1>5. RenderedByFamily
  BY <1>1, <1>2 DEF RenderedByFamily
<1>6. GaugesCount
  BY <1>1, <1>2, NothingKept DEF GaugesCount, GaugeOf, KeptStores
<1>7. CountersInRange
  BY <1>1, BoundsAssumption DEF CountersInRange
<1> QED
  BY <1>3, <1>4, <1>5, <1>6, <1>7 DEF BuildInv

\* A build makes its stores of what it kept, and has the gauges count it.
LEMMA BuildKeeps ==
    ASSUME BuildInv, NEW c \in Configs, NEW a \in [DOMAIN c -> Answers], Build(c, a)
    PROVE  BuildInv'
<1> DEFINE x == AllExpanded(c, a)
           D == Deduplicated(x)
           keys == AllKeys(c, a)
           names == FamilyNames(D)
<1>1. /\ config' = c /\ answers' = a
      /\ duplicateStores' = GaugeSet(duplicateStores, keys)
      /\ duplicateFamilies' = GaugeSet(duplicateFamilies, names)
      /\ built' = [n \in DOMAIN D |-> BuildStoreFromConfig(D[n])]
      /\ metrics' = [n \in DOMAIN built' |-> <<>>]
      /\ objects' = [n \in DOMAIN built' |-> <<>>]
      /\ builds < MaxBuilds /\ builds' = builds + 1 /\ renders' = renders
  BY Zenon DEF Build, StoresOf, AllKeys
<1>2. Given(c, a)
  BY DEF Given
<1>3. Given(config, answers)'
  BY <1>1, <1>2 DEF Given
<1>4. KeptStores' = D /\ AllKeys(config, answers)' = keys /\ FamilyNames(KeptStores)' = names
  BY <1>1, Zenon DEF KeptStores
<1>5. \A n \in DOMAIN D : IsStore(D[n])
  BY <1>2, DeduplicatedShape
<1>6. \A y : /\ Occurrences(y, keys) \in Nat
             /\ y \in ToSet(keys) => Occurrences(y, keys) >= 1
             /\ Occurrences(y, names) \in Nat
             /\ y \in ToSet(names) => Occurrences(y, names) >= 1
  BY <1>2, Counted, Zenon
<1> HIDE DEF x, D, keys, names
<1>7. BuiltLikeKept'
  <2>1. DOMAIN built' = DOMAIN D
    BY <1>1
  <2>2. ASSUME NEW n \in DOMAIN D PROVE IsStore(built'[n]) /\ Alike(built'[n], D[n])
    <3>1. built'[n] = BuildStoreFromConfig(D[n])
      BY <1>1
    <3>2. IsStore(BuildStoreFromConfig(D[n])) /\ Alike(BuildStoreFromConfig(D[n]), D[n])
      BY <1>5, BuiltAlike
    <3> QED
      BY <3>1, <3>2
  <2> QED
    BY <1>4, <2>1, <2>2 DEF BuiltLikeKept
<1>8. RenderedByFamily'
  BY <1>1 DEF RenderedByFamily
<1>9. GaugesCount'
  <2>1. /\ \A k \in DOMAIN duplicateStores : duplicateStores[k] \in Nat
        /\ \A k \in DOMAIN duplicateFamilies : duplicateFamilies[k] \in Nat
    BY DEF BuildInv, GaugesCount, GaugeOf
  <2>2. GaugeOf(GaugeSet(duplicateStores, keys), keys)
    BY <1>6, <2>1, GaugeSetCounts
  <2>3. GaugeOf(GaugeSet(duplicateFamilies, names), names)
    BY <1>6, <2>1, GaugeSetCounts
  <2>4. GaugeOf(duplicateStores', keys) /\ GaugeOf(duplicateFamilies', names)
    BY <1>1, <2>2, <2>3
  <2> QED
    BY <1>4, <2>4 DEF GaugesCount
<1>10. CountersInRange'
  BY <1>1, BoundsAssumption DEF BuildInv, CountersInRange
<1> QED
  BY <1>3, <1>7, <1>8, <1>9, <1>10 DEF BuildInv

\* What a store renders changes nothing of it but what its families inherit.
LEMMA AddKeeps ==
    ASSUME BuildInv, NEW n \in DOMAIN built, NEW u \in UIDs, NEW x \in Contents, Add(n, u, x)
    PROVE  BuildInv'
<1> DEFINE store == built[n]
           families == [f \in DOMAIN store.families |->
                           InheritFamilyConfiguration(store.families[f], store)]
           samples == [f \in DOMAIN families |-> FamilySamples(families[f], x)]
           new == [store EXCEPT !.families = families]
<1>1. /\ config' = config /\ answers' = answers
      /\ duplicateStores' = duplicateStores /\ duplicateFamilies' = duplicateFamilies
      /\ built' = [built EXCEPT ![n] = new]
      /\ metrics' = [metrics EXCEPT ![n] = Put(metrics[n], u, samples)]
      /\ objects' = [objects EXCEPT ![n] = Put(objects[n], u, x)]
      /\ renders < MaxRenders /\ renders' = renders + 1 /\ builds' = builds
  BY DEF Add, gauges
<1>2. IsStore(store)
  BY DEF BuildInv, BuiltLikeKept
<1>3. IsStore(new) /\ Alike(new, store) /\ new.families = families
  <2> DEFINE fs == families
  <2>1. fs = [f \in DOMAIN store.families |->
                  InheritFamilyConfiguration(store.families[f], store)]
    OBVIOUS
  <2> HIDE DEF store, fs
  <2> QED
    BY <1>2, <2>1, InheritedAlike DEF fs
<1>4. DOMAIN samples = DOMAIN store.families
  OBVIOUS
<1>5. KeptStores' = KeptStores /\ AllKeys(config, answers)' = AllKeys(config, answers)
      /\ FamilyNames(KeptStores)' = FamilyNames(KeptStores)
  BY <1>1, Zenon DEF KeptStores
<1> HIDE DEF families, samples, new
<1>6. Given(config, answers)'
  BY <1>1 DEF BuildInv, Given
<1>7. DOMAIN built' = DOMAIN built /\ built'[n] = new
      /\ \A m \in DOMAIN built : m # n => built'[m] = built[m]
  BY <1>1
<1>8. BuiltLikeKept'
  <2>1. DOMAIN built = DOMAIN KeptStores
        /\ \A m \in DOMAIN built : IsStore(built[m]) /\ Alike(built[m], KeptStores[m])
    BY DEF BuildInv, BuiltLikeKept
  <2>2. Alike(new, KeptStores[n])
    BY <1>3, <2>1, AlikeTransitive
  <2>3. \A m \in DOMAIN built : IsStore(built'[m]) /\ Alike(built'[m], KeptStores[m])
    BY <1>3, <1>7, <2>1, <2>2, Zenon
  <2> QED
    BY <1>5, <1>7, <2>1, <2>3 DEF BuiltLikeKept
<1>9. RenderedByFamily'
  <2>1. /\ DOMAIN metrics = DOMAIN built /\ DOMAIN objects = DOMAIN built
        /\ \A m \in DOMAIN built :
            /\ DOMAIN metrics[m] \subseteq UIDs
            /\ DOMAIN objects[m] = DOMAIN metrics[m]
            /\ \A v \in DOMAIN metrics[m] : DOMAIN metrics[m][v] = DOMAIN built[m].families
    BY DEF BuildInv, RenderedByFamily
  <2>2. /\ DOMAIN metrics' = DOMAIN built /\ DOMAIN objects' = DOMAIN built
        /\ metrics'[n] = Put(metrics[n], u, samples) /\ objects'[n] = Put(objects[n], u, x)
        /\ \A m \in DOMAIN built : m # n => metrics'[m] = metrics[m] /\ objects'[m] = objects[m]
    BY <1>1, <2>1
  <2>3. DOMAIN new.families = DOMAIN store.families /\ DOMAIN samples = DOMAIN new.families
    BY <1>3, <1>4 DEF Alike
  <2>4. /\ DOMAIN metrics'[n] = DOMAIN metrics[n] \cup {u}
        /\ DOMAIN objects'[n] = DOMAIN objects[n] \cup {u}
        /\ metrics'[n][u] = samples
        /\ \A v \in DOMAIN metrics[n] : v # u => metrics'[n][v] = metrics[n][v]
    BY <2>2 DEF Put
  <2>5. \A m \in DOMAIN built :
            /\ DOMAIN metrics'[m] \subseteq UIDs
            /\ DOMAIN objects'[m] = DOMAIN metrics'[m]
            /\ \A v \in DOMAIN metrics'[m] : DOMAIN metrics'[m][v] = DOMAIN built'[m].families
    <3> SUFFICES ASSUME NEW m \in DOMAIN built
                 PROVE  /\ DOMAIN metrics'[m] \subseteq UIDs
                        /\ DOMAIN objects'[m] = DOMAIN metrics'[m]
                        /\ \A v \in DOMAIN metrics'[m] :
                              DOMAIN metrics'[m][v] = DOMAIN built'[m].families
      OBVIOUS
    <3>1. CASE m # n
      BY <1>7, <2>1, <2>2, <3>1
    <3>2. CASE m = n
      <4>1. \A v \in DOMAIN metrics'[n] : DOMAIN metrics'[n][v] = DOMAIN new.families
        <5>1. \A v \in DOMAIN metrics[n] : DOMAIN metrics[n][v] = DOMAIN new.families
          BY <2>1, <2>3
        <5> HIDE DEF store
        <5> QED
          BY <2>3, <2>4, <5>1, Zenon
      <4> HIDE DEF store
      <4>2. /\ DOMAIN metrics'[n] \subseteq UIDs
            /\ DOMAIN objects'[n] = DOMAIN metrics'[n]
        BY <2>1, <2>4
      <4> QED
        BY <1>7, <3>2, <4>1, <4>2, Zenon
    <3> QED
      BY <3>1, <3>2
  <2> QED
    BY <1>7, <2>2, <2>5 DEF RenderedByFamily
<1>10. GaugesCount'
  <2>1. GaugeOf(duplicateStores, AllKeys(config, answers))
        /\ GaugeOf(duplicateFamilies, FamilyNames(KeptStores))
    BY DEF BuildInv, GaugesCount
  <2> QED
    BY <1>1, <1>5, <2>1 DEF GaugesCount
<1>11. CountersInRange'
  BY <1>1, BoundsAssumption DEF BuildInv, CountersInRange
<1> QED
  BY <1>6, <1>8, <1>9, <1>10, <1>11 DEF BuildInv

\* Every step keeps the invariant.
LEMMA NextBuild == BuildInv /\ [Next]_vars => BuildInv'
<1> SUFFICES ASSUME BuildInv, [Next]_vars PROVE BuildInv'
  OBVIOUS
<1>1. CASE \E c \in Configs : \E a \in [DOMAIN c -> Answers] : Build(c, a)
  BY <1>1, BuildKeeps
<1>2. CASE \E n \in DOMAIN built, u \in UIDs, x \in Contents : Add(n, u, x)
  BY <1>2, AddKeeps
<1>3. CASE UNCHANGED vars
  <2>1. /\ config' = config /\ answers' = answers /\ built' = built /\ metrics' = metrics
        /\ objects' = objects /\ duplicateStores' = duplicateStores
        /\ duplicateFamilies' = duplicateFamilies /\ builds' = builds /\ renders' = renders
    BY <1>3 DEF vars, stores, gauges
  <2>2. KeptStores' = KeptStores /\ AllKeys(config, answers)' = AllKeys(config, answers)
        /\ FamilyNames(KeptStores)' = FamilyNames(KeptStores)
    BY <2>1, Zenon DEF KeptStores
  <2>3. Given(config, answers)'
    BY <2>1 DEF BuildInv, Given
  <2>4. BuiltLikeKept' /\ RenderedByFamily' /\ GaugesCount' /\ CountersInRange'
    BY <2>1, <2>2 DEF BuildInv, BuiltLikeKept, RenderedByFamily, GaugesCount, CountersInRange
  <2> QED
    BY <2>3, <2>4 DEF BuildInv
<1> QED
  BY <1>1, <1>2, <1>3 DEF Next

\* So it always holds.
LEMMA AlwaysBuild == Spec => []BuildInv
BY InitBuild, NextBuild, PTL DEF Spec

----------------------------------------------------------------------------
(* The theorems.                                                             *)

\* The types follow: what is kept is of concrete kinds.
LEMMA BuildTypes == BuildInv => TypeOK
<1> SUFFICES ASSUME BuildInv PROVE TypeOK
  OBVIOUS
<1>1. config \in Configs \cup {<<>>} /\ DOMAIN answers = DOMAIN config
  BY DEF BuildInv, Given
<1>2. ASSUME NEW n \in DOMAIN built PROVE ~HasWildcards(built[n])
  <2>1. n \in DOMAIN KeptStores /\ Alike(built[n], KeptStores[n])
    BY DEF BuildInv, BuiltLikeKept
  <2>2. ~HasWildcards(KeptStores[n])
    BY <2>1, DeduplicatedShape DEF KeptStores, BuildInv
  <2> QED
    BY <2>1, <2>2, AlikeKeys
<1> QED
  BY <1>1, <1>2, Zenon
     DEF BuildInv, RenderedByFamily, GaugesCount, GaugeOf, CountersInRange, TypeOK

\* The variables of the stores keep their types.
THEOREM ConfigurationTypesHold == Spec => []TypeOK
BY AlwaysBuild, BuildTypes, PTL

\* A store is the first of its key, with that entry's families.
LEMMA BuildFirst == BuildInv => FirstWins
<1> SUFFICES ASSUME BuildInv PROVE FirstWins
  OBVIOUS
<1>1. Given(config, answers)
  BY DEF BuildInv
<1>2. DOMAIN built = DOMAIN KeptStores
      /\ \A n \in DOMAIN built : IsStore(built[n]) /\ Alike(built[n], KeptStores[n])
  BY DEF BuildInv, BuiltLikeKept
<1>3. \A n \in DOMAIN built : StoreKey(built[n]) = StoreKey(KeptStores[n])
  BY <1>2, AlikeKeys
<1>4. \A e : Covered(e) = KeysOf(config, answers, e)
  BY DEF Covered, KeysOf
<1>5. ASSUME NEW n \in DOMAIN built
      PROVE  \E e \in DOMAIN config : StoreKey(built[n]) \in Covered(e)
  <2>1. ComesFrom(KeptStores[n], config, answers)
    BY <1>1, <1>2, DeduplicatedShape DEF KeptStores
  <2>2. PICK e \in DOMAIN config : \E i \in DOMAIN ExpandWildcards(config[e], answers[e]) :
                KeptStores[n] = ExpandWildcards(config[e], answers[e])[i]
    BY <2>1 DEF ComesFrom
  <2>3. KeptStores[n] \in ToSet(ExpandWildcards(config[e], answers[e]))
    BY <2>2, Zenon DEF ToSet
  <2> QED
    BY <1>3, <2>3 DEF Covered
<1>6. ASSUME NEW e \in DOMAIN config, NEW key \in Covered(e),
             \A d \in 1 .. e - 1 : key \notin Covered(d)
      PROVE  \E n \in DOMAIN built :
                /\ StoreKey(built[n]) = key
                /\ \A m \in DOMAIN built \ {n} : StoreKey(built[m]) # key
                /\ FamilyNames(<<built[n]>>) = FamilyNames(<<config[e]>>)
  <2>1. key \in KeysOf(config, answers, e)
        /\ \A d \in 1 .. e - 1 : key \notin KeysOf(config, answers, d)
    BY <1>4, <1>6
  <2>2. PICK n \in DOMAIN KeptStores :
                /\ StoreKey(KeptStores[n]) = key
                /\ \A m \in DOMAIN KeptStores : StoreKey(KeptStores[m]) = key => m = n
                /\ KeptStores[n].families = config[e].families
    BY <1>1, <2>1, FirstOfEach DEF KeptStores
  <2>3. StoreKey(built[n]) = key /\ \A m \in DOMAIN built \ {n} : StoreKey(built[m]) # key
    BY <1>2, <1>3, <2>2
  <2>4. FamilyNames(<<built[n]>>) = FamilyNames(<<config[e]>>)
    <3>1. DOMAIN built[n].families = DOMAIN config[e].families
          /\ \A f \in DOMAIN built[n].families :
                built[n].families[f].name = config[e].families[f].name
      BY <1>2, <2>2, Zenon DEF Alike
    <3> QED
      BY <3>1, AlikeNames
  <2> QED
    BY <1>2, <2>2, <2>3, <2>4
<1> QED
  BY <1>5, <1>6 DEF FirstWins

\* A kind that some entry covers has exactly one store, with the families of the
\* first entry that covers it, whatever discovery answered the others
\* (configurer.build, config.go:96-184).
THEOREM TheFirstEntryWins == Spec => []FirstWins
BY AlwaysBuild, BuildFirst, PTL

\* The gauges read what the stores and entries of the last build say.
LEMMA BuildGauges == BuildInv => GaugesOfBuildCurrent
<1> SUFFICES ASSUME BuildInv PROVE GaugesOfBuildCurrent
  OBVIOUS
<1> DEFINE keys == AllKeys(config, answers)
           names == FamilyNames(KeptStores)
<1>1. Given(config, answers)
  BY DEF BuildInv
<1>2. DOMAIN built = DOMAIN KeptStores
      /\ \A n \in DOMAIN built : IsStore(built[n]) /\ Alike(built[n], KeptStores[n])
  BY DEF BuildInv, BuiltLikeKept
<1>3. /\ \A x \in ToSet(keys) :
            x \in DOMAIN duplicateStores /\ duplicateStores[x] = Occurrences(x, keys) - 1
      /\ \A x \in ToSet(names) :
            x \in DOMAIN duplicateFamilies /\ duplicateFamilies[x] = Occurrences(x, names) - 1
  BY Zenon DEF BuildInv, GaugesCount, GaugeOf
<1>4. \A x : /\ Occurrences(x, keys) =
                    Cardinality({place \in Places(KeySeqs(config, answers)) :
                                    At2(KeySeqs(config, answers), place) = x})
             /\ Occurrences(x, keys) \in Nat
             /\ Occurrences(x, names) =
                    Cardinality({place \in Places(NamesOf(KeptStores)) :
                                    At2(NamesOf(KeptStores), place) = x})
             /\ Occurrences(x, names) \in Nat
  <2> DEFINE D == Deduplicated(AllExpanded(config, answers))
             ns == FamilyNames(D)
  <2>1. \A x : /\ Occurrences(x, keys) =
                        Cardinality({place \in Places(KeySeqs(config, answers)) :
                                        At2(KeySeqs(config, answers), place) = x})
               /\ Occurrences(x, keys) \in Nat
               /\ Occurrences(x, ns) =
                        Cardinality({place \in Places(NamesOf(D)) : At2(NamesOf(D), place) = x})
               /\ Occurrences(x, ns) \in Nat
    BY <1>1, Counted
  <2>2. KeptStores = D /\ names = ns
    BY Zenon DEF KeptStores
  <2> HIDE DEF D, ns, names, keys
  <2> QED
    BY <2>1, <2>2, Zenon
<1>6. \A n \in DOMAIN built : \A f \in DOMAIN built[n].families :
         built[n].families[f].name \in ToSet(names)
  <2> DEFINE seqs == NamesOf(KeptStores)
  <2>1. KeptStores \in Seq(AllOffers(config, answers))
        /\ \A n \in DOMAIN KeptStores : IsStore(KeptStores[n])
    BY <1>1, DeduplicatedShape DEF KeptStores
  <2>2. names = FlattenSeq(seqs) /\ \E N : seqs \in Seq(Seq(N))
    BY <2>1, NamesFlatten
  <2>3. PICK N : seqs \in Seq(Seq(N))
    BY <2>2
  <2>4. ASSUME NEW n \in DOMAIN built, NEW f \in DOMAIN built[n].families
        PROVE  n \in DOMAIN seqs /\ f \in DOMAIN seqs[n]
               /\ seqs[n][f] = built[n].families[f].name
    <3>1. n \in DOMAIN KeptStores /\ f \in DOMAIN KeptStores[n].families
          /\ built[n].families[f].name = KeptStores[n].families[f].name
      BY <1>2, Zenon DEF Alike
    <3> QED
      BY <3>1 DEF NamesOf
  <2> HIDE DEF seqs
  <2>5. ASSUME NEW n \in DOMAIN built, NEW f \in DOMAIN built[n].families
        PROVE  \E k \in DOMAIN FlattenSeq(seqs) : FlattenSeq(seqs)[k] = built[n].families[f].name
    <3>1. \E k \in DOMAIN FlattenSeq(seqs) : FlattenSeq(seqs)[k] = seqs[n][f]
      BY <2>3, <2>4, FlattenElements
    <3> QED
      BY <2>4, <3>1
  <2> HIDE DEF names
  <2> QED
    BY <2>2, <2>5 DEF ToSet
<1>7. \A n \in DOMAIN built : StoreKey(built[n]) \in ToSet(keys)
  <2> SUFFICES ASSUME NEW n \in DOMAIN built PROVE StoreKey(built[n]) \in ToSet(keys)
    OBVIOUS
  <2> DEFINE x == AllExpanded(config, answers)
             S == AllOffers(config, answers)
  <2>1. x \in Seq(S)
    BY <1>1, AllExpandedFlattens
  <2>2. PICK k \in DOMAIN x : KeptStores[n] = x[k]
    <3> HIDE DEF x, S
    <3>1. \A m \in DOMAIN Deduplicated(x) : \E k \in DOMAIN x : Deduplicated(x)[m] = x[k]
      BY <2>1, FirstsKept
    <3>2. KeptStores = Deduplicated(x)
      BY DEF KeptStores, x
    <3> QED
      BY <1>2, <3>1, <3>2
  <2>3. StoreKey(built[n]) = StoreKey(x[k])
    BY <1>2, <2>2, AlikeKeys
  <2>4. k \in DOMAIN keys /\ keys[k] = StoreKey(x[k])
    BY DEF AllKeys
  <2> HIDE DEF keys, x
  <2> QED
    BY <2>3, <2>4 DEF ToSet
<1>8. ASSUME NEW name
      PROVE  UNION {{m} \X {g \in DOMAIN built[m].families : built[m].families[g].name = name} :
                       m \in DOMAIN built}
             = {place \in Places(NamesOf(KeptStores)) : At2(NamesOf(KeptStores), place) = name}
  <2> DEFINE seqs == NamesOf(KeptStores)
             L == UNION {{m} \X {g \in DOMAIN built[m].families :
                                    built[m].families[g].name = name} : m \in DOMAIN built}
             R == {place \in Places(seqs) : At2(seqs, place) = name}
  <2>1. DOMAIN seqs = DOMAIN built
        /\ \A m \in DOMAIN built : DOMAIN seqs[m] = DOMAIN built[m].families
            /\ \A g \in DOMAIN built[m].families : seqs[m][g] = built[m].families[g].name
    <3>1. DOMAIN built = DOMAIN KeptStores
          /\ \A m \in DOMAIN built :
                /\ DOMAIN built[m].families = DOMAIN KeptStores[m].families
                /\ \A g \in DOMAIN built[m].families :
                      built[m].families[g].name = KeptStores[m].families[g].name
      BY <1>2, Zenon DEF Alike
    <3> QED
      BY <3>1 DEF NamesOf
  <2> HIDE DEF seqs
  <2>2. \A p : p \in L <=> \E m \in DOMAIN built : \E g \in DOMAIN built[m].families :
                    built[m].families[g].name = name /\ p = <<m, g>>
    OBVIOUS
  <2>3. \A p : p \in R <=> \E m \in DOMAIN seqs : \E g \in DOMAIN seqs[m] :
                    seqs[m][g] = name /\ p = <<m, g>>
    BY DEF Places, At2
  <2> HIDE DEF L, R
  <2>4. ASSUME NEW p PROVE p \in L <=> p \in R
    <3>1. (\E m \in DOMAIN built : \E g \in DOMAIN built[m].families :
                built[m].families[g].name = name /\ p = <<m, g>>)
          <=> (\E m \in DOMAIN seqs : \E g \in DOMAIN seqs[m] :
                  seqs[m][g] = name /\ p = <<m, g>>)
      BY <2>1
    <3> QED
      BY <2>2, <2>3, <3>1, Zenon
  <2>5. L = R
    BY <2>4
  <2> QED
    BY <2>5 DEF L, R, seqs
<1>9. ASSUME NEW key
      PROVE  UNION {{e} \X {i \in DOMAIN ExpandWildcards(config[e], answers[e]) :
                               StoreKey(ExpandWildcards(config[e], answers[e])[i]) = key} :
                       e \in DOMAIN config}
             = {place \in Places(KeySeqs(config, answers)) :
                    At2(KeySeqs(config, answers), place) = key}
  <2> DEFINE seqs == KeySeqs(config, answers)
             x(e) == ExpandWildcards(config[e], answers[e])
             L == UNION {{e} \X {i \in DOMAIN x(e) : StoreKey(x(e)[i]) = key} :
                            e \in DOMAIN config}
             R == {place \in Places(seqs) : At2(seqs, place) = key}
  <2>1. DOMAIN seqs = DOMAIN config
        /\ \A e \in DOMAIN config : DOMAIN seqs[e] = DOMAIN x(e)
            /\ \A i \in DOMAIN x(e) : seqs[e][i] = StoreKey(x(e)[i])
    BY DEF KeySeqs
  <2> HIDE DEF seqs
  <2>2. \A p : p \in L <=> \E e \in DOMAIN config : \E i \in DOMAIN x(e) :
                    StoreKey(x(e)[i]) = key /\ p = <<e, i>>
    <3> HIDE DEF x
    <3> QED
      OBVIOUS
  <2>3. \A p : p \in R <=> \E e \in DOMAIN seqs : \E i \in DOMAIN seqs[e] :
                    seqs[e][i] = key /\ p = <<e, i>>
    BY DEF Places, At2
  <2>4. L = R
    <3> HIDE DEF L, R, x
    <3>1. ASSUME NEW p PROVE p \in L <=> p \in R
      <4>1. (\E e \in DOMAIN config : \E i \in DOMAIN x(e) :
                StoreKey(x(e)[i]) = key /\ p = <<e, i>>)
            <=> (\E e \in DOMAIN seqs : \E i \in DOMAIN seqs[e] :
                    seqs[e][i] = key /\ p = <<e, i>>)
        BY <2>1
      <4> QED
        BY <2>2, <2>3, <4>1, Zenon
    <3> QED
      BY <3>1
  <2> QED
    BY <2>4 DEF seqs
<1> HIDE DEF keys, names
<1>10. ASSUME NEW n \in DOMAIN built, NEW f \in DOMAIN built[n].families
       PROVE  LET name == built[n].families[f].name IN
              Reading(duplicateFamilies, name) + 1 =
                Cardinality(UNION {{m} \X {g \in DOMAIN built[m].families :
                                              built[m].families[g].name = name} :
                                      m \in DOMAIN built})
  <2> DEFINE name == built[n].families[f].name
  <2>1. name \in ToSet(names)
    BY <1>6
  <2> HIDE DEF name
  <2>2. Reading(duplicateFamilies, name) + 1 = Occurrences(name, names)
    BY <1>3, <1>4, <2>1 DEF Reading
  <2>3. Reading(duplicateFamilies, name) + 1 =
            Cardinality(UNION {{m} \X {g \in DOMAIN built[m].families :
                                          built[m].families[g].name = name} :
                                  m \in DOMAIN built})
    BY <1>4, <1>8, <2>2, Zenon
  <2> QED
    BY <2>3, Zenon DEF name
<1>11. ASSUME NEW n \in DOMAIN built
       PROVE  Reading(duplicateStores, StoreKey(built[n])) + 1 =
                Cardinality(UNION {{e} \X {i \in DOMAIN ExpandWildcards(config[e], answers[e]) :
                                  StoreKey(ExpandWildcards(config[e], answers[e])[i])
                                      = StoreKey(built[n])} :
                                      e \in DOMAIN config})
  <2> DEFINE key == StoreKey(built[n])
  <2>1. key \in ToSet(keys)
    BY <1>7
  <2> HIDE DEF key
  <2>2. Reading(duplicateStores, key) + 1 = Occurrences(key, keys)
    BY <1>3, <1>4, <2>1 DEF Reading
  <2>3. Reading(duplicateStores, key) + 1 =
            Cardinality(UNION {{e} \X {i \in DOMAIN ExpandWildcards(config[e], answers[e]) :
                              StoreKey(ExpandWildcards(config[e], answers[e])[i]) = key} :
                                  e \in DOMAIN config})
    BY <1>4, <1>9, <2>2, Zenon
  <2> QED
    BY <2>3, Zenon DEF key
<1> QED
  BY <1>10, <1>11, Zenon DEF GaugesOfBuildCurrent

\* However often the configuration was built, the gauges say of each of its
\* families and stores how many more of it there are (config.go:154-177).
THEOREM GaugesAreOfTheLastBuild == Spec => []GaugesOfBuildCurrent
BY AlwaysBuild, BuildGauges, PTL

----------------------------------------------------------------------------
(* Lists in order.                                                           *)

\* What is before a place of s: what is smaller, or as large and further left.
BeforeIn(s, b) == {a \in DOMAIN s : s[a] < s[b] \/ (s[a] = s[b] /\ a < b)}

\* There is a place with any smaller number of places before it, and only one.
LEMMA Ranks ==
    ASSUME NEW s \in Seq(Nat)
    PROVE  [b \in DOMAIN s |-> Cardinality(BeforeIn(s, b))]
                \in Bijection(DOMAIN s, 0 .. Len(s) - 1)
<1> DEFINE n == Len(s)
           D == 1 .. n
           B(b) == BeforeIn(s, b)
           rank == [b \in D |-> Cardinality(B(b))]
<1>1. n \in Nat /\ DOMAIN s = D /\ \A b \in D : s[b] \in Nat /\ b \in Nat
  OBVIOUS
<1>2. IsFiniteSet(D) /\ Cardinality(D) = n
  BY <1>1, FS_Interval
<1>3. IsFiniteSet(0 .. n - 1) /\ Cardinality(0 .. n - 1) = n
  BY <1>1, FS_Interval
<1> HIDE DEF n
<1>4. ASSUME NEW b \in D
      PROVE  IsFiniteSet(B(b)) /\ Cardinality(B(b)) \in 0 .. n - 1
  <2>1. B(b) \in SUBSET (D \ {b})
    BY <1>1 DEF BeforeIn
  <2> HIDE DEF B, D
  <2>2. IsFiniteSet(D \ {b}) /\ Cardinality(D \ {b}) = n - 1
    BY <1>2, FS_RemoveElement
  <2>3. IsFiniteSet(B(b)) /\ Cardinality(B(b)) <= n - 1
    BY <2>1, <2>2, FS_Subset
  <2>4. Cardinality(B(b)) \in Nat
    BY <2>3, FS_CardinalityType
  <2> QED
    BY <1>1, <2>3, <2>4
<1>5. ASSUME NEW b \in D, NEW c \in D, b \in B(c)
      PROVE  Cardinality(B(b)) < Cardinality(B(c))
  <2>1. B(b) \cup {b} \in SUBSET B(c) /\ b \notin B(b)
    BY <1>1, <1>5 DEF BeforeIn
  <2>2. IsFiniteSet(B(b)) /\ IsFiniteSet(B(c))
    BY <1>4
  <2>3. Cardinality(B(b)) \in Nat /\ Cardinality(B(c)) \in Nat
    BY <1>1, <1>4
  <2> HIDE DEF B, D
  <2>4. Cardinality(B(b) \cup {b}) = Cardinality(B(b)) + 1
    BY <2>1, <2>2, FS_AddElement
  <2>5. Cardinality(B(b) \cup {b}) <= Cardinality(B(c))
    BY <2>1, <2>2, FS_Subset
  <2> QED
    BY <2>3, <2>4, <2>5
<1>6. ASSUME NEW b \in D, NEW c \in D, b # c PROVE Cardinality(B(b)) # Cardinality(B(c))
  <2>1. b \in B(c) \/ c \in B(b)
    BY <1>1, <1>6 DEF BeforeIn
  <2>2. Cardinality(B(b)) \in 0 .. n - 1 /\ Cardinality(B(c)) \in 0 .. n - 1
    BY <1>4
  <2> HIDE DEF B, D
  <2> QED
    BY <1>1, <1>5, <2>1, <2>2
<1>7. rank \in Injection(D, 0 .. n - 1)
  <2>1. rank \in [D -> 0 .. n - 1]
    BY <1>4
  <2>2. \A b, c \in D : rank[b] = rank[c] => b = c
    <3> HIDE DEF B, D
    <3> QED
      BY <1>6
  <2> HIDE DEF rank
  <2> QED
    BY <2>1, <2>2 DEF Injection, IsInjective
<1> HIDE DEF rank, D, B
<1>8. rank \in Surjection(D, 0 .. n - 1)
  BY <1>2, <1>3, <1>7, FS_Injection
<1>9. rank \in Bijection(D, 0 .. n - 1)
  BY <1>7, <1>8 DEF Bijection
<1> QED
  BY <1>1, <1>9 DEF rank, n, B

\* The indices in order are the indices, each once.
LEMMA SortedIndicesPermute ==
    ASSUME NEW s \in Seq(Nat)
    PROVE  SortedIndices(s) \in Bijection(DOMAIN s, DOMAIN s)
<1> DEFINE n == Len(s)
           D == DOMAIN s
           rank == [b \in D |-> Cardinality(BeforeIn(s, b))]
           order == [i \in D |-> CHOOSE b \in D : rank[b] = i - 1]
<1>1. SortedIndices(s) = order
  <2>1. \A b \in D : rank[b] = Cardinality(BeforeIn(s, b))
    OBVIOUS
  <2> HIDE DEF rank
  <2>2. \A i \in D : (CHOOSE b \in D : Cardinality(BeforeIn(s, b)) = i - 1)
                        = CHOOSE b \in D : rank[b] = i - 1
    BY <2>1
  <2>3. SortedIndices(s)
            = [i \in D |-> CHOOSE b \in D : Cardinality(BeforeIn(s, b)) = i - 1]
    BY Zenon DEF SortedIndices, BeforeIn
  <2> QED
    BY <2>2, <2>3
<1>2. rank \in Bijection(D, 0 .. n - 1)
  BY Ranks
<1>3. n \in Nat /\ D = 1 .. n
  OBVIOUS
<1> HIDE DEF rank, D
<1>4. /\ \A b \in D : rank[b] \in 0 .. n - 1
      /\ \A b, c \in D : rank[b] = rank[c] => b = c
      /\ \A k \in 0 .. n - 1 : \E b \in D : rank[b] = k
  BY <1>2 DEF Bijection, Injection, Surjection, IsInjective
<1>5. ASSUME NEW i \in D PROVE order[i] \in D /\ rank[order[i]] = i - 1
  <2>1. i - 1 \in 0 .. n - 1
    BY <1>3
  <2>2. \E b \in D : rank[b] = i - 1
    BY <1>4, <2>1
  <2>3. order[i] = CHOOSE b \in D : rank[b] = i - 1
    OBVIOUS
  <2> HIDE DEF order
  <2> QED
    BY <2>2, <2>3
<1>6. DOMAIN order = D
  OBVIOUS
<1>7. order = [i \in D |-> order[i]]
  OBVIOUS
<1> HIDE DEF order
<1>8. ASSUME NEW i \in D, NEW j \in D, order[i] = order[j] PROVE i = j
  <2>1. i - 1 = j - 1
    BY <1>5, <1>8
  <2> QED
    BY <1>3, <2>1
<1>9. ASSUME NEW b \in D PROVE \E i \in D : order[i] = b
  <2> DEFINE i == rank[b] + 1
  <2>1. i \in D /\ i - 1 = rank[b]
    BY <1>3, <1>4
  <2> HIDE DEF i
  <2>2. rank[order[i]] = rank[b] /\ order[i] \in D
    BY <1>5, <2>1
  <2>3. order[i] = b
    BY <1>4, <2>2
  <2> QED
    BY <2>1, <2>3
<1>10. order \in [D -> D]
  BY <1>5, <1>7
<1>11. order \in Bijection(D, D)
  BY <1>6, <1>8, <1>9, <1>10 DEF Bijection, Injection, Surjection, IsInjective
<1> QED
  BY <1>1, <1>11 DEF D

\* A finite set in order is a sequence of its elements.
LEMMA SortedIsSequence ==
    ASSUME NEW S, IsFiniteSet(S), S \subseteq Nat
    PROVE  Sorted(S) \in Seq(S)
<1> DEFINE n == Cardinality(S)
           s == SetToSeq(S)
           order == SortedIndices(s)
<1>1. n \in Nat /\ ExistsBijection(1 .. n, S)
  BY FS_CardinalityType
<1>2. PICK f : f \in Bijection(1 .. n, S)
  BY <1>1 DEF ExistsBijection
<1>3. f \in [1 .. n -> S] /\ IsInjective(f)
  BY <1>2 DEF Bijection, Injection, IsInjective
<1>4. s \in [1 .. n -> S]
  BY <1>3 DEF SetToSeq
<1> HIDE DEF s, n
<1>5. s \in Seq(S) /\ s \in Seq(Nat) /\ DOMAIN s = 1 .. n
  <2>1. s \in Seq(S) /\ DOMAIN s = 1 .. n
    BY <1>1, <1>4
  <2>2. s \in [1 .. n -> Nat]
    BY <1>4
  <2> QED
    BY <1>1, <2>1, <2>2
<1>6. order \in Bijection(DOMAIN s, DOMAIN s)
  BY <1>5, SortedIndicesPermute
<1>7. \A i \in 1 .. n : order[i] \in 1 .. n
  <2> HIDE DEF order
  <2> QED
    BY <1>5, <1>6 DEF Bijection, Injection
<1>8. Sorted(S) = [i \in DOMAIN s |-> s[order[i]]]
  BY DEF Sorted, s
<1> HIDE DEF order
<1>9. Sorted(S) \in [1 .. n -> S]
  BY <1>4, <1>5, <1>7, <1>8
<1> QED
  BY <1>1, <1>9

\* A finite set of numbers has a largest one.
LEMMA LargestNumber ==
    ASSUME NEW S, IsFiniteSet(S), S \subseteq Nat, S # {}
    PROVE  Max(S) \in S /\ \A k \in S : k <= Max(S)
<1> DEFINE n == Cardinality(S)
           Bounds(T) == {b \in Nat : \A k \in T : k <= b}
<1>1. n \in Nat /\ ExistsBijection(1 .. n, S)
  BY FS_CardinalityType
<1>2. PICK f : f \in Bijection(1 .. n, S)
  BY <1>1 DEF ExistsBijection
<1> HIDE DEF n
<1>3. (\A i \in 1 .. n : f[i] \in S) /\ (\A k \in S : \E i \in 1 .. n : f[i] = k)
  BY <1>2 DEF Bijection, Injection, Surjection
<1> DEFINE First(m) == {f[i] : i \in 1 .. m}
           Bad == {m \in 0 .. n : Bounds(First(m)) = {}}
<1>4. Bad = {}
  <2> SUFFICES ASSUME Bad # {} PROVE FALSE
    OBVIOUS
  <2>1. PICK m \in Bad : \A k \in Bad : m <= k
    <3>1. Bad \subseteq Nat
      BY <1>1
    <3> HIDE DEF Bad
    <3> QED
      BY <3>1, LeastNumber
  <2>2. m \in 0 .. n /\ Bounds(First(m)) = {} /\ m \in Nat
    BY <1>1
  <2>3. m # 0
    <3>1. 0 \in Bounds(First(0))
      OBVIOUS
    <3> HIDE DEF Bounds, First
    <3> QED
      BY <2>2, <3>1
  <2>4. m - 1 \in 0 .. n /\ ~(m <= m - 1) /\ m \in 1 .. n
    BY <1>1, <2>2, <2>3
  <2>5. m - 1 \notin Bad
    <3> HIDE DEF Bad
    <3> QED
      BY <2>1, <2>4
  <2>6. PICK b : b \in Bounds(First(m - 1))
    <3> HIDE DEF Bounds, First
    <3> QED
      BY <2>4, <2>5
  <2>7. f[m] \in Nat /\ b \in Nat
    BY <1>3, <2>4, <2>6
  <2> DEFINE c == IF b <= f[m] THEN f[m] ELSE b
  <2>8. c \in Nat /\ b <= c /\ f[m] <= c
    BY <2>7
  <2>9. \A i \in 1 .. m : i \in 1 .. m - 1 \/ i = m
    BY <2>2
  <2> HIDE DEF c
  <2>10. \A k \in First(m) : k <= c
    <3> SUFFICES ASSUME NEW i \in 1 .. m PROVE f[i] <= c
      OBVIOUS
    <3>1. i \in 1 .. n
      BY <1>1, <2>2
    <3>2. f[i] \in Nat
      BY <1>3, <3>1
    <3>3. i # m => f[i] <= b
      BY <2>6, <2>9
    <3> QED
      BY <2>7, <2>8, <3>2, <3>3
  <2>11. c \in Bounds(First(m))
    BY <2>8, <2>10
  <2> HIDE DEF Bounds, First
  <2> QED
    BY <2>2, <2>11
<1>5. First(n) = S
  BY <1>3
<1>6. Bounds(S) # {}
  <2>1. n \in 0 .. n
    BY <1>1
  <2> HIDE DEF Bounds, First
  <2> QED
    BY <1>4, <1>5, <2>1
<1>7. PICK m \in Bounds(S) : \A k \in Bounds(S) : m <= k
  <2>1. Bounds(S) \subseteq Nat
    OBVIOUS
  <2> HIDE DEF Bounds
  <2> QED
    BY <1>6, <2>1, LeastNumber
<1>8. m \in Nat /\ \A k \in S : k <= m
  OBVIOUS
<1>9. m \in S
  <2> SUFFICES ASSUME m \notin S PROVE FALSE
    OBVIOUS
  <2>1. \A k \in S : k \in Nat /\ k <= m - 1
    BY <1>8
  <2>2. m - 1 \in Nat
    <3>1. PICK k \in S : TRUE
      OBVIOUS
    <3>2. k \in Nat /\ k <= m - 1
      BY <2>1, <3>1
    <3> QED
      BY <1>8, <3>2
  <2>3. m - 1 \in Bounds(S)
    BY <2>1, <2>2
  <2> HIDE DEF Bounds
  <2>4. m <= m - 1
    BY <1>7, <2>3
  <2> QED
    BY <1>8, <2>4
<1>10. \E x \in S : \A y \in S : x >= y
  BY <1>8, <1>9
<1>11. Max(S) \in S /\ \A y \in S : Max(S) >= y
  BY <1>10 DEF Max
<1> QED
  BY <1>11

----------------------------------------------------------------------------
(* The samples of a metric.                                                  *)

\* Labels and a value whose expressions resolve to lists of strings, if to any,
\* and to finite maps.
Resolvable(labels, value, resolved) ==
    /\ labels \in Seq(ToSet(labels))
    /\ \A l \in ToSet(labels) :
        /\ l.name \in Nat
        /\ resolved[l.value].list \in Seq(Nat)
        /\ IsFiniteSet(DOMAIN resolved[l.value].map)
    /\ resolved[value].list \in Seq(Nat)

\* Lists of strings by label name.
AreLists(lists) ==
    /\ lists = [n \in DOMAIN lists |-> lists[n]]
    /\ DOMAIN lists \subseteq Nat
    /\ IsFiniteSet(DOMAIN lists)
    /\ \A n \in DOMAIN lists : lists[n] \in Seq(Nat)

\* What expands of the label l under the name n.
ListOf(resolved, l, n) ==
    IF ~resolved[l.value].scalar /\ l.name = n THEN resolved[l.value].list ELSE <<>>

\* The lists of each label, for the name n.
ListsNamed(labels, resolved, n) == [i \in DOMAIN labels |-> ListOf(resolved, labels[i], n)]

\* The names of the labels that expand.
ExpandingNames(labels, resolved) ==
    {labels[i].name : i \in {j \in DOMAIN labels : ~resolved[labels[j].value].scalar}}

\* What expands, with these.
LEMMA ExpandingIs ==
    ASSUME NEW labels, NEW resolved
    PROVE  Expanding(labels, resolved) =
                [n \in ExpandingNames(labels, resolved) |->
                    FlattenSeq(ListsNamed(labels, resolved, n))]
<1> DEFINE N == {l.name : l \in {k \in ToSet(labels) : ~resolved[k.value].scalar}}
<1>1. Expanding(labels, resolved) = [n \in N |-> FlattenSeq(ListsNamed(labels, resolved, n))]
  BY Zenon DEF Expanding, ListsNamed, ListOf
<1>2. N = ExpandingNames(labels, resolved)
  BY DEF ToSet, ExpandingNames
<1> QED
  BY <1>1, <1>2

\* They are lists of strings.
LEMMA ExpandingLists ==
    ASSUME NEW labels, NEW value, NEW resolved, Resolvable(labels, value, resolved)
    PROVE  AreLists(Expanding(labels, resolved))
<1> DEFINE N == ExpandingNames(labels, resolved)
           lists == Expanding(labels, resolved)
<1>1. lists = [n \in N |-> FlattenSeq(ListsNamed(labels, resolved, n))]
  BY ExpandingIs
<1>2. \A i \in DOMAIN labels : labels[i] \in ToSet(labels)
  BY Zenon DEF ToSet
<1>3. DOMAIN labels = 1 .. Len(labels) /\ Len(labels) \in Nat
  BY DEF Resolvable
<1>4. N \subseteq Nat
  BY <1>2 DEF ExpandingNames, Resolvable
<1>5. IsFiniteSet(N)
  <2> DEFINE E == {j \in DOMAIN labels : ~resolved[labels[j].value].scalar}
             f == [i \in E |-> labels[i].name]
  <2>1. IsFiniteSet(DOMAIN labels)
    BY <1>3, FS_Interval
  <2>2. IsFiniteSet(E)
    BY <2>1, FS_Subset
  <2>3. N = {labels[i].name : i \in E}
    BY DEF ExpandingNames
  <2> HIDE DEF E, N
  <2>4. f \in Surjection(E, N)
    BY <2>3 DEF Surjection
  <2> HIDE DEF f
  <2> QED
    BY <2>2, <2>4, FS_Surjection
<1>6. ASSUME NEW n \in N PROVE lists[n] \in Seq(Nat)
  <2> DEFINE seqs == ListsNamed(labels, resolved, n)
  <2>1. ASSUME NEW i \in DOMAIN labels PROVE seqs[i] \in Seq(Nat)
    <3>1. resolved[labels[i].value].list \in Seq(Nat)
      BY <1>2 DEF Resolvable
    <3>2. seqs[i] = ListOf(resolved, labels[i], n)
      BY DEF ListsNamed
    <3>3. <<>> \in Seq(Nat)
      OBVIOUS
    <3> HIDE DEF seqs
    <3> QED
      BY <3>1, <3>2, <3>3, Zenon DEF ListOf
  <2>2. DOMAIN seqs = DOMAIN labels /\ seqs = [i \in DOMAIN labels |-> seqs[i]]
    BY DEF ListsNamed
  <2> HIDE DEF seqs
  <2>3. seqs \in Seq(Seq(Nat))
    BY <1>3, <2>1, <2>2
  <2>4. lists[n] = FlattenSeq(seqs)
    BY <1>1, Zenon DEF seqs
  <2> QED
    BY <2>3, <2>4, FlattenElements
<1> HIDE DEF N, lists
<1>7. DOMAIN lists = N /\ lists = [n \in DOMAIN lists |-> lists[n]]
  BY <1>1
<1>8. AreLists(lists)
  BY <1>4, <1>5, <1>6, <1>7 DEF AreLists
<1> QED
  BY <1>8 DEF lists

\* One of them comes first.
LEMMA FirstList ==
    ASSUME NEW lists, AreLists(lists), lists # <<>>
    PROVE  Min(DOMAIN lists) \in DOMAIN lists
<1>1. DOMAIN lists # {}
  <2> SUFFICES ASSUME DOMAIN lists = {} PROVE lists = <<>>
    OBVIOUS
  <2>1. lists = [n \in DOMAIN lists |-> lists[n]]
    BY DEF AreLists
  <2> QED
    BY <2>1
<1> DEFINE D == DOMAIN lists
<1>2. D \subseteq Nat /\ D # {}
  BY <1>1 DEF AreLists
<1> HIDE DEF D
<1>3. \E x \in D : \A y \in D : x <= y
  BY <1>2, LeastNumber
<1>4. Min(D) \in D
  BY <1>3 DEF Min
<1> QED
  BY <1>4 DEF D

\* A list brought into the order of another that is as long.
InOrderOf(s, anchor) ==
    IF Len(s) # Len(anchor) THEN s ELSE [i \in DOMAIN s |-> s[SortedIndices(anchor)[i]]]

\* It is a list as long as before.
LEMMA InOrderIsList ==
    ASSUME NEW s \in Seq(Nat), NEW anchor \in Seq(Nat)
    PROVE  InOrderOf(s, anchor) \in Seq(Nat) /\ Len(InOrderOf(s, anchor)) = Len(s)
<1>1. CASE Len(s) # Len(anchor)
  BY <1>1 DEF InOrderOf
<1>2. CASE Len(s) = Len(anchor)
  <2> DEFINE order == SortedIndices(anchor)
             t == [i \in DOMAIN s |-> s[order[i]]]
  <2>1. DOMAIN s = 1 .. Len(s) /\ Len(s) \in Nat /\ DOMAIN anchor = DOMAIN s
    BY <1>2
  <2>2. order \in Bijection(DOMAIN anchor, DOMAIN anchor)
    BY SortedIndicesPermute
  <2> HIDE DEF order
  <2>3. \A i \in DOMAIN s : order[i] \in DOMAIN s
    BY <2>1, <2>2 DEF Bijection, Injection
  <2>4. t \in [1 .. Len(s) -> Nat]
    BY <2>1, <2>3
  <2>5. InOrderOf(s, anchor) = t
    BY <1>2 DEF InOrderOf, order
  <2> HIDE DEF t
  <2>6. t \in Seq(Nat) /\ Len(t) = Len(s)
    <3>1. ASSUME NEW n \in Nat, NEW r \in [1 .. n -> Nat]
          PROVE  r \in Seq(Nat) /\ Len(r) = n
      OBVIOUS
    <3> QED
      BY <2>1, <2>4, <3>1
  <2> QED
    BY <2>5, <2>6
<1> QED
  BY <1>1, <1>2

\* What CoSorted does when there are lists, and values for the first of them.
LEMMA CoSortedIs ==
    ASSUME NEW lists, NEW values, lists # <<>>,
           Len(values) = Len(lists[Min(DOMAIN lists)])
    PROVE  /\ CoSorted(lists, values).lists =
                [n \in DOMAIN lists |-> InOrderOf(lists[n], lists[Min(DOMAIN lists)])]
           /\ CoSorted(lists, values).values = InOrderOf(values, lists[Min(DOMAIN lists)])
<1> DEFINE anchor == lists[Min(DOMAIN lists)]
<1>1. CoSorted(lists, values) =
        [lists |-> [n \in DOMAIN lists |-> InOrderOf(lists[n], anchor)],
         values |-> InOrderOf(values, anchor)]
  BY Zenon DEF CoSorted, InOrderOf
<1> HIDE DEF anchor
<1> QED
  BY <1>1 DEF anchor

\* And when there are none.
LEMMA NotCoSorted ==
    ASSUME NEW lists, NEW values,
           lists = <<>> \/ Len(values) # Len(lists[Min(DOMAIN lists)])
    PROVE  CoSorted(lists, values).lists = lists /\ CoSorted(lists, values).values = values
BY DEF CoSorted

\* It leaves lists as long as they were.
LEMMA CoSortedLists ==
    ASSUME NEW lists, AreLists(lists), NEW values \in Seq(Nat)
    PROVE  LET sorted == CoSorted(lists, values) IN
           /\ AreLists(sorted.lists) /\ DOMAIN sorted.lists = DOMAIN lists
           /\ \A n \in DOMAIN lists : Len(sorted.lists[n]) = Len(lists[n])
           /\ sorted.values \in Seq(Nat) /\ Len(sorted.values) = Len(values)
<1> DEFINE sorted == CoSorted(lists, values)
           anchor == lists[Min(DOMAIN lists)]
<1>1. CASE lists = <<>> \/ Len(values) # Len(anchor)
  <2>1. sorted.lists = lists /\ sorted.values = values
    BY <1>1, NotCoSorted
  <2> HIDE DEF sorted
  <2>2. AreLists(sorted.lists)
    BY <2>1
  <2> QED
    BY <2>1, <2>2 DEF sorted
<1>2. CASE lists # <<>> /\ Len(values) = Len(anchor)
  <2>1. /\ sorted.lists = [n \in DOMAIN lists |-> InOrderOf(lists[n], anchor)]
        /\ sorted.values = InOrderOf(values, anchor)
    BY <1>2, CoSortedIs
  <2>2. anchor \in Seq(Nat)
    BY <1>2, FirstList DEF AreLists
  <2> HIDE DEF anchor
  <2>3. \A n \in DOMAIN lists : InOrderOf(lists[n], anchor) \in Seq(Nat)
                                /\ Len(InOrderOf(lists[n], anchor)) = Len(lists[n])
    BY <2>2, InOrderIsList DEF AreLists
  <2>4. InOrderOf(values, anchor) \in Seq(Nat) /\ Len(InOrderOf(values, anchor)) = Len(values)
    BY <2>2, InOrderIsList
  <2> DEFINE new == sorted.lists
  <2>5. /\ DOMAIN new = DOMAIN lists
        /\ \A n \in DOMAIN lists : new[n] = InOrderOf(lists[n], anchor)
        /\ new = [n \in DOMAIN new |-> new[n]]
    BY <2>1
  <2> HIDE DEF new
  <2>6. AreLists(new)
    <3>1. DOMAIN new \subseteq Nat /\ IsFiniteSet(DOMAIN new)
      BY <2>5, Zenon DEF AreLists
    <3>2. \A n \in DOMAIN new : new[n] \in Seq(Nat)
      BY <2>3, <2>5, Zenon
    <3> QED
      BY <2>5, <3>1, <3>2 DEF AreLists
  <2> QED
    BY <2>1, <2>3, <2>4, <2>5, <2>6 DEF new
<1> QED
  BY <1>1, <1>2

\* The labels on every sample that come of the label l.
EntriesOf(l, resolved) ==
    LET r == resolved[l.value]
        keys == SetToSeq(DOMAIN r.map)
    IN  IF r.scalar THEN << <<<<l.name>>, r.text>> >>
        ELSE [k \in DOMAIN keys |->
                <<IF l.spread THEN <<keys[k]>> ELSE <<l.name, keys[k]>>, r.map[keys[k]]>>]

\* A finite set as a sequence.
LEMMA SetAsSequence ==
    ASSUME NEW S, IsFiniteSet(S)
    PROVE  SetToSeq(S) \in Seq(ToSet(SetToSeq(S)))
<1> DEFINE n == Cardinality(S)
           s == SetToSeq(S)
<1>1. n \in Nat /\ ExistsBijection(1 .. n, S)
  BY FS_CardinalityType
<1>2. PICK f : f \in Bijection(1 .. n, S)
  BY <1>1 DEF ExistsBijection
<1>3. f \in [1 .. n -> S] /\ IsInjective(f)
  BY <1>2 DEF Bijection, Injection, IsInjective
<1>4. s \in [1 .. n -> S]
  BY <1>3 DEF SetToSeq
<1> DEFINE T == ToSet(s)
<1>5. DOMAIN s = 1 .. n /\ s = [i \in 1 .. n |-> s[i]] /\ \A i \in 1 .. n : s[i] \in T
  BY <1>4 DEF ToSet
<1> HIDE DEF s, n, T
<1>6. s \in [1 .. n -> T]
  BY <1>5
<1>7. s \in Seq(T)
  BY <1>1, <1>6
<1> QED
  BY <1>7 DEF s, T

\* The labels on every sample are a sequence.
LEMMA FixedIsSequence ==
    ASSUME NEW labels, NEW value, NEW resolved, Resolvable(labels, value, resolved)
    PROVE  \E S : Fixed(labels, resolved) \in Seq(S)
<1> DEFINE E(l) == EntriesOf(l, resolved)
           S == UNION {ToSet(E(l)) : l \in ToSet(labels)}
           seqs == [i \in DOMAIN labels |-> E(labels[i])]
<1>1. ASSUME NEW l \in ToSet(labels) PROVE E(l) \in Seq(ToSet(E(l)))
  <2> DEFINE r == resolved[l.value]
             keys == SetToSeq(DOMAIN r.map)
             e == [k \in DOMAIN keys |->
                    <<IF l.spread THEN <<keys[k]>> ELSE <<l.name, keys[k]>>, r.map[keys[k]]>>]
             one == <<<<l.name>>, r.text>>
  <2>1. CASE r.scalar
    <3>1. E(l) = <<one>>
      BY <2>1 DEF EntriesOf
    <3> HIDE DEF E, one
    <3>2. one \in ToSet(<<one>>)
      BY DEF ToSet
    <3> DEFINE T == ToSet(<<one>>)
    <3> HIDE DEF T
    <3>3. <<one>> \in Seq(T)
      BY <3>2 DEF T
    <3> QED
      BY <3>1, <3>3 DEF T
  <2>2. CASE ~r.scalar
    <3>1. IsFiniteSet(DOMAIN r.map)
      BY DEF Resolvable
    <3>2. keys \in Seq(ToSet(keys))
      BY <3>1, SetAsSequence
    <3>3. e = [k \in DOMAIN keys |-> e[k]]
      OBVIOUS
    <3>4. E(l) = e
      BY <2>2, Zenon DEF EntriesOf
    <3> HIDE DEF keys, e, E
    <3>5. e \in Seq(ToSet(e))
      BY <3>2, <3>3, SameIndices
    <3> QED
      BY <3>4, <3>5
  <2> QED
    BY <2>1, <2>2
<1> HIDE DEF E
<1>2. ASSUME NEW i \in DOMAIN labels PROVE seqs[i] \in Seq(S)
  <2>1. labels[i] \in ToSet(labels)
    BY Zenon DEF ToSet
  <2> DEFINE e == E(labels[i])
  <2>2. e \in Seq(ToSet(e)) /\ seqs[i] = e /\ ToSet(e) \subseteq S
    BY <1>1, <2>1
  <2> HIDE DEF e, S
  <2> QED
    BY <2>2
<1>3. labels \in Seq(ToSet(labels)) /\ DOMAIN seqs = DOMAIN labels
      /\ seqs = [i \in DOMAIN labels |-> seqs[i]]
  BY DEF Resolvable
<1>4. Fixed(labels, resolved) = FlattenSeq(seqs)
  BY Zenon DEF Fixed, EntriesOf, E
<1> HIDE DEF S, seqs
<1>5. seqs \in Seq(Seq(S))
  <2>1. DOMAIN labels = 1 .. Len(labels) /\ Len(labels) \in Nat
    BY <1>3
  <2> QED
    BY <1>2, <1>3, <2>1
<1> QED
  BY <1>4, <1>5, FlattenElements

\* How many samples there are of these lists and values.
SizeOf(sorted) ==
    IF sorted.lists = <<>> THEN Max({1, Len(sorted.values)})
    ELSE Max({Len(sorted.lists[n]) : n \in DOMAIN sorted.lists})

\* The labels of the i-th of them that come of the lists, and the sample.
ListedAt(sorted, i) ==
    LET names == Sorted(DOMAIN sorted.lists)
    IN  [k \in DOMAIN names |-> <<<<names[k]>>, At(sorted.lists[names[k]], i, Blank)>>]
SampleAt(fixed, sorted, default, i) ==
    [labels |-> fixed \o ListedAt(sorted, i), value |-> At(sorted.values, i, default)]

\* The samples are these.
LEMMA ExpansionIs ==
    ASSUME NEW labels, NEW value, NEW resolved
    PROVE  LET sorted == CoSorted(Expanding(labels, resolved), resolved[value].list) IN
           Expansion(labels, value, resolved) =
               [i \in 1 .. SizeOf(sorted) |->
                   SampleAt(Fixed(labels, resolved), sorted, resolved[value].text, i)]
BY Zenon DEF Expansion, SizeOf, SampleAt, ListedAt

\* They are a number of them: that of the elements, when all lists are as long.
LEMMA SizeIsNumber ==
    ASSUME NEW sorted, AreLists(sorted.lists), sorted.values \in Seq(Nat)
    PROVE  /\ SizeOf(sorted) \in Nat
           /\ \A l : sorted.lists # <<>> /\ (\A n \in DOMAIN sorted.lists : Len(sorted.lists[n]) = l)
                        => SizeOf(sorted) = l
<1> DEFINE lists == sorted.lists
           D == DOMAIN lists
           lengths == {Len(lists[n]) : n \in D}
           f == [n \in D |-> Len(lists[n])]
<1>1. CASE lists = <<>>
  <2> DEFINE l == Len(sorted.values)
  <2>1. l \in Nat
    OBVIOUS
  <2> HIDE DEF l
  <2>2. IsFiniteSet({1, l})
    <3>1. IsFiniteSet({1})
      BY FS_Singleton
    <3>2. {1, l} = {1} \cup {l}
      OBVIOUS
    <3> QED
      BY <3>1, <3>2, FS_AddElement
  <2>3. Max({1, l}) \in {1, l}
    <3>1. {1, l} \subseteq Nat /\ {1, l} # {}
      BY <2>1
    <3> QED
      BY <2>2, <3>1, LargestNumber
  <2>4. SizeOf(sorted) = Max({1, l})
    BY <1>1 DEF SizeOf, l
  <2> QED
    BY <1>1, <2>1, <2>3, <2>4
<1>2. CASE lists # <<>>
  <2>1. IsFiniteSet(D) /\ \A n \in D : lists[n] \in Seq(Nat)
    BY DEF AreLists
  <2>2. D # {}
    <3>1. Min(D) \in D
      BY <1>2, FirstList
    <3> QED
      BY <3>1
  <2>3. \A n \in D : Len(lists[n]) \in Nat
    BY <2>1
  <2>4. lengths \subseteq Nat /\ lengths # {}
    BY <2>2, <2>3
  <2>5. f \in Surjection(D, lengths)
    <3>1. f \in [D -> lengths] /\ \A k \in lengths : \E n \in D : f[n] = k
      OBVIOUS
    <3> HIDE DEF f, D, lengths
    <3> QED
      BY <3>1 DEF Surjection
  <2>6. IsFiniteSet(lengths)
    <3> HIDE DEF f, D, lengths
    <3> QED
      BY <2>1, <2>5, FS_Surjection
  <2>7. Max(lengths) \in lengths
    <3> HIDE DEF lengths
    <3> QED
      BY <2>4, <2>6, LargestNumber
  <2>8. SizeOf(sorted) = Max(lengths)
    BY <1>2 DEF SizeOf
  <2>9. ASSUME NEW l, \A n \in D : Len(lists[n]) = l PROVE SizeOf(sorted) = l
    <3>1. \A k \in lengths : k = l
      BY <2>9
    <3> HIDE DEF lengths
    <3> QED
      BY <2>7, <2>8, <3>1
  <2> HIDE DEF lengths
  <2> QED
    BY <2>4, <2>7, <2>8, <2>9
<1> QED
  BY <1>1, <1>2

\* When every list is as long as the values, the samples are theirs, index by
\* index, in some order.
LEMMA SamplesOfLists ==
    ASSUME NEW labels, NEW value, NEW resolved, Resolvable(labels, value, resolved),
           Expanding(labels, resolved) # <<>>,
           \A n \in DOMAIN Expanding(labels, resolved) :
                Len(Expanding(labels, resolved)[n]) = Len(resolved[value].list)
    PROVE  LET lists == Expanding(labels, resolved)
               values == resolved[value].list
               names == Sorted(DOMAIN lists)
               fixed == Len(Fixed(labels, resolved))
               samples == Expansion(labels, value, resolved)
           IN  /\ Len(samples) = Len(values)
               /\ \E order \in Bijection(DOMAIN values, DOMAIN values) :
                    \A i \in DOMAIN values :
                        /\ samples[i].value = values[order[i]]
                        /\ \A k \in DOMAIN names :
                            samples[i].labels[fixed + k][2] = lists[names[k]][order[i]]
<1> DEFINE lists == Expanding(labels, resolved)
           values == resolved[value].list
           names == Sorted(DOMAIN lists)
           fixed == Fixed(labels, resolved)
           sorted == CoSorted(lists, values)
           samples == Expansion(labels, value, resolved)
           anchor == lists[Min(DOMAIN lists)]
           order == SortedIndices(anchor)
           default == resolved[value].text
           l == Len(values)
<1>1. AreLists(lists)
  BY ExpandingLists
<1>2. values \in Seq(Nat)
  BY DEF Resolvable
<1>3. PICK S : fixed \in Seq(S)
  BY FixedIsSequence
<1>4. samples = [i \in 1 .. SizeOf(sorted) |-> SampleAt(fixed, sorted, default, i)]
  BY ExpansionIs
<1>5. lists # <<>> /\ \A n \in DOMAIN lists : Len(lists[n]) = l
  OBVIOUS
<1> HIDE DEF lists, values, fixed, samples, default
<1>6. Min(DOMAIN lists) \in DOMAIN lists
  BY <1>1, <1>5, FirstList
<1>7. anchor \in Seq(Nat) /\ Len(anchor) = l
  BY <1>1, <1>5, <1>6 DEF AreLists
<1>8. DOMAIN anchor = 1 .. l /\ DOMAIN values = 1 .. l /\ l \in Nat
  BY <1>2, <1>7
<1>9. /\ sorted.lists = [n \in DOMAIN lists |-> InOrderOf(lists[n], anchor)]
      /\ sorted.values = InOrderOf(values, anchor)
  BY <1>5, <1>7, CoSortedIs
<1>10. order \in Bijection(1 .. l, 1 .. l)
  BY <1>7, <1>8, SortedIndicesPermute
<1>11. /\ AreLists(sorted.lists) /\ DOMAIN sorted.lists = DOMAIN lists
       /\ \A n \in DOMAIN lists : Len(sorted.lists[n]) = Len(lists[n])
       /\ sorted.values \in Seq(Nat) /\ Len(sorted.values) = Len(values)
  BY <1>1, <1>2, CoSortedLists
<1> HIDE DEF sorted
<1>12. sorted.lists # <<>>
  BY <1>6, <1>11
<1>13. SizeOf(sorted) = l
  BY <1>5, <1>11, <1>12, SizeIsNumber
<1>14. DOMAIN names = 1 .. Len(names) /\ Len(names) \in Nat
       /\ \A k \in DOMAIN names : names[k] \in DOMAIN lists
  <2>1. names \in Seq(DOMAIN lists)
    BY <1>1, SortedIsSequence DEF AreLists
  <2> HIDE DEF names
  <2> QED
    BY <2>1
<1> HIDE DEF anchor, l, order
<1>15. ASSUME NEW s \in Seq(Nat), Len(s) = l, NEW i \in 1 .. l, NEW d
       PROVE  At(InOrderOf(s, anchor), i, d) = s[order[i]]
  <2>1. InOrderOf(s, anchor) = [j \in DOMAIN s |-> s[order[j]]]
    BY <1>7, <1>15 DEF InOrderOf, order
  <2>2. DOMAIN s = 1 .. l
    BY <1>15
  <2>3. InOrderOf(s, anchor)[i] = s[order[i]]
    BY <2>1, <2>2
  <2>4. Len(InOrderOf(s, anchor)) = l /\ i <= l
    BY <1>7, <1>8, <1>15, InOrderIsList
  <2> QED
    BY <2>3, <2>4 DEF At
<1>16. ASSUME NEW i \in 1 .. l
       PROVE  /\ samples[i].value = values[order[i]]
              /\ \A k \in DOMAIN names :
                    samples[i].labels[Len(fixed) + k][2] = lists[names[k]][order[i]]
  <2> DEFINE listed == ListedAt(sorted, i)
  <2>1. samples[i] = SampleAt(fixed, sorted, default, i)
    BY <1>4, <1>13
  <2>2. samples[i].labels = fixed \o listed /\ samples[i].value = At(sorted.values, i, default)
    BY <2>1 DEF SampleAt
  <2>3. samples[i].value = values[order[i]]
    <3>1. values \in Seq(Nat) /\ Len(values) = l
      BY <1>2 DEF l
    <3>2. At(InOrderOf(values, anchor), i, default) = values[order[i]]
      BY <1>15, <3>1
    <3> QED
      BY <1>9, <2>2, <3>2
  <2>4. listed = [k \in DOMAIN names |->
                    <<<<names[k]>>, At(sorted.lists[names[k]], i, Blank)>>]
    BY <1>11 DEF ListedAt
  <2> HIDE DEF listed, names
  <2>5. ASSUME NEW k \in DOMAIN names
        PROVE  samples[i].labels[Len(fixed) + k][2] = lists[names[k]][order[i]]
    <3>1. listed[k] = <<<<names[k]>>, At(sorted.lists[names[k]], i, Blank)>>
      BY <2>4
    <3>2. At(sorted.lists[names[k]], i, Blank) = lists[names[k]][order[i]]
      <4>1. names[k] \in DOMAIN lists
        BY <1>14
      <4>2. lists[names[k]] \in Seq(Nat) /\ Len(lists[names[k]]) = l
        BY <1>1, <1>5, <4>1 DEF AreLists
      <4>3. sorted.lists[names[k]] = InOrderOf(lists[names[k]], anchor)
        BY <1>9, <4>1
      <4> QED
        BY <1>15, <4>2, <4>3
    <3>3. (fixed \o listed)[Len(fixed) + k] = listed[k]
      <4> DEFINE P == ToSet(listed)
      <4>1. \A j \in DOMAIN names : listed[j] \in P
        BY <2>4 DEF ToSet
      <4>2. DOMAIN listed = DOMAIN names /\ listed = [j \in DOMAIN names |-> listed[j]]
        BY <2>4
      <4> HIDE DEF P
      <4>3. listed \in Seq(P) /\ Len(listed) = Len(names)
        BY <1>14, <4>1, <4>2
      <4>4. k \in 1 .. Len(names)
        BY <1>14
      <4> QED
        BY <1>3, <1>14, <4>3, <4>4
    <3> QED
      BY <2>2, <3>1, <3>2, <3>3
  <2> QED
    BY <2>3, <2>5
<1>17. Len(samples) = l
  BY <1>4, <1>8, <1>13
<1>18. order \in Bijection(DOMAIN values, DOMAIN values)
  BY <1>8, <1>10
<1> HIDE DEF names
<1>19. \A i \in DOMAIN values :
          /\ samples[i].value = values[order[i]]
          /\ \A k \in DOMAIN names :
                samples[i].labels[Len(fixed) + k][2] = lists[names[k]][order[i]]
  BY <1>8, <1>16
<1> QED
  BY <1>17, <1>18, <1>19, Zenon DEF l, lists, values, names, fixed, samples

\* Of two functions on D: each has any value as often as the other.
AsOften(D, seen, given) ==
    \A s : Cardinality({j \in D : seen[j] = s}) = Cardinality({j \in D : given[j] = s})

\* What is seen in another order is seen as often.
LEMMA SeenAsOften ==
    ASSUME NEW D, IsFiniteSet(D), NEW seen, NEW given, NEW order \in Bijection(D, D),
           \A i \in D : seen[i] = given[order[i]]
    PROVE  AsOften(D, seen, given)
<1> SUFFICES ASSUME NEW s
             PROVE  Cardinality({j \in D : seen[j] = s}) = Cardinality({j \in D : given[j] = s})
  BY DEF AsOften
<1> DEFINE A == {j \in D : seen[j] = s}
           B == {j \in D : given[j] = s}
           f == [j \in A |-> order[j]]
<1>1. /\ \A j \in D : order[j] \in D
      /\ \A j, k \in D : order[j] = order[k] => j = k
      /\ \A k \in D : \E j \in D : order[j] = k
  BY DEF Bijection, Injection, Surjection, IsInjective
<1>2. \A j \in D : j \in A <=> order[j] \in B
  BY <1>1
<1>3. A \in SUBSET D /\ B \in SUBSET D
  OBVIOUS
<1> HIDE DEF A, B
<1>4. f \in [A -> B]
  BY <1>2, <1>3
<1>5. \A j, k \in A : f[j] = f[k] => j = k
  BY <1>1, <1>3
<1>6. \A k \in B : \E j \in A : f[j] = k
  BY <1>1, <1>2, <1>3
<1> HIDE DEF f
<1>7. f \in Bijection(A, B)
  BY <1>4, <1>5, <1>6 DEF Bijection, Injection, Surjection, IsInjective
<1>8. IsFiniteSet(A)
  BY <1>3, FS_Subset
<1>9. Cardinality(A) = Cardinality(B)
  BY <1>7, <1>8, FS_Bijection DEF ExistsBijection
<1> QED
  BY <1>9 DEF A, B

----------------------------------------------------------------------------
(* What families inherit: the stores keep those of the configuration but for *)
(* the resolver and the labels they added.                                   *)

FamilyFields == {"name", "counter", "resolver", "script", "labels", "metrics"}

\* The family f of the store s, with labels of the store added.
With(s, f, added) ==
    [s.families[f] EXCEPT !.resolver = IF @ = "" THEN s.resolver ELSE @, !.labels = @ \o added]

\* Labels of a store, one after the other.
Labels(s) == Seq(ToSet(s.labels))

\* The family f of the store s after some objects were rendered, if any.
Grown(family, s, f) ==
    \/ family = s.families[f]
    \/ \E added \in Labels(s) : family = With(s, f, added)

\* A store whose labels and families are sequences of the fields they have.
Whole(s) ==
    /\ s.labels \in Labels(s)
    /\ \A f \in DOMAIN s.families :
        /\ DOMAIN s.families[f] = FamilyFields
        /\ s.families[f].labels \in Seq(ToSet(s.families[f].labels))

\* A store is of an entry when it has its labels and its families' labels and
\* metrics, and their scripts but for some.
OfEntry(s, entry) ==
    /\ s.labels = entry.labels
    /\ DOMAIN s.families = DOMAIN entry.families
    /\ \A f \in DOMAIN s.families :
        /\ s.families[f].labels = entry.families[f].labels
        /\ s.families[f].metrics = entry.families[f].metrics
        /\ s.families[f].script \in {entry.families[f].script, ""}

\* Sequences put end to end: three are two.
LEMMA EndToEnd ==
    ASSUME NEW S, NEW T, NEW a \in Seq(S), NEW b \in Seq(T), NEW c \in Seq(T)
    PROVE  (a \o b) \o c = a \o (b \o c) /\ b \o c \in Seq(T)
<1>1. a \in Seq(S \cup T) /\ b \in Seq(S \cup T) /\ c \in Seq(S \cup T)
  OBVIOUS
<1>2. (a \o b) \o c = a \o (b \o c)
  BY <1>1
<1> QED
  BY <1>2

\* Rendering another object only adds the labels once more.
LEMMA InheritsMore ==
    ASSUME NEW s, Whole(s), NEW f \in DOMAIN s.families, NEW family, Grown(family, s, f),
           NEW store, store.labels = s.labels, store.resolver = s.resolver
    PROVE  \E added \in Labels(s) :
                InheritFamilyConfiguration(family, store) = With(s, f, added)
<1> DEFINE F == s.families[f]
           R == s.resolver
           first == s.labels
           new == InheritFamilyConfiguration(family, store)
<1>1. new = [family EXCEPT !.resolver = IF family.resolver = "" THEN R ELSE family.resolver,
                           !.labels = family.labels \o first]
  BY DEF InheritFamilyConfiguration
<1>2. first \in Labels(s) /\ DOMAIN F = FamilyFields /\ F.labels \in Seq(ToSet(F.labels))
  BY DEF Whole
<1>3. \A added : With(s, f, added) =
        [F EXCEPT !.resolver = IF F.resolver = "" THEN R ELSE F.resolver,
                  !.labels = F.labels \o added]
  BY DEF With
<1>4. CASE family = F
  BY <1>1, <1>2, <1>3, <1>4
<1>5. CASE \E added \in Labels(s) : family = With(s, f, added)
  <2>1. PICK added \in Labels(s) : family = With(s, f, added)
    BY <1>5
  <2>2. family = [F EXCEPT !.resolver = IF F.resolver = "" THEN R ELSE F.resolver,
                           !.labels = F.labels \o added]
    BY <1>3, <2>1
  <2>3. (F.labels \o added) \o first = F.labels \o (added \o first)
        /\ added \o first \in Labels(s)
    <3> DEFINE T == ToSet(s.labels)
               own == F.labels
               S == ToSet(own)
    <3>1. own \in Seq(S) /\ added \in Seq(T) /\ first \in Seq(T)
      BY <1>2, <2>1 DEF Labels
    <3> HIDE DEF S, T, own, first
    <3>2. (own \o added) \o first = own \o (added \o first) /\ added \o first \in Seq(T)
      BY <3>1, EndToEnd
    <3> QED
      BY <3>2 DEF Labels, T, own
  <2> HIDE DEF F, first, R
  <2>4. DOMAIN F = FamilyFields /\ "resolver" \in FamilyFields /\ "labels" \in FamilyFields
    BY <1>2 DEF FamilyFields
  <2>5. /\ family.resolver = IF F.resolver = "" THEN R ELSE F.resolver
        /\ family.labels = F.labels \o added
    BY <2>2, <2>4
  <2>6. (IF family.resolver = "" THEN R ELSE family.resolver)
            = IF F.resolver = "" THEN R ELSE F.resolver
    BY <2>5
  <2>7. new = [family EXCEPT !.resolver = IF F.resolver = "" THEN R ELSE F.resolver,
                             !.labels = F.labels \o (added \o first)]
    <3> HIDE DEF new
    <3> QED
      BY <1>1, <2>3, <2>5, <2>6
  <2>8. new = [F EXCEPT !.resolver = IF F.resolver = "" THEN R ELSE F.resolver,
                        !.labels = F.labels \o (added \o first)]
    <3> HIDE DEF new
    <3> QED
      BY <2>2, <2>4, <2>7
  <2> HIDE DEF new
  <2>9. new = With(s, f, added \o first)
    BY <1>3, <2>8
  <2> QED
    BY <2>3, <2>9 DEF new
<1>6. Grown(family, s, f)
  OBVIOUS
<1> QED
  BY <1>4, <1>5, <1>6 DEF Grown

\* The labels of an entry, and of its families, are sequences.
LEMMA EntryLabels ==
    ASSUME NEW c, NEW a, Given(c, a), NEW e \in DOMAIN c
    PROVE  /\ c[e].labels \in Seq(ToSet(c[e].labels))
           /\ \A f \in DOMAIN c[e].families :
                c[e].families[f].labels \in Seq(ToSet(c[e].families[f].labels))
<1>1. c \in Configs
  BY DEF Given
<1>2. c[e] \in ToSet(c) /\ \A f \in DOMAIN c[e].families :
        c[e].families[f] \in ToSet(c[e].families)
  BY Zenon DEF ToSet
<1> QED
  BY <1>1, <1>2, ContentsAssumption, Zenon

\* What is built of an entry has its labels and metrics.
LEMMA BuiltOfEntry ==
    ASSUME NEW c, NEW a, Given(c, a), NEW n \in DOMAIN StoresOf(c, a)
    PROVE  /\ Whole(StoresOf(c, a)[n])
           /\ \E e \in DOMAIN c : OfEntry(StoresOf(c, a)[n], c[e])
<1> DEFINE D == Deduplicated(AllExpanded(c, a))
           s == BuildStoreFromConfig(D[n])
<1>1. n \in DOMAIN D /\ StoresOf(c, a)[n] = s
  BY DEF StoresOf
<1>2. PICK e \in DOMAIN c : \E i \in DOMAIN ExpandWildcards(c[e], a[e]) :
            D[n] = ExpandWildcards(c[e], a[e])[i]
  <2>1. ComesFrom(D[n], c, a)
    BY <1>1, DeduplicatedShape
  <2> QED
    BY <2>1 DEF ComesFrom
<1>3. PICK i \in DOMAIN ExpandWildcards(c[e], a[e]) : D[n] = ExpandWildcards(c[e], a[e])[i]
  BY <1>2
<1>4. IsStore(D[n]) /\ D[n].families = c[e].families
  BY <1>3, ExpandedIsStore
<1>5. D[n].labels = c[e].labels
  <2> DEFINE x == ExpandWildcards(c[e], a[e])
             O == Offers(c[e], a[e])
  <2>1. x \in Seq(O)
    BY ExpandedShape
  <2>2. DOMAIN c[e] = {"group", "version", "kind", "resource", "resolver", "labels", "families"}
    BY EntryShape
  <2>3. \A api : Expanded(c[e], api).labels = c[e].labels
    BY <2>2 DEF Expanded
  <2> HIDE DEF x
  <2>4. x[i] \in O
    <3>1. i \in DOMAIN x
      BY <1>3 DEF x
    <3> HIDE DEF O
    <3> QED
      BY <2>1, <3>1
  <2>5. x[i].labels = c[e].labels
    BY <2>3, <2>4 DEF Offers
  <2> QED
    BY <1>3, <2>5 DEF x
<1> HIDE DEF D
<1>6. DOMAIN s = DOMAIN D[n] /\ s.labels = D[n].labels
  BY <1>4 DEF BuildStoreFromConfig, IsStore
<1> DEFINE New(f) == [D[n].families[f] EXCEPT
                        !.script = IF D[n].families[f].resolver = "starlark" THEN @ ELSE ""]
<1>7. s.families = [f \in DOMAIN D[n].families |-> New(f)]
  <2>1. s = [D[n] EXCEPT !.families = [f \in DOMAIN D[n].families |-> New(f)]]
    BY Zenon DEF BuildStoreFromConfig
  <2>2. "families" \in DOMAIN D[n]
    BY <1>4 DEF IsStore
  <2> HIDE DEF New, s
  <2> QED
    BY <2>1, <2>2
<1> HIDE DEF s
<1>8. ASSUME NEW f \in DOMAIN D[n].families
      PROVE  /\ DOMAIN s.families[f] = FamilyFields
             /\ s.families[f].labels = c[e].families[f].labels
             /\ s.families[f].metrics = c[e].families[f].metrics
             /\ s.families[f].script \in {c[e].families[f].script, ""}
  <2>1. DOMAIN D[n].families[f] = FamilyFields
    BY <1>4 DEF IsStore, FamilyFields
  <2>2. s.families[f] = New(f)
    BY <1>7
  <2>3. /\ DOMAIN New(f) = FamilyFields
        /\ New(f).labels = D[n].families[f].labels
        /\ New(f).metrics = D[n].families[f].metrics
        /\ New(f).script \in {D[n].families[f].script, ""}
    BY <2>1 DEF FamilyFields
  <2> HIDE DEF New
  <2> QED
    BY <1>4, <2>2, <2>3
<1>9. DOMAIN s.families = DOMAIN D[n].families
  BY <1>7
<1>10. OfEntry(s, c[e])
  BY <1>4, <1>5, <1>6, <1>8, <1>9 DEF OfEntry
<1>11. Whole(s)
  <2>1. /\ c[e].labels \in Seq(ToSet(c[e].labels))
        /\ \A f \in DOMAIN c[e].families :
             c[e].families[f].labels \in Seq(ToSet(c[e].families[f].labels))
    BY EntryLabels
  <2>2. s.labels \in Labels(s)
    BY <1>5, <1>6, <2>1 DEF Labels
  <2>3. ASSUME NEW f \in DOMAIN s.families
        PROVE  /\ DOMAIN s.families[f] = FamilyFields
               /\ s.families[f].labels \in Seq(ToSet(s.families[f].labels))
    <3>1. c[e].families[f].labels \in Seq(ToSet(c[e].families[f].labels))
      BY <1>4, <1>9, <2>1
    <3>2. DOMAIN s.families[f] = FamilyFields /\ s.families[f].labels = c[e].families[f].labels
      BY <1>8, <1>9
    <3> QED
      BY <3>1, <3>2
  <2> QED
    BY <2>2, <2>3 DEF Whole
<1> QED
  BY <1>1, <1>10, <1>11

\* The stores the last build gave.
BuiltStores == StoresOf(config, answers)

\* Those in the map are what became of them.
FamiliesGrown ==
    /\ DOMAIN built = DOMAIN BuiltStores
    /\ \A n \in DOMAIN built :
        /\ built[n].labels = BuiltStores[n].labels
        /\ built[n].resolver = BuiltStores[n].resolver
        /\ DOMAIN built[n].families = DOMAIN BuiltStores[n].families
        /\ \A f \in DOMAIN built[n].families : Grown(built[n].families[f], BuiltStores[n], f)

\* What is rendered of an object with these contents, by family of the store.
RenderedOf(samples, s, x) ==
    /\ x \in Contents
    /\ \A f \in DOMAIN s.families : \E added \in Labels(s) :
        samples[f] = FamilySamples(With(s, f, added), x)

\* What is rendered is of the contents last handed over, with labels of the store.
SamplesRendered ==
    \A n \in DOMAIN built : \A u \in DOMAIN metrics[n] :
        RenderedOf(metrics[n][u], BuiltStores[n], objects[n][u])

FamilyInv ==
    /\ BuildInv
    /\ FamiliesGrown
    /\ SamplesRendered

\* The invariant holds initially.
LEMMA InitFamily == Init => FamilyInv
<1> SUFFICES ASSUME Init PROVE FamilyInv
  OBVIOUS
<1>1. config = <<>> /\ answers = <<>> /\ built = <<>>
  BY DEF Init
<1>2. DOMAIN <<>> = {}
  OBVIOUS
<1>3. DOMAIN StoresOf(<<>>, <<>>) = {}
  BY NothingKept DEF StoresOf
<1>4. FamiliesGrown
  BY <1>1, <1>2, <1>3 DEF FamiliesGrown, BuiltStores
<1>5. SamplesRendered
  BY <1>1, <1>2 DEF SamplesRendered
<1> QED
  BY <1>4, <1>5, InitBuild DEF FamilyInv

\* A build makes the stores, which have rendered nothing.
LEMMA BuildGrows ==
    ASSUME FamilyInv, NEW c \in Configs, NEW a \in [DOMAIN c -> Answers], Build(c, a)
    PROVE  FamilyInv'
<1>1. /\ config' = c /\ answers' = a /\ built' = StoresOf(c, a)
      /\ metrics' = [n \in DOMAIN built' |-> <<>>]
  BY DEF Build
<1>2. BuildInv'
  BY BuildKeeps DEF FamilyInv
<1>3. BuiltStores' = StoresOf(c, a)
  BY <1>1, Zenon DEF BuiltStores
<1>4. FamiliesGrown'
  BY <1>1, <1>3 DEF FamiliesGrown, Grown
<1>5. SamplesRendered'
  BY <1>1 DEF SamplesRendered
<1> QED
  BY <1>2, <1>4, <1>5 DEF FamilyInv

\* Rendering an object adds the labels of its store once more, to all its families.
LEMMA AddGrows ==
    ASSUME FamilyInv, NEW n \in DOMAIN built, NEW u \in UIDs, NEW x \in Contents, Add(n, u, x)
    PROVE  FamilyInv'
<1> DEFINE store == built[n]
           B == BuiltStores[n]
           families == [f \in DOMAIN store.families |->
                           InheritFamilyConfiguration(store.families[f], store)]
           samples == [f \in DOMAIN families |-> FamilySamples(families[f], x)]
           new == [store EXCEPT !.families = families]
<1>1. /\ config' = config /\ answers' = answers
      /\ built' = [built EXCEPT ![n] = new]
      /\ metrics' = [metrics EXCEPT ![n] = Put(metrics[n], u, samples)]
      /\ objects' = [objects EXCEPT ![n] = Put(objects[n], u, x)]
  BY DEF Add
<1>2. BuildInv'
  BY AddKeeps DEF FamilyInv
<1>3. BuiltStores' = BuiltStores
  BY <1>1, Zenon DEF BuiltStores
<1>4. /\ DOMAIN built = DOMAIN BuiltStores
      /\ \A m \in DOMAIN built :
            /\ built[m].labels = BuiltStores[m].labels
            /\ built[m].resolver = BuiltStores[m].resolver
            /\ DOMAIN built[m].families = DOMAIN BuiltStores[m].families
            /\ \A f \in DOMAIN built[m].families : Grown(built[m].families[f], BuiltStores[m], f)
  BY DEF FamilyInv, FamiliesGrown
<1>5. Whole(B)
  <2>1. Given(config, answers)
    BY DEF FamilyInv, BuildInv
  <2>2. n \in DOMAIN StoresOf(config, answers)
    BY <1>4 DEF BuiltStores
  <2> QED
    BY <2>1, <2>2, BuiltOfEntry DEF BuiltStores
<1>6. IsStore(store) /\ DOMAIN metrics = DOMAIN built /\ DOMAIN objects = DOMAIN built
      /\ \A m \in DOMAIN built : DOMAIN objects[m] = DOMAIN metrics[m]
  BY DEF FamilyInv, BuildInv, BuiltLikeKept, RenderedByFamily
<1>7. /\ new.families = families /\ new.labels = store.labels /\ new.resolver = store.resolver
      /\ DOMAIN families = DOMAIN store.families
  BY <1>6 DEF IsStore
<1>8. ASSUME NEW f \in DOMAIN store.families
      PROVE  \E added \in Labels(B) : families[f] = With(B, f, added)
  <2>1. families[f] = InheritFamilyConfiguration(store.families[f], store)
    OBVIOUS
  <2>2. Grown(store.families[f], B, f) /\ f \in DOMAIN B.families
        /\ store.labels = B.labels /\ store.resolver = B.resolver
    BY <1>4
  <2> HIDE DEF families, store, B
  <2>3. \E added \in Labels(B) :
            InheritFamilyConfiguration(store.families[f], store) = With(B, f, added)
    BY <1>5, <2>2, InheritsMore
  <2> QED
    BY <2>1, <2>3
<1>9. \A f \in DOMAIN store.families : samples[f] = FamilySamples(families[f], x)
  OBVIOUS
<1> HIDE DEF families, samples, new
<1>10. DOMAIN built' = DOMAIN built /\ built'[n] = new
      /\ \A m \in DOMAIN built : m # n => built'[m] = built[m]
  BY <1>1
<1>11. FamiliesGrown'
  <2>1. /\ new.labels = B.labels /\ new.resolver = B.resolver
        /\ DOMAIN new.families = DOMAIN B.families
        /\ \A f \in DOMAIN new.families : Grown(new.families[f], B, f)
    <3>1. \A f \in DOMAIN new.families : Grown(new.families[f], B, f)
      BY <1>7, <1>8 DEF Grown
    <3> QED
      BY <1>4, <1>7, <3>1
  <2>2. \A m \in DOMAIN built :
            /\ built'[m].labels = BuiltStores[m].labels
            /\ built'[m].resolver = BuiltStores[m].resolver
            /\ DOMAIN built'[m].families = DOMAIN BuiltStores[m].families
            /\ \A f \in DOMAIN built'[m].families :
                    Grown(built'[m].families[f], BuiltStores[m], f)
    <3> SUFFICES ASSUME NEW m \in DOMAIN built
                 PROVE  /\ built'[m].labels = BuiltStores[m].labels
                        /\ built'[m].resolver = BuiltStores[m].resolver
                        /\ DOMAIN built'[m].families = DOMAIN BuiltStores[m].families
                        /\ \A f \in DOMAIN built'[m].families :
                                Grown(built'[m].families[f], BuiltStores[m], f)
      OBVIOUS
    <3>1. CASE m = n
      BY <1>10, <2>1, <3>1
    <3>2. CASE m # n
      BY <1>4, <1>10, <3>2
    <3> QED
      BY <3>1, <3>2
  <2>3. DOMAIN built' = DOMAIN BuiltStores'
    BY <1>3, <1>4, <1>10
  <2> QED
    BY <1>3, <1>10, <2>2, <2>3 DEF FamiliesGrown, Grown
<1>12. SamplesRendered'
  <2>1. /\ DOMAIN metrics' = DOMAIN built
        /\ metrics'[n] = Put(metrics[n], u, samples) /\ objects'[n] = Put(objects[n], u, x)
        /\ \A m \in DOMAIN built : m # n => metrics'[m] = metrics[m] /\ objects'[m] = objects[m]
    BY <1>1, <1>6
  <2>2. /\ DOMAIN metrics'[n] = DOMAIN metrics[n] \cup {u}
        /\ metrics'[n][u] = samples /\ objects'[n][u] = x
        /\ \A v \in DOMAIN metrics[n] : v # u =>
                metrics'[n][v] = metrics[n][v] /\ objects'[n][v] = objects[n][v]
    BY <1>6, <2>1 DEF Put
  <2>3. RenderedOf(samples, B, x)
    <3>1. \A f \in DOMAIN B.families : f \in DOMAIN store.families
      BY <1>4
    <3> HIDE DEF store, B
    <3>2. ASSUME NEW f \in DOMAIN B.families
          PROVE  \E added \in Labels(B) : samples[f] = FamilySamples(With(B, f, added), x)
      <4>1. PICK added \in Labels(B) : families[f] = With(B, f, added)
        BY <1>8, <3>1
      <4>2. samples[f] = FamilySamples(families[f], x)
        BY <1>9, <3>1
      <4>3. samples[f] = FamilySamples(With(B, f, added), x)
        BY <4>1, <4>2, Zenon
      <4> QED
        BY <4>3
    <3> QED
      BY <3>2 DEF RenderedOf
  <2>4. \A m \in DOMAIN built : \A v \in DOMAIN metrics[m] :
            RenderedOf(metrics[m][v], BuiltStores[m], objects[m][v])
    BY DEF FamilyInv, SamplesRendered
  <2>5. ASSUME NEW m \in DOMAIN built, NEW v \in DOMAIN metrics'[m]
        PROVE  RenderedOf(metrics'[m][v], BuiltStores[m], objects'[m][v])
    <3>1. CASE m = n /\ v = u
      BY <2>2, <2>3, <3>1
    <3>2. CASE m = n /\ v # u
      BY <2>2, <2>4, <2>5, <3>2
    <3>3. CASE m # n
      BY <2>1, <2>4, <2>5, <3>3
    <3> QED
      BY <3>1, <3>2, <3>3
  <2>6. \A m \in DOMAIN built' : \A v \in DOMAIN metrics'[m] :
            RenderedOf(metrics'[m][v], BuiltStores'[m], objects'[m][v])
    BY <1>3, <1>10, <2>5
  <2> QED
    BY <2>6 DEF SamplesRendered, RenderedOf
<1> QED
  BY <1>2, <1>11, <1>12 DEF FamilyInv

\* Every step keeps the invariant.
LEMMA NextFamily == FamilyInv /\ [Next]_vars => FamilyInv'
<1> SUFFICES ASSUME FamilyInv, [Next]_vars PROVE FamilyInv'
  OBVIOUS
<1>1. CASE \E c \in Configs : \E a \in [DOMAIN c -> Answers] : Build(c, a)
  BY <1>1, BuildGrows
<1>2. CASE \E n \in DOMAIN built, u \in UIDs, x \in Contents : Add(n, u, x)
  BY <1>2, AddGrows
<1>3. CASE UNCHANGED vars
  <2>1. /\ config' = config /\ answers' = answers /\ built' = built /\ metrics' = metrics
        /\ objects' = objects
    BY <1>3 DEF vars, stores
  <2>2. BuiltStores' = BuiltStores
    BY <2>1, Zenon DEF BuiltStores
  <2>3. BuildInv'
    BY NextBuild DEF FamilyInv
  <2>4. FamiliesGrown'
    BY <2>1, <2>2 DEF FamilyInv, FamiliesGrown, Grown
  <2>5. SamplesRendered'
    BY <2>1, <2>2 DEF FamilyInv, SamplesRendered, RenderedOf
  <2> QED
    BY <2>3, <2>4, <2>5 DEF FamilyInv
<1> QED
  BY <1>1, <1>2, <1>3 DEF Next

\* So it always holds.
LEMMA AlwaysFamily == Spec => []FamilyInv
BY InitFamily, NextFamily, PTL DEF Spec

\* The elements of a sequence put after another.
LEMMA ConcatElements ==
    ASSUME NEW a, a \in Seq(ToSet(a)), NEW b, b \in Seq(ToSet(b))
    PROVE  a \o b \in Seq(ToSet(a \o b)) /\ ToSet(a \o b) = ToSet(a) \cup ToSet(b)
<1> DEFINE A == ToSet(a)
           B == ToSet(b)
           c == a \o b
           C == ToSet(c)
<1>1. A = {a[i] : i \in DOMAIN a} /\ B = {b[i] : i \in DOMAIN b} /\ C = {c[i] : i \in DOMAIN c}
  BY DEF ToSet
<1>2. a \in Seq(A) /\ b \in Seq(B)
  OBVIOUS
<1> HIDE DEF A, B, C
<1> DEFINE S == A \cup B
<1>3. a \in Seq(S) /\ b \in Seq(S)
  BY <1>2
<1> HIDE DEF S
<1>4. /\ Len(a) \in Nat /\ Len(b) \in Nat
      /\ DOMAIN a = 1 .. Len(a) /\ DOMAIN b = 1 .. Len(b)
      /\ DOMAIN c = 1 .. Len(a) + Len(b)
      /\ \A k \in 1 .. Len(a) : c[k] = a[k]
      /\ \A k \in Len(a) + 1 .. Len(a) + Len(b) : c[k] = b[k - Len(a)]
  BY <1>3
<1>5. c = [k \in DOMAIN c |-> c[k]]
  <2>1. c \in Seq(S)
    BY <1>3
  <2> HIDE DEF c
  <2> QED
    BY <2>1
<1> HIDE DEF c
<1>6. \A i \in 1 .. Len(a) : i \in DOMAIN c /\ c[i] = a[i]
  BY <1>4
<1>7. \A k \in 1 .. Len(b) : k + Len(a) \in DOMAIN c /\ c[k + Len(a)] = b[k]
  <2> SUFFICES ASSUME NEW k \in 1 .. Len(b)
               PROVE  k + Len(a) \in DOMAIN c /\ c[k + Len(a)] = b[k]
    OBVIOUS
  <2> DEFINE m == k + Len(a)
  <2>1. m \in Len(a) + 1 .. Len(a) + Len(b) /\ m - Len(a) = k /\ m \in 1 .. Len(a) + Len(b)
    BY <1>4
  <2> HIDE DEF m
  <2>2. m \in DOMAIN c /\ c[m] = b[k]
    BY <1>4, <2>1
  <2> QED
    BY <2>2 DEF m
<1>8. \A i \in DOMAIN c : i \in 1 .. Len(a) \/ i - Len(a) \in 1 .. Len(b)
  BY <1>4
<1>9. A \subseteq C
  BY <1>1, <1>4, <1>6
<1>10. B \subseteq C
  BY <1>1, <1>4, <1>7
<1>11. ASSUME NEW y \in C PROVE y \in A \cup B
  <2>1. PICK i \in DOMAIN c : y = c[i]
    BY <1>1
  <2>2. CASE i \in 1 .. Len(a)
    BY <1>1, <1>4, <1>6, <2>1, <2>2
  <2>3. CASE i - Len(a) \in 1 .. Len(b)
    <3>1. (i - Len(a)) + Len(a) = i
      BY <1>4, <2>1
    <3>2. c[i] = b[i - Len(a)]
      BY <1>7, <2>3, <3>1
    <3> QED
      BY <1>1, <1>4, <2>1, <2>3, <3>2
  <2> QED
    BY <1>8, <2>1, <2>2, <2>3
<1>12. c \in Seq(C)
  <2>1. \A i \in DOMAIN c : c[i] \in C
    BY <1>1
  <2> DEFINE l == Len(a) + Len(b)
  <2>2. l \in Nat /\ DOMAIN c = 1 .. l
    BY <1>4
  <2> HIDE DEF l
  <2>3. c \in [1 .. l -> C]
    BY <1>5, <2>1, <2>2
  <2> QED
    BY <2>2, <2>3
<1>13. C = A \cup B
  BY <1>9, <1>10, <1>11
<1> QED
  BY <1>12, <1>13 DEF A, B, C, c

\* A sequence is one of its elements.
LEMMA OfItsElements ==
    ASSUME NEW S, NEW s \in Seq(S)
    PROVE  s \in Seq(ToSet(s)) /\ ToSet(s) \subseteq S
<1>1. DOMAIN s = 1 .. Len(s) /\ Len(s) \in Nat /\ s = [i \in DOMAIN s |-> s[i]]
      /\ \A i \in DOMAIN s : s[i] \in S
  OBVIOUS
<1>2. ToSet(s) = {s[i] : i \in DOMAIN s}
  BY DEF ToSet
<1> DEFINE T == ToSet(s)
<1>3. (\A i \in DOMAIN s : s[i] \in T) /\ T \subseteq S
  BY <1>1, <1>2
<1> HIDE DEF T
<1>4. s \in [1 .. Len(s) -> T]
  BY <1>1, <1>3
<1>5. s \in Seq(T)
  BY <1>1, <1>4
<1> QED
  BY <1>3, <1>5 DEF T

\* The labels of a configured metric, with those its family has and inherits, can
\* be resolved on any object.
LEMMA MetricResolvable ==
    ASSUME NEW c \in Configs, NEW e \in DOMAIN c, NEW f \in DOMAIN c[e].families,
           NEW metric \in ToSet(c[e].families[f].metrics),
           NEW added \in Seq(ToSet(c[e].labels)),
           NEW x \in Contents
    PROVE  Resolvable(metric.labels \o (c[e].families[f].labels \o added), metric.value, x)
<1> DEFINE entry == c[e]
           F == entry.families[f]
           m == metric.labels
           own == F.labels
           labels == m \o (own \o added)
           all == m \o own \o entry.labels
<1>1. entry \in ToSet(c) /\ F \in ToSet(entry.families)
  BY Zenon DEF ToSet
<1>2. /\ entry.labels \in Seq(ToSet(entry.labels))
      /\ own \in Seq(ToSet(own))
      /\ m \in Seq(ToSet(m))
      /\ \A l \in ToSet(all) : l.name \in Nat
      /\ \A o \in {metric.value} \cup {l.value : l \in ToSet(all)} :
            x[o].list \in Seq(Nat) /\ IsFiniteSet(DOMAIN x[o].map)
  BY <1>1, ContentsAssumption, Zenon
<1> HIDE DEF entry, F, m, own
<1>3. added \in Seq(ToSet(added)) /\ ToSet(added) \subseteq ToSet(entry.labels)
  <2> DEFINE S == ToSet(entry.labels)
  <2>1. added \in Seq(S)
    BY DEF entry
  <2> HIDE DEF S
  <2>2. added \in Seq(ToSet(added)) /\ ToSet(added) \subseteq S
    BY <2>1, OfItsElements
  <2> QED
    BY <2>2 DEF S
<1>4. labels \in Seq(ToSet(labels))
      /\ ToSet(labels) = ToSet(m) \cup (ToSet(own) \cup ToSet(added))
  <2> DEFINE k == own \o added
  <2>1. k \in Seq(ToSet(k)) /\ ToSet(k) = ToSet(own) \cup ToSet(added)
    BY <1>2, <1>3, ConcatElements
  <2> HIDE DEF k
  <2>2. m \o k \in Seq(ToSet(m \o k)) /\ ToSet(m \o k) = ToSet(m) \cup ToSet(k)
    BY <1>2, <2>1, ConcatElements
  <2> QED
    BY <2>1, <2>2 DEF k
<1>5. ToSet(all) = (ToSet(m) \cup ToSet(own)) \cup ToSet(entry.labels)
  <2> DEFINE k == m \o own
             l == entry.labels
  <2>1. k \in Seq(ToSet(k)) /\ ToSet(k) = ToSet(m) \cup ToSet(own)
    BY <1>2, ConcatElements
  <2>2. l \in Seq(ToSet(l))
    BY <1>2
  <2> HIDE DEF k, l
  <2>3. ToSet(k \o l) = ToSet(k) \cup ToSet(l)
    BY <2>1, <2>2, ConcatElements
  <2> QED
    BY <2>1, <2>3 DEF k, l
<1> HIDE DEF labels, all
<1>6. ToSet(labels) \subseteq ToSet(all)
  BY <1>3, <1>4, <1>5
<1>7. \A l \in ToSet(labels) :
        /\ l.name \in Nat
        /\ x[l.value].list \in Seq(Nat)
        /\ IsFiniteSet(DOMAIN x[l.value].map)
  <2> SUFFICES ASSUME NEW l \in ToSet(labels)
               PROVE  /\ l.name \in Nat
                      /\ x[l.value].list \in Seq(Nat)
                      /\ IsFiniteSet(DOMAIN x[l.value].map)
    OBVIOUS
  <2>1. l \in ToSet(all)
    BY <1>6
  <2>2. l.value \in {metric.value} \cup {k.value : k \in ToSet(all)}
    BY <2>1
  <2> QED
    BY <1>2, <2>1, <2>2, Zenon
<1>8. x[metric.value].list \in Seq(Nat)
  <2>1. metric.value \in {metric.value} \cup {k.value : k \in ToSet(all)}
    OBVIOUS
  <2> QED
    BY <1>2, <2>1, Zenon
<1>9. Resolvable(labels, metric.value, x)
  BY <1>4, <1>7, <1>8, Zenon DEF Resolvable
<1> QED
  BY <1>9, Zenon DEF labels, m, own, F, entry

\* The families of the stores in the map are configured ones with labels added.
LEMMA ConfiguredFamily ==
    ASSUME FamilyInv, NEW n \in DOMAIN built, NEW f \in DOMAIN built[n].families
    PROVE  /\ config \in Configs
           /\ \E e \in DOMAIN config : \E added \in Seq(ToSet(config[e].labels)) :
                /\ f \in DOMAIN config[e].families
                /\ built[n].families[f].metrics = config[e].families[f].metrics
                /\ built[n].families[f].labels = config[e].families[f].labels \o added
<1> DEFINE B == BuiltStores[n]
           family == built[n].families[f]
<1>1. Given(config, answers)
  BY DEF FamilyInv, BuildInv
<1>2. n \in DOMAIN BuiltStores /\ f \in DOMAIN B.families /\ Grown(family, B, f)
  BY DEF FamilyInv, FamiliesGrown
<1>3. Whole(B) /\ \E e \in DOMAIN config : OfEntry(B, config[e])
  BY <1>1, <1>2, BuiltOfEntry DEF BuiltStores
<1>4. PICK e \in DOMAIN config : OfEntry(B, config[e])
  BY <1>3
<1> HIDE DEF B, family
<1>5. config \in Configs
  <2>1. config # <<>>
    BY <1>4
  <2> QED
    BY <1>1, <2>1 DEF Given
<1> DEFINE L == config[e].families[f].labels
           M == config[e].families[f].metrics
<1>6. f \in DOMAIN config[e].families /\ B.families[f].labels = L /\ B.families[f].metrics = M
  BY <1>2, <1>4 DEF OfEntry
<1>7. L \in Seq(ToSet(L)) /\ DOMAIN B.families[f] = FamilyFields
  BY <1>2, <1>3, <1>6 DEF Whole
<1>8. Labels(B) = Seq(ToSet(config[e].labels))
  BY <1>4 DEF Labels, OfEntry
<1> HIDE DEF L, M
<1>9. CASE family = B.families[f]
  <2> DEFINE T == ToSet(config[e].labels)
             K == ToSet(L)
  <2>1. L \in Seq(K)
    BY <1>7
  <2> HIDE DEF T, K
  <2>2. L = L \o <<>> /\ <<>> \in Seq(T)
    BY <2>1
  <2> QED
    BY <1>5, <1>6, <1>9, <2>2 DEF T, L, M, family
<1>10. CASE \E added \in Labels(B) : family = With(B, f, added)
  <2>1. PICK added \in Labels(B) : family = With(B, f, added)
    BY <1>10
  <2>2. /\ With(B, f, added).labels = B.families[f].labels \o added
        /\ With(B, f, added).metrics = B.families[f].metrics
    BY <1>7 DEF With, FamilyFields
  <2>3. family.labels = L \o added /\ family.metrics = M
    BY <1>6, <2>1, <2>2
  <2> QED
    BY <1>5, <1>6, <1>8, <2>1, <2>3 DEF L, M, family
<1> QED
  BY <1>2, <1>9, <1>10 DEF Grown

\* So the metrics of all stores have labels that can be resolved on any object.
LEMMA AnyMetricResolvable ==
    ASSUME FamilyInv, NEW n \in DOMAIN built, NEW f \in DOMAIN built[n].families,
           NEW metric \in ToSet(built[n].families[f].metrics), NEW x \in Contents
    PROVE  Resolvable(metric.labels \o built[n].families[f].labels, metric.value, x)
<1> DEFINE family == built[n].families[f]
<1>1. config \in Configs
  BY ConfiguredFamily
<1>2. PICK e \in DOMAIN config : \E added \in Seq(ToSet(config[e].labels)) :
            /\ f \in DOMAIN config[e].families
            /\ family.metrics = config[e].families[f].metrics
            /\ family.labels = config[e].families[f].labels \o added
  BY ConfiguredFamily
<1> HIDE DEF family
<1>3. PICK added \in Seq(ToSet(config[e].labels)) :
            /\ f \in DOMAIN config[e].families
            /\ family.metrics = config[e].families[f].metrics
            /\ family.labels = config[e].families[f].labels \o added
  BY <1>2
<1>4. metric \in ToSet(config[e].families[f].metrics)
  BY <1>3 DEF family
<1>5. Resolvable(metric.labels \o (config[e].families[f].labels \o added), metric.value, x)
  BY <1>1, <1>3, <1>4, MetricResolvable
<1> QED
  BY <1>3, <1>5, Zenon DEF family

----------------------------------------------------------------------------
(* Labels and values stay together.                                          *)

\* What is put together index by index is seen as often as it is there.
LEMMA FamilyLabels == FamilyInv => LabelsStayWithValues
<1> SUFFICES ASSUME FamilyInv, NEW n \in DOMAIN built, NEW family \in ToSet(built[n].families),
                    NEW metric \in ToSet(family.metrics), NEW x \in Contents
             PROVE  LET labels == metric.labels \o family.labels
                        lists == Expanding(labels, x)
                        values == x[metric.value].list
                        names == Sorted(DOMAIN lists)
                        fixed == Len(Fixed(labels, x))
                        samples == Expansion(labels, metric.value, x)
                        Sample(i) == <<[k \in DOMAIN names |-> lists[names[k]][i]], values[i]>>
                        Seen(i) == <<[k \in DOMAIN names |-> samples[i].labels[fixed + k][2]],
                                     samples[i].value>>
                    IN  (lists # <<>> /\ \A k \in DOMAIN lists : Len(lists[k]) = Len(values)) =>
                            /\ Len(samples) = Len(values)
                            /\ \A i \in DOMAIN values :
                                Cardinality({j \in DOMAIN values : Seen(j) = Sample(i)})
                                    = Cardinality({j \in DOMAIN values : Sample(j) = Sample(i)})
  BY Zenon DEF LabelsStayWithValues
<1> DEFINE labels == metric.labels \o family.labels
           lists == Expanding(labels, x)
           values == x[metric.value].list
           names == Sorted(DOMAIN lists)
           fixed == Len(Fixed(labels, x))
           samples == Expansion(labels, metric.value, x)
           Sample(i) == <<[k \in DOMAIN names |-> lists[names[k]][i]], values[i]>>
           Seen(i) == <<[k \in DOMAIN names |-> samples[i].labels[fixed + k][2]],
                        samples[i].value>>
<1> SUFFICES ASSUME lists # <<>>, \A k \in DOMAIN lists : Len(lists[k]) = Len(values)
             PROVE  /\ Len(samples) = Len(values)
                    /\ \A i \in DOMAIN values :
                        Cardinality({j \in DOMAIN values : Seen(j) = Sample(i)})
                            = Cardinality({j \in DOMAIN values : Sample(j) = Sample(i)})
  OBVIOUS
<1>1. PICK f \in DOMAIN built[n].families : family = built[n].families[f]
  BY DEF ToSet
<1>2. Resolvable(labels, metric.value, x)
  BY <1>1, AnyMetricResolvable
<1>3. values \in Seq(Nat)
  BY <1>2 DEF Resolvable
<1> HIDE DEF labels
<1>4. Len(samples) = Len(values)
  BY <1>2, SamplesOfLists
<1>5. \E order \in Bijection(DOMAIN values, DOMAIN values) :
        \A i \in DOMAIN values :
            /\ samples[i].value = values[order[i]]
            /\ \A k \in DOMAIN names :
                samples[i].labels[fixed + k][2] = lists[names[k]][order[i]]
  BY <1>2, SamplesOfLists
<1> HIDE DEF lists, values, names, fixed, samples
<1>6. PICK order \in Bijection(DOMAIN values, DOMAIN values) :
        \A i \in DOMAIN values :
            /\ samples[i].value = values[order[i]]
            /\ \A k \in DOMAIN names :
                samples[i].labels[fixed + k][2] = lists[names[k]][order[i]]
  BY <1>5
<1> DEFINE D == DOMAIN values
           seen == [i \in D |-> Seen(i)]
           given == [i \in D |-> Sample(i)]
<1>7. IsFiniteSet(D)
  <2>1. D = 1 .. Len(values) /\ Len(values) \in Nat
    BY <1>3
  <2> QED
    BY <2>1, FS_Interval
<1>8. \A i \in D : order[i] \in D
  BY DEF Bijection, Injection
<1>9. ASSUME NEW i \in D PROVE Seen(i) = Sample(order[i])
  <2>1. samples[i].value = values[order[i]]
        /\ \A k \in DOMAIN names : samples[i].labels[fixed + k][2] = lists[names[k]][order[i]]
    BY <1>6
  <2>2. [k \in DOMAIN names |-> samples[i].labels[fixed + k][2]]
            = [k \in DOMAIN names |-> lists[names[k]][order[i]]]
    BY <2>1
  <2> QED
    BY <2>1, <2>2
<1> HIDE DEF Seen, Sample
<1>10. \A i \in D : seen[i] = given[order[i]]
  BY <1>8, <1>9
<1>11. (\A i \in D : seen[i] = Seen(i)) /\ (\A i \in D : given[i] = Sample(i))
  OBVIOUS
<1> HIDE DEF D, seen, given
<1>12. \A s : Cardinality({j \in D : seen[j] = s}) = Cardinality({j \in D : given[j] = s})
  <2>1. order \in Bijection(D, D)
    BY DEF D
  <2>2. AsOften(D, seen, given)
    BY <1>7, <1>10, <2>1, SeenAsOften
  <2> QED
    BY <2>2 DEF AsOften
<1>13. \A s : {j \in D : seen[j] = s} = {j \in D : Seen(j) = s}
              /\ {j \in D : given[j] = s} = {j \in D : Sample(j) = s}
  BY <1>11
<1>14. \A s : Cardinality({j \in D : Seen(j) = s}) = Cardinality({j \in D : Sample(j) = s})
  BY <1>12, <1>13
<1> QED
  BY <1>4, <1>14 DEF D

\* The values of a metric stay with the labels of their index, whatever order its
\* lists are brought into, in every store and on every object.
THEOREM LabelsAlwaysStayWithValues == Spec => []LabelsStayWithValues
BY AlwaysFamily, FamilyLabels, PTL

----------------------------------------------------------------------------
(* Sequences put end to end, one by one.                                     *)

\* What holds of 0, and of every number with the one before, holds up to any.
LEMMA UpTo ==
    ASSUME NEW n \in Nat, NEW T, 0 \in T, \A k \in 1 .. n : k - 1 \in T => k \in T
    PROVE  \A k \in 0 .. n : k \in T
<1> DEFINE Bad == {k \in 0 .. n : k \notin T}
<1>1. SUFFICES ASSUME Bad # {} PROVE FALSE
  OBVIOUS
<1>2. PICK m \in Bad : \A k \in Bad : m <= k
  <2>1. Bad \subseteq Nat
    OBVIOUS
  <2> HIDE DEF Bad
  <2> QED
    BY <1>1, <2>1, LeastNumber
<1>3. m \in Nat /\ m <= n /\ m \notin T /\ m # 0
  OBVIOUS
<1>4. m - 1 \in 0 .. n /\ ~(m <= m - 1) /\ m \in 1 .. n
  BY <1>3
<1>5. m - 1 \notin Bad
  <2> HIDE DEF Bad
  <2> QED
    BY <1>2, <1>4
<1>6. m - 1 \in T
  BY <1>4, <1>5
<1> QED
  BY <1>3, <1>4, <1>6

\* sums[k] is the first k sequences of seqs end to end.
Sums(sums, seqs, S) ==
    /\ \A k \in 0 .. Len(seqs) : sums[k] \in Seq(S)
    /\ sums[0] = <<>>
    /\ \A k \in 1 .. Len(seqs) : sums[k] = sums[k - 1] \o seqs[k]
    /\ FlattenSeq(seqs) = sums[Len(seqs)]

\* FlattenSeq is the last of them.
LEMMA FlattenSums ==
    ASSUME NEW S, NEW seqs \in Seq(Seq(S))
    PROVE  \E sums : Sums(sums, seqs, S)
<1> DEFINE n == Len(seqs)
<1>1. n \in Nat /\ \A k \in 1 .. n : seqs[k] \in Seq(S)
  OBVIOUS
<1>2. CASE n = 0
  <2> DEFINE sums == [k \in 0 .. 0 |-> <<>>]
  <2>1. FlattenSeq(seqs) = <<>>
    BY <1>2 DEF FlattenSeq
  <2>2. sums[0] = <<>> /\ <<>> \in Seq(S) /\ \A k \in 0 .. 0 : k = 0
    OBVIOUS
  <2> HIDE DEF sums
  <2>3. \A k \in 0 .. n : sums[k] \in Seq(S)
    BY <1>2, <2>2
  <2>4. FlattenSeq(seqs) = sums[n]
    BY <1>2, <2>1, <2>2
  <2>5. \A k \in 1 .. n : sums[k] = sums[k - 1] \o seqs[k]
    BY <1>2
  <2> HIDE DEF n
  <2>6. Sums(sums, seqs, S)
    BY <2>2, <2>3, <2>4, <2>5, Zenon DEF Sums, n
  <2> QED
    BY <2>6
<1>3. CASE n # 0
  <2>1. PICK f : FlattenSeq(seqs) = f[n] /\ Solves(f, seqs, n)
    BY <1>1, <1>3, FlattenUnfold
  <2> DEFINE sums == [k \in 0 .. n |-> IF k = 0 THEN <<>> ELSE f[k]]
  <2>2. sums[0] = <<>> /\ (\A k \in 1 .. n : sums[k] = f[k]) /\ sums[n] = f[n]
    BY <1>1, <1>3
  <2>3. \A k \in 1 .. n : f[k] = IF k = 1 THEN seqs[k] ELSE f[k - 1] \o seqs[k]
    BY <2>1, Zenon DEF Solves
  <2> HIDE DEF sums, n
  <2>4. ASSUME NEW k \in 1 .. n PROVE sums[k] = sums[k - 1] \o seqs[k]
    <3>1. CASE k = 1
      <4>1. seqs[1] \in Seq(S)
        BY <1>1, <3>1
      <4> DEFINE s == seqs[1]
      <4>2. <<>> \o s = s
        <5> HIDE DEF s
        <5> QED
          BY <4>1 DEF s
      <4>3. 1 \in 1 .. n
        BY <3>1
      <4>4. sums[1] = f[1] /\ f[1] = s
        BY <2>2, <2>3, <4>3
      <4> HIDE DEF s
      <4>5. sums[1] = sums[0] \o s
        BY <2>2, <4>2, <4>4
      <4>6. k - 1 = 0
        BY <3>1
      <4> QED
        BY <3>1, <4>5, <4>6 DEF s
    <3>2. CASE k # 1
      <4>1. k - 1 \in 1 .. n
        BY <1>1, <3>2
      <4> QED
        BY <2>2, <2>3, <3>2, <4>1
    <3> QED
      BY <3>1, <3>2
  <2> DEFINE T == {k \in 0 .. n : sums[k] \in Seq(S)}
  <2>5. 0 \in T
    <3>1. <<>> \in Seq(S) /\ 0 \in 0 .. n
      BY <1>1
    <3> QED
      BY <2>2, <3>1
  <2>6. ASSUME NEW k \in 1 .. n, k - 1 \in T PROVE k \in T
    <3> DEFINE s == sums[k - 1]
               t == seqs[k]
    <3>1. s \in Seq(S) /\ t \in Seq(S)
      BY <1>1, <2>6
    <3> HIDE DEF s, t
    <3>2. s \o t \in Seq(S)
      BY <3>1
    <3>3. sums[k] = s \o t
      BY <2>4 DEF s, t
    <3>4. sums[k] \in Seq(S)
      BY <3>2, <3>3
    <3>5. k \in 0 .. n
      BY <1>1
    <3> QED
      BY <3>4, <3>5
  <2>7. \A k \in 0 .. n : k \in T
    <3> HIDE DEF T
    <3> QED
      BY <1>1, <2>5, <2>6, UpTo
  <2>8. \A k \in 0 .. n : sums[k] \in Seq(S)
    BY <2>7
  <2>9. Sums(sums, seqs, S)
    BY <2>1, <2>2, <2>4, <2>8 DEF Sums, n
  <2> QED
    BY <2>9
<1> QED
  BY <1>2, <1>3

\* Empty sequences at the end add nothing.
LEMMA FlattenTrailing ==
    ASSUME NEW S, NEW short \in Seq(Seq(S)), NEW long \in Seq(Seq(S)),
           Len(short) <= Len(long),
           \A i \in 1 .. Len(short) : long[i] = short[i],
           \A i \in Len(short) + 1 .. Len(long) : long[i] = <<>>
    PROVE  FlattenSeq(long) = FlattenSeq(short)
<1> DEFINE n == Len(short)
           m == Len(long)
<1>1. n \in Nat /\ m \in Nat /\ n <= m
  OBVIOUS
<1>2. PICK s : Sums(s, short, S)
  BY FlattenSums
<1>3. PICK l : Sums(l, long, S)
  BY FlattenSums
<1>4. /\ s[0] = <<>> /\ FlattenSeq(short) = s[n]
      /\ \A k \in 1 .. n : s[k] = s[k - 1] \o short[k]
  BY <1>2 DEF Sums
<1>5. /\ \A k \in 0 .. m : l[k] \in Seq(S)
      /\ l[0] = <<>> /\ FlattenSeq(long) = l[m]
      /\ \A k \in 1 .. m : l[k] = l[k - 1] \o long[k]
  BY <1>3 DEF Sums
<1>6. /\ \A k \in 1 .. n : long[k] = short[k]
      /\ \A k \in n + 1 .. m : long[k] = <<>>
  OBVIOUS
<1> HIDE DEF n, m
<1>7. l[n] = s[n]
  <2> DEFINE T == {k \in 0 .. n : l[k] = s[k]}
  <2>1. 0 \in T
    BY <1>1, <1>4, <1>5
  <2>2. ASSUME NEW k \in 1 .. n, k - 1 \in T PROVE k \in T
    <3>1. k \in 1 .. m /\ k \in 0 .. n
      BY <1>1
    <3>2. l[k] = l[k - 1] \o long[k] /\ s[k] = s[k - 1] \o short[k]
      BY <1>4, <1>5, <3>1
    <3>3. l[k - 1] = s[k - 1] /\ long[k] = short[k]
      BY <1>6, <2>2
    <3> QED
      BY <3>1, <3>2, <3>3
  <2>3. \A k \in 0 .. n : k \in T
    <3> HIDE DEF T
    <3> QED
      BY <1>1, <2>1, <2>2, UpTo
  <2>4. n \in T
    <3>1. n \in 0 .. n
      BY <1>1
    <3> HIDE DEF T
    <3> QED
      BY <2>3, <3>1
  <2> QED
    BY <2>4
<1>8. l[m] = l[n]
  <2> DEFINE d == m - n
             T == {k \in 0 .. d : l[n + k] = l[n]}
  <2>1. d \in Nat /\ n + d = m
    BY <1>1
  <2>2. 0 \in T
    BY <1>1, <2>1
  <2>3. ASSUME NEW k \in 1 .. d, k - 1 \in T PROVE k \in T
    <3>1. n + k \in n + 1 .. m /\ n + k \in 1 .. m /\ (n + k) - 1 = n + (k - 1)
          /\ n + (k - 1) \in 0 .. m /\ k \in 0 .. d
      BY <1>1, <2>1
    <3>2. l[n + k] = l[n + (k - 1)] \o <<>>
      <4>1. \A j \in 1 .. m : j \in n + 1 .. m => l[j] = l[j - 1] \o <<>>
        BY <1>5, <1>6
      <4> QED
        BY <3>1, <4>1
    <3> DEFINE t == l[n + (k - 1)]
    <3>3. t \in Seq(S)
      BY <1>5, <3>1
    <3>4. t \o <<>> = t
      <4> HIDE DEF t
      <4> QED
        BY <3>3
    <3>5. l[n + (k - 1)] = l[n]
      BY <2>3
    <3> QED
      BY <3>1, <3>2, <3>4, <3>5
  <2>4. \A k \in 0 .. d : k \in T
    <3> HIDE DEF T, d
    <3> QED
      BY <2>1, <2>2, <2>3, UpTo
  <2>5. d \in T
    <3>1. d \in 0 .. d
      BY <2>1
    <3> HIDE DEF T, d
    <3> QED
      BY <2>4, <3>1
  <2>6. l[n + d] = l[n]
    BY <2>5
  <2> QED
    BY <2>1, <2>6
<1> QED
  BY <1>4, <1>5, <1>7, <1>8

\* Two lists of samples with the same values.
SameValues(s, t) == DOMAIN s = DOMAIN t /\ \A i \in DOMAIN s : s[i].value = t[i].value

\* Put end to end with others such they still have the same values.
LEMMA ConcatSameValues ==
    ASSUME NEW S, NEW T, NEW a \in Seq(S), NEW b \in Seq(S), NEW c \in Seq(T), NEW d \in Seq(T),
           SameValues(a, c), SameValues(b, d)
    PROVE  SameValues(a \o b, c \o d)
<1> DEFINE l == Len(a)
           m == Len(b)
           ab == a \o b
           cd == c \o d
<1>1. /\ l \in Nat /\ m \in Nat /\ DOMAIN a = 1 .. l /\ DOMAIN b = 1 .. m
      /\ DOMAIN ab = 1 .. l + m
      /\ \A k \in 1 .. l : ab[k] = a[k]
      /\ \A k \in l + 1 .. l + m : ab[k] = b[k - l]
  OBVIOUS
<1>2. /\ DOMAIN c = DOMAIN a /\ DOMAIN d = DOMAIN b
      /\ \A k \in DOMAIN a : a[k].value = c[k].value
      /\ \A k \in DOMAIN b : b[k].value = d[k].value
  BY DEF SameValues
<1>3. Len(c) = l /\ Len(d) = m
  <2>1. Len(c) \in Nat /\ DOMAIN c = 1 .. Len(c) /\ Len(d) \in Nat /\ DOMAIN d = 1 .. Len(d)
    OBVIOUS
  <2> HIDE DEF l, m
  <2> QED
    BY <1>1, <1>2, <2>1
<1>4. /\ DOMAIN cd = 1 .. l + m
      /\ \A k \in 1 .. l : cd[k] = c[k]
      /\ \A k \in l + 1 .. l + m : cd[k] = d[k - l]
  <2>1. /\ DOMAIN cd = 1 .. Len(c) + Len(d)
        /\ \A k \in 1 .. Len(c) : cd[k] = c[k]
        /\ \A k \in Len(c) + 1 .. Len(c) + Len(d) : cd[k] = d[k - Len(c)]
    OBVIOUS
  <2> HIDE DEF cd, l, m
  <2> QED
    BY <1>3, <2>1
<1> HIDE DEF l, m, ab, cd
<1>5. ASSUME NEW k \in 1 .. l + m PROVE ab[k].value = cd[k].value
  <2>1. CASE k \in 1 .. l
    BY <1>1, <1>2, <1>4, <2>1
  <2>2. CASE k \notin 1 .. l
    <3>1. k \in l + 1 .. l + m /\ k - l \in 1 .. m
      BY <1>1, <2>2
    <3>2. ab[k] = b[k - l] /\ cd[k] = d[k - l]
      BY <1>1, <1>4, <3>1
    <3>3. b[k - l].value = d[k - l].value
      BY <1>1, <1>2, <3>1
    <3> QED
      BY <3>2, <3>3
  <2> QED
    BY <2>1, <2>2
<1>6. SameValues(ab, cd)
  BY <1>1, <1>4, <1>5 DEF SameValues
<1> QED
  BY <1>6 DEF ab, cd

\* So do any number of them.
LEMMA FlattenSameValues ==
    ASSUME NEW S, NEW T, NEW a \in Seq(Seq(S)), NEW b \in Seq(Seq(T)),
           Len(a) = Len(b), \A i \in 1 .. Len(a) : SameValues(a[i], b[i])
    PROVE  SameValues(FlattenSeq(a), FlattenSeq(b))
<1> DEFINE n == Len(a)
<1>1. n \in Nat /\ (\A k \in 1 .. n : a[k] \in Seq(S)) /\ \A k \in 1 .. n : b[k] \in Seq(T)
  OBVIOUS
<1>2. PICK s : Sums(s, a, S)
  BY FlattenSums
<1>3. PICK t : Sums(t, b, T)
  BY FlattenSums
<1>4. /\ \A k \in 0 .. n : s[k] \in Seq(S)
      /\ s[0] = <<>> /\ FlattenSeq(a) = s[n]
      /\ \A k \in 1 .. n : s[k] = s[k - 1] \o a[k]
  BY <1>2 DEF Sums
<1>5. /\ \A k \in 0 .. n : t[k] \in Seq(T)
      /\ t[0] = <<>> /\ FlattenSeq(b) = t[n]
      /\ \A k \in 1 .. n : t[k] = t[k - 1] \o b[k]
  BY <1>3 DEF Sums
<1>6. \A k \in 1 .. n : SameValues(a[k], b[k])
  OBVIOUS
<1> HIDE DEF n
<1> DEFINE G == {k \in 0 .. n : SameValues(s[k], t[k])}
<1>7. 0 \in G
  <2>1. SameValues(<<>>, <<>>)
    BY DEF SameValues
  <2> QED
    BY <1>1, <1>4, <1>5, <2>1
<1>8. ASSUME NEW k \in 1 .. n, k - 1 \in G PROVE k \in G
  <2>1. k - 1 \in 0 .. n /\ k \in 0 .. n
    BY <1>1
  <2>2. SameValues(s[k - 1], t[k - 1]) /\ SameValues(a[k], b[k])
    BY <1>6, <1>8
  <2>3. s[k - 1] \in Seq(S) /\ a[k] \in Seq(S) /\ t[k - 1] \in Seq(T) /\ b[k] \in Seq(T)
    BY <1>1, <1>4, <1>5, <2>1
  <2>4. SameValues(s[k - 1] \o a[k], t[k - 1] \o b[k])
    BY <2>2, <2>3, ConcatSameValues
  <2>5. SameValues(s[k], t[k])
    BY <1>4, <1>5, <2>4
  <2> QED
    BY <2>1, <2>5
<1>9. \A k \in 0 .. n : k \in G
  <2> HIDE DEF G
  <2> QED
    BY <1>1, <1>7, <1>8, UpTo
<1>10. n \in G
  <2>1. n \in 0 .. n
    BY <1>1
  <2> HIDE DEF G
  <2> QED
    BY <1>9, <2>1
<1> QED
  BY <1>4, <1>5, <1>10

\* A sequence of sequences is one of sequences of some elements.
LEMMA OfSequences ==
    ASSUME NEW s, s \in Seq(ToSet(s)), NEW seqs, seqs = [i \in DOMAIN s |-> seqs[i]],
           \A i \in DOMAIN s : seqs[i] \in Seq(ToSet(seqs[i]))
    PROVE  \E S : seqs \in Seq(Seq(S))
<1> DEFINE S == UNION {ToSet(seqs[i]) : i \in DOMAIN s}
<1>1. DOMAIN s = 1 .. Len(s) /\ Len(s) \in Nat
  OBVIOUS
<1>2. ASSUME NEW i \in DOMAIN s PROVE seqs[i] \in Seq(S)
  <2> DEFINE E == ToSet(seqs[i])
             t == seqs[i]
  <2>1. E \subseteq S /\ t \in Seq(E)
    OBVIOUS
  <2> HIDE DEF S, E, t
  <2>2. t \in Seq(S)
    BY <2>1
  <2> QED
    BY <2>2 DEF t
<1> HIDE DEF S
<1>3. seqs \in [1 .. Len(s) -> Seq(S)]
  BY <1>1, <1>2
<1>4. seqs \in Seq(Seq(S))
  BY <1>1, <1>3
<1> QED
  BY <1>4

----------------------------------------------------------------------------
(* Labels that are scalars change the samples in nothing but their labels.   *)

\* The lists of the labels for a name are lists of strings.
LEMMA ListsOfStrings ==
    ASSUME NEW labels, NEW value, NEW resolved, Resolvable(labels, value, resolved), NEW n
    PROVE  /\ ListsNamed(labels, resolved, n) \in Seq(Seq(Nat))
           /\ Len(ListsNamed(labels, resolved, n)) = Len(labels)
<1> DEFINE seqs == ListsNamed(labels, resolved, n)
<1>1. DOMAIN labels = 1 .. Len(labels) /\ Len(labels) \in Nat
  BY DEF Resolvable
<1>2. \A i \in DOMAIN labels : labels[i] \in ToSet(labels)
  BY Zenon DEF ToSet
<1>3. ASSUME NEW i \in DOMAIN labels PROVE seqs[i] \in Seq(Nat)
  <2>1. resolved[labels[i].value].list \in Seq(Nat)
    BY <1>2 DEF Resolvable
  <2>2. seqs[i] = ListOf(resolved, labels[i], n)
    BY DEF ListsNamed
  <2>3. <<>> \in Seq(Nat)
    OBVIOUS
  <2> HIDE DEF seqs
  <2> QED
    BY <2>1, <2>2, <2>3, Zenon DEF ListOf
<1>4. DOMAIN seqs = DOMAIN labels /\ seqs = [i \in DOMAIN labels |-> seqs[i]]
  BY DEF ListsNamed
<1> HIDE DEF seqs
<1>5. seqs \in [1 .. Len(labels) -> Seq(Nat)]
  BY <1>1, <1>3, <1>4
<1>6. seqs \in Seq(Seq(Nat)) /\ Len(seqs) = Len(labels)
  BY <1>1, <1>5
<1> QED
  BY <1>6 DEF seqs

\* Scalars put after the labels expand to nothing.
LEMMA ScalarsExpandNothing ==
    ASSUME NEW base, base \in Seq(ToSet(base)), NEW added, added \in Seq(ToSet(added)),
           NEW value, NEW grown, NEW resolved,
           Resolvable(base \o added, value, grown), Resolvable(base, value, resolved),
           \A l \in ToSet(base) : grown[l.value] = resolved[l.value],
           \A l \in ToSet(added) : grown[l.value].scalar
    PROVE  Expanding(base \o added, grown) = Expanding(base, resolved)
<1> DEFINE n == Len(base)
           m == Len(added)
           labels == base \o added
<1>1. n \in Nat /\ m \in Nat /\ DOMAIN base = 1 .. n /\ DOMAIN added = 1 .. m
  OBVIOUS
<1>0. Resolvable(labels, value, grown)
  OBVIOUS
<1>2. /\ DOMAIN labels = 1 .. n + m /\ Len(labels) = n + m
      /\ \A i \in 1 .. n : labels[i] = base[i]
      /\ \A i \in n + 1 .. n + m : labels[i] = added[i - n]
  <2> DEFINE S == ToSet(base)
             T == ToSet(added)
  <2>1. base \in Seq(S) /\ added \in Seq(T)
    OBVIOUS
  <2> HIDE DEF S, T
  <2>2. base \in Seq(S \cup T) /\ added \in Seq(S \cup T)
    BY <2>1
  <2> QED
    BY <2>2
<1>3. (\A i \in 1 .. n : base[i] \in ToSet(base)) /\ \A i \in 1 .. m : added[i] \in ToSet(added)
  BY <1>1, Zenon DEF ToSet
<1> HIDE DEF n, m, labels
<1>4. \A i \in 1 .. n : grown[labels[i].value] = resolved[base[i].value] /\ labels[i] = base[i]
  BY <1>2, <1>3
<1>5. ASSUME NEW i \in n + 1 .. n + m PROVE grown[labels[i].value].scalar
  <2>1. i - n \in 1 .. m /\ labels[i] = added[i - n]
    BY <1>1, <1>2
  <2> QED
    BY <1>3, <2>1
<1>6. \A i \in DOMAIN labels : i \in 1 .. n \/ i \in n + 1 .. n + m
  BY <1>1, <1>2
<1>7. \A i \in 1 .. n : i \in DOMAIN labels
  BY <1>1, <1>2
<1>8. ExpandingNames(labels, grown) = ExpandingNames(base, resolved)
  BY <1>1, <1>4, <1>5, <1>6, <1>7 DEF ExpandingNames
<1>9. ASSUME NEW k
      PROVE  FlattenSeq(ListsNamed(labels, grown, k)) = FlattenSeq(ListsNamed(base, resolved, k))
  <2> DEFINE long == ListsNamed(labels, grown, k)
             short == ListsNamed(base, resolved, k)
  <2>1. long \in Seq(Seq(Nat)) /\ Len(long) = n + m
    BY <1>0, <1>2, ListsOfStrings
  <2>2. short \in Seq(Seq(Nat)) /\ Len(short) = n
    BY ListsOfStrings DEF n
  <2>3. ASSUME NEW i \in 1 .. n PROVE long[i] = short[i]
    <3>1. long[i] = ListOf(grown, labels[i], k) /\ short[i] = ListOf(resolved, base[i], k)
      BY <1>1, <1>7 DEF ListsNamed
    <3>2. labels[i] = base[i] /\ grown[base[i].value] = resolved[base[i].value]
      BY <1>4
    <3> HIDE DEF long, short
    <3> QED
      BY <3>1, <3>2, Zenon DEF ListOf
  <2>4. ASSUME NEW i \in n + 1 .. n + m PROVE long[i] = <<>>
    <3>1. i \in DOMAIN labels
      BY <1>1, <1>2
    <3>2. long[i] = ListOf(grown, labels[i], k)
      BY <3>1 DEF ListsNamed
    <3>3. grown[labels[i].value].scalar
      BY <1>5
    <3> HIDE DEF long
    <3> QED
      BY <3>2, <3>3, Zenon DEF ListOf
  <2> HIDE DEF long, short
  <2>5. /\ Len(short) <= Len(long)
        /\ \A i \in 1 .. Len(short) : long[i] = short[i]
        /\ \A i \in Len(short) + 1 .. Len(long) : long[i] = <<>>
    BY <1>1, <2>1, <2>2, <2>3, <2>4
  <2>6. FlattenSeq(long) = FlattenSeq(short)
    BY <2>1, <2>2, <2>5, FlattenTrailing
  <2> QED
    BY <2>6 DEF long, short
<1>10. Expanding(labels, grown) =
        [k \in ExpandingNames(labels, grown) |-> FlattenSeq(ListsNamed(labels, grown, k))]
  BY ExpandingIs
<1>11. Expanding(base, resolved) =
        [k \in ExpandingNames(base, resolved) |-> FlattenSeq(ListsNamed(base, resolved, k))]
  BY ExpandingIs
<1>12. Expanding(labels, grown) = Expanding(base, resolved)
  BY <1>8, <1>9, <1>10, <1>11
<1> QED
  BY <1>12 DEF labels

\* The samples are a sequence of so many.
LEMMA SamplesAreSequence ==
    ASSUME NEW labels, NEW value, NEW resolved, Resolvable(labels, value, resolved)
    PROVE  LET samples == Expansion(labels, value, resolved)
               sorted == CoSorted(Expanding(labels, resolved), resolved[value].list)
           IN  /\ samples \in Seq(ToSet(samples))
               /\ DOMAIN samples = 1 .. SizeOf(sorted)
               /\ \A i \in DOMAIN samples :
                    samples[i].value = At(sorted.values, i, resolved[value].text)
<1> DEFINE samples == Expansion(labels, value, resolved)
           lists == Expanding(labels, resolved)
           values == resolved[value].list
           sorted == CoSorted(lists, values)
           size == SizeOf(sorted)
           Sample(i) == SampleAt(Fixed(labels, resolved), sorted, resolved[value].text, i)
<1>1. samples = [i \in 1 .. size |-> Sample(i)]
  BY ExpansionIs
<1>2. AreLists(lists)
  BY ExpandingLists
<1>3. values \in Seq(Nat)
  BY DEF Resolvable
<1> HIDE DEF lists, values
<1>4. AreLists(sorted.lists) /\ sorted.values \in Seq(Nat)
  BY <1>2, <1>3, CoSortedLists
<1> HIDE DEF sorted
<1>5. size \in Nat
  BY <1>4, SizeIsNumber
<1>6. \A i : Sample(i).value = At(sorted.values, i, resolved[value].text)
  BY DEF SampleAt
<1> HIDE DEF samples, size, Sample
<1>7. DOMAIN samples = 1 .. size /\ \A i \in DOMAIN samples : samples[i] = Sample(i)
  BY <1>1
<1>8. samples \in Seq(ToSet(samples))
  <2> DEFINE T == ToSet(samples)
  <2>1. \A i \in 1 .. size : samples[i] \in T
    BY <1>7 DEF ToSet
  <2>2. samples = [i \in 1 .. size |-> samples[i]]
    BY <1>1
  <2> HIDE DEF T
  <2>3. samples \in [1 .. size -> T]
    BY <2>1, <2>2
  <2>4. samples \in Seq(T)
    BY <1>5, <2>3
  <2> QED
    BY <2>4 DEF T
<1>9. \A i \in DOMAIN samples : samples[i].value = At(sorted.values, i, resolved[value].text)
  BY <1>6, <1>7
<1> QED
  BY <1>7, <1>8, <1>9, Zenon DEF samples, sorted, lists, values, size

\* What the expressions of a metric give on an object.
ResolvedBy(resolver, labels, value, x) ==
    [e \in {value} \cup {l.value : l \in ToSet(labels)} |-> Resolve(resolver, e, x)]

\* It resolves the labels whatever the resolver.
LEMMA ResolvedResolvable ==
    ASSUME NEW labels, NEW value, NEW x, Resolvable(labels, value, x), NEW resolver
    PROVE  LET R == ResolvedBy(resolver, labels, value, x) IN
           /\ Resolvable(labels, value, R)
           /\ R[value] = Resolve(resolver, value, x)
           /\ \A l \in ToSet(labels) : R[l.value] = Resolve(resolver, l.value, x)
<1> DEFINE R == ResolvedBy(resolver, labels, value, x)
           E == {value} \cup {l.value : l \in ToSet(labels)}
<1>1. R = [e \in E |-> Resolve(resolver, e, x)]
  BY DEF ResolvedBy
<1>2. value \in E /\ \A l \in ToSet(labels) : l.value \in E
  OBVIOUS
<1>3. ASSUME NEW e \in E PROVE x[e].list \in Seq(Nat)
  BY DEF Resolvable
<1> HIDE DEF E, R
<1>4. \A e \in E : R[e] = Resolve(resolver, e, x)
  BY <1>1
<1>5. ASSUME NEW e \in E
      PROVE  /\ R[e].list \in Seq(Nat)
             /\ IsFiniteSet(DOMAIN x[e].map) => IsFiniteSet(DOMAIN R[e].map)
  <2>1. CASE resolver = "unstructured" /\ ~x[e].scalar
    <3>1. R[e] = Scalar(Blank)
      BY <1>4, <2>1 DEF Resolve
    <3>2. R[e].list = <<>> /\ R[e].map = <<>>
      BY <3>1 DEF Scalar
    <3>3. <<>> \in Seq(Nat) /\ DOMAIN <<>> = {}
      OBVIOUS
    <3>4. IsFiniteSet({})
      BY FS_EmptySet
    <3> QED
      BY <3>2, <3>3, <3>4
  <2>2. CASE ~(resolver = "unstructured" /\ ~x[e].scalar)
    <3>1. R[e] = x[e]
      BY <1>4, <2>2, Zenon DEF Resolve
    <3> QED
      BY <1>3, <3>1
  <2> QED
    BY <2>1, <2>2
<1>6. /\ labels \in Seq(ToSet(labels))
      /\ \A l \in ToSet(labels) : l.name \in Nat /\ IsFiniteSet(DOMAIN x[l.value].map)
  BY DEF Resolvable
<1>7. Resolvable(labels, value, R)
  BY <1>2, <1>5, <1>6, Zenon DEF Resolvable
<1> QED
  BY <1>2, <1>4, <1>7 DEF R

\* Scalar labels added to a family leave the values of a metric's samples as they are.
LEMMA SameMetricValues ==
    ASSUME NEW family, NEW new, NEW metric, NEW x, NEW added,
           new.counter = family.counter, new.resolver = family.resolver,
           LET base == metric.labels \o family.labels IN
            /\ metric.labels \o new.labels = base \o added
            /\ base \in Seq(ToSet(base))
            /\ Resolvable(base, metric.value, x)
            /\ Resolvable(base \o added, metric.value, x),
           added \in Seq(ToSet(added)),
           \A l \in ToSet(added) : x[l.value].scalar
    PROVE  LET s == MetricSamples(new, metric, x)
               t == MetricSamples(family, metric, x)
           IN  s \in Seq(ToSet(s)) /\ t \in Seq(ToSet(t)) /\ SameValues(s, t)
<1> DEFINE base == metric.labels \o family.labels
           labels == base \o added
           value == metric.value
           resolver == ResolverOf(family, metric)
           R == ResolvedBy(resolver, base, value, x)
           G == ResolvedBy(resolver, labels, value, x)
           s == Expansion(labels, value, G)
           t == Expansion(base, value, R)
<1>1. ResolverOf(new, metric) = resolver
  BY DEF ResolverOf
<1>2. Resolvable(base, value, x) /\ Resolvable(labels, value, x) /\ base \in Seq(ToSet(base))
      /\ metric.labels \o new.labels = labels
  OBVIOUS
<1>3. MetricSamples(family, metric, x) =
        IF /\ resolver \in {"cel", "unstructured"}
           /\ HasValue(R[value])
           /\ \A i \in DOMAIN t : CanWrite(family, t[i].value)
        THEN t ELSE <<>>
  BY Zenon DEF MetricSamples, ResolvedBy
<1>4. MetricSamples(new, metric, x) =
        IF /\ resolver \in {"cel", "unstructured"}
           /\ HasValue(G[value])
           /\ \A i \in DOMAIN s : CanWrite(new, s[i].value)
        THEN s ELSE <<>>
  <2> DEFINE all == metric.labels \o new.labels
  <2>1. MetricSamples(new, metric, x) =
            IF /\ ResolverOf(new, metric) \in {"cel", "unstructured"}
               /\ HasValue(ResolvedBy(ResolverOf(new, metric), all, value, x)[value])
               /\ \A i \in DOMAIN Expansion(all, value,
                                    ResolvedBy(ResolverOf(new, metric), all, value, x)) :
                    CanWrite(new, Expansion(all, value,
                                    ResolvedBy(ResolverOf(new, metric), all, value, x))[i].value)
            THEN Expansion(all, value, ResolvedBy(ResolverOf(new, metric), all, value, x))
            ELSE <<>>
    BY Zenon DEF MetricSamples, ResolvedBy
  <2>2. all = labels
    BY <1>2
  <2> HIDE DEF all, labels, resolver
  <2> QED
    BY <1>1, <2>1, <2>2, Zenon
<1> HIDE DEF base
<1>5. /\ Resolvable(base, value, R) /\ R[value] = Resolve(resolver, value, x)
      /\ \A l \in ToSet(base) : R[l.value] = Resolve(resolver, l.value, x)
  BY <1>2, ResolvedResolvable
<1> HIDE DEF labels
<1>6. /\ Resolvable(labels, value, G) /\ G[value] = Resolve(resolver, value, x)
      /\ \A l \in ToSet(labels) : G[l.value] = Resolve(resolver, l.value, x)
  BY <1>2, ResolvedResolvable
<1>7. ToSet(labels) = ToSet(base) \cup ToSet(added)
  BY <1>2, ConcatElements DEF labels
<1> HIDE DEF R, G
<1>8. \A l \in ToSet(base) : G[l.value] = R[l.value]
  BY <1>5, <1>6, <1>7
<1>9. ASSUME NEW l \in ToSet(added) PROVE G[l.value].scalar
  <2>1. G[l.value] = Resolve(resolver, l.value, x)
    BY <1>6, <1>7
  <2>2. x[l.value].scalar
    OBVIOUS
  <2> QED
    BY <2>1, <2>2 DEF Resolve
<1>10. Expanding(labels, G) = Expanding(base, R)
  <2>1. Resolvable(base \o added, value, G)
    BY <1>6 DEF labels
  <2>2. Expanding(base \o added, G) = Expanding(base, R)
    BY <1>2, <1>5, <1>8, <1>9, <2>1, ScalarsExpandNothing
  <2> QED
    BY <2>2 DEF labels
<1>11. G[value] = R[value]
  BY <1>5, <1>6
<1> DEFINE sorted == CoSorted(Expanding(base, R), R[value].list)
<1>12. /\ t \in Seq(ToSet(t)) /\ DOMAIN t = 1 .. SizeOf(sorted)
       /\ \A i \in DOMAIN t : t[i].value = At(sorted.values, i, R[value].text)
  BY <1>5, SamplesAreSequence
<1>13. CoSorted(Expanding(labels, G), G[value].list) = sorted
  BY <1>10, <1>11, Zenon
<1>14. /\ s \in Seq(ToSet(s)) /\ DOMAIN s = 1 .. SizeOf(sorted)
       /\ \A i \in DOMAIN s : s[i].value = At(sorted.values, i, R[value].text)
  <2> DEFINE other == CoSorted(Expanding(labels, G), G[value].list)
  <2>1. /\ s \in Seq(ToSet(s)) /\ DOMAIN s = 1 .. SizeOf(other)
        /\ \A i \in DOMAIN s : s[i].value = At(other.values, i, G[value].text)
    BY <1>6, SamplesAreSequence
  <2>2. other = sorted
    BY <1>13
  <2> HIDE DEF other, sorted, s
  <2> QED
    BY <1>11, <2>1, <2>2, Zenon
<1> HIDE DEF s, t, sorted
<1>15. SameValues(s, t)
  BY <1>12, <1>14 DEF SameValues
<1>16. (\A i \in DOMAIN s : CanWrite(new, s[i].value))
            <=> \A i \in DOMAIN t : CanWrite(family, t[i].value)
  <2>1. \A v : CanWrite(new, v) <=> CanWrite(family, v)
    BY DEF CanWrite
  <2> QED
    BY <1>15, <2>1 DEF SameValues
<1>17. <<>> \in Seq(ToSet(<<>>)) /\ SameValues(<<>>, <<>>)
  BY DEF SameValues
<1>18. CASE /\ resolver \in {"cel", "unstructured"}
            /\ HasValue(R[value])
            /\ \A i \in DOMAIN t : CanWrite(family, t[i].value)
  <2>1. MetricSamples(family, metric, x) = t /\ MetricSamples(new, metric, x) = s
    BY <1>3, <1>4, <1>11, <1>16, <1>18, Zenon
  <2> QED
    BY <1>12, <1>14, <1>15, <2>1, Zenon
<1>19. CASE ~ /\ resolver \in {"cel", "unstructured"}
              /\ HasValue(R[value])
              /\ \A i \in DOMAIN t : CanWrite(family, t[i].value)
  <2>1. MetricSamples(family, metric, x) = <<>> /\ MetricSamples(new, metric, x) = <<>>
    BY <1>3, <1>4, <1>11, <1>16, <1>19, Zenon
  <2> QED
    BY <1>17, <2>1, Zenon
<1> QED
  BY <1>18, <1>19

\* They leave the values of a family's samples as they are.
LEMMA SameFamilyValues ==
    ASSUME NEW c \in Configs, NEW e \in DOMAIN c, NEW s, Whole(s), OfEntry(s, c[e]),
           NEW f \in DOMAIN s.families, NEW added \in Labels(s), NEW x \in Contents,
           \A l \in ToSet(s.labels) : x[l.value].scalar
    PROVE  SameValues(FamilySamples(With(s, f, added), x), FamilySamples(With(s, f, <<>>), x))
<1> DEFINE F == s.families[f]
           L == F.labels
           M == F.metrics
           new == With(s, f, added)
           family == With(s, f, <<>>)
<1>1. /\ f \in DOMAIN c[e].families /\ L = c[e].families[f].labels
      /\ M = c[e].families[f].metrics /\ s.labels = c[e].labels
  BY DEF OfEntry
<1>2. DOMAIN F = FamilyFields /\ L \in Seq(ToSet(L))
  BY DEF Whole
<1>3. added \in Seq(ToSet(c[e].labels)) /\ <<>> \in Seq(ToSet(c[e].labels))
  <2> DEFINE T == ToSet(c[e].labels)
  <2>1. added \in Seq(T)
    BY <1>1 DEF Labels
  <2> HIDE DEF T
  <2>2. <<>> \in Seq(T)
    OBVIOUS
  <2> QED
    BY <2>1, <2>2 DEF T
<1>4. added \in Seq(ToSet(added)) /\ \A l \in ToSet(added) : x[l.value].scalar
  <2> DEFINE T == ToSet(s.labels)
  <2>1. added \in Seq(T)
    BY DEF Labels
  <2>2. \A l \in T : x[l.value].scalar
    OBVIOUS
  <2> HIDE DEF T
  <2>3. added \in Seq(ToSet(added)) /\ ToSet(added) \subseteq T
    BY <2>1, OfItsElements
  <2> QED
    BY <2>2, <2>3
<1>5. L \o <<>> = L
  <2> DEFINE K == ToSet(L)
  <2>1. L \in Seq(K)
    BY <1>2
  <2> HIDE DEF K, L
  <2> QED
    BY <2>1
<1>6. /\ new.labels = L \o added /\ family.labels = L
      /\ new.resolver = family.resolver /\ new.counter = family.counter
      /\ new.script = F.script /\ family.script = F.script
      /\ new.metrics = M /\ family.metrics = M
  <2> DEFINE r == IF F.resolver = "" THEN s.resolver ELSE F.resolver
  <2>1. \A k : With(s, f, k) = [F EXCEPT !.resolver = r, !.labels = L \o k]
    BY DEF With
  <2>2. ASSUME NEW k
        PROVE  /\ With(s, f, k).labels = L \o k /\ With(s, f, k).resolver = r
               /\ With(s, f, k).counter = F.counter /\ With(s, f, k).script = F.script
               /\ With(s, f, k).metrics = F.metrics
    <3> DEFINE W == With(s, f, k)
               l == L \o k
    <3>1. W = [F EXCEPT !.resolver = r, !.labels = l] /\ DOMAIN F = FamilyFields
      BY <1>2, <2>1
    <3> HIDE DEF F, r, W, l
    <3>2. /\ W.labels = l /\ W.resolver = r
          /\ W.counter = F.counter /\ W.script = F.script /\ W.metrics = F.metrics
      BY <3>1 DEF FamilyFields
    <3> QED
      BY <3>2 DEF W, l
  <2> HIDE DEF F, r
  <2> QED
    BY <1>5, <2>2
<1> HIDE DEF F, L, M, new, family
<1>7. CASE F.script # ""
  <2>1. FamilySamples(new, x) = ScriptSamples(new, x)
        /\ FamilySamples(family, x) = ScriptSamples(family, x)
    BY <1>6, <1>7 DEF FamilySamples
  <2>2. \A v : CanWrite(new, v) = CanWrite(family, v)
    BY <1>6 DEF CanWrite
  <2>3. new.script = family.script
    BY <1>6
  <2>4. ScriptSamples(new, x) = ScriptSamples(family, x)
    BY <2>2, <2>3, Zenon DEF ScriptSamples
  <2>5. \A samples : SameValues(samples, samples)
    BY DEF SameValues
  <2> QED
    BY <2>1, <2>4, <2>5, Zenon DEF new, family
<1>8. CASE F.script = ""
  <2> DEFINE a == [i \in DOMAIN M |-> MetricSamples(new, M[i], x)]
             b == [i \in DOMAIN M |-> MetricSamples(family, M[i], x)]
  <2>1. FamilySamples(new, x) = FlattenSeq(a) /\ FamilySamples(family, x) = FlattenSeq(b)
    BY <1>6, <1>8, Zenon DEF FamilySamples
  <2>2. M \in Seq(ToSet(M)) /\ \A metric \in ToSet(M) : metric.labels \in Seq(ToSet(metric.labels))
    <3>1. c[e] \in ToSet(c) /\ c[e].families[f] \in ToSet(c[e].families)
      BY <1>1, Zenon DEF ToSet
    <3> QED
      BY <1>1, <3>1, ContentsAssumption, Zenon
  <2>3. ASSUME NEW i \in DOMAIN M
        PROVE  a[i] \in Seq(ToSet(a[i])) /\ b[i] \in Seq(ToSet(b[i])) /\ SameValues(a[i], b[i])
    <3> DEFINE metric == M[i]
               m == metric.labels
    <3>1. metric \in ToSet(M)
      BY Zenon DEF ToSet
    <3>2. m \in Seq(ToSet(m))
      BY <2>2, <3>1
    <3>3. Resolvable(m \o (L \o added), metric.value, x)
      BY <1>1, <1>3, <3>1, MetricResolvable
    <3>4. Resolvable(m \o (L \o <<>>), metric.value, x)
      BY <1>1, <1>3, <3>1, MetricResolvable
    <3>5. m \o (L \o added) = (m \o L) \o added
      <4> DEFINE S == ToSet(m)
                 K == ToSet(L)
                 A == ToSet(added)
                 T == K \cup A
      <4>1. m \in Seq(S) /\ L \in Seq(K) /\ added \in Seq(A)
        BY <1>2, <1>4, <3>2
      <4> HIDE DEF S, K, A, m
      <4>2. L \in Seq(T) /\ added \in Seq(T)
        BY <4>1
      <4> HIDE DEF T
      <4> QED
        BY <4>1, <4>2, EndToEnd
    <3>6. m \o L \in Seq(ToSet(m \o L))
      BY <1>2, <3>2, ConcatElements
    <3> HIDE DEF m
    <3>7. /\ m \o new.labels = (m \o family.labels) \o added
          /\ m \o family.labels \in Seq(ToSet(m \o family.labels))
          /\ Resolvable(m \o family.labels, metric.value, x)
          /\ Resolvable((m \o family.labels) \o added, metric.value, x)
      <4>1. new.labels = L \o added /\ family.labels = L
        BY <1>6
      <4> QED
        BY <1>5, <3>3, <3>4, <3>5, <3>6, <4>1, Zenon
    <3>8. new.counter = family.counter /\ new.resolver = family.resolver
      BY <1>6
    <3> HIDE DEF metric
    <3>9. /\ MetricSamples(new, metric, x) \in Seq(ToSet(MetricSamples(new, metric, x)))
          /\ MetricSamples(family, metric, x) \in Seq(ToSet(MetricSamples(family, metric, x)))
          /\ SameValues(MetricSamples(new, metric, x), MetricSamples(family, metric, x))
      BY <1>4, <3>7, <3>8, SameMetricValues DEF m
    <3>10. a[i] = MetricSamples(new, metric, x) /\ b[i] = MetricSamples(family, metric, x)
      BY DEF metric
    <3> HIDE DEF a, b
    <3> QED
      BY <3>9, <3>10
  <2>4. /\ a = [i \in DOMAIN M |-> a[i]] /\ b = [i \in DOMAIN M |-> b[i]]
        /\ DOMAIN a = DOMAIN M /\ DOMAIN b = DOMAIN M
    OBVIOUS
  <2> HIDE DEF a, b
  <2>5. PICK S : a \in Seq(Seq(S))
    BY <2>2, <2>3, <2>4, OfSequences
  <2>6. PICK T : b \in Seq(Seq(T))
    BY <2>2, <2>3, <2>4, OfSequences
  <2>7. Len(a) = Len(b) /\ \A i \in 1 .. Len(a) : SameValues(a[i], b[i])
    <3>1. Len(a) \in Nat /\ DOMAIN a = 1 .. Len(a)
      BY <2>5
    <3>2. Len(b) \in Nat /\ DOMAIN b = 1 .. Len(b)
      BY <2>6
    <3>3. DOMAIN a = DOMAIN b
      BY <2>4
    <3> DEFINE k == Len(a)
               l == Len(b)
    <3>4. k \in Nat /\ l \in Nat /\ 1 .. k = 1 .. l
      BY <3>1, <3>2, <3>3
    <3> HIDE DEF k, l
    <3>5. k = l
      BY <3>4
    <3> QED
      BY <2>3, <2>4, <3>1, <3>5 DEF k, l
  <2>8. SameValues(FlattenSeq(a), FlattenSeq(b))
    BY <2>5, <2>6, <2>7, FlattenSameValues
  <2> QED
    BY <2>1, <2>8 DEF new, family
<1> QED
  BY <1>7, <1>8

\* What is rendered of an object has the values a store just built gives.
LEMMA FamilyScalars == FamilyInv => ScalarLabelsKeepSamples
<1> SUFFICES ASSUME FamilyInv, NEW n \in DOMAIN built, NEW u \in DOMAIN metrics[n],
                    \A l \in ToSet(built[n].labels) : objects[n][u][l.value].scalar,
                    NEW f \in DOMAIN built[n].families
             PROVE  LET Values(samples) == [i \in DOMAIN samples |-> samples[i].value]
                    IN  Values(metrics[n][u][f]) = Values(Fresh(n, f, objects[n][u]))
  BY Zenon DEF ScalarLabelsKeepSamples
<1> DEFINE B == BuiltStores[n]
           x == objects[n][u]
           rendered == metrics[n][u][f]
           fresh == Fresh(n, f, x)
           plain == FamilySamples(With(B, f, <<>>), x)
<1>1. Given(config, answers) /\ n \in DOMAIN BuiltStores /\ f \in DOMAIN B.families
      /\ built[n].labels = B.labels
  BY DEF FamilyInv, BuildInv, FamiliesGrown
<1>2. Whole(B) /\ \E e \in DOMAIN config : OfEntry(B, config[e])
  BY <1>1, BuiltOfEntry DEF BuiltStores
<1>3. PICK e \in DOMAIN config : OfEntry(B, config[e])
  BY <1>2
<1>4. config \in Configs
  BY ConfiguredFamily
<1>5. RenderedOf(metrics[n][u], B, x)
  BY DEF FamilyInv, SamplesRendered
<1>6. x \in Contents
  BY <1>5 DEF RenderedOf
<1>7. PICK added \in Labels(B) : rendered = FamilySamples(With(B, f, added), x)
  BY <1>1, <1>5 DEF RenderedOf
<1>8. \A l \in ToSet(B.labels) : x[l.value].scalar
  BY <1>1
<1>9. fresh = FamilySamples(With(B, f, B.labels), x)
  BY Zenon DEF Fresh, InheritFamilyConfiguration, With, BuiltStores
<1>10. B.labels \in Labels(B)
  BY <1>2 DEF Whole
<1> HIDE DEF B, x, rendered, fresh
<1>11. SameValues(FamilySamples(With(B, f, added), x), plain)
  BY <1>1, <1>2, <1>3, <1>4, <1>6, <1>8, SameFamilyValues
<1>12. SameValues(FamilySamples(With(B, f, B.labels), x), plain)
  BY <1>1, <1>2, <1>3, <1>4, <1>6, <1>8, <1>10, SameFamilyValues
<1> HIDE DEF plain
<1>13. SameValues(rendered, plain) /\ SameValues(fresh, plain)
  BY <1>7, <1>9, <1>11, <1>12, Zenon
<1>14. [i \in DOMAIN rendered |-> rendered[i].value] = [i \in DOMAIN fresh |-> fresh[i].value]
  BY <1>13 DEF SameValues
<1> QED
  BY <1>14, Zenon DEF rendered, fresh, x

\* While the labels a store adds are scalars, edits and relists leave of an object
\* the values its current contents give, for any configuration and any objects.
THEOREM ScalarLabelsAlwaysKeepSamples == Spec => []ScalarLabelsKeepSamples
BY AlwaysFamily, FamilyScalars, PTL

----------------------------------------------------------------------------
(* Scripts give all of their samples, or none.                               *)

\* The places are those of the elements, each once.
LEMMA FlattensBijective ==
    ASSUME NEW S, NEW seqs \in Seq(Seq(S)), NEW s \in Seq(S), NEW at, Flattens(at, s, seqs)
    PROVE  at \in Bijection(DOMAIN s, Places(seqs))
<1>1. \A i \in DOMAIN s : i \in Nat
  OBVIOUS
<1>2. /\ at \in [DOMAIN s -> Places(seqs)]
      /\ \A m, n \in DOMAIN s : m < n => Before(at[m], at[n])
      /\ \A place \in Places(seqs) : \E n \in DOMAIN s : at[n] = place
  BY DEF Flattens
<1>3. \A place \in Places(seqs) : place[1] \in Nat /\ place[2] \in Nat
  <2>1. \A k \in DOMAIN seqs : k \in Nat /\ \A l \in DOMAIN seqs[k] : l \in Nat
    OBVIOUS
  <2> QED
    BY <2>1 DEF Places
<1>4. ASSUME NEW i \in DOMAIN s, NEW j \in DOMAIN s, at[i] = at[j] PROVE i = j
  <2>1. at[i][1] \in Nat /\ at[i][2] \in Nat
    BY <1>2, <1>3
  <2>2. ~Before(at[i], at[i])
    BY <2>1 DEF Before
  <2>3. ~(i < j) /\ ~(j < i)
    BY <1>2, <1>4, <2>2
  <2> QED
    BY <1>1, <2>3
<1> QED
  BY <1>2, <1>4 DEF Bijection, Injection, Surjection, IsInjective

\* Where a place is in the order of places: how many are not after it.
NotAfter(a, b) == a[1] < b[1] \/ (a[1] = b[1] /\ a[2] <= b[2])
PositionIn(P, g) == Cardinality({h \in P : NotAfter(h, g)})

\* Each element is at the position of its place.
LEMMA FlattensPositions ==
    ASSUME NEW S, NEW seqs \in Seq(Seq(S)), NEW s \in Seq(S), NEW at, Flattens(at, s, seqs)
    PROVE  /\ Len(s) = Cardinality(Places(seqs))
           /\ \A k \in DOMAIN s : PositionIn(Places(seqs), at[k]) = k
<1>1. DOMAIN s = 1 .. Len(s) /\ Len(s) \in Nat
  OBVIOUS
<1>2. /\ at \in [DOMAIN s -> Places(seqs)]
      /\ \A m, n \in DOMAIN s : m < n => Before(at[m], at[n])
      /\ \A place \in Places(seqs) : \E n \in DOMAIN s : at[n] = place
  BY DEF Flattens
<1>3. \A place \in Places(seqs) : place[1] \in Nat /\ place[2] \in Nat
  <2>1. \A k \in DOMAIN seqs : k \in Nat /\ \A l \in DOMAIN seqs[k] : l \in Nat
    OBVIOUS
  <2> QED
    BY <2>1 DEF Places
<1>4. at \in Bijection(DOMAIN s, Places(seqs))
  BY FlattensBijective
<1>5. \A m, n \in DOMAIN s : at[m] = at[n] => m = n
  BY <1>4 DEF Bijection, Injection, IsInjective
<1> DEFINE l == Len(s)
           P == Places(seqs)
<1>6. l \in Nat /\ DOMAIN s = 1 .. l
  BY <1>1
<1> HIDE DEF l, P
<1>7. Cardinality(P) = l
  <2>1. IsFiniteSet(1 .. l) /\ Cardinality(1 .. l) = l
    BY <1>6, FS_Interval
  <2>2. at \in Bijection(1 .. l, P)
    BY <1>4, <1>6 DEF P
  <2> QED
    BY <2>1, <2>2, FS_Bijection DEF ExistsBijection
<1>8. ASSUME NEW k \in DOMAIN s PROVE PositionIn(P, at[k]) = k
  <2> DEFINE H == {h \in P : NotAfter(h, at[k])}
             f == [m \in 1 .. k |-> at[m]]
  <2>1. k \in Nat /\ k <= l /\ \A m \in 1 .. k : m \in DOMAIN s
    BY <1>6
  <2>2. \A m \in DOMAIN s : at[m] \in P
    BY <1>2 DEF P
  <2>3. ASSUME NEW m \in DOMAIN s PROVE NotAfter(at[m], at[k]) <=> m \in 1 .. k
    <3>1. at[m][1] \in Nat /\ at[m][2] \in Nat /\ at[k][1] \in Nat /\ at[k][2] \in Nat
      BY <1>2, <1>3
    <3>2. m \in Nat /\ m >= 1 /\ (m < k \/ m = k \/ k < m)
      BY <1>6, <2>1
    <3>3. m < k => Before(at[m], at[k])
      BY <1>2
    <3>4. k < m => Before(at[k], at[m])
      BY <1>2
    <3>5. Before(at[m], at[k]) => NotAfter(at[m], at[k])
      BY <3>1 DEF Before, NotAfter
    <3>6. Before(at[k], at[m]) => ~NotAfter(at[m], at[k])
      BY <3>1 DEF Before, NotAfter
    <3>7. m = k => NotAfter(at[m], at[k])
      BY <3>1 DEF NotAfter
    <3> QED
      BY <2>1, <3>2, <3>3, <3>4, <3>5, <3>6, <3>7
  <2>4. \A m \in 1 .. k : f[m] = at[m] /\ f[m] \in H
    BY <2>1, <2>2, <2>3
  <2>5. f = [m \in 1 .. k |-> f[m]]
    OBVIOUS
  <2>6. \A h \in H : \E m \in 1 .. k : at[m] = h
    BY <1>2, <2>3 DEF P
  <2> HIDE DEF H, f
  <2>7. f \in Bijection(1 .. k, H)
    <3>1. f \in [1 .. k -> H]
      BY <2>4, <2>5
    <3>2. \A m, n \in 1 .. k : f[m] = f[n] => m = n
      BY <1>5, <2>1, <2>4
    <3>3. \A h \in H : \E m \in 1 .. k : f[m] = h
      BY <2>4, <2>6
    <3> QED
      BY <3>1, <3>2, <3>3 DEF Bijection, Injection, Surjection, IsInjective
  <2>8. IsFiniteSet(1 .. k) /\ Cardinality(1 .. k) = k
    BY <2>1, FS_Interval
  <2>9. Cardinality(H) = k
    BY <2>7, <2>8, FS_Bijection DEF ExistsBijection
  <2> QED
    BY <2>9 DEF H, PositionIn
<1> QED
  BY <1>7, <1>8 DEF l, P

\* What a script has to give: samples, and families of them.
IsSample(v) ==
    /\ Is(v, {"dict"})
    /\ Is(Get(v, "value"), {"float", "int", "bigint"})
    /\ Is(Get(v, "labels"), {"dict"}) /\ StringKeys(Get(v, "labels"))
IsFamily(v) ==
    /\ Is(v, {"dict"})
    /\ \A k \in {"name", "help", "kind"} : Is(Get(v, k), {"string"})
    /\ Is(Get(v, "samples"), {"list"})

\* A sample that is one is extracted with its value.
LEMMA SampleExtracted ==
    ASSUME NEW v
    PROVE  /\ IsSample(v) => \E r : /\ ExtractSample(v) = <<r>>
                                    /\ r.value = Get(v, "value").text
           /\ ~IsSample(v) => ExtractSample(v) = <<>>
<1> DEFINE L == Get(v, "labels")
           V == Get(v, "value")
<1>1. /\ Is(V, {"float", "int", "bigint"}) => ExtractFloat(V) = <<V.text>>
      /\ ~Is(V, {"float", "int", "bigint"}) => ExtractFloat(V) = <<>>
  BY DEF ExtractFloat
<1>2. /\ Is(L, {"dict"}) /\ StringKeys(L) => \E l : ExtractLabels(L) = <<l>>
      /\ ~(Is(L, {"dict"}) /\ StringKeys(L)) => ExtractLabels(L) = <<>>
  BY Zenon DEF ExtractLabels
<1>3. ExtractSample(v) =
        IF ~Is(v, {"dict"}) THEN <<>>
        ELSE IF ExtractLabels(L) = <<>> \/ ExtractFloat(V) = <<>> THEN <<>>
             ELSE <<[labels |-> ExtractLabels(L)[1], value |-> ExtractFloat(V)[1]]>>
  BY DEF ExtractSample
<1> HIDE DEF L, V
<1>4. ASSUME IsSample(v)
      PROVE  \E r : ExtractSample(v) = <<r>> /\ r.value = V.text
  <2>1. /\ Is(v, {"dict"})
        /\ Is(V, {"float", "int", "bigint"})
        /\ Is(L, {"dict"}) /\ StringKeys(L)
    BY <1>4 DEF IsSample, L, V
  <2>2. PICK l : ExtractLabels(L) = <<l>>
    BY <1>2, <2>1
  <2>3. ExtractFloat(V) = <<V.text>>
    BY <1>1, <2>1
  <2> DEFINE t == V.text
             r == [labels |-> l, value |-> t]
  <2>4. \A y : <<y>> # <<>> /\ <<y>>[1] = y
    OBVIOUS
  <2>5. ExtractSample(v) = <<r>>
    BY <1>3, <2>1, <2>2, <2>3, <2>4, Zenon
  <2>6. r.value = t
    OBVIOUS
  <2> HIDE DEF r
  <2> QED
    BY <2>5, <2>6
<1>5. ASSUME ~IsSample(v) PROVE ExtractSample(v) = <<>>
  <2>1. \/ ~Is(v, {"dict"})
        \/ ~Is(V, {"float", "int", "bigint"})
        \/ ~(Is(L, {"dict"}) /\ StringKeys(L))
    BY <1>5 DEF IsSample, L, V
  <2> QED
    BY <1>1, <1>2, <1>3, <2>1
<1> QED
  BY <1>4, <1>5 DEF V

\* Samples with the values of those in a list.
SamplesOf(v, s) ==
    /\ s \in Seq(ToSet(s))
    /\ DOMAIN s = DOMAIN v.items
    /\ \A j \in DOMAIN v.items : s[j].value = Get(v.items[j], "value").text

\* Of a list all samples are extracted, or none.
LEMMA SamplesExtracted ==
    ASSUME NEW v, Is(v, {"list"}), v.items \in Seq(ToSet(v.items))
    PROVE  /\ (\A j \in DOMAIN v.items : IsSample(v.items[j])) =>
                \E s : ExtractSamples(v) = <<s>> /\ SamplesOf(v, s)
           /\ (\E j \in DOMAIN v.items : ~IsSample(v.items[j])) => ExtractSamples(v) = <<>>
<1> DEFINE items == v.items
           each == [j \in DOMAIN items |-> ExtractSample(items[j])]
           s == [j \in DOMAIN items |-> each[j][1]]
<1>1. ExtractSamples(v) = IF \E j \in DOMAIN items : each[j] = <<>> THEN <<>> ELSE <<s>>
  BY DEF ExtractSamples, Each
<1>2. \A j \in DOMAIN items : each[j] = ExtractSample(items[j])
  OBVIOUS
<1>3. \A j \in DOMAIN items : s[j] = each[j][1]
  OBVIOUS
<1>4. s = [j \in DOMAIN items |-> s[j]] /\ DOMAIN s = DOMAIN items
  OBVIOUS
<1>5. items \in Seq(ToSet(items))
  OBVIOUS
<1> HIDE DEF items, each, s
<1>6. s \in Seq(ToSet(s))
  BY <1>4, <1>5, SameIndices
<1>7. ASSUME \A j \in DOMAIN items : IsSample(items[j])
      PROVE  ExtractSamples(v) = <<s>> /\ SamplesOf(v, s)
  <2>1. ASSUME NEW j \in DOMAIN items
        PROVE  each[j] # <<>> /\ s[j].value = Get(items[j], "value").text
    <3>1. PICK r : ExtractSample(items[j]) = <<r>> /\ r.value = Get(items[j], "value").text
      BY <1>7, SampleExtracted
    <3>2. each[j] = <<r>>
      BY <1>2, <3>1
    <3>3. s[j] = r
      BY <1>3, <3>2
    <3> QED
      BY <3>1, <3>2, <3>3
  <2> QED
    BY <1>1, <1>4, <1>6, <2>1 DEF SamplesOf, items
<1>8. ASSUME \E j \in DOMAIN items : ~IsSample(items[j]) PROVE ExtractSamples(v) = <<>>
  BY <1>1, <1>2, <1>8, SampleExtracted
<1> QED
  BY <1>7, <1>8 DEF items

\* The samples in a value that is a family.
SamplesIn(v) == Get(v, "samples")

\* A family is extracted with all its samples, or not at all.
LEMMA FamilyExtracted ==
    ASSUME NEW v,
           Is(v, {"dict"}) /\ Is(SamplesIn(v), {"list"}) =>
                SamplesIn(v).items \in Seq(ToSet(SamplesIn(v).items))
    PROVE  LET good == /\ IsFamily(v)
                       /\ \A j \in DOMAIN SamplesIn(v).items : IsSample(SamplesIn(v).items[j])
           IN  /\ good => \E s : ExtractFamily(v) = <<s>> /\ SamplesOf(SamplesIn(v), s)
               /\ ~good => ExtractFamily(v) = <<>>
<1> DEFINE S == SamplesIn(v)
<1>1. ExtractFamily(v) =
        IF Is(v, {"dict"}) /\ \A n \in {"name", "help", "kind"} : Is(Get(v, n), {"string"})
        THEN ExtractSamples(S) ELSE <<>>
  BY Zenon DEF ExtractFamily, SamplesIn
<1>2. IsFamily(v) <=>
        /\ Is(v, {"dict"}) /\ \A n \in {"name", "help", "kind"} : Is(Get(v, n), {"string"})
        /\ Is(S, {"list"})
  BY Zenon DEF IsFamily, SamplesIn
<1>3. ~Is(S, {"list"}) => ExtractSamples(S) = <<>>
  BY DEF ExtractSamples
<1>4. Is(v, {"dict"}) /\ Is(S, {"list"}) => S.items \in Seq(ToSet(S.items))
  OBVIOUS
<1> HIDE DEF S
<1>5. CASE IsFamily(v)
  <2>1. Is(S, {"list"}) /\ S.items \in Seq(ToSet(S.items)) /\ ExtractFamily(v) = ExtractSamples(S)
    BY <1>1, <1>2, <1>4, <1>5
  <2>2. /\ (\A j \in DOMAIN S.items : IsSample(S.items[j])) =>
            \E s : ExtractSamples(S) = <<s>> /\ SamplesOf(S, s)
        /\ (\E j \in DOMAIN S.items : ~IsSample(S.items[j])) => ExtractSamples(S) = <<>>
    BY <2>1, SamplesExtracted
  <2> QED
    BY <1>5, <2>1, <2>2, Zenon DEF S
<1>6. CASE ~IsFamily(v)
  <2>1. ExtractFamily(v) = <<>>
    BY <1>1, <1>2, <1>3, <1>6, Zenon
  <2> QED
    BY <1>6, <2>1
<1> QED
  BY <1>5, <1>6

\* The families in the globals of a script, and the places of their samples.
GivenBy(globals) == Get(globals, "families").items
PlacesIn(given) ==
    UNION {{<<i, j>> : j \in DOMAIN SamplesIn(given[i]).items} : i \in DOMAIN given}

\* Something in them is wrong.
Faulty(globals) ==
    LET given == GivenBy(globals) IN
    \/ globals = Malformed
    \/ ~Is(Get(globals, "families"), {"list"})
    \/ \E i \in DOMAIN given : ~IsFamily(given[i])
    \/ \E g \in PlacesIn(given) : ~IsSample(SamplesIn(given[g[1]]).items[g[2]])

\* A script gives all the samples of its families, in their places, or none.
LEMMA ScriptResolved ==
    ASSUME NEW globals, HasListsOfItems(globals)
    PROVE  LET given == GivenBy(globals) IN
           /\ Faulty(globals) => ResolveScript(globals) = <<>>
           /\ ~Faulty(globals) => \E S : \E seqs \in Seq(Seq(S)) :
                /\ ResolveScript(globals) = <<seqs>>
                /\ DOMAIN seqs = DOMAIN given
                /\ \A i \in DOMAIN given : SamplesOf(SamplesIn(given[i]), seqs[i])
<1> DEFINE families == Get(globals, "families")
           given == GivenBy(globals)
           each == [i \in DOMAIN given |-> ExtractFamily(given[i])]
           seqs == [i \in DOMAIN given |-> each[i][1]]
           Good(v) == /\ IsFamily(v)
                      /\ \A j \in DOMAIN SamplesIn(v).items : IsSample(SamplesIn(v).items[j])
<1>1. CASE globals = Malformed \/ ~Is(families, {"list"})
  <2>1. ResolveScript(globals) = <<>>
    BY <1>1 DEF ResolveScript, ExtractFamilies
  <2>2. Faulty(globals)
    BY <1>1 DEF Faulty
  <2> QED
    BY <2>1, <2>2
<1>2. CASE globals # Malformed /\ Is(families, {"list"})
  <2>1. /\ given \in Seq(ToSet(given))
        /\ \A v \in ToSet(given) : Is(v, {"dict"}) /\ Is(SamplesIn(v), {"list"}) =>
                SamplesIn(v).items \in Seq(ToSet(SamplesIn(v).items))
    BY <1>2, Zenon DEF HasListsOfItems, GivenBy, SamplesIn
  <2>2. ResolveScript(globals) =
            IF \E i \in DOMAIN given : each[i] = <<>> THEN <<>> ELSE <<seqs>>
    <3>1. ResolveScript(globals) = ExtractFamilies(families)
      BY <1>2 DEF ResolveScript
    <3>2. ExtractFamilies(families) = Each(families.items, ExtractFamily)
      BY <1>2, Zenon DEF ExtractFamilies
    <3>3. families.items = given
      BY DEF GivenBy
    <3> QED
      BY <3>1, <3>2, <3>3, Zenon DEF Each
  <2>3. Faulty(globals) <=> \E i \in DOMAIN given : ~Good(given[i])
    <3>1. ASSUME NEW g \in PlacesIn(given)
          PROVE  /\ g[1] \in DOMAIN given
                 /\ g[2] \in DOMAIN SamplesIn(given[g[1]]).items
      <4> HIDE DEF given
      <4> QED
        BY DEF PlacesIn
    <3>2. ASSUME NEW i \in DOMAIN given, NEW j \in DOMAIN SamplesIn(given[i]).items
          PROVE  <<i, j>> \in PlacesIn(given) /\ <<i, j>>[1] = i /\ <<i, j>>[2] = j
      <4> HIDE DEF given
      <4> QED
        BY DEF PlacesIn
    <3>3. Faulty(globals) <=>
            \/ \E i \in DOMAIN given : ~IsFamily(given[i])
            \/ \E g \in PlacesIn(given) : ~IsSample(SamplesIn(given[g[1]]).items[g[2]])
      BY <1>2, Zenon DEF Faulty
    <3> HIDE DEF given
    <3>4. ASSUME NEW g \in PlacesIn(given), ~IsSample(SamplesIn(given[g[1]]).items[g[2]])
          PROVE  \E i \in DOMAIN given : ~Good(given[i])
      BY <3>1, <3>4
    <3>5. ASSUME NEW i \in DOMAIN given, ~Good(given[i]), IsFamily(given[i])
          PROVE  \E g \in PlacesIn(given) : ~IsSample(SamplesIn(given[g[1]]).items[g[2]])
      <4>1. PICK j \in DOMAIN SamplesIn(given[i]).items : ~IsSample(SamplesIn(given[i]).items[j])
        BY <3>5
      <4>2. <<i, j>> \in PlacesIn(given) /\ <<i, j>>[1] = i /\ <<i, j>>[2] = j
        BY <3>2, <4>1
      <4> DEFINE g == <<i, j>>
      <4>3. g \in PlacesIn(given) /\ g[1] = i /\ g[2] = j
        BY <4>2
      <4> HIDE DEF g, given
      <4> QED
        BY <4>1, <4>3
    <3>6. \A i \in DOMAIN given : ~IsFamily(given[i]) => ~Good(given[i])
      OBVIOUS
    <3> HIDE DEF Good
    <3> QED
      BY <3>3, <3>4, <3>5, <3>6
  <2>4. \A i \in DOMAIN given : given[i] \in ToSet(given)
    BY Zenon DEF ToSet
  <2>5. \A i \in DOMAIN given : each[i] = ExtractFamily(given[i])
    OBVIOUS
  <2>6. \A i \in DOMAIN given : seqs[i] = each[i][1]
    OBVIOUS
  <2>7. seqs = [i \in DOMAIN given |-> seqs[i]] /\ DOMAIN seqs = DOMAIN given
    OBVIOUS
  <2> HIDE DEF given, each, seqs
  <2>8. ASSUME NEW i \in DOMAIN given
        PROVE  /\ Good(given[i]) => \E s : /\ ExtractFamily(given[i]) = <<s>>
                                          /\ SamplesOf(SamplesIn(given[i]), s)
               /\ ~Good(given[i]) => ExtractFamily(given[i]) = <<>>
    BY <2>1, <2>4, FamilyExtracted
  <2> HIDE DEF Good
  <2>9. CASE Faulty(globals)
    BY <2>2, <2>3, <2>5, <2>8, <2>9
  <2>10. CASE ~Faulty(globals)
    <3>1. ASSUME NEW i \in DOMAIN given
          PROVE  each[i] # <<>> /\ SamplesOf(SamplesIn(given[i]), seqs[i])
      <4>1. Good(given[i])
        BY <2>3, <2>10
      <4>2. PICK s : ExtractFamily(given[i]) = <<s>> /\ SamplesOf(SamplesIn(given[i]), s)
        BY <2>8, <4>1
      <4>3. each[i] = <<s>>
        BY <2>5, <4>2
      <4>4. seqs[i] = s
        BY <2>6, <4>3
      <4> QED
        BY <4>2, <4>3, <4>4
    <3>2. ResolveScript(globals) = <<seqs>>
      BY <2>2, <3>1
    <3>3. \A i \in DOMAIN given : seqs[i] \in Seq(ToSet(seqs[i]))
      BY <3>1 DEF SamplesOf
    <3>4. PICK S : seqs \in Seq(Seq(S))
      BY <2>1, <2>7, <3>3, OfSequences
    <3> QED
      BY <2>7, <2>10, <3>1, <3>2, <3>4 DEF given
  <2> QED
    BY <2>9, <2>10 DEF given
<1> QED
  BY <1>1, <1>2

\* The text of the value of the sample at a place, and what is written of it.
TextAt(given, g) == Get(SamplesIn(given[g[1]]).items[g[2]], "value").text
ValueOf(family, text) == IF CanWrite(family, text) THEN text ELSE Blank

\* What these globals give, rendered by this family.
RenderedFrom(rendered, family, globals) ==
    LET given == GivenBy(globals)
        P == PlacesIn(given)
    IN  IF Faulty(globals) THEN rendered = <<>>
        ELSE /\ Len(rendered) = Cardinality(P)
             /\ \A g \in P : rendered[PositionIn(P, g)].value = ValueOf(family, TextAt(given, g))

\* All are rendered in their order, those that can be written with their values.
LEMMA ScriptRendered ==
    ASSUME NEW family, NEW x, NEW globals, globals = x[family.script],
           HasListsOfItems(globals)
    PROVE  RenderedFrom(ScriptSamples(family, x), family, globals)
<1> DEFINE given == GivenBy(globals)
           Text(g) == TextAt(given, g)
           rendered == ScriptSamples(family, x)
           families == ResolveScript(globals)
           samples == FlattenSeq(families[1])
           Written(k) == [labels |-> samples[k].labels,
                          value |-> IF CanWrite(family, samples[k].value) THEN samples[k].value
                                    ELSE Blank]
           text == [k \in DOMAIN samples |-> Written(k)]
<1>1. rendered = IF families = <<>> THEN <<>> ELSE text
  BY Zenon DEF ScriptSamples
<1>2. CASE Faulty(globals)
  <2>1. families = <<>>
    BY <1>2, ScriptResolved
  <2>2. rendered = <<>>
    BY <1>1, <2>1
  <2> QED
    BY <1>2, <2>2 DEF RenderedFrom
<1>3. CASE ~Faulty(globals)
  <2>1. \E S : \E seqs \in Seq(Seq(S)) :
            /\ families = <<seqs>>
            /\ DOMAIN seqs = DOMAIN given
            /\ \A i \in DOMAIN given : SamplesOf(SamplesIn(given[i]), seqs[i])
    BY <1>3, ScriptResolved
  <2>2. PICK S : \E seqs \in Seq(Seq(S)) :
            /\ families = <<seqs>>
            /\ DOMAIN seqs = DOMAIN given
            /\ \A i \in DOMAIN given : SamplesOf(SamplesIn(given[i]), seqs[i])
    BY <2>1
  <2>3. PICK seqs \in Seq(Seq(S)) :
            /\ families = <<seqs>>
            /\ DOMAIN seqs = DOMAIN given
            /\ \A i \in DOMAIN given : SamplesOf(SamplesIn(given[i]), seqs[i])
    BY <2>2
  <2>4. families # <<>> /\ families[1] = seqs
    BY <2>3
  <2>5. samples \in Seq(S)
    BY <2>4, FlattenElements
  <2>6. PICK at : Flattens(at, samples, seqs)
    BY <2>4, FlattenSeqFlattens
  <2>7. rendered = text /\ DOMAIN text = DOMAIN samples
    BY <1>1, <2>4
  <2>8. \A k \in DOMAIN samples : text[k].value = ValueOf(family, samples[k].value)
    <3>1. \A k \in DOMAIN samples : text[k] = Written(k)
      OBVIOUS
    <3>2. \A k : Written(k).value = ValueOf(family, samples[k].value)
      BY DEF ValueOf
    <3> HIDE DEF text, Written, samples
    <3> QED
      BY <3>1, <3>2
  <2>9. text = [k \in DOMAIN samples |-> text[k]]
    OBVIOUS
  <2> HIDE DEF text, Written, samples, families, rendered
  <2>10. Len(text) = Len(samples)
    <3> DEFINE l == Len(samples)
    <3>1. l \in Nat /\ DOMAIN samples = 1 .. l
      BY <2>5
    <3> HIDE DEF l
    <3>2. text = [k \in 1 .. l |-> text[k]]
      BY <2>9, <3>1, Zenon
    <3>3. Len([k \in 1 .. l |-> text[k]]) = l
      BY <3>1
    <3>4. Len(text) = l
      BY <3>2, <3>3, Zenon
    <3> QED
      BY <3>4 DEF l
  <2> DEFINE P == PlacesIn(given)
  <2>13. \A i \in DOMAIN given : DOMAIN seqs[i] = DOMAIN SamplesIn(given[i]).items
    BY <2>3 DEF SamplesOf
  <2>14. Places(seqs) = P
    <3> HIDE DEF given
    <3>1. \A g : g \in Places(seqs) <=> \E i \in DOMAIN given : \E j \in DOMAIN seqs[i] : g = <<i, j>>
      BY <2>3 DEF Places
    <3>2. \A g : g \in P <=> \E i \in DOMAIN given :
                                \E j \in DOMAIN SamplesIn(given[i]).items : g = <<i, j>>
      BY DEF PlacesIn
    <3> HIDE DEF P
    <3>3. \A g : g \in Places(seqs) <=> g \in P
      BY <2>13, <3>1, <3>2
    <3> QED
      BY <3>3
  <2>15. \A g \in P : At2(seqs, g).value = Text(g)
    <3> SUFFICES ASSUME NEW g \in P PROVE At2(seqs, g).value = Text(g)
      OBVIOUS
    <3> HIDE DEF given
    <3>1. g[1] \in DOMAIN given /\ g[2] \in DOMAIN SamplesIn(given[g[1]]).items
      BY DEF PlacesIn
    <3> QED
      BY <2>3, <3>1 DEF SamplesOf, At2, TextAt
  <2>16. /\ Len(samples) = Cardinality(P)
         /\ \A k \in DOMAIN samples : PositionIn(P, at[k]) = k
    BY <2>5, <2>6, <2>14, FlattensPositions
  <2> HIDE DEF P
  <2>17. ASSUME NEW g \in P PROVE text[PositionIn(P, g)].value = ValueOf(family, Text(g))
    <3>1. PICK k \in DOMAIN samples : at[k] = g
      BY <2>6, <2>14 DEF Flattens
    <3>2. samples[k] = At2(seqs, g)
      BY <2>6, <3>1 DEF Flattens
    <3>3. samples[k].value = Text(g)
      <4> HIDE DEF Text
      <4> QED
        BY <2>15, <3>2
    <3>4. PositionIn(P, g) = k
      BY <2>16, <3>1
    <3> HIDE DEF Text
    <3> QED
      BY <2>8, <3>3, <3>4
  <2>18. /\ Len(rendered) = Cardinality(P)
         /\ \A g \in P : rendered[PositionIn(P, g)].value = ValueOf(family, Text(g))
    BY <2>7, <2>10, <2>16, <2>17
  <2> QED
    BY <1>3, <2>18, Zenon DEF RenderedFrom, rendered, Text, P
<1> QED
  BY <1>2, <1>3

\* What a store has of a script is what the script gives on the object last handed over.
LEMMA FamilyScripts == FamilyInv => ScriptsAllOrNothing
<1> SUFFICES ASSUME FamilyInv, NEW n \in DOMAIN built, NEW u \in DOMAIN metrics[n],
                    NEW f \in DOMAIN built[n].families, built[n].families[f].script # ""
             PROVE  RenderedFrom(metrics[n][u][f], built[n].families[f],
                                 objects[n][u][built[n].families[f].script])
  BY Zenon DEF ScriptsAllOrNothing, RenderedFrom, Faulty, ValueOf, TextAt, GivenBy,
               PlacesIn, PositionIn, NotAfter, SamplesIn, IsFamily, IsSample
<1> DEFINE B == BuiltStores[n]
           F == B.families[f]
           x == objects[n][u]
           family == built[n].families[f]
           rendered == metrics[n][u][f]
<1>1. /\ Given(config, answers) /\ n \in DOMAIN BuiltStores /\ f \in DOMAIN B.families
      /\ Grown(family, B, f)
  BY DEF FamilyInv, BuildInv, FamiliesGrown
<1>2. Whole(B) /\ \E e \in DOMAIN config : OfEntry(B, config[e])
  BY <1>1, BuiltOfEntry DEF BuiltStores
<1>3. PICK e \in DOMAIN config : OfEntry(B, config[e])
  BY <1>2
<1>4. config \in Configs
  BY ConfiguredFamily
<1>5. RenderedOf(metrics[n][u], B, x)
  BY DEF FamilyInv, SamplesRendered
<1>6. x \in Contents
  BY <1>5 DEF RenderedOf
<1>7. PICK added \in Labels(B) : rendered = FamilySamples(With(B, f, added), x)
  BY <1>1, <1>5 DEF RenderedOf
<1>8. ASSUME NEW k
      PROVE  With(B, f, k).script = F.script /\ With(B, f, k).counter = F.counter
  <2> DEFINE r == IF F.resolver = "" THEN B.resolver ELSE F.resolver
             l == F.labels \o k
             W == With(B, f, k)
  <2>1. W = [F EXCEPT !.resolver = r, !.labels = l]
    BY DEF With
  <2>2. DOMAIN F = FamilyFields
    BY <1>1, <1>2 DEF Whole
  <2> HIDE DEF F, r, l, W
  <2>3. W.script = F.script /\ W.counter = F.counter
    BY <2>1, <2>2 DEF FamilyFields
  <2> QED
    BY <2>3 DEF W
<1>9. family.script = F.script /\ family.counter = F.counter
  BY <1>1, <1>8 DEF Grown
<1>10. F.script # "" /\ F.script = config[e].families[f].script
  <2>1. F.script \in {config[e].families[f].script, ""}
    BY <1>1, <1>3 DEF OfEntry
  <2> HIDE DEF F
  <2> QED
    BY <1>9, <2>1
<1>11. HasListsOfItems(x[F.script])
  <2>1. f \in DOMAIN config[e].families
    BY <1>1, <1>3 DEF OfEntry
  <2>2. config[e] \in ToSet(config) /\ config[e].families[f] \in ToSet(config[e].families)
    BY <2>1, Zenon DEF ToSet
  <2> HIDE DEF F, x
  <2>3. HasListsOfItems(x[config[e].families[f].script])
    BY <1>4, <1>6, <1>10, <2>2, ScriptsAssumption
  <2> QED
    BY <1>10, <2>3
<1> DEFINE W == With(B, f, added)
<1>12. W.script = family.script /\ W.counter = family.counter /\ F.script = family.script
  BY <1>8, <1>9
<1> HIDE DEF B, F, x, family, rendered, W
<1>13. W.script # "" /\ rendered = FamilySamples(W, x)
  BY <1>7, <1>10, <1>12 DEF W
<1>14. rendered = ScriptSamples(W, x)
  BY <1>13 DEF FamilySamples
<1>15. \A v : CanWrite(W, v) <=> CanWrite(family, v)
  BY <1>12 DEF CanWrite
<1> DEFINE globals == x[family.script]
<1>16. globals = x[W.script] /\ HasListsOfItems(globals)
  BY <1>11, <1>12
<1> HIDE DEF globals
<1>17. RenderedFrom(rendered, W, globals)
  BY <1>14, <1>16, ScriptRendered
<1>18. \A v : ValueOf(W, v) = ValueOf(family, v)
  BY <1>15 DEF ValueOf
<1>19. RenderedFrom(rendered, family, globals)
  BY <1>17, <1>18 DEF RenderedFrom
<1> QED
  BY <1>19, Zenon DEF globals, x, family, rendered

\* A script gives all its samples in their order, without a value those that cannot
\* be written, or none when anything in it is wrong, whatever it gives and however
\* many objects its store rendered before.
THEOREM ScriptsAlwaysAllOrNothing == Spec => []ScriptsAllOrNothing
BY AlwaysFamily, FamilyScripts, PTL

===============================================================================
