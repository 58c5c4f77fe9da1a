------------------------ MODULE StoreCardinalityProofs ------------------------
(* The bookkeeping of a store is exact for any objects, families, samples,   *)
(* thresholds and number of goroutines: the type invariant, the running      *)
(* totals, the cutoff of families with a threshold, and what is rendered.    *)
EXTENDS StoreCardinality, TablesProofs

\* A call that is being rendered or tracked has an object.
CallInProgress == pc[Reflector] \in {"render", "track"} => op \in Calls

Typed == TypeOK /\ CallInProgress

----------------------------------------------------------------------------
(* Types.                                                                  *)

\* The constants: sample counts and the empty ones.
LEMMA CountsType ==
    /\ Zero \in Counts
    /\ Contents \subseteq Counts
    /\ Reflector \in Threads
    /\ 1 \in Family
    /\ \A c \in Counts, f \in Family : c[f] \in Nat
  BY SizesAssumption, ContentsAssumption DEF Zero, Counts, Threads, Family

\* An object has finitely many samples.
LEMMA TotalType ==
    ASSUME NEW c \in Counts
    PROVE  IsFiniteSet(Samples(c)) /\ Total(c) \in Nat
<1>1. IsFiniteSet(Family) /\ IsFiniteSet(1 .. MaxSamples)
  BY SizesAssumption, FS_Interval DEF Family
<1>2. IsFiniteSet(Family \X (1 .. MaxSamples))
  BY <1>1, FS_Product
<1>3. Samples(c) \in SUBSET (Family \X (1 .. MaxSamples))
  BY DEF Samples
<1>4. IsFiniteSet(Samples(c))
  BY <1>2, <1>3, FS_Subset
<1> QED
  BY <1>4, FS_CardinalityType DEF Total

\* The previous counts of an object, zero if it is not tracked.
LEMMA OldCountsType ==
    ASSUME TypeOK, NEW u
    PROVE  OldCounts(u) \in Counts
  BY CountsType DEF TypeOK, OldCounts

\* The initial states are well typed.
LEMMA InitTyped == Init => Typed
<1> SUFFICES ASSUME Init PROVE Typed
  OBVIOUS
<1>1. pc \in [Threads -> {"idle", "waiting", "done", "render", "track", "check", "read", "set"}]
  BY DEF Init
<1>2. pc[Reflector] = "idle"
  BY CountsType DEF Init
<1>3. events \in Seq(Calls)
  BY DEF Init
<1>4. DOMAIN <<>> = {} /\ <<>> \in [{} -> Counts]
  OBVIOUS
<1>5. perFamily \in [Family -> Int] /\ rendered \in Counts
  BY CountsType DEF Init, Zero
<1>6. /\ DOMAIN listed \subseteq UIDs /\ listed \in [DOMAIN listed -> Counts]
      /\ DOMAIN metrics \subseteq UIDs /\ metrics \in [DOMAIN metrics -> Counts]
      /\ DOMAIN perObject \subseteq UIDs /\ perObject \in [DOMAIN perObject -> Counts]
  BY <1>4 DEF Init
<1>7. /\ at \in [Threads -> Family] /\ seen \in [Threads -> BOOLEAN]
      /\ cutoffFamilies \in [Family -> BOOLEAN] /\ cutoff \in [Family -> BOOLEAN]
  BY CountsType DEF Init
<1>8. writes \in 0 .. MaxWrites /\ expiries \in 0 .. MaxExpiries
  BY SizesAssumption DEF Init
<1>9. /\ cluster \in [UIDs -> Contents \cup {Absent}]
      /\ todo = {} /\ phase = "list" /\ synced = FALSE
      /\ storeTotal = 0
  BY DEF Init
<1>10. op \in Calls \cup {[kind |-> "none"]}
  BY DEF Init
<1>11. todo \subseteq DOMAIN listed /\ synced \in BOOLEAN
  BY <1>9, Zenon
<1>12. storeTotal \in Int /\ phase \in {"list", "replace", "watch"}
  BY <1>9
<1>13. TypeOK
  BY <1>1, <1>3, <1>5, <1>6, <1>7, <1>8, <1>9, <1>10, <1>11, <1>12 DEF TypeOK
<1> QED
  BY <1>2, <1>13 DEF Typed, CallInProgress

\* Sending an event keeps the watch a sequence of calls.
LEMMA SendType ==
    ASSUME TypeOK, NEW e \in Calls, Send(e)
    PROVE  events' \in Seq(Calls)
  BY DEF TypeOK, Send

\* The writes to the cluster are well typed.
LEMMA ClusterTyped ==
    ASSUME Typed, Cluster
    PROVE  Typed'
<1>1. ASSUME NEW u \in UIDs, NEW c \in Contents, ClusterWrite(u, c) PROVE Typed'
  <2>1. [kind |-> "add", uid |-> u, counts |-> c] \in Calls
    BY CountsType DEF Calls, Kinds
  <2>2. events' \in Seq(Calls)
    BY <1>1, <2>1, SendType DEF ClusterWrite, Typed
  <2>3. writes' \in 0 .. MaxWrites
    BY <1>1, SizesAssumption DEF ClusterWrite, Typed, TypeOK
  <2> QED
    BY <1>1, <2>2, <2>3
    DEF ClusterWrite, Typed, TypeOK, CallInProgress, reflectorVars, trackerVars
<1>2. ASSUME NEW u \in UIDs, ClusterDelete(u) PROVE Typed'
  <2>1. cluster[u] \in Counts
    BY <1>2, CountsType DEF ClusterDelete, Typed, TypeOK
  <2>2. [kind |-> "delete", uid |-> u, counts |-> cluster[u]] \in Calls
    BY <2>1 DEF Calls, Kinds
  <2>3. events' \in Seq(Calls)
    BY <1>2, <2>2, SendType DEF ClusterDelete, Typed
  <2>4. writes' \in 0 .. MaxWrites
    BY <1>2, SizesAssumption DEF ClusterDelete, Typed, TypeOK
  <2> QED
    BY <1>2, <2>3, <2>4
    DEF ClusterDelete, Typed, TypeOK, CallInProgress, reflectorVars, trackerVars
<1> QED
  BY <1>1, <1>2 DEF Cluster

\* Starting a call sets the reflector's own variables.
LEMMA CallType ==
    ASSUME Typed, NEW c \in Calls, Call(c)
    PROVE  /\ op' \in Calls
           /\ pc' \in [Threads -> {"idle", "waiting", "done", "render", "track", "check",
                                   "read", "set"}]
           /\ at' \in [Threads -> Family]
           /\ rendered' \in Counts
  BY CountsType DEF Typed, TypeOK, Call

\* So are the steps of the reflector.
LEMMA ReflectTyped ==
    ASSUME Typed, Reflect
    PROVE  Typed'
<1>1. CASE List
  <2>1. listed' \in [Present -> Counts] /\ DOMAIN listed' = Present /\ Present \subseteq UIDs
    BY <1>1, CountsType DEF List, Typed, TypeOK, Present
  <2>2. events' \in Seq(Calls)
    BY <1>1 DEF List
  <2> QED
    BY <1>1, <2>1, <2>2
    DEF List, Typed, TypeOK, CallInProgress, apiVars, trackerVars
<1>2. CASE ReplaceDone
  BY <1>2 DEF ReplaceDone, AllAdded, Typed, TypeOK, CallInProgress, apiVars, trackerVars
<1>3. CASE WatchEvent
  <2>1. Head(events) \in Calls /\ Tail(events) \in Seq(Calls)
    BY <1>3 DEF WatchEvent, Typed, TypeOK
  <2>2. /\ op' \in Calls
        /\ pc' \in [Threads -> {"idle", "waiting", "done", "render", "track", "check",
                                "read", "set"}]
        /\ at' \in [Threads -> Family]
        /\ rendered' \in Counts
    BY <1>3, <2>1, CallType DEF WatchEvent
  <2> QED
    BY <1>3, <2>1, <2>2
    DEF WatchEvent, Typed, TypeOK, CallInProgress, apiVars, reflectorVars, trackerVars
<1>4. ASSUME NEW u \in UIDs, ReplaceItem(u) PROVE Typed'
  <2>1. [kind |-> "add", uid |-> u, counts |-> listed[u]] \in Calls
    BY <1>4 DEF ReplaceItem, Typed, TypeOK, Calls, Kinds
  <2>2. /\ op' \in Calls
        /\ pc' \in [Threads -> {"idle", "waiting", "done", "render", "track", "check",
                                "read", "set"}]
        /\ at' \in [Threads -> Family]
        /\ rendered' \in Counts
    BY <1>4, <2>1, CallType DEF ReplaceItem
  <2> QED
    BY <1>4, <2>2
    DEF ReplaceItem, Typed, TypeOK, CallInProgress, apiVars, trackerVars
<1> QED
  BY <1>1, <1>2, <1>3, <1>4 DEF Reflect

\* Setting and deleting an entry keep a table of counts one.
LEMMA TableType ==
    ASSUME NEW T, DOMAIN T \subseteq UIDs, T \in [DOMAIN T -> Counts],
           NEW u \in UIDs, NEW c \in Counts
    PROVE  /\ DOMAIN Put(T, u, c) \subseteq UIDs
           /\ Put(T, u, c) \in [DOMAIN Put(T, u, c) -> Counts]
           /\ DOMAIN Without(T, u) \subseteq UIDs
           /\ Without(T, u) \in [DOMAIN Without(T, u) -> Counts]
  BY DEF Put, Without

\* So are rendering and tracking.
LEMMA TrackTyped ==
    ASSUME Typed, Track
    PROVE  Typed'
<1>1. CASE RenderFamily
  <2>1. op \in Calls /\ at[Reflector] \in Family
    BY <1>1, CountsType DEF RenderFamily, Typed, TypeOK, CallInProgress
  <2>2. Rendering(at[Reflector]) \in 0 .. MaxSamples
    BY <2>1, SizesAssumption DEF Rendering, Calls, Counts
  <2>3. rendered' \in Counts
    BY <1>1, <2>1, <2>2 DEF RenderFamily, Typed, TypeOK, Counts
  <2>4. ~ Last(at[Reflector]) => at[Reflector] + 1 \in Family
    BY <2>1, SizesAssumption DEF Last, Family
  <2>5. /\ at' \in [Threads -> Family]
        /\ pc' \in [Threads -> {"idle", "waiting", "done", "render", "track", "check",
                                "read", "set"}]
    BY <1>1, <2>4, CountsType DEF RenderFamily, Typed, TypeOK
  <2> QED
    BY <1>1, <2>1, <2>3, <2>5
    DEF RenderFamily, Typed, TypeOK, CallInProgress, apiVars, reflectorVars, trackerVars
<1>2. CASE TrackAdd
  <2>1. op \in Calls /\ op.uid \in UIDs /\ op.counts \in Counts
    BY <1>2 DEF TrackAdd, Typed, CallInProgress, Calls
  <2>2. OldCounts(op.uid) \in Counts
    BY OldCountsType DEF Typed
  <2>3. perFamily' \in [Family -> Int]
    BY <1>2, <2>1, <2>2, CountsType DEF TrackAdd, Typed, TypeOK
  <2>4. storeTotal' \in Int
    BY <1>2, <2>1, <2>2, TotalType DEF TrackAdd, Typed, TypeOK
  <2>5. /\ DOMAIN metrics' \subseteq UIDs /\ metrics' \in [DOMAIN metrics' -> Counts]
        /\ DOMAIN perObject' \subseteq UIDs /\ perObject' \in [DOMAIN perObject' -> Counts]
    BY <1>2, <2>1, TableType DEF TrackAdd, Typed, TypeOK
  <2>6. pc' \in [Threads -> {"idle", "waiting", "done", "render", "track", "check",
                              "read", "set"}]
    BY <1>2 DEF TrackAdd, Typed, TypeOK
  <2> QED
    BY <1>2, <2>1, <2>3, <2>4, <2>5, <2>6
    DEF TrackAdd, Typed, TypeOK, CallInProgress, apiVars, reflectorVars
<1>3. CASE TrackDelete
  <2>1. op \in Calls /\ op.uid \in UIDs
    BY <1>3 DEF TrackDelete, Typed, CallInProgress, Calls
  <2>2. OldCounts(op.uid) \in Counts
    BY OldCountsType DEF Typed
  <2>3. perFamily' \in [Family -> Int]
    BY <1>3, <2>2, CountsType DEF TrackDelete, Typed, TypeOK
  <2>4. storeTotal' \in Int
    BY <1>3, <2>2, TotalType DEF TrackDelete, Typed, TypeOK
  <2>5. /\ DOMAIN metrics' \subseteq UIDs /\ metrics' \in [DOMAIN metrics' -> Counts]
        /\ DOMAIN perObject' \subseteq UIDs /\ perObject' \in [DOMAIN perObject' -> Counts]
    BY <1>3, <2>1, CountsType, TableType DEF TrackDelete, Typed, TypeOK
  <2>6. pc' \in [Threads -> {"idle", "waiting", "done", "render", "track", "check",
                              "read", "set"}]
    BY <1>3 DEF TrackDelete, Typed, TypeOK
  <2> QED
    BY <1>3, <2>1, <2>3, <2>4, <2>5, <2>6
    DEF TrackDelete, Typed, TypeOK, CallInProgress, apiVars, reflectorVars
<1> QED
  BY <1>1, <1>2, <1>3 DEF Track

\* So are applying the thresholds and the rest of Next.
LEMMA NextTyped == Typed /\ [Next]_vars => Typed'
<1> SUFFICES ASSUME Typed, [Next]_vars PROVE Typed'
  OBVIOUS
<1>1. CASE WatchExpired
  <2>1. expiries' \in 0 .. MaxExpiries /\ events' \in Seq(Calls)
    BY <1>1, SizesAssumption DEF WatchExpired, Typed, TypeOK
  <2> QED
    BY <1>1, <2>1 DEF WatchExpired, Typed, TypeOK, CallInProgress, apiVars, trackerVars
<1>2. ASSUME NEW t \in Checkers, StartCheck(t) PROVE Typed'
  <2>1. t \in Threads /\ t # Reflector
    BY NamesAssumption DEF Threads
  <2> QED
    BY <1>2, <2>1
    DEF StartCheck, Typed, TypeOK, CallInProgress, apiVars, reflectorVars, trackerVars
<1>3. ASSUME NEW t \in Threads, CheckThresholds(t) PROVE Typed'
  <2>1. \A f \in Family : Decision(f) \in BOOLEAN
    BY DEF Decision, FamilyOver, StoreOver, Typed, TypeOK
  <2> QED
    BY <1>3, <2>1, CountsType
    DEF CheckThresholds, Typed, TypeOK, CallInProgress, apiVars, reflectorVars, trackerVars
<1>4. ASSUME NEW t \in Threads, ReadCutoff(t) PROVE Typed'
  BY <1>4
  DEF ReadCutoff, Typed, TypeOK, CallInProgress, apiVars, reflectorVars, trackerVars
<1>5. ASSUME NEW t \in Threads, SetCutoff(t) PROVE Typed'
  <2>1. ~ Last(at[t]) => at[t] + 1 \in Family
    BY SizesAssumption DEF Last, Family, Typed, TypeOK
  <2>2. Finished(t) \in {"idle", "done"}
    BY DEF Finished
  <2>3. /\ at' \in [Threads -> Family]
        /\ pc' \in [Threads -> {"idle", "waiting", "done", "render", "track", "check",
                                "read", "set"}]
    BY <1>5, <2>1, <2>2 DEF SetCutoff, Typed, TypeOK
  <2>4. pc'[Reflector] \in {"render", "track"} => pc[Reflector] \in {"render", "track"}
    BY <1>5, <2>2, CountsType DEF SetCutoff, Typed, TypeOK
  <2> QED
    BY <1>5, <2>3, <2>4
    DEF SetCutoff, Typed, TypeOK, CallInProgress, apiVars, reflectorVars, trackerVars
<1>6. CASE UNCHANGED vars
  BY <1>6 DEF Typed, TypeOK, CallInProgress, vars, apiVars, reflectorVars, trackerVars
<1> QED
  BY <1>1, <1>2, <1>3, <1>4, <1>5, <1>6, ClusterTyped, ReflectTyped, TrackTyped
  DEF Next, Apply

----------------------------------------------------------------------------
(* The running totals.                                                     *)

AllSamples == Family \X (1 .. MaxSamples)

\* The samples of every object of a table, and of one family of each.
Slices(table) == [u \in DOMAIN table |-> Samples(table[u])]
FamilySlices(table, f) == [u \in DOMAIN table |-> 1 .. table[u][f]]

\* The sets the samples are counted in are finite.
LEMMA SamplesFinite == IsFiniteSet(AllSamples) /\ IsFiniteSet(1 .. MaxSamples)
<1>1. IsFiniteSet(Family) /\ IsFiniteSet(1 .. MaxSamples)
  BY SizesAssumption, FS_Interval DEF Family
<1> QED
  BY <1>1, FS_Product DEF AllSamples

\* The samples of one object in one family are as many as its count says.
LEMMA CountSize ==
    ASSUME NEW c \in Counts, NEW f \in Family
    PROVE  Cardinality(1 .. c[f]) = c[f] /\ 1 .. c[f] \subseteq 1 .. MaxSamples
<1>1. c[f] \in Nat /\ c[f] <= MaxSamples /\ MaxSamples \in Nat
  BY SizesAssumption DEF Counts
<1>2. Cardinality(1 .. c[f]) = c[f]
  BY <1>1, FS_Interval
<1> QED
  BY <1>1, <1>2

\* No counts, no samples.
LEMMA NoSamples == Total(Zero) = 0
<1>1. Samples(Zero) = {}
  BY SizesAssumption DEF Samples, Zero
<1> QED
  BY <1>1, FS_EmptySet DEF Total

\* The tracked objects are finitely many, so are their samples.
LEMMA TablesOfSamples ==
    ASSUME TypeOK
    PROVE  /\ IsFiniteSet(DOMAIN perObject)
           /\ \A u \in DOMAIN perObject : Samples(perObject[u]) \subseteq AllSamples
           /\ \A u \in DOMAIN perObject, f \in Family :
                 1 .. perObject[u][f] \subseteq 1 .. MaxSamples
<1>1. IsFiniteSet(DOMAIN perObject)
  BY NamesAssumption, FS_Subset DEF TypeOK
<1>2. \A u \in DOMAIN perObject : perObject[u] \in Counts
  BY DEF TypeOK
<1> QED
  BY <1>1, <1>2, CountSize DEF Samples, AllSamples

\* What an object contributed before is what OldCounts says, in total ...
LEMMA OldSlice ==
    ASSUME TypeOK, NEW u
    PROVE  (IF u \in DOMAIN Slices(perObject) THEN Cardinality(Slices(perObject)[u]) ELSE 0)
               = Total(OldCounts(u))
  BY NoSamples DEF Slices, OldCounts, Total

\* ... and in each family.
LEMMA OldFamilySlice ==
    ASSUME TypeOK, NEW u, NEW f \in Family
    PROVE  (IF u \in DOMAIN FamilySlices(perObject, f)
            THEN Cardinality(FamilySlices(perObject, f)[u]) ELSE 0) = OldCounts(u)[f]
<1>1. CASE u \in DOMAIN perObject
  <2>1. perObject[u] \in Counts
    BY <1>1 DEF TypeOK
  <2> QED
    BY <1>1, <2>1, CountSize DEF FamilySlices, OldCounts
<1>2. CASE u \notin DOMAIN perObject
  BY <1>2 DEF FamilySlices, OldCounts, Zero
<1> QED
  BY <1>1, <1>2

\* Update adds the new counts and takes out the old ones.
LEMMA UpdateTotals ==
    ASSUME TypeOK, NEW u \in UIDs, NEW c \in Counts,
           perObject' = Put(perObject, u, c)
    PROVE  /\ Cardinality(TrackedSamples')
                 = Cardinality(TrackedSamples) - Total(OldCounts(u)) + Total(c)
           /\ \A f \in Family :
                 Cardinality(FamilySamples(perObject', f))
                   = Cardinality(FamilySamples(perObject, f)) - OldCounts(u)[f] + c[f]
<1>1. Cardinality(TrackedSamples')
        = Cardinality(TrackedSamples) - Total(OldCounts(u)) + Total(c)
  <2> DEFINE A == Slices(perObject)
             E == AllSamples
             X == Samples(c)
  <2>1. /\ IsFiniteSet(DOMAIN A) /\ IsFiniteSet(E)
        /\ \A k \in DOMAIN A : A[k] \subseteq E
    BY SamplesFinite, TablesOfSamples DEF Slices
  <2>2. X \subseteq E
    BY DEF Samples, AllSamples
  <2>3. TrackedSamples = Pairs(A, E)
    BY DEF TrackedSamples, Slices, AllSamples
  <2>4. Slices(perObject') = Put(A, u, X)
    BY DEF Slices, Put
  <2>5. TrackedSamples' = Pairs(Put(A, u, X), E)
    BY <2>4 DEF TrackedSamples, Slices, AllSamples
  <2>6. (IF u \in DOMAIN A THEN Cardinality(A[u]) ELSE 0) = Total(OldCounts(u))
    BY OldSlice
  <2>7. Cardinality(X) = Total(c)
    BY DEF Total
  <2> HIDE DEF A, E, X
  <2>8. Cardinality(Pairs(Put(A, u, X), E))
          = Cardinality(Pairs(A, E)) - (IF u \in DOMAIN A THEN Cardinality(A[u]) ELSE 0)
                + Cardinality(X)
    BY <2>1, <2>2, PairsPut
  <2> QED
    BY <2>3, <2>5, <2>6, <2>7, <2>8
<1>2. ASSUME NEW f \in Family
      PROVE  Cardinality(FamilySamples(perObject', f))
               = Cardinality(FamilySamples(perObject, f)) - OldCounts(u)[f] + c[f]
  <2> DEFINE A == FamilySlices(perObject, f)
             E == 1 .. MaxSamples
             X == 1 .. c[f]
  <2>1. /\ IsFiniteSet(DOMAIN A) /\ IsFiniteSet(E)
        /\ \A k \in DOMAIN A : A[k] \subseteq E
    BY SamplesFinite, TablesOfSamples DEF FamilySlices
  <2>2. X \subseteq E /\ Cardinality(X) = c[f]
    BY CountSize
  <2>3. FamilySamples(perObject, f) = Pairs(A, E)
    BY DEF FamilySamples, FamilySlices
  <2>4. FamilySlices(perObject', f) = Put(A, u, X)
    BY DEF FamilySlices, Put
  <2>5. FamilySamples(perObject', f) = Pairs(Put(A, u, X), E)
    BY <2>4 DEF FamilySamples, FamilySlices
  <2>6. (IF u \in DOMAIN A THEN Cardinality(A[u]) ELSE 0) = OldCounts(u)[f]
    BY OldFamilySlice
  <2> HIDE DEF A, E, X
  <2>7. Cardinality(Pairs(Put(A, u, X), E))
          = Cardinality(Pairs(A, E)) - (IF u \in DOMAIN A THEN Cardinality(A[u]) ELSE 0)
                + Cardinality(X)
    BY <2>1, <2>2, PairsPut
  <2> QED
    BY <2>2, <2>3, <2>5, <2>6, <2>7
<1> QED
  BY <1>1, <1>2

\* Delete only takes out.
LEMMA DeleteTotals ==
    ASSUME TypeOK, NEW u, perObject' = Without(perObject, u)
    PROVE  /\ Cardinality(TrackedSamples') = Cardinality(TrackedSamples) - Total(OldCounts(u))
           /\ \A f \in Family :
                 Cardinality(FamilySamples(perObject', f))
                   = Cardinality(FamilySamples(perObject, f)) - OldCounts(u)[f]
<1>1. Cardinality(TrackedSamples') = Cardinality(TrackedSamples) - Total(OldCounts(u))
  <2> DEFINE A == Slices(perObject)
             E == AllSamples
  <2>1. /\ IsFiniteSet(DOMAIN A) /\ IsFiniteSet(E)
        /\ \A k \in DOMAIN A : A[k] \subseteq E
    BY SamplesFinite, TablesOfSamples DEF Slices
  <2>2. TrackedSamples = Pairs(A, E)
    BY DEF TrackedSamples, Slices, AllSamples
  <2>3. Slices(perObject') = Without(A, u)
    BY DEF Slices, Without
  <2>4. TrackedSamples' = Pairs(Without(A, u), E)
    BY <2>3 DEF TrackedSamples, Slices, AllSamples
  <2>5. (IF u \in DOMAIN A THEN Cardinality(A[u]) ELSE 0) = Total(OldCounts(u))
    BY OldSlice
  <2> HIDE DEF A, E
  <2>6. Cardinality(Pairs(Without(A, u), E))
          = Cardinality(Pairs(A, E)) - (IF u \in DOMAIN A THEN Cardinality(A[u]) ELSE 0)
    BY <2>1, PairsWithout
  <2> QED
    BY <2>2, <2>4, <2>5, <2>6
<1>2. ASSUME NEW f \in Family
      PROVE  Cardinality(FamilySamples(perObject', f))
               = Cardinality(FamilySamples(perObject, f)) - OldCounts(u)[f]
  <2> DEFINE A == FamilySlices(perObject, f)
             E == 1 .. MaxSamples
  <2>1. /\ IsFiniteSet(DOMAIN A) /\ IsFiniteSet(E)
        /\ \A k \in DOMAIN A : A[k] \subseteq E
    BY SamplesFinite, TablesOfSamples DEF FamilySlices
  <2>2. FamilySamples(perObject, f) = Pairs(A, E)
    BY DEF FamilySamples, FamilySlices
  <2>3. FamilySlices(perObject', f) = Without(A, u)
    BY DEF FamilySlices, Without
  <2>4. FamilySamples(perObject', f) = Pairs(Without(A, u), E)
    BY <2>3 DEF FamilySamples, FamilySlices
  <2>5. (IF u \in DOMAIN A THEN Cardinality(A[u]) ELSE 0) = OldCounts(u)[f]
    BY OldFamilySlice
  <2> HIDE DEF A, E
  <2>6. Cardinality(Pairs(Without(A, u), E))
          = Cardinality(Pairs(A, E)) - (IF u \in DOMAIN A THEN Cardinality(A[u]) ELSE 0)
    BY <2>1, PairsWithout
  <2> QED
    BY <2>2, <2>4, <2>5, <2>6
<1> QED
  BY <1>1, <1>2

----------------------------------------------------------------------------
(* The steps that change what the properties are about.                    *)

\* Only TrackAdd and TrackDelete write the tracker's counts and the metrics.
LEMMA TablesUnchanged ==
    ASSUME [Next]_vars, ~ TrackAdd, ~ TrackDelete
    PROVE  UNCHANGED <<perObject, perFamily, storeTotal, metrics>>
<1>1. CASE Cluster
  BY <1>1 DEF Cluster, ClusterWrite, ClusterDelete, trackerVars
<1>2. CASE Reflect \/ WatchExpired
  BY <1>2
  DEF Reflect, WatchExpired, List, ReplaceDone, WatchEvent, ReplaceItem, trackerVars
<1>3. CASE RenderFamily \/ \E t \in Checkers : StartCheck(t)
  BY <1>3 DEF RenderFamily, StartCheck, trackerVars
<1>4. CASE \E t \in Threads : Apply(t)
  BY <1>4 DEF Apply, CheckThresholds, ReadCutoff, SetCutoff, trackerVars
<1>5. CASE UNCHANGED vars
  BY <1>5 DEF vars, trackerVars
<1> QED
  BY <1>1, <1>2, <1>3, <1>4, <1>5 DEF Next, Track

\* The running totals stay the sizes of what they count.
LEMMA NextTotals == Typed /\ TotalsMatchObjects /\ [Next]_vars => TotalsMatchObjects'
<1> SUFFICES ASSUME Typed, TotalsMatchObjects, [Next]_vars PROVE TotalsMatchObjects'
  OBVIOUS
<1>1. CASE TrackAdd
  <2>1. op.uid \in UIDs /\ op.counts \in Counts
    BY <1>1 DEF TrackAdd, Typed, CallInProgress, Calls
  <2>2. perObject' = Put(perObject, op.uid, op.counts)
    BY <1>1 DEF TrackAdd
  <2>3. /\ Cardinality(TrackedSamples')
             = Cardinality(TrackedSamples) - Total(OldCounts(op.uid)) + Total(op.counts)
        /\ \A f \in Family :
              Cardinality(FamilySamples(perObject', f))
                = Cardinality(FamilySamples(perObject, f)) - OldCounts(op.uid)[f] + op.counts[f]
    BY <2>1, <2>2, UpdateTotals DEF Typed
  <2> QED
    BY <1>1, <2>3 DEF TrackAdd, TotalsMatchObjects
<1>2. CASE TrackDelete
  <2>1. perObject' = Without(perObject, op.uid)
    BY <1>2 DEF TrackDelete
  <2>2. /\ Cardinality(TrackedSamples')
             = Cardinality(TrackedSamples) - Total(OldCounts(op.uid))
        /\ \A f \in Family :
              Cardinality(FamilySamples(perObject', f))
                = Cardinality(FamilySamples(perObject, f)) - OldCounts(op.uid)[f]
    BY <2>1, DeleteTotals DEF Typed
  <2> QED
    BY <1>2, <2>2 DEF TrackDelete, TotalsMatchObjects
<1>3. CASE ~ TrackAdd /\ ~ TrackDelete
  BY <1>3, TablesUnchanged DEF TotalsMatchObjects, TrackedSamples, FamilySamples
<1> QED
  BY <1>1, <1>2, <1>3

\* Initially there is nothing to count.
LEMMA InitTotals == Init => TotalsMatchObjects
<1> SUFFICES ASSUME Init PROVE TotalsMatchObjects
  OBVIOUS
<1>1. DOMAIN perObject = {}
  BY DEF Init
<1>2. TrackedSamples = {} /\ \A f \in Family : FamilySamples(perObject, f) = {}
  BY <1>1 DEF TrackedSamples, FamilySamples, Pairs
<1> QED
  BY <1>2, FS_EmptySet DEF Init, Zero, TotalsMatchObjects

\* cardinality.go:103-134: perFamily and storeTotal, kept by subtracting the
\* object's previous counts and adding its new ones, are what counting the
\* tracked objects afresh would give.
THEOREM TotalsAlwaysMatch == Spec => []TotalsMatchObjects
<1>1. Init => Typed /\ TotalsMatchObjects
  BY InitTyped, InitTotals
<1>2. Typed /\ TotalsMatchObjects /\ [Next]_vars => (Typed /\ TotalsMatchObjects)'
  BY NextTyped, NextTotals
<1> QED
  BY <1>1, <1>2, PTL DEF Spec

\* Every variable keeps its type, and a call that renders or tracks is one of
\* an object.
THEOREM TypeCorrect == Spec => []TypeOK
<1>1. Init => Typed
  BY InitTyped
<1>2. Typed /\ [Next]_vars => Typed'
  BY NextTyped
<1>3. Typed => TypeOK
  BY DEF Typed
<1> QED
  BY <1>1, <1>2, <1>3, PTL DEF Spec

----------------------------------------------------------------------------
(* The cutoff of the families with a threshold.                            *)

\* A goroutine's check is as good as the reflector's: both compute the same
\* from the same totals, so the last one to check cannot be wrong.
LEMMA NextCutoff == Typed /\ CutoffIffOver /\ [Next]_vars => CutoffIffOver'
<1> SUFFICES ASSUME Typed, CutoffIffOver, [Next]_vars PROVE CutoffIffOver'
  OBVIOUS
<1>1. CASE TrackAdd \/ TrackDelete
  <2>1. pc'[Reflector] = "check"
    BY <1>1, CountsType DEF TrackAdd, TrackDelete, Typed, TypeOK
  <2> QED
    BY <2>1 DEF CutoffIffOver
<1>2. ASSUME NEW t \in Threads, CheckThresholds(t) PROVE CutoffIffOver'
  <2>1. cutoffFamilies' = [f \in Family |-> Decision(f)]
    BY <1>2 DEF CheckThresholds
  <2>2. UNCHANGED <<perFamily, storeTotal>>
    BY <1>2 DEF CheckThresholds, trackerVars
  <2>3. \A f \in Family : FamilyThreshold[f] > 0 => (Decision(f) <=> FamilyOver(f) \/ StoreOver)
    BY ThresholdAssumption DEF Decision
  <2> QED
    BY <2>1, <2>2, <2>3 DEF CutoffIffOver, FamilyOver, StoreOver
<1>3. CASE ~ TrackAdd /\ ~ TrackDelete /\ ~ \E t \in Threads : CheckThresholds(t)
  <2>1. UNCHANGED <<perFamily, storeTotal>>
    BY <1>3, TablesUnchanged
  <2>2. /\ UNCHANGED cutoffFamilies
        /\ pc[Reflector] = "check" => pc'[Reflector] = "check"
    <3>1. CASE Cluster
      BY <3>1 DEF Cluster, ClusterWrite, ClusterDelete
    <3>2. CASE Reflect \/ WatchExpired
      BY <3>2, CountsType
      DEF Reflect, WatchExpired, List, ReplaceDone, AllAdded, WatchEvent, ReplaceItem, Call
    <3>3. CASE RenderFamily
      BY <3>3 DEF RenderFamily
    <3>4. ASSUME NEW t \in Checkers, StartCheck(t)
          PROVE  /\ UNCHANGED cutoffFamilies
                 /\ pc[Reflector] = "check" => pc'[Reflector] = "check"
      BY <3>4 DEF StartCheck, Typed, TypeOK, Threads
    <3>5. ASSUME NEW t \in Threads, ReadCutoff(t) \/ SetCutoff(t)
          PROVE  /\ UNCHANGED cutoffFamilies
                 /\ pc[Reflector] = "check" => pc'[Reflector] = "check"
      BY <3>5, CountsType DEF ReadCutoff, SetCutoff, Typed, TypeOK
    <3>6. CASE UNCHANGED vars
      BY <3>6 DEF vars
    <3> QED
      BY <1>3, <3>1, <3>2, <3>3, <3>4, <3>5, <3>6 DEF Next, Track, Apply
  <2> QED
    BY <2>1, <2>2 DEF CutoffIffOver, FamilyOver, StoreOver
<1> QED
  BY <1>1, <1>2, <1>3

\* Initially no family is over anything.
LEMMA InitCutoff == Init => CutoffIffOver
  BY ThresholdAssumption DEF Init, Zero, CutoffIffOver, FamilyOver, StoreOver

\* cardinality.go:165-232: whenever no check is pending, a family with a
\* threshold is cut off exactly if it or its store is over the limit.
THEOREM CutoffAlwaysIffOver == Spec => []CutoffIffOver
<1>1. Init => Typed /\ CutoffIffOver
  BY InitTyped, InitCutoff
<1>2. Typed /\ CutoffIffOver /\ [Next]_vars => (Typed /\ CutoffIffOver)'
  BY NextTyped, NextCutoff
<1> QED
  BY <1>1, <1>2, PTL DEF Spec

----------------------------------------------------------------------------
(* What is rendered.                                                       *)

\* Until an Add has stored it, a rendered family is empty or in full.
RenderedOfCall ==
    pc[Reflector] \in {"render", "track"} /\ op.kind = "add" =>
        \A f \in Family : rendered[f] \in {0, op.counts[f]}

\* Once stored it is so for the object's tracked counts, locked or not.
MetricsOfTracked ==
    /\ DOMAIN metrics = DOMAIN perObject
    /\ \A u \in DOMAIN metrics, f \in Family : metrics[u][f] \in {0, perObject[u][f]}

RenderInv == RenderedOfCall /\ MetricsOfTracked

\* Rendering starts from nothing and adds one family at a time.
LEMMA NextRendered == Typed /\ RenderedOfCall /\ [Next]_vars => RenderedOfCall'
<1> SUFFICES ASSUME Typed, RenderedOfCall, [Next]_vars PROVE RenderedOfCall'
  OBVIOUS
<1>1. ASSUME NEW c \in Calls, Call(c) PROVE RenderedOfCall'
  BY <1>1 DEF Call, RenderedOfCall, Zero
<1>2. CASE RenderFamily
  <2>1. pc[Reflector] = "render" /\ UNCHANGED op
    BY <1>2 DEF RenderFamily
  <2>2. op.counts \in Counts /\ rendered \in Counts
    BY <2>1 DEF Typed, TypeOK, CallInProgress, Calls
  <2>3. \A f \in Family : rendered'[f] = rendered[f] \/ rendered'[f] \in {0, op.counts[f]}
    BY <1>2, <2>2 DEF RenderFamily, Rendering, Counts
  <2> QED
    BY <2>1, <2>3 DEF RenderedOfCall
<1>3. CASE TrackAdd \/ TrackDelete
  <2>1. pc'[Reflector] = "check"
    BY <1>3, CountsType DEF TrackAdd, TrackDelete, Typed, TypeOK
  <2> QED
    BY <2>1 DEF RenderedOfCall
<1>4. ASSUME UNCHANGED <<op, rendered>>,
             pc'[Reflector] \in {"render", "track"} => pc[Reflector] \in {"render", "track"}
      PROVE  RenderedOfCall'
  BY <1>4 DEF RenderedOfCall
<1>5. CASE Cluster
  BY <1>4, <1>5 DEF Cluster, ClusterWrite, ClusterDelete
<1>6. CASE List \/ ReplaceDone \/ WatchExpired
  BY <1>4, <1>6 DEF List, ReplaceDone, WatchExpired
<1>7. CASE WatchEvent
  <2>1. Head(events) \in Calls
    BY <1>7 DEF WatchEvent, Typed, TypeOK
  <2> QED
    BY <1>1, <1>7, <2>1 DEF WatchEvent
<1>8. ASSUME NEW u \in UIDs, ReplaceItem(u) PROVE RenderedOfCall'
  <2>1. [kind |-> "add", uid |-> u, counts |-> listed[u]] \in Calls
    BY <1>8 DEF ReplaceItem, Typed, TypeOK, Calls, Kinds
  <2> QED
    BY <1>1, <1>8, <2>1 DEF ReplaceItem
<1>9. ASSUME NEW t \in Checkers, StartCheck(t) PROVE RenderedOfCall'
  <2>1. pc'[Reflector] = pc[Reflector]
    BY <1>9, NamesAssumption, CountsType DEF StartCheck, Typed, TypeOK, Threads
  <2> QED
    BY <1>4, <1>9, <2>1 DEF StartCheck
<1>10. ASSUME NEW t \in Threads, Apply(t) PROVE RenderedOfCall'
  <2>1. pc'[Reflector] \in {"render", "track"} => pc[Reflector] \in {"render", "track"}
    BY <1>10, CountsType
    DEF Apply, CheckThresholds, ReadCutoff, SetCutoff, Finished, Typed, TypeOK
  <2> QED
    BY <1>4, <1>10, <2>1 DEF Apply, CheckThresholds, ReadCutoff, SetCutoff
<1>11. CASE UNCHANGED vars
  BY <1>4, <1>11 DEF vars
<1> QED
  BY <1>2, <1>3, <1>5, <1>6, <1>7, <1>8, <1>9, <1>10, <1>11 DEF Next, Reflect, Track

\* An Add stores the metrics and the counts together, a Delete removes both.
LEMMA NextMetrics ==
    Typed /\ RenderInv /\ [Next]_vars => MetricsOfTracked'
<1> SUFFICES ASSUME Typed, RenderInv, [Next]_vars PROVE MetricsOfTracked'
  OBVIOUS
<1>1. CASE TrackAdd
  <2>1. \A f \in Family : rendered[f] \in {0, op.counts[f]}
    BY <1>1 DEF TrackAdd, RenderInv, RenderedOfCall
  <2>2. metrics' = Put(metrics, op.uid, rendered) /\ perObject' = Put(perObject, op.uid, op.counts)
    BY <1>1 DEF TrackAdd
  <2> QED
    BY <2>1, <2>2 DEF RenderInv, MetricsOfTracked, Put
<1>2. CASE TrackDelete
  <2>1. metrics' = Without(metrics, op.uid) /\ perObject' = Without(perObject, op.uid)
    BY <1>2 DEF TrackDelete
  <2> QED
    BY <2>1 DEF RenderInv, MetricsOfTracked, Without
<1>3. CASE ~ TrackAdd /\ ~ TrackDelete
  BY <1>3, TablesUnchanged DEF RenderInv, MetricsOfTracked
<1> QED
  BY <1>1, <1>2, <1>3

\* store.go:78-133, family.go:150-154: a scrape finds each tracked object's
\* families in full or, cut off, not at all, and no other object's.
THEOREM AlwaysRenderedInFullOrNotAtAll == Spec => []RenderedInFullOrNotAtAll
<1>1. Init => Typed /\ RenderInv
  <2> SUFFICES ASSUME Init PROVE Typed /\ RenderInv
    OBVIOUS
  <2>1. pc[Reflector] = "idle"
    BY CountsType DEF Init
  <2>2. DOMAIN metrics = {} /\ DOMAIN perObject = {}
    BY DEF Init
  <2> QED
    BY <2>1, <2>2, InitTyped DEF RenderInv, RenderedOfCall, MetricsOfTracked
<1>2. Typed /\ RenderInv /\ [Next]_vars => (Typed /\ RenderInv)'
  BY NextTyped, NextRendered, NextMetrics DEF RenderInv
<1>3. Typed /\ RenderInv => RenderedInFullOrNotAtAll
  BY DEF RenderInv, MetricsOfTracked, RenderedInFullOrNotAtAll
<1> QED
  BY <1>1, <1>2, <1>3, PTL DEF Spec
=============================================================================
