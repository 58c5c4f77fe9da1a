------------------------ MODULE GlobalCardinalityProofs ------------------------
(* The running total of the GlobalCardinalityManager is the sum of what is   *)
(* reported, for any monitors, goroutines, limits and totals.                *)
EXTENDS GlobalCardinality, TablesProofs

\* TypeOK but for the sign of the total, which follows from what it sums.
Typed ==
    /\ stores \subseteq Monitors
    /\ tracked \in [Monitors -> Totals]
    /\ DOMAIN perResource \subseteq Monitors
    /\ perResource \in [DOMAIN perResource -> Totals]
    /\ globalTotal \in Int
    /\ DOMAIN cutoffResources \subseteq Monitors
    /\ cutoffResources \in [DOMAIN cutoffResources -> BOOLEAN]
    /\ pc \in [Goroutines -> {"idle", "update", "check"}]
    /\ uid \in [Goroutines -> Monitors]
    /\ total \in [Goroutines -> Totals]

----------------------------------------------------------------------------

\* The totals are the numbers a sum of the reports can be made of.
LEMMA TotalsAreNat == MaxTotal \in Nat /\ Totals = 0 .. MaxTotal /\ Totals \subseteq Nat
  BY LimitsAssumption DEF Totals

\* The reports are a finite table of totals, and what was reported of a monitor
\* before an update is a number.
LEMMA ReportsTyped ==
    ASSUME Typed
    PROVE  /\ IsFiniteSet(DOMAIN perResource)
           /\ perResource \in [DOMAIN perResource -> 0 .. MaxTotal]
           /\ \A u : OldTotal(u) \in Nat
<1>1. IsFiniteSet(DOMAIN perResource)
  BY MonitorsAssumption, FS_Subset DEF Typed
<1>2. perResource \in [DOMAIN perResource -> 0 .. MaxTotal]
  BY TotalsAreNat DEF Typed
<1>3. \A u : OldTotal(u) \in Nat
  BY <1>2, TotalsAreNat DEF OldTotal, CountOf
<1> QED
  BY <1>1, <1>2, <1>3

----------------------------------------------------------------------------

\* Nothing has been reported at the start.
LEMMA InitTyped == Init => Typed /\ GlobalTotalIsSum
<1> SUFFICES ASSUME Init PROVE Typed /\ GlobalTotalIsSum
  OBVIOUS
<1>1. DOMAIN perResource = {} /\ DOMAIN cutoffResources = {}
  BY DEF Init
<1>2. Typed
  BY <1>1, LimitsAssumption DEF Init, Typed, Totals
<1>3. SumOf(perResource, MaxTotal) = 0
  BY <1>1, <1>2, ReportsTyped, SumIsNat, TotalsAreNat
<1>4. GlobalTotalIsSum
  BY <1>3 DEF Init, GlobalTotalIsSum
<1> QED
  BY <1>2, <1>4

\* The marks stay a table over the monitors, whatever a check decides.
LEMMA CheckedType ==
    ASSUME Typed, NEW u \in Monitors
    PROVE  DOMAIN Checked(u) \subseteq Monitors /\ Checked(u) \in [DOMAIN Checked(u) -> BOOLEAN]
<1>1. ResourceOver(u) \in BOOLEAN
  BY DEF ResourceOver
<1>2. /\ DOMAIN CheckedResource(u) \subseteq Monitors
      /\ CheckedResource(u) \in [DOMAIN CheckedResource(u) -> BOOLEAN]
  BY <1>1 DEF Typed, CheckedResource, Put
<1> QED
  BY <1>2 DEF Typed, Checked

\* A step keeps every variable in its type.
LEMMA NextTyped == Typed /\ [Next]_vars => Typed'
<1> SUFFICES ASSUME Typed, [Next]_vars PROVE Typed'
  OBVIOUS
<1>1. ASSUME NEW u \in Monitors, Track(u) PROVE Typed'
  BY <1>1 DEF Track, Typed, managerVars
<1>2. ASSUME NEW u \in Monitors, DeleteResource(u) PROVE Typed'
  <2>1. OldTotal(u) \in Nat
    BY ReportsTyped
  <2>2. DOMAIN Without(perResource, u) \subseteq Monitors
        /\ Without(perResource, u) \in [DOMAIN Without(perResource, u) -> Totals]
    BY DEF Typed, Without
  <2>3. DOMAIN Without(cutoffResources, u) \subseteq Monitors
        /\ Without(cutoffResources, u) \in [DOMAIN Without(cutoffResources, u) -> BOOLEAN]
    BY DEF Typed, Without
  <2> QED
    BY <1>2, <2>1, <2>2, <2>3 DEF DeleteResource, Typed
<1>3. ASSUME NEW g \in Goroutines, Aggregate(g) PROVE Typed'
  BY <1>3 DEF Aggregate, Typed, storeVars, managerVars
<1>4. ASSUME NEW g \in Goroutines, UpdateResource(g) PROVE Typed'
  <2>1. uid[g] \in Monitors /\ total[g] \in Totals
    BY DEF Typed
  <2>2. OldTotal(uid[g]) \in Nat /\ total[g] \in Nat
    BY <2>1, ReportsTyped, TotalsAreNat
  <2>3. DOMAIN Put(perResource, uid[g], total[g]) \subseteq Monitors
        /\ Put(perResource, uid[g], total[g])
              \in [DOMAIN Put(perResource, uid[g], total[g]) -> Totals]
    BY <2>1 DEF Typed, Put
  <2>4. globalTotal' \in Int
    BY <1>4, <2>2 DEF UpdateResource, Typed
  <2> QED
    BY <1>4, <2>3, <2>4 DEF UpdateResource, Typed, storeVars
<1>5. ASSUME NEW g \in Goroutines, CheckThresholds(g) PROVE Typed'
  <2>1. uid[g] \in Monitors /\ 0 \in Totals
    BY LimitsAssumption DEF Typed, Totals
  <2> QED
    BY <1>5, <2>1, CheckedType DEF CheckThresholds, Typed, storeVars
<1>6. CASE UNCHANGED vars
  BY <1>6 DEF Typed, vars, storeVars, managerVars
<1> QED
  BY <1>1, <1>2, <1>3, <1>4, <1>5, <1>6 DEF Next

\* A step keeps the total equal to the sum: only UpdateResource and
\* DeleteResource touch either.
LEMMA NextSum == Typed /\ GlobalTotalIsSum /\ [Next]_vars => GlobalTotalIsSum'
<1> SUFFICES ASSUME Typed, GlobalTotalIsSum, [Next]_vars PROVE GlobalTotalIsSum'
  OBVIOUS
<1>1. ASSUME UNCHANGED <<perResource, globalTotal>> PROVE GlobalTotalIsSum'
  BY <1>1 DEF GlobalTotalIsSum
<1>2. ASSUME NEW u \in Monitors, DeleteResource(u) PROVE GlobalTotalIsSum'
  <2>1. SumOf(perResource', MaxTotal) = SumOf(perResource, MaxTotal) - OldTotal(u)
    BY <1>2, ReportsTyped, TotalsAreNat, SumWithout DEF DeleteResource, OldTotal
  <2> QED
    BY <1>2, <2>1 DEF DeleteResource, GlobalTotalIsSum
<1>3. ASSUME NEW g \in Goroutines, UpdateResource(g) PROVE GlobalTotalIsSum'
  <2>1. uid[g] \in Monitors /\ total[g] \in Totals
    BY DEF Typed
  <2>2. SumOf(perResource', MaxTotal)
          = SumOf(perResource, MaxTotal) - OldTotal(uid[g]) + total[g]
    BY <1>3, <2>1, ReportsTyped, TotalsAreNat, SumPut DEF UpdateResource, OldTotal
  <2> QED
    BY <1>3, <2>2 DEF UpdateResource, GlobalTotalIsSum
<1>4. ASSUME NEW u \in Monitors, Track(u) PROVE GlobalTotalIsSum'
  BY <1>1, <1>4 DEF Track, managerVars
<1>5. ASSUME NEW g \in Goroutines, Aggregate(g) \/ CheckThresholds(g) PROVE GlobalTotalIsSum'
  BY <1>1, <1>5 DEF Aggregate, CheckThresholds, managerVars
<1>6. CASE UNCHANGED vars
  BY <1>1, <1>6 DEF vars, managerVars
<1> QED
  BY <1>2, <1>3, <1>4, <1>5, <1>6 DEF Next

\* cardinality_manager.go:49-74: globalTotal, kept by subtracting and adding,
\* is the sum of perResource in every reachable state.
THEOREM GlobalTotalIsAlwaysSum == Spec => []GlobalTotalIsSum
<1>1. Init => Typed /\ GlobalTotalIsSum
  BY InitTyped
<1>2. Typed /\ GlobalTotalIsSum /\ [Next]_vars => (Typed /\ GlobalTotalIsSum)'
  BY NextTyped, NextSum
<1> QED
  BY <1>1, <1>2, PTL DEF Spec

\* Every variable keeps its type; that the total is never negative needs that
\* it is a sum.
THEOREM TypeCorrect == Spec => []TypeOK
<1>1. Init => Typed /\ GlobalTotalIsSum
  BY InitTyped
<1>2. Typed /\ GlobalTotalIsSum /\ [Next]_vars => (Typed /\ GlobalTotalIsSum)'
  BY NextTyped, NextSum
<1>3. Typed /\ GlobalTotalIsSum => TypeOK
  <2> SUFFICES ASSUME Typed, GlobalTotalIsSum PROVE TypeOK
    OBVIOUS
  <2>1. SumOf(perResource, MaxTotal) \in Nat
    BY ReportsTyped, SumIsNat, TotalsAreNat
  <2> QED
    BY <2>1 DEF Typed, TypeOK, GlobalTotalIsSum
<1> QED
  BY <1>1, <1>2, <1>3, PTL DEF Spec

----------------------------------------------------------------------------

\* A monitor over its own limit is marked or being checked; while the total is
\* over the global one, all are marked or some check is still to come.
Marking ==
    /\ \A u \in DOMAIN perResource :
          ResourceOver(u) => IsCutoff(u) \/ \E g \in Goroutines : pc[g] = "check" /\ uid[g] = u
    /\ GlobalOver =>
          \/ \A u \in DOMAIN perResource : IsCutoff(u)
          \/ \E g \in Goroutines : pc[g] = "check"

\* After a check the monitor it is for has the mark it should, and every known
\* one has it while the total is over.
LEMMA CheckMarks ==
    ASSUME Typed, NEW u \in Monitors
    PROVE  /\ ResourceOver(u) => u \in DOMAIN Checked(u) /\ Checked(u)[u]
           /\ GlobalOver => \A v \in DOMAIN perResource : v \in DOMAIN Checked(u) /\ Checked(u)[v]
           /\ \A v \in DOMAIN cutoffResources \ {u} :
                 cutoffResources[v] => v \in DOMAIN Checked(u) /\ Checked(u)[v]
  BY DEF Typed, Checked, CheckedResource, Put, ResourceOver

\* A step keeps the marking: only a check takes a goroutine from "check", and
\* an update that may raise a total over a limit leads to one.
LEMMA NextMarking == Typed /\ Marking /\ [Next]_vars => Marking'
<1> SUFFICES ASSUME Typed, Marking, [Next]_vars PROVE Marking'
  OBVIOUS
<1> USE DEF Marking, IsCutoff
<1>1. ASSUME UNCHANGED <<managerVars, pc, uid>> PROVE Marking'
  BY <1>1 DEF managerVars, ResourceOver, GlobalOver, OldTotal
<1>2. ASSUME NEW u \in Monitors, Track(u) PROVE Marking'
  BY <1>1, <1>2 DEF Track
<1>3. ASSUME NEW u \in Monitors, DeleteResource(u) PROVE Marking'
  <2>1. DOMAIN perResource' = DOMAIN perResource \ {u} /\ UNCHANGED <<pc, uid>>
    BY <1>3 DEF DeleteResource, Without
  <2>2. \A v \in DOMAIN perResource' : OldTotal(v)' = OldTotal(v)
    BY <1>3, <2>1 DEF DeleteResource, Without, OldTotal, CountOf
  <2>3. \A v \in DOMAIN perResource' : IsCutoff(v) => IsCutoff(v)'
    BY <1>3, <2>1 DEF DeleteResource, Without
  <2>4. GlobalOver' => GlobalOver
    <3>1. OldTotal(u) \in Nat
      BY ReportsTyped
    <3> QED
      BY <1>3, <3>1, LimitsAssumption DEF DeleteResource, GlobalOver, Typed
  <2> QED
    BY <2>1, <2>2, <2>3, <2>4 DEF ResourceOver
<1>4. ASSUME NEW g \in Goroutines, Aggregate(g) PROVE Marking'
  <2>1. UNCHANGED managerVars /\ pc[g] = "idle"
    BY <1>4 DEF Aggregate
  <2>2. \A h \in Goroutines : pc[h] = "check" => pc'[h] = "check" /\ uid'[h] = uid[h]
    BY <1>4 DEF Aggregate, Typed
  <2> QED
    BY <2>1, <2>2 DEF managerVars, ResourceOver, GlobalOver, OldTotal
<1>5. ASSUME NEW g \in Goroutines, UpdateResource(g) PROVE Marking'
  <2>1. UNCHANGED <<cutoffResources, uid>> /\ pc'[g] = "check"
    BY <1>5 DEF UpdateResource, Typed
  <2>2. \A h \in Goroutines : pc[h] = "check" => pc'[h] = "check"
    BY <1>5 DEF UpdateResource, Typed
  <2>3. \A v \in DOMAIN perResource' \ {uid[g]} :
           v \in DOMAIN perResource /\ OldTotal(v)' = OldTotal(v)
    BY <1>5 DEF UpdateResource, Put, OldTotal, CountOf
  <2> QED
    BY <2>1, <2>2, <2>3 DEF ResourceOver
<1>6. ASSUME NEW g \in Goroutines, CheckThresholds(g) PROVE Marking'
  <2>1. /\ UNCHANGED <<perResource, globalTotal, uid>>
        /\ cutoffResources' = Checked(uid[g])
        /\ uid[g] \in Monitors
    BY <1>6 DEF CheckThresholds, Typed
  <2>2. \A h \in Goroutines \ {g} : pc'[h] = pc[h]
    BY <1>6 DEF CheckThresholds, Typed
  <2>3. (\A v : ResourceOver(v)' = ResourceOver(v)) /\ GlobalOver' = GlobalOver
    BY <2>1 DEF ResourceOver, GlobalOver, OldTotal
  <2>4. GlobalOver => \A v \in DOMAIN perResource : IsCutoff(v)'
    BY <2>1, CheckMarks
  <2>5. \A v \in DOMAIN perResource : ResourceOver(v) =>
           IsCutoff(v)' \/ \E h \in Goroutines \ {g} : pc[h] = "check" /\ uid[h] = v
    <3>1. ASSUME NEW v \in DOMAIN perResource, v # uid[g], IsCutoff(v) PROVE IsCutoff(v)'
      BY <2>1, <3>1, CheckMarks
    <3>2. ResourceOver(uid[g]) => IsCutoff(uid[g])'
      BY <2>1, CheckMarks
    <3> QED
      BY <3>1, <3>2, <2>1
  <2> QED
    BY <2>1, <2>2, <2>3, <2>4, <2>5
<1>7. CASE UNCHANGED vars
  BY <1>1, <1>7 DEF vars
<1> QED
  BY <1>2, <1>3, <1>4, <1>5, <1>6, <1>7 DEF Next

\* cardinality_manager.go:116-185: whatever order the goroutines' updates and
\* checks come in, with deletions between them, once no check is to come every
\* monitor over its limit has its mark, and all have it while the total is over.
THEOREM OverIsAlwaysMarked == Spec => []OverIsMarked
<1>1. Init => Typed /\ Marking
  <2>1. Init => Marking
    BY DEF Init, Marking
  <2> QED
    BY <2>1, InitTyped
<1>2. Typed /\ Marking /\ [Next]_vars => (Typed /\ Marking)'
  BY NextTyped, NextMarking
<1>3. Marking => OverIsMarked
  BY DEF Marking, OverIsMarked, NoneChecking
<1> QED
  BY <1>1, <1>2, <1>3, PTL DEF Spec
=============================================================================
