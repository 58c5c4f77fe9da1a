----------------------------- MODULE ReportsProofs -----------------------------
(* The conditions of a status agree, its writers keep each other's, and a    *)
(* report on a quiet store is one of a single moment, for any goroutines,    *)
(* families and limits.                                                      *)
EXTENDS Reports, TablesProofs

\* A goroutine that aggregates a store nobody changed has read what is there.
Settled == ~unchecked => cutoffFamilies = CutoffAfterCheck

AsRead(g) ==
    quiet[g] =>
        /\ ~unchecked
        /\ pc[g] \in {"readFamilies", "readCutoff", "check", "report"} =>
               agg[g].total = Total(perFamily)
        /\ pc[g] \in {"readCutoff", "check", "report"} => agg[g].perFamily = perFamily
        /\ pc[g] \in {"check", "report"} => agg[g].cutoffFamilies = cutoffFamilies
        /\ pc[g] = "report" => agg[g].worst = StoreSeverity

Writing == {"putStatus"} \cup PutCalls

\* A client whose Update would succeed has read the status that is there.
Fresh == \A c \in current : pc[c] \in Writing => copy[c] = status

AllAgree == Agree(status) /\ \A c \in Clients : Agree(copy[c])

----------------------------------------------------------------------------
(* ResourceMetricsMonitorStatus.Set.                                         *)

\* Set writes one condition of its type and keeps those of the others.
LEMMA SetWritesOne ==
    ASSUME NEW cs \in Seq(Conditions), OneOfAType(cs), NEW c \in Conditions
    PROVE  /\ Set(cs, c) \in Seq(Conditions)
           /\ OneOfAType(Set(cs, c))
           /\ Of(Set(cs, c), c.type) = {c}
           /\ \A t : t # c.type => Of(Set(cs, c), t) = Of(cs, t)
<1> DEFINE new == Set(cs, c)
<1>0. cs \in [1 .. Len(cs) -> Conditions] /\ Len(cs) \in Nat /\ DOMAIN cs = 1 .. Len(cs)
  <2> HIDE DEF new
  <2> QED
    OBVIOUS
<1>1. CASE \E n \in DOMAIN cs : cs[n].type = c.type
  <2>1. new = [n \in DOMAIN cs |-> IF cs[n].type = c.type THEN c ELSE cs[n]]
    BY <1>1 DEF Set
  <2>2. DOMAIN new = DOMAIN cs /\ \A n \in DOMAIN cs : new[n].type = cs[n].type
    BY <2>1
  <2>3. \A n \in DOMAIN cs : new[n] = IF cs[n].type = c.type THEN c ELSE cs[n]
    BY <2>1
  <2> HIDE DEF new
  <2>4. new \in Seq(Conditions)
    <3>1. new \in [1 .. Len(cs) -> Conditions]
      BY <1>0, <2>1
    <3> QED
      BY <1>0, <3>1
  <2>5. OneOfAType(new)
    BY <2>2 DEF OneOfAType
  <2>6. Of(new, c.type) = {c}
    BY <1>1, <2>2, <2>3 DEF Of
  <2>7. \A t : t # c.type => Of(new, t) = Of(cs, t)
    BY <2>2, <2>3 DEF Of
  <2> QED
    BY <2>4, <2>5, <2>6, <2>7 DEF new
<1>2. CASE ~ \E n \in DOMAIN cs : cs[n].type = c.type
  <2>1. new = Append(cs, c)
    BY <1>2 DEF Set
  <2>2. /\ DOMAIN new = DOMAIN cs \cup {Len(cs) + 1} /\ Len(cs) + 1 \notin DOMAIN cs
        /\ new[Len(cs) + 1] = c /\ \A n \in DOMAIN cs : new[n] = cs[n]
        /\ new \in Seq(Conditions)
    <3> HIDE DEF new
    <3>1. new \in Seq(Conditions) /\ Len(new) = Len(cs) + 1
      BY <1>0, <2>1
    <3>2. new[Len(cs) + 1] = c /\ \A n \in 1 .. Len(cs) : new[n] = cs[n]
      BY <1>0, <2>1
    <3> QED
      BY <1>0, <3>1, <3>2
  <2> HIDE DEF new
  <2>3. OneOfAType(new)
    BY <1>2, <2>2 DEF OneOfAType
  <2>4. Of(new, c.type) = {c}
    BY <1>2, <2>2 DEF Of
  <2>5. \A t : t # c.type => Of(new, t) = Of(cs, t)
    BY <2>2 DEF Of
  <2> QED
    BY <2>2, <2>3, <2>4, <2>5 DEF new
<1> QED
  BY <1>1, <1>2

\* What the writers put in a status are conditions.
LEMMA ConditionTypes ==
    /\ \A worst \in Severities : CutoffCondition(worst) \in Conditions
                              /\ WarningCondition(worst) \in Conditions
    /\ \A worst : CutoffCondition(worst).type = "CardinalityCutoff"
               /\ WarningCondition(worst).type = "CardinalityWarning"
    /\ \A value \in {"True", "False"} : Processed(value) \in Conditions
    /\ \A value : Processed(value).type = "Processed"
  BY DEF CutoffCondition, WarningCondition, Processed, Condition, Conditions, Types, Reasons,
     Severities

\* A report makes the conditions agree, whatever they were, and keeps Processed.
LEMMA ReportAgrees ==
    ASSUME NEW s \in Statuses, Agree(s), NEW worst \in Severities
    PROVE  /\ WithReport(s, worst) \in Statuses
           /\ Agree(WithReport(s, worst))
           /\ Of(WithReport(s, worst).conditions, "Processed") = Of(s.conditions, "Processed")
<1> DEFINE one == Set(s.conditions, CutoffCondition(worst))
           two == Set(one, WarningCondition(worst))
<1>1. s.conditions \in Seq(Conditions) /\ OneOfAType(s.conditions)
  BY DEF Statuses, Agree
<1>2. CutoffCondition(worst) \in Conditions /\ CutoffCondition(worst).type = "CardinalityCutoff"
  BY ConditionTypes
<1>3. WarningCondition(worst) \in Conditions /\ WarningCondition(worst).type = "CardinalityWarning"
  BY ConditionTypes
<1>4. /\ one \in Seq(Conditions) /\ OneOfAType(one)
      /\ Of(one, "CardinalityCutoff") = {CutoffCondition(worst)}
      /\ Of(one, "Processed") = Of(s.conditions, "Processed")
  <2> DEFINE c == CutoffCondition(worst)
             cs == s.conditions
  <2>1. c \in Conditions /\ c.type = "CardinalityCutoff"
    BY <1>2
  <2>2. cs \in Seq(Conditions) /\ OneOfAType(cs)
    BY <1>1
  <2> HIDE DEF c, cs
  <2>3. /\ Set(cs, c) \in Seq(Conditions) /\ OneOfAType(Set(cs, c))
        /\ Of(Set(cs, c), c.type) = {c}
        /\ \A t : t # c.type => Of(Set(cs, c), t) = Of(cs, t)
    BY <2>1, <2>2, SetWritesOne
  <2>4. one = Set(cs, c)
    BY DEF c, cs
  <2> HIDE DEF one
  <2> QED
    BY <2>1, <2>3, <2>4 DEF c, cs
<1> HIDE DEF one
<1>5. /\ two \in Seq(Conditions) /\ OneOfAType(two)
      /\ Of(two, "CardinalityWarning") = {WarningCondition(worst)}
      /\ Of(two, "CardinalityCutoff") = {CutoffCondition(worst)}
      /\ Of(two, "Processed") = Of(s.conditions, "Processed")
  <2>1. /\ two \in Seq(Conditions) /\ OneOfAType(two)
        /\ Of(two, "CardinalityWarning") = {WarningCondition(worst)}
        /\ \A t : t # "CardinalityWarning" => Of(two, t) = Of(one, t)
    <3> DEFINE c == WarningCondition(worst)
    <3>1. c \in Conditions /\ c.type = "CardinalityWarning"
      BY <1>3
    <3>2. one \in Seq(Conditions) /\ OneOfAType(one)
      BY <1>4
    <3> HIDE DEF c
    <3>3. /\ Set(one, c) \in Seq(Conditions) /\ OneOfAType(Set(one, c))
          /\ Of(Set(one, c), c.type) = {c}
          /\ \A t : t # c.type => Of(Set(one, c), t) = Of(one, t)
      BY <3>1, <3>2, SetWritesOne
    <3> QED
      BY <3>1, <3>3 DEF c
  <2> HIDE DEF two
  <2> QED
    BY <1>4, <2>1
<1>6. WithReport(s, worst)
        = [conditions |-> two, exceeded |-> IF worst = "cutoff" THEN "True" ELSE "False"]
  BY DEF WithReport, one
<1> HIDE DEF two
<1>7. /\ IsTrue(two, "CardinalityCutoff") <=> worst = "cutoff"
      /\ IsTrue(two, "CardinalityWarning") <=> worst \in {"warning", "cutoff"}
  <2>1. CutoffCondition(worst).status = "True" <=> worst = "cutoff"
    BY DEF CutoffCondition, Condition
  <2>2. WarningCondition(worst).status = "True" <=> worst \in {"warning", "cutoff"}
    BY DEF WarningCondition, Condition
  <2> QED
    BY <1>5, <2>1, <2>2 DEF IsTrue
<1>8. CutoffCondition(worst).reason = "CardinalityWarning" <=> worst = "warning"
  BY DEF CutoffCondition, Condition
<1>9. CutoffCondition(worst).status = "False" <=> worst # "cutoff"
  BY DEF CutoffCondition, Condition
<1>10. Agree(WithReport(s, worst))
  BY <1>5, <1>6, <1>7, <1>8, <1>9 DEF Agree
<1> QED
  BY <1>5, <1>6, <1>10 DEF Statuses

\* The Processed condition leaves the report as it is.
LEMMA ProcessedAgrees ==
    ASSUME NEW s \in Statuses, Agree(s), NEW value \in {"True", "False"}
    PROVE  /\ WithProcessed(s, value) \in Statuses
           /\ Agree(WithProcessed(s, value))
           /\ WithProcessed(s, value).exceeded = s.exceeded
           /\ \A t \in Types \ {"Processed"} :
                 Of(WithProcessed(s, value).conditions, t) = Of(s.conditions, t)
<1> DEFINE new == Set(s.conditions, Processed(value))
<1>1. s.conditions \in Seq(Conditions) /\ OneOfAType(s.conditions) /\ s.exceeded \in {"unknown", "True", "False"}
  BY DEF Statuses, Agree
<1>2. Processed(value) \in Conditions /\ Processed(value).type = "Processed"
  BY ConditionTypes
<1>3. /\ new \in Seq(Conditions) /\ OneOfAType(new)
      /\ \A t : t # "Processed" => Of(new, t) = Of(s.conditions, t)
  <2> HIDE DEF Conditions
  <2> QED
    BY <1>1, <1>2, SetWritesOne
<1>4. WithProcessed(s, value) = [conditions |-> new, exceeded |-> s.exceeded]
  BY DEF WithProcessed, Statuses
<1> HIDE DEF new
<1>5. /\ IsTrue(new, "CardinalityCutoff") <=> IsTrue(s.conditions, "CardinalityCutoff")
      /\ IsTrue(new, "CardinalityWarning") <=> IsTrue(s.conditions, "CardinalityWarning")
      /\ Of(new, "CardinalityCutoff") = Of(s.conditions, "CardinalityCutoff")
  BY <1>3 DEF IsTrue
<1>6. WithProcessed(s, value) \in Statuses
  BY <1>1, <1>3, <1>4 DEF Statuses
<1>7. Agree(WithProcessed(s, value))
  BY <1>3, <1>4, <1>5 DEF Agree
<1> QED
  BY <1>3, <1>4, <1>6, <1>7

\* A status nobody has written agrees.
LEMMA NoStatusAgrees == NoStatus \in Statuses /\ Agree(NoStatus)
  BY DEF NoStatus, Statuses, Agree, OneOfAType, Of, IsTrue

----------------------------------------------------------------------------
(* The types.                                                                *)

Records == [total : Nat, perFamily : Contents, cutoffFamilies : SUBSET Family,
            worst : Severities]

\* The total of what the store counts is a number.
LEMMA TotalType == \A counts \in Contents : Total(counts) \in Nat
<1> SUFFICES ASSUME NEW counts \in Contents PROVE Total(counts) \in Nat
  OBVIOUS
<1>1. counts \in [Family -> 0 .. MaxCount] /\ MaxCount \in Nat /\ NumFamilies \in Nat
  BY ContentsAssumption
<1>2. IsFiniteSet(DOMAIN counts) /\ counts \in [DOMAIN counts -> 0 .. MaxCount]
  <2>1. IsFiniteSet(Family)
    BY <1>1, FS_Interval DEF Family
  <2>2. DOMAIN counts = Family
    BY <1>1
  <2> QED
    BY <1>1, <2>1, <2>2
<1>3. SumOf(counts, MaxCount) \in Nat
  BY <1>1, <1>2, SumIsNat
<1> QED
  BY <1>3 DEF Total

\* A goroutine starts with an empty report.
LEMMA NoReportType == NoReport \in Records
  BY ContentsAssumption DEF NoReport, NoCounts, Records, Severities, Family

\* TypeOK in the words of the proof.
LEMMA Types1 ==
    TypeOK => /\ agg \in [Goroutines -> Records]
              /\ status \in Statuses /\ \A c \in Clients : copy[c] \in Statuses
  BY DEF TypeOK, Records

\* A worker is a client, and so are the goroutines.
LEMMA ClientsAre == Worker \in Clients /\ Goroutines \subseteq Clients
  BY DEF Clients

\* Init gives every variable its type and every status agreement.
LEMMA InitTypes == Init => TypeOK /\ AllAgree /\ Fresh
<1> SUFFICES ASSUME Init PROVE TypeOK /\ AllAgree /\ Fresh
  OBVIOUS
<1>1. agg \in [Goroutines -> Records]
  BY NoReportType DEF Init
<1>2. perFamily \in Contents
  BY ContentsAssumption DEF Init, NoCounts
<1>3. pc \in [Clients -> Labels]
  BY DEF Init, Labels, GetCalls
<1>4. status \in Statuses /\ copy \in [Clients -> Statuses] /\ AllAgree
  <2>1. status = NoStatus /\ copy = [c \in Clients |-> NoStatus]
    BY DEF Init
  <2> QED
    BY <2>1, NoStatusAgrees DEF AllAgree
<1>5. TypeOK
  BY <1>1, <1>2, <1>3, <1>4 DEF Init, TypeOK, Records
<1>6. Fresh
  BY DEF Init, Fresh
<1> QED
  BY <1>4, <1>5, <1>6

\* The reflector and the reads of a goroutine have nothing to do with statuses.
LEMMA TrackerTypes ==
    ASSUME TypeOK, AllAgree, Fresh,
           Track \/ ReflectorChecks \/ \E g \in Goroutines : Aggregate(g)
    PROVE  TypeOK' /\ AllAgree' /\ Fresh'
<1>1. CASE Track \/ ReflectorChecks
  <2>1. /\ perFamily' \in Contents /\ cutoffFamilies' \subseteq Family
        /\ unchecked' \in BOOLEAN /\ quiet' \in [Goroutines -> BOOLEAN]
    BY <1>1 DEF Track, ReflectorChecks, Checked, CutoffAfterCheck, TypeOK
  <2>2. UNCHANGED <<apiVars, pc, copy, agg>>
    BY <1>1 DEF Track, ReflectorChecks
  <2> QED
    BY <2>1, <2>2 DEF TypeOK, AllAgree, Fresh, apiVars
<1>2. ASSUME NEW g \in Goroutines, Aggregate(g) PROVE TypeOK' /\ AllAgree' /\ Fresh'
  <2>0. g \in Clients /\ agg \in [Goroutines -> Records] /\ pc \in [Clients -> Labels]
    BY ClientsAre, Types1 DEF TypeOK
  <2>1. \E r \in Records : agg' = [agg EXCEPT ![g] = r]
    <3>1. agg[g] \in Records /\ Total(perFamily) \in Nat /\ perFamily \in Contents
          /\ cutoffFamilies \subseteq Family
      BY <2>0, TotalType DEF TypeOK
    <3>2. /\ [agg[g] EXCEPT !.total = Total(perFamily)] \in Records
          /\ [agg[g] EXCEPT !.perFamily = perFamily] \in Records
          /\ [agg[g] EXCEPT !.cutoffFamilies = cutoffFamilies] \in Records
          /\ [agg[g] EXCEPT !.worst = StoreSeverity] \in Records
      BY <3>1 DEF Records, StoreSeverity, Severities
    <3> QED
      BY <1>2, <3>2 DEF Aggregate, ReadTotal, ReadFamilies, ReadCutoff, CheckStore
  <2>2. agg' \in [Goroutines -> Records]
    BY <2>0, <2>1
  <2>3. \E l \in Labels \ Writing : pc' = [pc EXCEPT ![g] = l]
    BY <1>2 DEF Aggregate, ReadTotal, ReadFamilies, ReadCutoff, CheckStore, Goto, Labels,
       Writing, PutCalls, GetCalls
  <2>4. pc' \in [Clients -> Labels] /\ \A c \in Clients : pc'[c] \in Writing => pc[c] \in Writing
    BY <2>0, <2>3
  <2>5. /\ cutoffFamilies' \subseteq Family /\ quiet' \in [Goroutines -> BOOLEAN]
        /\ UNCHANGED <<perFamily, unchecked, apiVars, copy>>
    BY <1>2 DEF Aggregate, ReadTotal, ReadFamilies, ReadCutoff, CheckStore, trackerVars, TypeOK,
       CutoffAfterCheck
  <2>6. TypeOK'
    BY <2>2, <2>4, <2>5 DEF TypeOK, Records, apiVars
  <2>7. AllAgree'
    BY <2>5 DEF AllAgree, apiVars
  <2>8. Fresh'
    BY <2>4, <2>5 DEF Fresh, apiVars, TypeOK
  <2> QED
    BY <2>6, <2>7, <2>8
<1> QED
  BY <1>1, <1>2

\* What the clients do with the status.
LEMMA ClientTypes ==
    ASSUME TypeOK, AllAgree, Fresh, NEW c \in Clients, NEW l \in Labels,
           Goto(c, l),
           agg' \in [Goroutines -> Records], quiet' \in [Goroutines -> BOOLEAN],
           UNCHANGED trackerVars,
           \/ Read(c, l) /\ UNCHANGED status
           \/ Forget(c, l) /\ UNCHANGED apiVars /\ l \notin Writing
           \/ /\ Forget(c, l) /\ l \notin Writing /\ current' = {}
              /\ status' \in Statuses /\ Agree(status')
    PROVE  TypeOK' /\ AllAgree' /\ Fresh'
<1>1. pc' = [pc EXCEPT ![c] = l] /\ pc \in [Clients -> Labels] /\ copy \in [Clients -> Statuses]
      /\ current \subseteq Clients /\ status \in Statuses
  BY DEF Goto, TypeOK
<1>2. /\ status' \in Statuses /\ Agree(status') /\ current' \subseteq Clients
      /\ copy' = [copy EXCEPT ![c] = status] \/ copy' = [copy EXCEPT ![c] = NoStatus]
  BY <1>1 DEF AllAgree, apiVars, Read, Forget
<1>3. copy' \in [Clients -> Statuses] /\ \A d \in Clients : Agree(copy'[d])
  BY <1>1, <1>2, NoStatusAgrees DEF AllAgree
<1>4. TypeOK'
  BY <1>1, <1>2, <1>3 DEF TypeOK, Records, trackerVars
<1>5. AllAgree'
  BY <1>2, <1>3 DEF AllAgree
<1>6. Fresh'
  <2> SUFFICES ASSUME NEW d \in current', pc'[d] \in Writing PROVE copy'[d] = status'
    BY DEF Fresh
  <2>1. CASE Read(c, l) /\ UNCHANGED status
    BY <1>1, <2>1 DEF Read, Fresh
  <2>2. CASE Forget(c, l) /\ UNCHANGED apiVars /\ l \notin Writing
    BY <1>1, <2>2 DEF Forget, Fresh, apiVars
  <2> QED
    BY <2>1, <2>2
<1> QED
  BY <1>4, <1>5, <1>6

\* The goroutines' and the worker's calls keep the statuses in agreement.
LEMMA PersistTypes ==
    ASSUME TypeOK, AllAgree, Fresh, NEW g \in Goroutines, Persist(g)
    PROVE  TypeOK' /\ AllAgree' /\ Fresh'
<1>0. /\ g \in Clients /\ agg \in [Goroutines -> Records] /\ agg[g] \in Records
      /\ quiet \in [Goroutines -> BOOLEAN] /\ copy[g] \in Statuses /\ Agree(copy[g])
      /\ "done" \in Labels \ Writing /\ "putStatus" \in Labels
  BY ClientsAre, Types1 DEF TypeOK, AllAgree, Labels, Writing, PutCalls
<1>1. CASE GetStatus(g)
  <2>1. PICK s \in Severities :
            agg' = [agg EXCEPT ![g] = [NoReport EXCEPT !.worst = Severest(agg[g].worst, s)]]
    BY <1>1 DEF GetStatus
  <2>2. [NoReport EXCEPT !.worst = Severest(agg[g].worst, s)] \in Records
    BY NoReportType DEF Records, Severest, Severities
  <2>3. agg' \in [Goroutines -> Records]
    BY <1>0, <2>1, <2>2
  <2>4. /\ quiet' \in [Goroutines -> BOOLEAN] /\ UNCHANGED trackerVars
        /\ Read(g, "putStatus") /\ UNCHANGED status /\ Goto(g, "putStatus")
    BY <1>0, <1>1 DEF GetStatus, Read
  <2> QED
    BY <1>0, <2>3, <2>4, ClientTypes
<1>2. CASE PutStatus(g)
  <2>1. agg' \in [Goroutines -> Records]
    BY <1>0, <1>2, NoReportType DEF PutStatus
  <2>2. WithReport(copy[g], agg[g].worst) \in Statuses /\ Agree(WithReport(copy[g], agg[g].worst))
    <3>1. agg[g].worst \in Severities
      BY <1>0 DEF Records
    <3> QED
      BY <1>0, <3>1, ReportAgrees
  <2>3. /\ quiet' \in [Goroutines -> BOOLEAN] /\ UNCHANGED trackerVars
        /\ Forget(g, "done") /\ Goto(g, "done") /\ current' = {}
        /\ status' \in Statuses /\ Agree(status')
    BY <1>0, <1>2, <2>2 DEF PutStatus, Forget, Write
  <2> QED
    BY <1>0, <2>1, <2>3, ClientTypes
<1>3. CASE StatusFails(g)
  <2>1. agg' \in [Goroutines -> Records]
    BY <1>0, <1>3, NoReportType DEF StatusFails
  <2>2. /\ quiet' \in [Goroutines -> BOOLEAN] /\ UNCHANGED <<trackerVars, apiVars>>
        /\ Forget(g, "done") /\ Goto(g, "done")
    BY <1>0, <1>3 DEF StatusFails, Forget
  <2> QED
    BY <1>0, <2>1, <2>2, ClientTypes
<1> QED
  BY <1>1, <1>2, <1>3 DEF Persist

\* So do the worker's.
LEMMA WorkerTypes ==
    ASSUME TypeOK, AllAgree, Fresh, GetMonitor \/ EmitSuccess \/ EmitFails
    PROVE  TypeOK' /\ AllAgree' /\ Fresh'
<1>0. /\ Worker \in Clients /\ agg \in [Goroutines -> Records]
      /\ quiet \in [Goroutines -> BOOLEAN] /\ copy[Worker] \in Statuses /\ Agree(copy[Worker])
      /\ GetCalls \subseteq Labels \ Writing /\ PutCalls \subseteq Labels
      /\ "getDone" \in GetCalls /\ "getReceived" \in GetCalls
  BY ClientsAre, Types1 DEF TypeOK, AllAgree, Labels, Writing, PutCalls, GetCalls
<1>1. CASE GetMonitor
  <2>1. PICK l \in PutCalls : Read(Worker, l)
    BY <1>1 DEF GetMonitor, PutCalls
  <2>2. UNCHANGED <<trackerVars, status, agg, quiet>> /\ Goto(Worker, l)
    BY <1>1, <2>1 DEF GetMonitor, Read
  <2> QED
    BY <1>0, <2>1, <2>2, ClientTypes
<1>2. CASE EmitSuccess
  <2>1. PICK value \in {"True", "False"}, l \in GetCalls :
            Write(WithProcessed(copy[Worker], value)) /\ Forget(Worker, l)
    BY <1>0, <1>2 DEF EmitSuccess
  <2>2. status' \in Statuses /\ Agree(status') /\ current' = {}
    BY <1>0, <2>1, ProcessedAgrees DEF Write
  <2>3. UNCHANGED <<trackerVars, agg, quiet>> /\ Goto(Worker, l)
    BY <1>2, <2>1 DEF EmitSuccess, Forget
  <2> QED
    BY <1>0, <2>1, <2>2, <2>3, ClientTypes
<1>3. CASE EmitFails
  <2>1. UNCHANGED <<trackerVars, apiVars, agg, quiet>> /\ Forget(Worker, "getReceived")
        /\ Goto(Worker, "getReceived")
    BY <1>3 DEF EmitFails, Forget
  <2> QED
    BY <1>0, <2>1, ClientTypes
<1> QED
  BY <1>1, <1>2, <1>3

\* Every step keeps the types, the agreement and what the clients know.
LEMMA NextTypes == TypeOK /\ AllAgree /\ Fresh /\ [Next]_vars => (TypeOK /\ AllAgree /\ Fresh)'
<1> SUFFICES ASSUME TypeOK, AllAgree, Fresh, [Next]_vars PROVE TypeOK' /\ AllAgree' /\ Fresh'
  OBVIOUS
<1>1. CASE Edit
  BY <1>1 DEF Edit, TypeOK, AllAgree, Fresh, trackerVars
<1>2. CASE UNCHANGED vars
  BY <1>2 DEF vars, TypeOK, AllAgree, Fresh, trackerVars, apiVars
<1> QED
  BY <1>1, <1>2, TrackerTypes, PersistTypes, WorkerTypes DEF Next

\* TypeOK holds in every reachable state.
THEOREM ReportsTyped == Spec => []TypeOK
  BY InitTypes, NextTypes, PTL DEF Spec

\* events.go:473-519: whatever the goroutines report, and in any interleaving
\* with the workers, the conditions of the status do not contradict each other.
THEOREM ConditionsAlwaysAgree == Spec => []ConditionsAgree
<1>1. AllAgree => ConditionsAgree
  BY DEF AllAgree, ConditionsAgree
<1> QED
  BY <1>1, InitTypes, NextTypes, PTL DEF Spec

\* events.go:157-159, 411-438: no report takes back what a worker has written,
\* nor a worker a report.
THEOREM WritersAlwaysKeepOthers == Spec => WritersKeepOthers
<1> DEFINE Keeps == /\ (\E g \in Goroutines : PutStatus(g)) =>
                          Of(status'.conditions, "Processed") = Of(status.conditions, "Processed")
                    /\ EmitSuccess =>
                          /\ status'.exceeded = status.exceeded
                          /\ \A type \in Types \ {"Processed"} :
                                Of(status'.conditions, type) = Of(status.conditions, type)
<1>1. ASSUME TypeOK, AllAgree, Fresh, NEW g \in Goroutines, PutStatus(g)
      PROVE  Of(status'.conditions, "Processed") = Of(status.conditions, "Processed")
  <2>1. copy[g] = status
    BY <1>1 DEF PutStatus, MayUpdate, Fresh, Writing
  <2>2. status \in Statuses /\ Agree(status) /\ agg[g].worst \in Severities
    BY <1>1, Types1 DEF AllAgree, Records
  <2>3. status' = WithReport(status, agg[g].worst)
    BY <1>1, <2>1 DEF PutStatus, Write
  <2> QED
    BY <2>2, <2>3, ReportAgrees
<1>2. ASSUME TypeOK, AllAgree, Fresh, EmitSuccess
      PROVE  /\ status'.exceeded = status.exceeded
             /\ \A type \in Types \ {"Processed"} :
                   Of(status'.conditions, type) = Of(status.conditions, type)
  <2>1. copy[Worker] = status
    BY <1>2 DEF EmitSuccess, MayUpdate, Fresh, Writing
  <2>2. status \in Statuses /\ Agree(status)
    BY <1>2, Types1 DEF AllAgree
  <2>3. PICK value \in {"True", "False"} : status' = WithProcessed(status, value)
    BY <1>2, <2>1 DEF EmitSuccess, Write
  <2> QED
    BY <2>2, <2>3, ProcessedAgrees
<1>3. TypeOK /\ AllAgree /\ Fresh /\ [Next]_vars => [Keeps]_vars
  BY <1>1, <1>2
<1> QED
  BY <1>3, InitTypes, NextTypes, PTL DEF Spec, WritersKeepOthers

----------------------------------------------------------------------------
(* A report on a quiet store.                                                *)

\* What a check leaves cut off, it would leave cut off again.
LEMMA CheckTwice ==
    ASSUME cutoffFamilies' = CutoffAfterCheck, UNCHANGED perFamily
    PROVE  CutoffAfterCheck' = cutoffFamilies'
  BY DEF CutoffAfterCheck, FamilyOver, StoreOver

Reading == Settled /\ \A g \in Goroutines : AsRead(g)

\* No goroutine has read anything, and an empty store is settled.
LEMMA InitReading == Init => Reading
<1> SUFFICES ASSUME Init PROVE Reading
  OBVIOUS
<1>1. CutoffAfterCheck = {}
  <2>1. perFamily = [f \in Family |-> 0] /\ cutoffFamilies = {} /\ MaxCount \in Nat
        /\ NumFamilies \in Nat
    BY ContentsAssumption DEF Init, NoCounts
  <2>2. \A f \in Family : ~FamilyOver(f)
    BY <2>1, LimitsAssumption DEF FamilyOver, Over
  <2>3. Total(perFamily) = 0
    <3>1. Pairs([k \in DOMAIN perFamily |-> 1 .. perFamily[k]], 1 .. MaxCount) = {}
      BY <2>1 DEF Pairs
    <3> QED
      BY <3>1, FS_EmptySet DEF Total, SumOf
  <2>4. ~StoreOver
    BY <2>3, LimitsAssumption DEF StoreOver, Over
  <2> QED
    BY <2>1, <2>2, <2>4 DEF CutoffAfterCheck
<1> QED
  BY <1>1 DEF Init, Reading, Settled, AsRead

\* A step that leaves the tracker alone, and the goroutines but one.
LEMMA OthersRead ==
    ASSUME TypeOK, Reading, NEW g \in Goroutines, NEW l,
           UNCHANGED perFamily, UNCHANGED unchecked,
           \/ UNCHANGED cutoffFamilies
           \/ cutoffFamilies' = CutoffAfterCheck,
           Goto(g, l), \A h \in Goroutines \ {g} : agg'[h] = agg[h] /\ quiet'[h] = quiet[h],
           AsRead(g)'
    PROVE  Reading'
<1>1. Settled'
  BY CheckTwice DEF Reading, Settled, CutoffAfterCheck, FamilyOver, StoreOver
<1>2. ~unchecked => UNCHANGED cutoffFamilies
  BY DEF Reading, Settled
<1>3. ASSUME NEW h \in Goroutines \ {g} PROVE AsRead(h)'
  <2>1. pc'[h] = pc[h]
    BY ClientsAre DEF Goto, TypeOK
  <2>2. AsRead(h)
    BY DEF Reading
  <2>3. UNCHANGED StoreSeverity
    BY DEF StoreSeverity, StoreOver, FamilyOver
  <2> QED
    BY <1>2, <2>1, <2>2, <2>3 DEF AsRead
<1> QED
  BY <1>1, <1>3 DEF Reading

\* A goroutine's reads of a quiet store are reads of what stays there.
LEMMA AggregateReading ==
    ASSUME TypeOK, Reading, NEW g \in Goroutines, Aggregate(g)
    PROVE  Reading'
<1>0. /\ g \in Clients /\ pc \in [Clients -> Labels] /\ agg \in [Goroutines -> Records]
      /\ quiet \in [Goroutines -> BOOLEAN] /\ agg[g] \in Records /\ AsRead(g)
  BY ClientsAre, Types1 DEF TypeOK, Reading
<1>1. CASE ReadTotal(g)
  <2>1. /\ pc'[g] = "readFamilies" /\ agg'[g].total = Total(perFamily)
        /\ quiet'[g] = ~unchecked /\ Goto(g, "readFamilies")
        /\ \A h \in Goroutines \ {g} : agg'[h] = agg[h] /\ quiet'[h] = quiet[h]
        /\ UNCHANGED trackerVars
    BY <1>0, <1>1 DEF ReadTotal, Goto, Records
  <2>2. AsRead(g)'
    BY <2>1 DEF AsRead, trackerVars
  <2> QED
    BY <2>1, <2>2, OthersRead DEF trackerVars
<1>2. CASE ReadFamilies(g)
  <2>1. /\ pc[g] = "readFamilies" /\ pc'[g] = "readCutoff"
        /\ agg'[g].total = agg[g].total /\ agg'[g].perFamily = perFamily
        /\ Goto(g, "readCutoff") /\ UNCHANGED quiet
        /\ \A h \in Goroutines \ {g} : agg'[h] = agg[h] /\ quiet'[h] = quiet[h]
        /\ UNCHANGED trackerVars
    BY <1>0, <1>2 DEF ReadFamilies, Goto, Records
  <2>2. AsRead(g)'
    BY <1>0, <2>1 DEF AsRead, trackerVars
  <2> QED
    BY <2>1, <2>2, OthersRead DEF trackerVars
<1>3. CASE ReadCutoff(g)
  <2>1. /\ pc[g] = "readCutoff" /\ pc'[g] = "check"
        /\ agg'[g].total = agg[g].total /\ agg'[g].perFamily = agg[g].perFamily
        /\ agg'[g].cutoffFamilies = cutoffFamilies
        /\ Goto(g, "check") /\ UNCHANGED quiet
        /\ \A h \in Goroutines \ {g} : agg'[h] = agg[h] /\ quiet'[h] = quiet[h]
        /\ UNCHANGED trackerVars
    BY <1>0, <1>3 DEF ReadCutoff, Goto, Records
  <2>2. AsRead(g)'
    BY <1>0, <2>1 DEF AsRead, trackerVars
  <2> QED
    BY <2>1, <2>2, OthersRead DEF trackerVars
<1>4. CASE CheckStore(g)
  <2>1. /\ pc[g] = "check" /\ pc'[g] = "report"
        /\ agg'[g].total = agg[g].total /\ agg'[g].perFamily = agg[g].perFamily
        /\ agg'[g].cutoffFamilies = agg[g].cutoffFamilies /\ agg'[g].worst = StoreSeverity
        /\ Goto(g, "report") /\ UNCHANGED <<quiet, perFamily, unchecked>>
        /\ cutoffFamilies' = CutoffAfterCheck
        /\ \A h \in Goroutines \ {g} : agg'[h] = agg[h] /\ quiet'[h] = quiet[h]
    BY <1>0, <1>4 DEF CheckStore, Goto, Records
  <2>2. UNCHANGED StoreSeverity
    BY <2>1 DEF StoreSeverity, StoreOver, FamilyOver
  <2>3. ~unchecked => UNCHANGED cutoffFamilies
    BY <2>1 DEF Reading, Settled
  <2>4. AsRead(g)'
    BY <1>0, <2>1, <2>2, <2>3 DEF AsRead
  <2> QED
    BY <2>1, <2>4, OthersRead
<1> QED
  BY <1>1, <1>2, <1>3, <1>4 DEF Aggregate

\* Every step keeps what is read of a quiet store.
LEMMA NextReading == TypeOK /\ Reading /\ [Next]_vars => Reading'
<1> SUFFICES ASSUME TypeOK, Reading, [Next]_vars PROVE Reading'
  OBVIOUS
<1>0. pc \in [Clients -> Labels] /\ quiet \in [Goroutines -> BOOLEAN] /\ agg \in [Goroutines -> Records]
  BY Types1 DEF TypeOK
<1>1. CASE Track
  BY <1>1 DEF Track, Reading, Settled, AsRead
<1>2. CASE ReflectorChecks
  <2>1. \A g \in Goroutines : ~quiet[g]
    BY <1>2 DEF ReflectorChecks, Reading, AsRead
  <2>2. Settled'
    BY <1>2, CheckTwice DEF ReflectorChecks, Checked, Settled
  <2> QED
    BY <1>2, <2>1, <2>2 DEF ReflectorChecks, Reading, AsRead
<1>3. ASSUME NEW g \in Goroutines, Aggregate(g) PROVE Reading'
  BY <1>3, AggregateReading
<1>4. ASSUME NEW g \in Goroutines, Persist(g) PROVE Reading'
  <2>1. PICK l : Goto(g, l)
    BY <1>4 DEF Persist, GetStatus, PutStatus, StatusFails, Read, Forget
  <2>2. /\ \A h \in Goroutines \ {g} : agg'[h] = agg[h] /\ quiet'[h] = quiet[h]
        /\ UNCHANGED trackerVars
        /\ quiet'[g] = FALSE \/ (quiet'[g] = quiet[g] /\ l = "done")
    BY <1>0, <1>4, <2>1, ClientsAre DEF Persist, GetStatus, PutStatus, StatusFails, Forget, Goto
  <2>3. AsRead(g)'
    <3>1. l = "done" => pc'[g] = "done"
      BY <1>0, <2>1, ClientsAre DEF Goto
    <3>2. quiet[g] => ~unchecked
      BY DEF Reading, AsRead
    <3> QED
      BY <2>2, <3>1, <3>2 DEF AsRead, trackerVars
  <2> QED
    BY <2>1, <2>2, <2>3, OthersRead DEF trackerVars
<1>5. CASE GetMonitor \/ EmitSuccess \/ EmitFails
  <2>1. PICK l : Goto(Worker, l)
    BY <1>5 DEF GetMonitor, EmitSuccess, EmitFails, Read, Forget
  <2>2. \A g \in Goroutines : pc'[g] = pc[g]
    BY <1>0, <2>1, ClientsAre, WorkerAssumption DEF Goto
  <2>3. UNCHANGED <<trackerVars, agg, quiet>>
    BY <1>5 DEF GetMonitor, EmitSuccess, EmitFails
  <2> QED
    BY <2>2, <2>3 DEF Reading, Settled, AsRead, trackerVars, CutoffAfterCheck, StoreSeverity,
       StoreOver, FamilyOver
<1>6. CASE Edit \/ UNCHANGED vars
  BY <1>6 DEF Edit, vars, Reading, Settled, AsRead, trackerVars, CutoffAfterCheck, StoreSeverity,
     StoreOver, FamilyOver
<1> QED
  BY <1>1, <1>2, <1>3, <1>4, <1>5, <1>6 DEF Next

\* events.go:301-346: what a goroutine has put together under four locks of a
\* store that nobody changed meanwhile is true of it at one moment.
THEOREM QuietReportsAlwaysExact == Spec => []QuietReportsExact
<1>1. TypeOK /\ Reading => QuietReportsExact
  <2> SUFFICES ASSUME TypeOK, Reading, NEW g \in Goroutines, pc[g] = "report", quiet[g]
               PROVE  /\ agg[g].total = Total(agg[g].perFamily)
                      /\ agg[g].cutoffFamilies = cutoffFamilies
                      /\ \A f \in Family : Over(agg[g].perFamily[f], FamilyLimit[f]) =>
                                               f \in agg[g].cutoffFamilies
                      /\ agg[g].worst = "cutoff" <=>
                             \/ Over(agg[g].total, StoreLimit)
                             \/ \E f \in Family : Over(agg[g].perFamily[f], FamilyLimit[f])
    BY DEF QuietReportsExact
  <2>1. /\ ~unchecked /\ agg[g].total = Total(perFamily) /\ agg[g].perFamily = perFamily
        /\ agg[g].cutoffFamilies = cutoffFamilies /\ agg[g].worst = StoreSeverity
    BY DEF Reading, AsRead
  <2>2. cutoffFamilies = CutoffAfterCheck
    BY <2>1 DEF Reading, Settled
  <2>3. StoreSeverity = "cutoff" <=> StoreOver \/ \E f \in Family : FamilyOver(f)
    BY DEF StoreSeverity
  <2> QED
    BY <2>1, <2>2, <2>3 DEF CutoffAfterCheck, FamilyOver, StoreOver
<1> QED
  BY <1>1, InitTypes, NextTypes, InitReading, NextReading, PTL DEF Spec
================================================================================
