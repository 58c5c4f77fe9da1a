-------------------------------- MODULE Reports --------------------------------
(***************************************************************************)
(* The status of a monitor: what the cardinality goroutines report in it   *)
(* (internal/events.go, updateCardinalityStatus), and the Processed        *)
(* condition that a worker sets in the same object meanwhile.              *)
(*                                                                         *)
(* The monitor has one store, whose reflector counts and checks while the  *)
(* goroutines aggregate, one lock at a time.  What the levels above the    *)
(* store find is left open; GlobalCardinality is about that.  The numbers  *)
(* of a report are followed up to the end of the aggregation: nothing      *)
(* reads them in the status.                                               *)
(***************************************************************************)
EXTENDS Integers, Sequences, FiniteSets, Tables

CONSTANTS
    Goroutines,    \* the cardinality goroutines alive at once
    Worker,        \* the worker that handles the monitor's events
    NumFamilies,   \* the families of the store
    MaxCount,      \* bound: the cardinality of a family
    Contents,      \* what the store may count: a number for each family
    FamilyLimit,   \* the limit of each family, 0 is no limit
    StoreLimit,    \* the limit of the store, 0 is no limit
    WarningRatio   \* --cardinality-warning-ratio, in percent

Family == 1 .. NumFamilies
Severities == {"none", "warning", "cutoff"}

ASSUME ContentsAssumption ==
    /\ NumFamilies \in Nat /\ MaxCount \in Nat
    /\ Contents \subseteq [Family -> 0 .. MaxCount]
    /\ [f \in Family |-> 0] \in Contents
ASSUME LimitsAssumption == FamilyLimit \in [Family -> Nat] /\ StoreLimit \in Nat
ASSUME WorkerAssumption == Worker \notin Goroutines

VARIABLES
    perFamily,       \* CardinalityTracker.perFamily
    cutoffFamilies,  \* CardinalityTracker.cutoffFamilies
    unchecked,       \* the reflector has counted and not yet checked
    status,          \* the monitor's status in the API server
    current,         \* the clients whose last Get is the current version
    pc,              \* the next call of each client
    copy,            \* the status it has read
    agg,             \* each goroutine's cardinalityAggregation
    quiet            \* the store has not changed since it began to aggregate

trackerVars == <<perFamily, cutoffFamilies, unchecked>>
apiVars == <<status, current>>
vars == <<trackerVars, apiVars, pc, copy, agg, quiet>>

Clients == Goroutines \cup {Worker}
NoStatus == [conditions |-> <<>>, exceeded |-> "unknown"]
NoCounts == [f \in Family |-> 0]
NoReport == [total |-> 0, perFamily |-> NoCounts, cutoffFamilies |-> {},
             worst |-> "none"]

Init ==
    /\ perFamily = NoCounts
    /\ cutoffFamilies = {}
    /\ unchecked = FALSE
    /\ status = NoStatus
    /\ current = {}
    /\ pc = [c \in Clients |-> IF c = Worker THEN "getReceived" ELSE "free"]
    /\ copy = [c \in Clients |-> NoStatus]
    /\ agg = [g \in Goroutines |-> NoReport]
    /\ quiet = [g \in Goroutines |-> FALSE]

Goto(c, label) == pc' = [pc EXCEPT ![c] = label]

----------------------------------------------------------------------------
(* The store: CardinalityTracker.CheckThresholds.                          *)

Total(counts) == SumOf(counts, MaxCount)

Over(count, limit) == limit > 0 /\ count > limit
Warns(count, limit) == limit > 0 /\ 100 * count >= WarningRatio * limit

FamilyOver(f) == Over(perFamily[f], FamilyLimit[f])
StoreOver == Over(Total(perFamily), StoreLimit)

CutoffAfterCheck ==
    {f \in Family : FamilyOver(f) \/ StoreOver \/ (FamilyLimit[f] = 0 /\ f \in cutoffFamilies)}

\* The severest of the violations at the levels of the family and the store.
StoreSeverity ==
    IF StoreOver \/ \E f \in Family : FamilyOver(f) THEN "cutoff"
    ELSE IF \/ Warns(Total(perFamily), StoreLimit)
            \/ \E f \in Family : Warns(perFamily[f], FamilyLimit[f]) THEN "warning"
    ELSE "none"

\* The reflector adds, updates or deletes an object ...
Track ==
    /\ ~unchecked
    /\ \E counts \in Contents : counts # perFamily /\ perFamily' = counts
    /\ unchecked' = TRUE
    /\ quiet' = [g \in Goroutines |-> FALSE]
    /\ UNCHANGED <<cutoffFamilies, apiVars, pc, copy, agg>>

\* Mutant: the flags are applied as they were.
NotChecked == cutoffFamilies

\* ... and checks the thresholds.
Checked == CutoffAfterCheck

ReflectorChecks ==
    /\ unchecked
    /\ cutoffFamilies' = Checked
    /\ unchecked' = FALSE
    /\ UNCHANGED <<perFamily, apiVars, pc, copy, agg, quiet>>

----------------------------------------------------------------------------
(* aggregateStoreCardinality: four reads of the tracker, each under a lock *)
(* of its own, the thresholds checked after the last.                      *)

ReadTotal(g) ==
    /\ pc[g] = "free"
    /\ agg' = [agg EXCEPT ![g].total = Total(perFamily)]
    /\ quiet' = [quiet EXCEPT ![g] = ~unchecked]
    /\ Goto(g, "readFamilies")
    /\ UNCHANGED <<trackerVars, apiVars, copy>>

ReadFamilies(g) ==
    /\ pc[g] = "readFamilies"
    /\ agg' = [agg EXCEPT ![g].perFamily = perFamily]
    /\ Goto(g, "readCutoff")
    /\ UNCHANGED <<trackerVars, apiVars, copy, quiet>>

ReadCutoff(g) ==
    /\ pc[g] = "readCutoff"
    /\ agg' = [agg EXCEPT ![g].cutoffFamilies = cutoffFamilies]
    /\ Goto(g, "check")
    /\ UNCHANGED <<trackerVars, apiVars, copy, quiet>>

CheckStore(g) ==
    /\ pc[g] = "check"
    /\ cutoffFamilies' = CutoffAfterCheck
    /\ agg' = [agg EXCEPT ![g].worst = StoreSeverity]
    /\ Goto(g, "report")
    /\ UNCHANGED <<perFamily, unchecked, apiVars, copy, quiet>>

\* UpdateResource and CheckThresholds of the manager: its violations are
\* appended to those of the store.
Severest(s, t) ==
    IF "cutoff" \in {s, t} THEN "cutoff"
    ELSE IF "warning" \in {s, t} THEN "warning"
    ELSE "none"

----------------------------------------------------------------------------
(* ResourceMetricsMonitorStatus.Set.                                       *)

\* The first condition of the type is replaced, or the condition is appended.
Set(conditions, condition) ==
    IF \E n \in DOMAIN conditions : conditions[n].type = condition.type
    THEN [n \in DOMAIN conditions |->
             IF conditions[n].type = condition.type THEN condition ELSE conditions[n]]
    ELSE Append(conditions, condition)

\* The reasons of ConditionReasonTrue and ConditionReasonFalse, as far as the
\* model has them.
Condition(type, value, reason) == [type |-> type, status |-> value, reason |-> reason]

\* Mutant: the caller's reason is taken, which has none.
NoReason(value) == Condition("Processed", value, "")

Processed(value) ==
    Condition("Processed", value,
              IF value = "True" THEN "EventHandlerSucceeded" ELSE "EventHandlerRunning")

\* setCardinalityConditions, from the severest violation.
CutoffCondition(worst) ==
    IF worst = "cutoff" THEN Condition("CardinalityCutoff", "True", "CardinalityCutoff")
    ELSE Condition("CardinalityCutoff", "False",
                   IF worst = "warning" THEN "CardinalityWarning" ELSE "CardinalityOK")

\* Mutant: a cutoff is not taken for a warning.
WarningOnly(worst) ==
    IF worst = "warning" THEN Condition("CardinalityWarning", "True", "CardinalityWarning")
    ELSE Condition("CardinalityWarning", "False", "CardinalityOK")

WarningCondition(worst) ==
    IF worst \in {"warning", "cutoff"}
    THEN Condition("CardinalityWarning", "True", "CardinalityWarning")
    ELSE Condition("CardinalityWarning", "False", "CardinalityOK")

WithReport(s, worst) ==
    [conditions |-> Set(Set(s.conditions, CutoffCondition(worst)), WarningCondition(worst)),
     exceeded |-> IF worst = "cutoff" THEN "True" ELSE "False"]

WithProcessed(s, value) == [s EXCEPT !.conditions = Set(@, Processed(value))]

----------------------------------------------------------------------------
(* The clients of the API server: Get, change the copy, UpdateStatus.      *)

\* Mutant: the version is not compared.
AnyVersion(c) == TRUE

MayUpdate(c) == c \in current

Write(new) == status' = new /\ current' = {}

Read(c, next) ==
    /\ copy' = [copy EXCEPT ![c] = status]
    /\ current' = current \cup {c}
    /\ Goto(c, next)

Forget(c, next) == copy' = [copy EXCEPT ![c] = NoStatus] /\ Goto(c, next)

\* An edit by a user makes a new version and leaves the status alone.
Edit ==
    /\ current # {}
    /\ current' = {}
    /\ UNCHANGED <<trackerVars, status, pc, copy, agg, quiet>>

\* The levels above add their violations, and persistCardinalityStatus begins.
GetStatus(g) ==
    /\ pc[g] = "report"
    /\ \E s \in Severities :
          agg' = [agg EXCEPT ![g] = [NoReport EXCEPT !.worst = Severest(agg[g].worst, s)]]
    /\ quiet' = [quiet EXCEPT ![g] = FALSE]
    /\ Read(g, "putStatus")
    /\ UNCHANGED <<trackerVars, status>>

PutStatus(g) ==
    /\ pc[g] = "putStatus"
    /\ MayUpdate(g)
    /\ Write(WithReport(copy[g], agg[g].worst))
    /\ Forget(g, "done")
    /\ agg' = [agg EXCEPT ![g] = NoReport]
    /\ UNCHANGED <<trackerVars, quiet>>

\* A conflict, or another error of either call: the report is lost.
StatusFails(g) ==
    /\ pc[g] \in {"report", "putStatus"}
    /\ Forget(g, "done")
    /\ agg' = [agg EXCEPT ![g] = NoReport]
    /\ quiet' = [quiet EXCEPT ![g] = FALSE]
    /\ UNCHANGED <<trackerVars, apiVars>>

\* emitSuccess, before an event is processed and after.
GetCalls == {"getReceived", "getDone"}
PutCalls == {"putReceived", "putDone"}

GetMonitor ==
    /\ pc[Worker] \in GetCalls
    /\ Read(Worker, IF pc[Worker] = "getReceived" THEN "putReceived" ELSE "putDone")
    /\ UNCHANGED <<trackerVars, status, agg, quiet>>

EmitSuccess ==
    /\ pc[Worker] \in PutCalls
    /\ MayUpdate(Worker)
    /\ IF pc[Worker] = "putReceived"
       THEN Write(WithProcessed(copy[Worker], "False")) /\ Forget(Worker, "getDone")
       ELSE Write(WithProcessed(copy[Worker], "True")) /\ Forget(Worker, "getReceived")
    /\ UNCHANGED <<trackerVars, agg, quiet>>

\* The event is given up, and the next one handled.
EmitFails ==
    /\ pc[Worker] \in GetCalls \cup PutCalls
    /\ pc[Worker] # "getReceived"
    /\ Forget(Worker, "getReceived")
    /\ UNCHANGED <<trackerVars, apiVars, agg, quiet>>

----------------------------------------------------------------------------

Aggregate(g) ==
    ReadTotal(g) \/ ReadFamilies(g) \/ ReadCutoff(g) \/ CheckStore(g)
Persist(g) == GetStatus(g) \/ PutStatus(g) \/ StatusFails(g)

Next == \/ Track \/ ReflectorChecks
        \/ \E g \in Goroutines : Aggregate(g) \/ Persist(g)
        \/ GetMonitor \/ EmitSuccess \/ EmitFails
        \/ Edit

Spec == Init /\ [][Next]_vars

----------------------------------------------------------------------------
(* Properties.                                                             *)

Types == {"Processed", "CardinalityWarning", "CardinalityCutoff"}
Reasons == {"EventHandlerRunning", "EventHandlerSucceeded", "CardinalityOK",
            "CardinalityWarning", "CardinalityCutoff"}
Conditions == [type : Types, status : {"True", "False"}, reason : Reasons]
Statuses == [conditions : Seq(Conditions), exceeded : {"unknown", "True", "False"}]
Labels == {"free", "readFamilies", "readCutoff", "check", "report", "putStatus", "done"}
              \cup GetCalls \cup PutCalls

TypeOK ==
    /\ perFamily \in Contents
    /\ cutoffFamilies \subseteq Family
    /\ unchecked \in BOOLEAN
    /\ status \in Statuses
    /\ current \subseteq Clients
    /\ pc \in [Clients -> Labels]
    /\ copy \in [Clients -> Statuses]
    /\ agg \in [Goroutines -> [total : Nat, perFamily : Contents,
                               cutoffFamilies : SUBSET Family, worst : Severities]]
    /\ quiet \in [Goroutines -> BOOLEAN]

Of(conditions, type) ==
    {conditions[n] : n \in {m \in DOMAIN conditions : conditions[m].type = type}}
IsTrue(conditions, type) == \E c \in Of(conditions, type) : c.status = "True"

OneOfAType(conditions) ==
    \A m, n \in DOMAIN conditions : conditions[m].type = conditions[n].type => m = n

Agree(s) ==
    /\ OneOfAType(s.conditions)
    /\ IsTrue(s.conditions, "CardinalityCutoff") => IsTrue(s.conditions, "CardinalityWarning")
    /\ s.exceeded # "unknown" => (s.exceeded = "True" <=> IsTrue(s.conditions, "CardinalityCutoff"))
    /\ \A c \in Of(s.conditions, "CardinalityCutoff") :
          c.status = "False" =>
              (c.reason = "CardinalityWarning" <=> IsTrue(s.conditions, "CardinalityWarning"))

\* events.go:473-519, types.go:316-357: after any reports, conflicts and events
\* the conditions are one of a type and do not contradict each other or the
\* ThresholdsExceeded beside them.
ConditionsAgree == Agree(status)

\* events.go:157-159, 207-229, 411-438: a goroutine and a worker that read,
\* change and write back the same status do not undo each other's conditions.
WritersKeepOthers ==
    [][/\ (\E g \in Goroutines : PutStatus(g)) =>
              Of(status'.conditions, "Processed") = Of(status.conditions, "Processed")
       /\ EmitSuccess =>
              /\ status'.exceeded = status.exceeded
              /\ \A type \in Types \ {"Processed"} :
                    Of(status'.conditions, type) = Of(status.conditions, type)]_vars

\* events.go:301-346: a report on a store that nobody changed meanwhile is one
\* of a single moment, although it is put together under four locks: its total
\* is that of its families, those it lists as cut off are, and all those over
\* their limits are among them.
QuietReportsExact ==
    \A g \in Goroutines :
        pc[g] = "report" /\ quiet[g] =>
            /\ agg[g].total = Total(agg[g].perFamily)
            /\ agg[g].cutoffFamilies = cutoffFamilies
            /\ \A f \in Family : Over(agg[g].perFamily[f], FamilyLimit[f]) =>
                                     f \in agg[g].cutoffFamilies
            /\ agg[g].worst = "cutoff" <=>
                   \/ Over(agg[g].total, StoreLimit)
                   \/ \E f \in Family : Over(agg[g].perFamily[f], FamilyLimit[f])
=============================================================================
