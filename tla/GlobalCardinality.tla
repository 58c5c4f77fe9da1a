--------------------------- MODULE GlobalCardinality ---------------------------
(***************************************************************************)
(* The limits above a store: the GlobalCardinalityManager                  *)
(* (internal/cardinality_manager.go), fed by the cardinality goroutines    *)
(* (internal/events.go) with what the stores of each monitor track, while  *)
(* the workers delete monitors from it.                                    *)
(*                                                                         *)
(* What the stores of a monitor track is a number that changes on its own  *)
(* here; StoreCardinality is about how it does.                            *)
(***************************************************************************)
EXTENDS Integers, FiniteSets, Tables

CONSTANTS
    Monitors,         \* the UIDs of the monitors
    Goroutines,       \* the cardinality goroutines alive at once
    GlobalThreshold,  \* --global-cardinality-limit, 0 is no limit
    ResourceDefault,  \* --resource-cardinality-default, 0 is no limit
    MaxTotal          \* bound: the cardinality of one monitor

ASSUME LimitsAssumption ==
    GlobalThreshold \in Nat /\ ResourceDefault \in Nat /\ MaxTotal \in Nat
ASSUME MonitorsAssumption == IsFiniteSet(Monitors)

VARIABLES
    stores,           \* the monitors whose stores are in the map
    tracked,          \* the cardinality their stores track
    perResource,      \* GlobalCardinalityManager.perResource
    globalTotal,      \* GlobalCardinalityManager.globalTotal
    cutoffResources,  \* GlobalCardinalityManager.cutoffResources
    pc, uid, total    \* each goroutine: step, monitor, aggregated cardinality

storeVars == <<stores, tracked>>
managerVars == <<perResource, globalTotal, cutoffResources>>
vars == <<storeVars, managerVars, pc, uid, total>>

Totals == 0 .. MaxTotal

Init ==
    /\ stores = Monitors
    /\ tracked = [u \in Monitors |-> 0]
    /\ perResource = <<>>
    /\ globalTotal = 0
    /\ cutoffResources = <<>>
    /\ pc = [g \in Goroutines |-> "idle"]
    /\ uid \in [Goroutines -> Monitors]
    /\ total = [g \in Goroutines |-> 0]

----------------------------------------------------------------------------

\* The objects that the stores of a monitor count come and go.
Track(u) ==
    /\ \E n \in Totals \ {tracked[u]} : tracked' = [tracked EXCEPT ![u] = n]
    /\ UNCHANGED <<stores, managerVars, pc, uid, total>>

----------------------------------------------------------------------------
(* The goroutines: updateCardinalityStatus.                                *)

\* Without stores in the map there is nothing to report.
Aggregate(g) ==
    /\ pc[g] = "idle"
    /\ \E u \in stores :
          /\ uid' = [uid EXCEPT ![g] = u]
          /\ total' = [total EXCEPT ![g] = tracked[u]]
    /\ pc' = [pc EXCEPT ![g] = "update"]
    /\ UNCHANGED <<storeVars, managerVars>>

\* Mutant: what was reported before is forgotten.
NoTotal(u) == 0

OldTotal(u) == CountOf(perResource, u)

UpdateResource(g) ==
    /\ pc[g] = "update"
    /\ perResource' = Put(perResource, uid[g], total[g])
    /\ globalTotal' = globalTotal - OldTotal(uid[g]) + total[g]
    /\ pc' = [pc EXCEPT ![g] = "check"]
    /\ UNCHANGED <<storeVars, cutoffResources, uid, total>>

\* CheckThresholds(uid, 0): the limit is the default of all the monitors.
GlobalOver == GlobalThreshold > 0 /\ globalTotal > GlobalThreshold
ResourceOver(u) == ResourceDefault > 0 /\ OldTotal(u) > ResourceDefault

\* The monitor is set or cleared, unless there is no default limit ...
CheckedResource(u) ==
    IF ResourceDefault > 0 THEN Put(cutoffResources, u, ResourceOver(u)) ELSE cutoffResources

\* ... and a global total over its limit sets all that are known.
Checked(u) ==
    IF GlobalOver
    THEN [v \in DOMAIN CheckedResource(u) \cup DOMAIN perResource |->
             v \in DOMAIN perResource \/ CheckedResource(u)[v]]
    ELSE CheckedResource(u)

CheckThresholds(g) ==
    /\ pc[g] = "check"
    /\ cutoffResources' = Checked(uid[g])
    /\ pc' = [pc EXCEPT ![g] = "idle"]
    /\ total' = [total EXCEPT ![g] = 0]
    /\ UNCHANGED <<storeVars, perResource, globalTotal, uid>>

----------------------------------------------------------------------------

\* processDelete: goroutines may still be reporting on the monitor.
DeleteResource(u) ==
    /\ u \in stores
    /\ stores' = stores \ {u}
    /\ globalTotal' = globalTotal - OldTotal(u)
    /\ perResource' = Without(perResource, u)
    /\ cutoffResources' = Without(cutoffResources, u)
    /\ UNCHANGED <<tracked, pc, uid, total>>

Next ==
    \/ \E u \in Monitors : Track(u) \/ DeleteResource(u)
    \/ \E g \in Goroutines : Aggregate(g) \/ UpdateResource(g) \/ CheckThresholds(g)

Spec == Init /\ [][Next]_vars

----------------------------------------------------------------------------
(* Properties.                                                             *)

TypeOK ==
    /\ stores \subseteq Monitors
    /\ tracked \in [Monitors -> Totals]
    /\ DOMAIN perResource \subseteq Monitors
    /\ perResource \in [DOMAIN perResource -> Totals]
    /\ globalTotal \in Nat
    /\ DOMAIN cutoffResources \subseteq Monitors
    /\ cutoffResources \in [DOMAIN cutoffResources -> BOOLEAN]
    /\ pc \in [Goroutines -> {"idle", "update", "check"}]
    /\ uid \in [Goroutines -> Monitors]
    /\ total \in [Goroutines -> Totals]

\* cardinality_manager.go:49-74: the running total is the sum over the known
\* monitors, through updates by several goroutines, repeats and deletes that
\* overtake a report.
GlobalTotalIsSum == globalTotal = SumOf(perResource, MaxTotal)

IsCutoff(u) == u \in DOMAIN cutoffResources /\ cutoffResources[u]
NoneChecking == \A g \in Goroutines : pc[g] # "check"

\* cardinality_manager.go:129-182: once every update has been checked, no
\* monitor over its limit, and none while the total is over the global one,
\* is left without the mark, whichever goroutine's check came last.
OverIsMarked ==
    NoneChecking => \A u \in DOMAIN perResource :
                        ResourceOver(u) \/ GlobalOver => IsCutoff(u)
=============================================================================
