--------------------------- MODULE StoreCardinality ---------------------------
(***************************************************************************)
(* One store of a ResourceMetricsMonitor: the reflector that feeds it      *)
(* (internal/builder.go), the metrics it renders per object                *)
(* (internal/store.go), the CardinalityTracker beside it                   *)
(* (internal/cardinality.go) and the cutoff flag of each family            *)
(* (internal/family.go).  The reflector's calls hold store.mutex; the      *)
(* cardinality goroutines of the controller (internal/events.go) run       *)
(* checkAndApplyThresholds on the same store without it.                   *)
(*                                                                         *)
(* A custom resource is abstracted to the number of samples each family    *)
(* generates from it, a rendered family to the number of samples in it: 0  *)
(* is the empty string of a family that was cut off.                       *)
(***************************************************************************)
EXTENDS Integers, Sequences, FiniteSets, Tables

CONSTANTS
    UIDs,             \* the custom resources the store's GVK may have
    NumFamilies,      \* the families of the store, in the order of s.Families
    MaxSamples,       \* samples one object can have in one family, at most
    Contents,         \* the sample counts an object is created or edited with
    StoreThreshold,   \* storeThreshold, 0 is no limit
    FamilyThreshold,  \* familyThreshold, 0 is no limit
    Reflector,        \* the goroutine that holds store.mutex
    Checkers,         \* the cardinality goroutines, one per add/update event
    Absent,           \* no such object in the cluster
    MaxWrites,        \* bound: writes to the cluster
    MaxExpiries       \* bound: watches that expire

Family == 1 .. NumFamilies
Counts == [Family -> 0 .. MaxSamples]
Threads == Checkers \cup {Reflector}

ASSUME SizesAssumption ==
    /\ NumFamilies \in Nat \ {0}
    /\ MaxSamples \in Nat
    /\ MaxWrites \in Nat
    /\ MaxExpiries \in Nat
ASSUME ContentsAssumption == Contents \subseteq Counts
ASSUME ThresholdAssumption ==
    /\ StoreThreshold \in Nat
    /\ FamilyThreshold \in [Family -> Nat]
ASSUME NamesAssumption ==
    /\ IsFiniteSet(UIDs)
    /\ IsFiniteSet(Checkers)
    /\ Reflector \notin Checkers
    /\ Absent \notin Counts

VARIABLES
    cluster,         \* the objects in the API server
    events,          \* watch events sent and not yet handled
    listed,          \* the response of the last list
    todo,            \* the listed objects Replace has still to add
    phase,           \* what the reflector is doing: "list", "replace", "watch"
    synced,          \* StoreType.synced
    metrics,         \* StoreType.metrics: object -> rendered families
    perObject,       \* CardinalityTracker.perObject
    perFamily,       \* CardinalityTracker.perFamily
    storeTotal,      \* CardinalityTracker.storeTotal
    cutoffFamilies,  \* CardinalityTracker.cutoffFamilies
    cutoff,          \* FamilyType.cutoff of each family
    op,              \* the reflector's call: kind, object and its sample counts
    rendered,        \* result.metrics of the Add in progress
    pc,              \* where each thread is
    at,              \* the family each thread's loop is at
    seen,            \* IsFamilyCutoff's answer, held until SetCutoff
    writes, expiries \* the bounded counters

apiVars == <<cluster, writes>>
reflectorVars == <<listed, todo, phase, synced>>
trackerVars == <<perObject, perFamily, storeTotal>>
vars == <<apiVars, events, reflectorVars, metrics, trackerVars, cutoffFamilies,
          cutoff, op, rendered, pc, at, seen, expiries>>

Zero == [f \in Family |-> 0]
Present == {u \in UIDs : cluster[u] # Absent}

\* The samples of one object, as pairs of a family and an index: the sum over
\* the families of its counts is the size of this set.
Samples(counts) == {s \in Family \X (1 .. MaxSamples) : s[2] <= counts[s[1]]}
Total(counts) == Cardinality(Samples(counts))

Init ==
    /\ cluster \in [UIDs -> Contents \cup {Absent}]
    /\ writes = 0
    /\ events = <<>>
    /\ listed = <<>>
    /\ todo = {}
    /\ phase = "list"
    /\ synced = FALSE
    /\ metrics = <<>>
    /\ perObject = <<>>
    /\ perFamily = Zero
    /\ storeTotal = 0
    /\ cutoffFamilies = [f \in Family |-> FALSE]
    /\ cutoff = [f \in Family |-> FALSE]
    /\ op = [kind |-> "none"]
    /\ rendered = Zero
    /\ pc = [t \in Threads |-> IF t = Reflector THEN "idle" ELSE "waiting"]
    /\ at = [t \in Threads |-> 1]
    /\ seen = [t \in Threads |-> FALSE]
    /\ expiries = 0

----------------------------------------------------------------------------
(* The API server: an edit reaches the store as a watch event once the     *)
(* reflector has listed.                                                   *)

Send(event) ==
    events' = IF phase = "list" THEN events ELSE Append(events, event)

ClusterWrite(u, c) ==
    /\ writes < MaxWrites
    /\ cluster[u] # c
    /\ cluster' = [cluster EXCEPT ![u] = c]
    /\ writes' = writes + 1
    /\ Send([kind |-> "add", uid |-> u, counts |-> c])
    /\ UNCHANGED <<reflectorVars, metrics, trackerVars, cutoffFamilies, cutoff,
                   op, rendered, pc, at, seen, expiries>>

ClusterDelete(u) ==
    /\ writes < MaxWrites
    /\ cluster[u] # Absent
    /\ cluster' = [cluster EXCEPT ![u] = Absent]
    /\ writes' = writes + 1
    /\ Send([kind |-> "delete", uid |-> u, counts |-> cluster[u]])
    /\ UNCHANGED <<reflectorVars, metrics, trackerVars, cutoffFamilies, cutoff,
                   op, rendered, pc, at, seen, expiries>>

----------------------------------------------------------------------------
(* The reflector: list, Replace item by item, then the watch events in     *)
(* order; an expired watch sends it back to the list.                      *)

List ==
    /\ phase = "list"
    /\ phase' = "replace"
    /\ listed' = [u \in Present |-> cluster[u]]
    /\ todo' = Present
    /\ events' = <<>>
    /\ UNCHANGED <<apiVars, synced, metrics, trackerVars, cutoffFamilies, cutoff,
                   op, rendered, pc, at, seen, expiries>>

\* store.mutex is taken; Add renders the families first, Delete has none.
Call(call) ==
    /\ pc[Reflector] = "idle"
    /\ op' = call
    /\ pc' = [pc EXCEPT ![Reflector] = IF call.kind = "add" THEN "render" ELSE "track"]
    /\ at' = [at EXCEPT ![Reflector] = 1]
    /\ rendered' = Zero

ReplaceItem(u) ==
    /\ phase = "replace"
    /\ u \in todo
    /\ Call([kind |-> "add", uid |-> u, counts |-> listed[u]])
    /\ todo' = todo \ {u}
    /\ UNCHANGED <<apiVars, events, listed, phase, synced, metrics, trackerVars,
                   cutoffFamilies, cutoff, seen, expiries>>

\* Mutant: synced before the loop of Replace, not after it.
AddReturned == phase = "replace" /\ pc[Reflector] = "idle"
AllAdded == AddReturned /\ todo = {}

\* Replace returns: nothing that the list lacks has been removed.
ReplaceDone ==
    /\ AllAdded
    /\ synced' = TRUE
    /\ phase' = "watch"
    /\ UNCHANGED <<apiVars, events, listed, todo, metrics, trackerVars,
                   cutoffFamilies, cutoff, op, rendered, pc, at, seen, expiries>>

WatchEvent ==
    /\ phase = "watch"
    /\ events # <<>>
    /\ Call(Head(events))
    /\ events' = Tail(events)
    /\ UNCHANGED <<apiVars, reflectorVars, metrics, trackerVars, cutoffFamilies,
                   cutoff, seen, expiries>>

WatchExpired ==
    /\ phase = "watch"
    /\ pc[Reflector] = "idle"
    /\ expiries < MaxExpiries
    /\ expiries' = expiries + 1
    /\ phase' = "list"
    /\ events' = <<>>
    /\ UNCHANGED <<apiVars, listed, todo, synced, metrics, trackerVars,
                   cutoffFamilies, cutoff, op, rendered, pc, at, seen>>

----------------------------------------------------------------------------
(* StoreType.Add and Delete, up to the threshold check.                    *)

\* Mutant: the loops over s.Families end one family late.
AfterLast(f) == f > NumFamilies

\* The loops over s.Families end with the last one.
Last(f) == f = NumFamilies

\* Mutants: the flag is not read; a family cut off keeps what it had rendered.
InFull(f) == op.counts[f]
Stale(f) == IF cutoff[f] /\ op.uid \in DOMAIN metrics THEN metrics[op.uid][f] ELSE op.counts[f]

\* Each family samples its own cutoff flag.
Rendering(f) == IF cutoff[f] THEN 0 ELSE op.counts[f]

\* generateMetricsForObject, one family after the other.
RenderFamily ==
    LET f == at[Reflector] IN
    /\ pc[Reflector] = "render"
    /\ rendered' = [rendered EXCEPT ![f] = Rendering(f)]
    /\ IF Last(f)
       THEN at' = at /\ pc' = [pc EXCEPT ![Reflector] = "track"]
       ELSE at' = [at EXCEPT ![Reflector] = f + 1] /\ pc' = pc
    /\ UNCHANGED <<apiVars, events, reflectorVars, metrics, trackerVars,
                   cutoffFamilies, cutoff, op, seen, expiries>>

\* Mutant: the object's previous version is forgotten.
NoCounts(u) == Zero

OldCounts(u) == IF u \in DOMAIN perObject THEN perObject[u] ELSE Zero

\* s.metrics[uid] = ... and CardinalityTracker.Update: the counts of the
\* object's previous version are taken out before the new ones are added.
TrackAdd ==
    LET u == op.uid IN
    /\ pc[Reflector] = "track"
    /\ op.kind = "add"
    /\ metrics' = Put(metrics, u, rendered)
    /\ perObject' = Put(perObject, u, op.counts)
    /\ perFamily' = [f \in Family |-> perFamily[f] - OldCounts(u)[f] + op.counts[f]]
    /\ storeTotal' = storeTotal - Total(OldCounts(u)) + Total(op.counts)
    /\ pc' = [pc EXCEPT ![Reflector] = "check"]
    /\ UNCHANGED <<apiVars, events, reflectorVars, cutoffFamilies, cutoff, op,
                   rendered, at, seen, expiries>>

\* delete(s.metrics, uid) and CardinalityTracker.Delete.
TrackDelete ==
    LET u == op.uid IN
    /\ pc[Reflector] = "track"
    /\ op.kind = "delete"
    /\ metrics' = Without(metrics, u)
    /\ perObject' = Without(perObject, u)
    /\ perFamily' = [f \in Family |-> perFamily[f] - OldCounts(u)[f]]
    /\ storeTotal' = storeTotal - Total(OldCounts(u))
    /\ pc' = [pc EXCEPT ![Reflector] = "check"]
    /\ UNCHANGED <<apiVars, events, reflectorVars, cutoffFamilies, cutoff, op,
                   rendered, at, seen, expiries>>

----------------------------------------------------------------------------
(* checkAndApplyThresholds, run by the reflector under store.mutex and by  *)
(* the cardinality goroutines without it.                                  *)

\* Mutant: at the limit is over it.
AtLimit(f) == FamilyThreshold[f] > 0 /\ perFamily[f] >= FamilyThreshold[f]

FamilyOver(f) == FamilyThreshold[f] > 0 /\ perFamily[f] > FamilyThreshold[f]
StoreOver == StoreThreshold > 0 /\ storeTotal > StoreThreshold

\* A cardinality goroutine gets to this store in aggregateStoreCardinality; its
\* poll gives up after cardinalityPollTimeout, so the store need not be synced.
StartCheck(t) ==
    /\ pc[t] = "waiting"
    /\ pc' = [pc EXCEPT ![t] = "check"]
    /\ UNCHANGED <<apiVars, events, reflectorVars, metrics, trackerVars,
                   cutoffFamilies, cutoff, op, rendered, at, seen, expiries>>

\* Mutant: no family is cleared.
NeverCleared(f) == FamilyOver(f) \/ StoreOver \/ cutoffFamilies[f]

\* A family with a threshold is set or cleared, then a store over its own sets
\* them all.
Decision(f) == FamilyOver(f) \/ StoreOver \/ (FamilyThreshold[f] = 0 /\ cutoffFamilies[f])

\* CheckThresholds, one critical section of the tracker's mutex.
CheckThresholds(t) ==
    /\ pc[t] = "check"
    /\ cutoffFamilies' = [f \in Family |-> Decision(f)]
    /\ pc' = [pc EXCEPT ![t] = "read"]
    /\ at' = [at EXCEPT ![t] = 1]
    /\ UNCHANGED <<apiVars, events, reflectorVars, metrics, trackerVars, cutoff,
                   op, rendered, seen, expiries>>

\* cutoff := IsFamilyCutoff(family.Name)
ReadCutoff(t) ==
    /\ pc[t] = "read"
    /\ seen' = [seen EXCEPT ![t] = cutoffFamilies[at[t]]]
    /\ pc' = [pc EXCEPT ![t] = "set"]
    /\ UNCHANGED <<apiVars, events, reflectorVars, metrics, trackerVars,
                   cutoffFamilies, cutoff, op, rendered, at, expiries>>

\* Mutant: the reflector keeps store.mutex.
NeverUnlocked(t) == "done"

Finished(t) == IF t = Reflector THEN "idle" ELSE "done"

\* family.SetCutoff(cutoff), and on to the next family.
SetCutoff(t) ==
    /\ pc[t] = "set"
    /\ cutoff' = [cutoff EXCEPT ![at[t]] = seen[t]]
    /\ IF Last(at[t])
       THEN at' = at /\ pc' = [pc EXCEPT ![t] = Finished(t)]
       ELSE at' = [at EXCEPT ![t] = @ + 1] /\ pc' = [pc EXCEPT ![t] = "read"]
    /\ UNCHANGED <<apiVars, events, reflectorVars, metrics, trackerVars,
                   cutoffFamilies, op, rendered, seen, expiries>>

----------------------------------------------------------------------------

Cluster == \E u \in UIDs : ClusterDelete(u) \/ \E c \in Contents : ClusterWrite(u, c)
Reflect == \/ List \/ ReplaceDone \/ WatchEvent
           \/ \E u \in UIDs : ReplaceItem(u)
Track == RenderFamily \/ TrackAdd \/ TrackDelete
Apply(t) == CheckThresholds(t) \/ ReadCutoff(t) \/ SetCutoff(t)

Next == \/ Cluster
        \/ WatchExpired
        \/ Reflect
        \/ Track
        \/ \E t \in Checkers : StartCheck(t)
        \/ \E t \in Threads : Apply(t)

Spec == Init /\ [][Next]_vars

\* The reflector and the goroutines run until they block: nothing they wait on
\* is held forever.  The cluster and the expiry of a watch are free.
FairSpec == /\ Spec
            /\ WF_vars(Reflect \/ Track \/ Apply(Reflector))
            /\ \A t \in Checkers : WF_vars(StartCheck(t) \/ Apply(t))

----------------------------------------------------------------------------
(* Properties.                                                             *)

Kinds == {"add", "delete"}
Calls == [kind : Kinds, uid : UIDs, counts : Counts]

TypeOK ==
    /\ cluster \in [UIDs -> Contents \cup {Absent}]
    /\ writes \in 0 .. MaxWrites
    /\ events \in Seq(Calls)
    /\ DOMAIN listed \subseteq UIDs /\ listed \in [DOMAIN listed -> Counts]
    /\ todo \subseteq DOMAIN listed
    /\ phase \in {"list", "replace", "watch"}
    /\ synced \in BOOLEAN
    /\ DOMAIN metrics \subseteq UIDs /\ metrics \in [DOMAIN metrics -> Counts]
    /\ DOMAIN perObject \subseteq UIDs /\ perObject \in [DOMAIN perObject -> Counts]
    /\ perFamily \in [Family -> Int]
    /\ storeTotal \in Int
    /\ cutoffFamilies \in [Family -> BOOLEAN]
    /\ cutoff \in [Family -> BOOLEAN]
    /\ op \in Calls \cup {[kind |-> "none"]}
    /\ rendered \in Counts
    /\ pc \in [Threads -> {"idle", "waiting", "done", "render", "track", "check",
                           "read", "set"}]
    /\ at \in [Threads -> Family]
    /\ seen \in [Threads -> BOOLEAN]
    /\ expiries \in 0 .. MaxExpiries

\* The tracked samples: all of them, and those of one family.
TrackedSamples ==
    Pairs([u \in DOMAIN perObject |-> Samples(perObject[u])], Family \X (1 .. MaxSamples))
FamilySamples(table, f) ==
    Pairs([u \in DOMAIN table |-> 1 .. table[u][f]], 1 .. MaxSamples)

\* cardinality.go:103-134: the running totals that Update and Delete keep by
\* subtracting and adding are what counting the tracked objects afresh would
\* give, over any sequence of adds, repeated adds (relists) and deletes.
TotalsMatchObjects ==
    /\ storeTotal = Cardinality(TrackedSamples)
    /\ \A f \in Family : perFamily[f] = Cardinality(FamilySamples(perObject, f))

StoreUnlocked == pc[Reflector] = "idle"

\* store.go:78-133, family.go:150-154: whenever a scrape can take store.mutex,
\* the rendered objects are the tracked ones and every family of them is
\* rendered in full or, having been cut off, not at all: the count that is
\* tracked is the true one either way.
RenderedInFullOrNotAtAll ==
    StoreUnlocked =>
        /\ DOMAIN metrics = DOMAIN perObject
        /\ \A u \in DOMAIN metrics, f \in Family :
              metrics[u][f] \in {0, perObject[u][f]}

\* cardinality.go:165-232: outside the window between a count and the check
\* that follows it, a family with a threshold is cut off exactly while it or
\* its store is over the limit, whoever ran the last check.
CutoffIffOver ==
    pc[Reflector] # "check" =>
        \A f \in Family : FamilyThreshold[f] > 0 =>
            (cutoffFamilies[f] <=> FamilyOver(f) \/ StoreOver)

\* store.go:90-94: enforcement is soft, but by how much is bounded.  A scrape
\* shows at most the threshold, the object that tipped the total over it, and
\* one object more for each goroutine that wrote back a flag it had read
\* before the family went over.
OvershootBounded ==
    StoreUnlocked =>
        \A f \in Family : FamilyThreshold[f] > 0 =>
            Cardinality(FamilySamples(metrics, f))
                <= FamilyThreshold[f] + (1 + Cardinality(Checkers)) * MaxSamples

CaughtUp == phase = "watch" /\ events = <<>> /\ StoreUnlocked

\* store.go:136-146: with no event left to handle, every object of the cluster
\* is tracked at its current contents, edits made during the list and events
\* lost with an expired watch included.
PresentObjectsTracked ==
    CaughtUp => \A u \in Present :
                    u \in DOMAIN perObject /\ perObject[u] = cluster[u]

\* store.go:44-46: synced is set only when every object of the initial list
\* has been added.
SyncedMeansListed ==
    [][~synced /\ synced' => \A u \in DOMAIN listed :
            u \in DOMAIN metrics /\ perObject[u] = listed[u]]_vars

\* Families whose samples may be left out: cut off by the tracker, by their own
\* flag or by a value somebody is about to write to it, or left out already of
\* the object being added.
LeftOut(f) ==
    /\ pc[Reflector] \in {"render", "track"} /\ op.kind = "add"
    /\ pc[Reflector] = "render" => f < at[Reflector]
    /\ rendered[f] # op.counts[f]
Marked ==
    {f \in Family : \/ cutoffFamilies[f] \/ cutoff[f] \/ LeftOut(f)
                    \/ \E t \in Threads : pc[t] = "set" /\ at[t] = f /\ seen[t]}

\* store.go:90-94, cardinality.go:165-232: a family is left out of an object only
\* after it, or its store, was really over its limit, however flags are read,
\* held and written back by the reflector and the goroutines.
Limits == INSTANCE SoftLimits WITH tracked <- perObject, shown <- metrics, marked <- Marked
ImplementsSoftLimits == Limits!Spec

\* cardinality.go:49-51: generation of a family "is stopped until cardinality
\* drops back to or below the threshold".
CutoffEndsWithOvershoot ==
    pc[Reflector] # "check" =>
        \A f \in Family : cutoffFamilies[f] => FamilyOver(f) \/ StoreOver

\* builder.go:127-132: an object that stays as it is gets tracked as it is.
EventuallyTracked ==
    \A u \in UIDs, c \in Contents :
        cluster[u] = c ~> \/ cluster[u] # c
                          \/ u \in DOMAIN perObject /\ perObject[u] = c

\* store.go:46, events.go:161-179: the initial list completes, which is what
\* the cardinality goroutines poll for.
EventuallySynced == <>synced
=============================================================================
