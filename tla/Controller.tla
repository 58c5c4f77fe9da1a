------------------------------ MODULE Controller ------------------------------
(***************************************************************************)
(* The controller (internal/controller.go, internal/events.go) and the     *)
(* ResourceMetricsMonitor it manages under one key (namespace and name):   *)
(* the API server, the informer's lister and handlers, the workqueue of    *)
(* [key, event] pairs, the workers that handle them call by call, the map  *)
(* of stores the main server scrapes, and the goroutine each add or update *)
(* leaves behind to report cardinality.  The process may end and be        *)
(* started again between any two steps: what it keeps in memory is lost,   *)
(* what the API server has stays.                                          *)
(*                                                                         *)
(* The API server is modelled by what the controller sees of it.  A        *)
(* configuration is its generation.  Optimistic concurrency is kept as the *)
(* set of clients whose last Get is still the current resourceVersion:     *)
(* every write empties it, and a write by a client outside it conflicts.   *)
(***************************************************************************)
EXTENDS Integers, Sequences, FiniteSets, Tables

CONSTANTS
    Workers,      \* the worker goroutines
    Jobs,         \* the cardinality goroutines that can be alive at once
    MaxUID,       \* bound: incarnations of the monitor under the key
    MaxGen,       \* bound: generations of one incarnation's configuration
    MaxTotal,     \* bound: the cardinality of a list of stores
    MaxErrors,    \* bound: API calls that fail for reasons of their own
    MaxRelists,   \* bound: watches of the informer that expire
    MaxRestarts,  \* bound: ends of the process
    None          \* no monitor, no report

UID == 1 .. MaxUID
Gen == 1 .. MaxGen
Totals == 0 .. MaxTotal
Events == {"addEvent", "updateEvent", "deleteEvent"}
Monitor == [uid : UID, gen : Gen]

\* The monitor as the API server keeps it.  Of its status: the generation that
\* Processed=True was recorded with, or 0.
Objects == [uid : UID, gen : Gen, labelled : BOOLEAN, processed : 0 .. MaxGen]

ASSUME BoundsAssumption ==
    /\ MaxUID \in Nat /\ MaxGen \in Nat \ {0}
    /\ MaxTotal \in Nat /\ MaxErrors \in Nat /\ MaxRelists \in Nat
    /\ MaxRestarts \in Nat
ASSUME ClientsAssumption == Workers \cap Jobs = {}
ASSUME NoneAssumption ==
    None \notin Events /\ None \notin Workers /\ None \notin Monitor /\ None \notin Objects

VARIABLES
    api,          \* the monitor in the API server, or None
    created,      \* incarnations created so far
    current,      \* the clients whose last Get is the current version
    watch,        \* watch events on their way to the informer
    synced,       \* the informer has listed once: the workers have started
    lister,       \* the informer's copy: uid and gen, or None
    queue,        \* the workqueue: items waiting
    dirty,        \* the workqueue: items to process
    processing,   \* the workqueue: items being processed
    pc, item,     \* where each worker is, and the event it handles
    obj,          \* the monitor it handles: uid and gen, or None
    stores,       \* Controller.stores: uid -> the stores of one build
    monitored,    \* the resources_monitored_info gauge of the key
    perResource,  \* GlobalCardinalityManager.perResource
    globalTotal,  \* GlobalCardinalityManager.globalTotal
    job,          \* the cardinality goroutines
    built,        \* history: the newest version of the monitor built, or None
    skipped,      \* history: the newest version no event is left for, or None
    errors, relists, restarts

apiVars == <<api, created, current, watch>>
queueVars == <<queue, dirty, processing>>
workerVars == <<pc, item, obj>>
informerVars == <<synced, lister>>
bounds == <<errors, relists, restarts>>
globalVars == <<perResource, globalTotal>>
history == <<built, skipped>>
memory == <<informerVars, queueVars, workerVars, stores, monitored, globalVars, job>>
vars == <<apiVars, memory, history, bounds>>

Clients == Workers \cup Jobs
Idle == [pc |-> "free", uid |-> 0, emitDone |-> FALSE, waitsFor |-> None, total |-> 0]

Init ==
    /\ api = None
    /\ created = 0
    /\ current = {}
    /\ watch = <<>>
    /\ synced = FALSE
    /\ lister = None
    /\ queue = <<>> /\ dirty = {} /\ processing = {}
    /\ pc = [w \in Workers |-> "idle"]
    /\ item = [w \in Workers |-> None]
    /\ obj = [w \in Workers |-> None]
    /\ stores = <<>>
    /\ monitored = FALSE
    /\ perResource = <<>>
    /\ globalTotal = 0
    /\ job = [j \in Jobs |-> Idle]
    /\ built = None /\ skipped = None
    /\ errors = 0 /\ relists = 0 /\ restarts = 0

----------------------------------------------------------------------------
(* Versions of the monitor, in the order they were written.                *)

Version(m) == [uid |-> m.uid, gen |-> m.gen]
NotOlder(a, b) == b = None \/ a.uid > b.uid \/ (a.uid = b.uid /\ a.gen >= b.gen)
Newest(a, b) == IF NotOlder(a, b) THEN a ELSE b

----------------------------------------------------------------------------
(* The users of the API server.                                            *)

Notify(type) == watch' = Append(watch, [type |-> type, uid |-> api'.uid, gen |-> api'.gen])

\* Every write makes a new version: what clients have read is out of date.
Write(new) == api' = new /\ current' = {}

Create ==
    /\ api = None
    /\ created < MaxUID
    /\ created' = created + 1
    /\ Write([uid |-> created + 1, gen |-> 1, labelled |-> FALSE, processed |-> 0])
    /\ Notify("added")
    /\ UNCHANGED <<memory, history, bounds>>

Edit ==
    /\ api # None
    /\ api.gen < MaxGen
    /\ Write([api EXCEPT !.gen = @ + 1])
    /\ Notify("modified")
    /\ UNCHANGED <<created, memory, history, bounds>>

Delete ==
    /\ api # None
    /\ Write(None)
    /\ watch' = Append(watch, [type |-> "deleted", uid |-> api.uid, gen |-> api.gen])
    /\ UNCHANGED <<created, memory, history, bounds>>

----------------------------------------------------------------------------
(* The workqueue (client-go): an item waits at most once, and is not       *)
(* handed out again while it is being processed.                           *)

\* Mutants: an item is queued although a worker has it; an event that arrives
\* while a worker has its item is taken to be covered by that.
EnqueueProcessed(e) ==
    /\ dirty' = dirty \cup {e}
    /\ queue' = IF e \in dirty THEN queue ELSE Append(queue, e)
    /\ UNCHANGED processing

EnqueueCovered(e) ==
    /\ dirty' = IF e \in processing THEN dirty ELSE dirty \cup {e}
    /\ queue' = IF e \in dirty \cup processing THEN queue ELSE Append(queue, e)
    /\ UNCHANGED processing

Enqueue(e) ==
    /\ dirty' = dirty \cup {e}
    /\ queue' = IF e \in dirty \cup processing THEN queue ELSE Append(queue, e)
    /\ UNCHANGED processing

QueueGet(w) ==
    /\ queue # <<>>
    /\ item' = [item EXCEPT ![w] = Head(queue)]
    /\ queue' = Tail(queue)
    /\ dirty' = dirty \ {Head(queue)}
    /\ processing' = processing \cup {Head(queue)}

\* Mutant: the worker does not report the item done.
NotDone(e) == UNCHANGED queueVars

QueueDone(e) ==
    /\ processing' = processing \ {e}
    /\ queue' = IF e \in dirty THEN Append(queue, e) ELSE queue
    /\ UNCHANGED dirty

----------------------------------------------------------------------------
(* The informer: its copy first, then the handler.                         *)

\* Mutants: the identity is compared, not the configuration; nothing is.
SameObject(old, new) == old.uid = new.uid
NeverSame(old, new) == FALSE

SameSpec(old, new) == old.gen = new.gen

\* updateHandler: a change of anything but the configuration is skipped.
UpdateHandler(old, new) ==
    IF SameSpec(old, new) THEN UNCHANGED queueVars ELSE Enqueue("updateEvent")

Deliver ==
    /\ synced
    /\ watch # <<>>
    /\ watch' = Tail(watch)
    /\ LET event == Head(watch)
           new == Version(event) IN
       \/ /\ event.type = "deleted"
          /\ lister' = None
          /\ Enqueue("deleteEvent")
       \/ /\ event.type # "deleted"
          /\ lister' = new
          /\ IF lister = None THEN Enqueue("addEvent") ELSE UpdateHandler(lister, new)
    /\ UNCHANGED <<api, created, current, synced, workerVars, stores, monitored,
                   globalVars, job, history, bounds>>

\* A list finds another monitor of the same configuration under the key.
Replaced(old, new) ==
    old # None /\ new # None /\ old.uid # new.uid /\ SameSpec(old, new)

\* What the informer makes of a list.  A monitor that went away since its copy
\* was made comes as a tombstone, for which enqueue can form no key; one that
\* was created again under the key comes as an update.
Listed ==
    /\ watch' = <<>>
    /\ IF api = None
       THEN lister' = None /\ UNCHANGED queueVars
       ELSE LET new == Version(api) IN
            /\ lister' = new
            /\ IF lister = None THEN Enqueue("addEvent") ELSE UpdateHandler(lister, new)
    /\ skipped' = IF Replaced(lister, api) THEN Newest(Version(api), skipped) ELSE skipped
    /\ UNCHANGED <<api, created, current, workerVars, stores, monitored,
                   globalVars, job, built, errors, restarts>>

\* Run: the informer lists, and then the workers are started.
FirstList ==
    /\ ~synced
    /\ synced' = TRUE
    /\ Listed
    /\ UNCHANGED relists

\* The watch expired.
Relist ==
    /\ synced
    /\ relists < MaxRelists
    /\ relists' = relists + 1
    /\ Listed
    /\ UNCHANGED synced

----------------------------------------------------------------------------
(* A worker: processNextWorkItem, syncHandler, handleEvent.                *)

Goto(w, label) == pc' = [pc EXCEPT ![w] = label]

Get(w) ==
    /\ synced
    /\ pc[w] = "idle"
    /\ QueueGet(w)
    /\ Goto(w, "sync")
    /\ UNCHANGED <<apiVars, informerVars, obj, stores, monitored, globalVars, job,
                   history, bounds>>

\* An object the lister lacks becomes one with a name and no namespace.
SyncHandler(w) ==
    /\ pc[w] = "sync"
    /\ obj' = [obj EXCEPT ![w] = lister]
    /\ Goto(w, "getMetadata")
    /\ UNCHANGED <<apiVars, informerVars, queueVars, item, stores, monitored,
                   globalVars, job, history, bounds>>

\* The next call of each Get-Modify-Update cycle: updateMetadata, then
\* emitSuccess(False) before the event is processed and emitSuccess(True) after.
GetCalls == {"getMetadata", "getReceived", "getDone"}
PutCalls == {"putMetadata", "putReceived", "putDone"}
PutOf == [getMetadata |-> "putMetadata", getReceived |-> "putReceived",
          getDone |-> "putDone"]

CanGet(w) == pc[w] \in GetCalls /\ api # None /\ obj[w] # None
CanPut(w) == pc[w] \in PutCalls /\ api # None /\ w \in current

ApiGet(w) ==
    /\ CanGet(w)
    /\ current' = current \cup {w}
    /\ Goto(w, PutOf[pc[w]])
    /\ UNCHANGED <<api, created, watch, informerVars, queueVars, item, obj, stores,
                   monitored, globalVars, job, history, bounds>>

\* A Get of an absent object, a conflicting Update, or an error of the server:
\* the handler gives the event up and returns nil, so it is not queued again.
ApiFail(w) ==
    /\ pc[w] \in GetCalls \cup PutCalls
    /\ \/ ~CanGet(w) /\ ~CanPut(w) /\ UNCHANGED errors
       \/ errors < MaxErrors /\ errors' = errors + 1
    /\ skipped' = IF pc[w] \in {"getDone", "putDone"} \/ item[w] = "deleteEvent" \/ obj[w] = None
                  THEN skipped ELSE Newest(obj[w], skipped)
    /\ Goto(w, "finish")
    /\ UNCHANGED <<apiVars, informerVars, queueVars, item, obj, stores, monitored,
                   globalVars, job, built, relists, restarts>>

\* updateMetadata's Update: without an effect once the labels are there.
PutMetadata(w) ==
    /\ pc[w] = "putMetadata"
    /\ CanPut(w)
    /\ IF api.labelled THEN UNCHANGED <<api, current, watch>>
                       ELSE Write([api EXCEPT !.labelled = TRUE]) /\ Notify("modified")
    /\ Goto(w, "getReceived")
    /\ UNCHANGED <<created, informerVars, queueVars, item, obj, stores,
                   monitored, globalVars, job, history, bounds>>

\* emitSuccess(False): the event is processed with the monitor it returns.
PutReceived(w) ==
    /\ pc[w] = "putReceived"
    /\ CanPut(w)
    /\ Write([api EXCEPT !.processed = 0])
    /\ Notify("modified")
    /\ obj' = [obj EXCEPT ![w] = Version(api)]
    /\ Goto(w, IF item[w] = "deleteEvent" THEN "purge" ELSE "drop")
    /\ UNCHANGED <<created, informerVars, queueVars, item, stores, monitored,
                   globalVars, job, history, bounds>>

\* processAddOrUpdate: the old stores are taken out of the map ...
DropStores(w) ==
    /\ pc[w] = "drop"
    /\ stores' = Without(stores, obj[w].uid)
    /\ Goto(w, "build")
    /\ UNCHANGED <<apiVars, informerVars, queueVars, item, obj, monitored, globalVars,
                   job, history, bounds>>

\* ... the new ones are built and put in, and the goroutine is started.
Build(w) ==
    /\ pc[w] = "build"
    /\ stores' = Put(stores, obj[w].uid, [gen |-> obj[w].gen, total |-> 0])
    /\ monitored' = TRUE
    /\ \E j \in Jobs :
          /\ job[j].pc = "free"
          /\ job' = [job EXCEPT ![j] = [Idle EXCEPT !.pc = "poll", !.uid = obj[w].uid,
                                                    !.waitsFor = w]]
    /\ Goto(w, "getDone")
    /\ built' = Newest(obj[w], built)
    /\ UNCHANGED <<apiVars, informerVars, queueVars, item, obj, globalVars, skipped,
                   bounds>>

OldTotal(u) == CountOf(perResource, u)

\* processDelete, GlobalCardinalityManager.DeleteResource included.
ProcessDelete(w) ==
    LET u == obj[w].uid IN
    /\ pc[w] = "purge"
    /\ stores' = Without(stores, u)
    /\ monitored' = FALSE
    /\ globalTotal' = globalTotal - OldTotal(u)
    /\ perResource' = Without(perResource, u)
    /\ Goto(w, "getDone")
    /\ UNCHANGED <<apiVars, informerVars, queueVars, item, obj, job, history, bounds>>

\* emitSuccess(True).
PutDone(w) ==
    /\ pc[w] = "putDone"
    /\ CanPut(w)
    /\ Write([api EXCEPT !.processed = api.gen])
    /\ Notify("modified")
    /\ Goto(w, "finish")
    /\ UNCHANGED <<created, informerVars, queueVars, item, obj, stores,
                   monitored, globalVars, job, history, bounds>>

\* The deferred calls: emitDone is closed, the item is done.
Finish(w) ==
    /\ pc[w] = "finish"
    /\ QueueDone(item[w])
    /\ job' = [j \in Jobs |-> IF job[j].waitsFor = w
                              THEN [job[j] EXCEPT !.emitDone = TRUE, !.waitsFor = None]
                              ELSE job[j]]
    /\ obj' = [obj EXCEPT ![w] = None]
    /\ item' = [item EXCEPT ![w] = None]
    /\ Goto(w, "idle")
    /\ UNCHANGED <<apiVars, informerVars, stores, monitored, globalVars, history,
                   bounds>>

----------------------------------------------------------------------------
(* The stores of a build fill while their reflectors list and watch.       *)

Fill(u) ==
    /\ u \in DOMAIN stores
    /\ \E n \in Totals \ {stores[u].total} :
          stores' = [stores EXCEPT ![u].total = n]
    /\ UNCHANGED <<apiVars, informerVars, queueVars, workerVars, monitored, globalVars,
                   job, history, bounds>>

----------------------------------------------------------------------------
(* The cardinality goroutine: updateCardinalityStatus.                     *)

\* The poll ends, on synced stores or by its timeout, and emitDone is closed.
\* aggregateStoreCardinality reads the stores then in the map, if any.
Aggregate(j) ==
    /\ job[j].pc = "poll"
    /\ job[j].emitDone
    /\ job' = [job EXCEPT ![j] =
                 IF job[j].uid \in DOMAIN stores
                 THEN [@ EXCEPT !.pc = "global", !.total = stores[job[j].uid].total]
                 ELSE Idle]
    /\ UNCHANGED <<apiVars, informerVars, queueVars, workerVars, stores, monitored,
                   globalVars, history, bounds>>

\* GlobalCardinalityManager.UpdateResource.
UpdateResource(j) ==
    /\ job[j].pc = "global"
    /\ globalTotal' = globalTotal - OldTotal(job[j].uid) + job[j].total
    /\ perResource' = Put(perResource, job[j].uid, job[j].total)
    /\ job' = [job EXCEPT ![j].pc = "getStatus"]
    /\ UNCHANGED <<apiVars, informerVars, queueVars, workerVars, stores, monitored,
                   history, bounds>>

\* persistCardinalityStatus: it finds the monitor by name.
GetStatus(j) ==
    /\ job[j].pc = "getStatus"
    /\ api # None
    /\ current' = current \cup {j}
    /\ job' = [job EXCEPT ![j].pc = "putStatus"]
    /\ UNCHANGED <<api, created, watch, informerVars, queueVars, workerVars, stores,
                   monitored, globalVars, history, bounds>>

\* What it reports is the subject of Reports: here it is a write of the status.
PutStatus(j) ==
    /\ job[j].pc = "putStatus"
    /\ api # None /\ j \in current
    /\ Write(api)
    /\ Notify("modified")
    /\ job' = [job EXCEPT ![j] = Idle]
    /\ UNCHANGED <<created, informerVars, queueVars, workerVars, stores,
                   monitored, globalVars, history, bounds>>

\* Either call fails: the error is logged and the goroutine ends.
StatusFail(j) ==
    /\ \/ job[j].pc = "getStatus" /\ api = None /\ UNCHANGED errors
       \/ job[j].pc = "putStatus" /\ (api = None \/ j \notin current) /\ UNCHANGED errors
       \/ /\ job[j].pc \in {"getStatus", "putStatus"}
          /\ errors < MaxErrors /\ errors' = errors + 1
    /\ job' = [job EXCEPT ![j] = Idle]
    /\ UNCHANGED <<apiVars, informerVars, queueVars, workerVars, stores, monitored,
                   globalVars, history, relists, restarts>>

----------------------------------------------------------------------------

(* The end of the process and its next start.                              *)

\* A crash, a second signal, or the end of Run on the first one, which waits
\* neither for the workers nor for the goroutines.  The next list brings back
\* what an event given up has missed.
Restart ==
    /\ restarts < MaxRestarts
    /\ restarts' = restarts + 1
    /\ synced' = FALSE
    /\ lister' = None
    /\ queue' = <<>> /\ dirty' = {} /\ processing' = {}
    /\ pc' = [w \in Workers |-> "idle"]
    /\ item' = [w \in Workers |-> None]
    /\ obj' = [w \in Workers |-> None]
    /\ stores' = <<>>
    /\ monitored' = FALSE
    /\ perResource' = <<>>
    /\ globalTotal' = 0
    /\ job' = [j \in Jobs |-> Idle]
    /\ watch' = <<>> /\ current' = {}
    /\ built' = None /\ skipped' = None
    /\ UNCHANGED <<api, created, errors, relists>>

----------------------------------------------------------------------------

Users == Create \/ Edit \/ Delete
Call(w) == ApiGet(w) \/ PutMetadata(w) \/ PutReceived(w) \/ PutDone(w)
Process(w) == DropStores(w) \/ Build(w) \/ ProcessDelete(w)
Work(w) == Get(w) \/ SyncHandler(w) \/ Call(w) \/ ApiFail(w) \/ Process(w) \/ Finish(w)
Report(j) == Aggregate(j) \/ UpdateResource(j) \/ GetStatus(j) \/ PutStatus(j) \/ StatusFail(j)

Next == \/ Users
        \/ Deliver
        \/ FirstList
        \/ Relist
        \/ \E w \in Workers : Work(w)
        \/ \E u \in UID : Fill(u)
        \/ \E j \in Jobs : Report(j)
        \/ Restart

Spec == Init /\ [][Next]_vars

\* The informer, the workers and the goroutines run; users, expired watches, the
\* end of the process and the objects the stores count are free.
FairSpec == /\ Spec
            /\ WF_vars(FirstList) /\ WF_vars(Deliver)
            /\ \A w \in Workers : WF_vars(Work(w))
            /\ \A j \in Jobs : WF_vars(Report(j))
----------------------------------------------------------------------------
(* Properties.                                                             *)

Labels == {"idle", "sync", "drop", "build", "purge", "finish"} \cup GetCalls \cup PutCalls

JobLabels == {"free", "poll", "global", "getStatus", "putStatus"}
JobStates == [pc : JobLabels, uid : 0 .. MaxUID, emitDone : BOOLEAN,
              waitsFor : Workers \cup {None}, total : Totals]

TypeOK ==
    /\ api \in Objects \cup {None}
    /\ created \in 0 .. MaxUID
    /\ current \subseteq Clients
    /\ watch \in Seq([type : {"added", "modified", "deleted"}, uid : UID, gen : Gen])
    /\ synced \in BOOLEAN
    /\ lister \in Monitor \cup {None}
    /\ queue \in Seq(Events)
    /\ dirty \subseteq Events /\ processing \subseteq Events
    /\ pc \in [Workers -> Labels]
    /\ item \in [Workers -> Events \cup {None}]
    /\ obj \in [Workers -> Monitor \cup {None}]
    /\ DOMAIN stores \subseteq UID
    /\ stores \in [DOMAIN stores -> [gen : Gen, total : Totals]]
    /\ monitored \in BOOLEAN
    /\ DOMAIN perResource \subseteq UID
    /\ perResource \in [DOMAIN perResource -> Totals]
    /\ globalTotal \in Nat
    /\ job \in [Jobs -> JobStates]
    /\ built \in Monitor \cup {None} /\ skipped \in Monitor \cup {None}
    /\ errors \in 0 .. MaxErrors
    /\ relists \in 0 .. MaxRelists
    /\ restarts \in 0 .. MaxRestarts

\* client-go's workqueue, as controller.go:361-393 relies on it: an item waits
\* in the queue exactly while it is dirty and nobody processes it, once, and
\* the items being processed are those of the workers that are not idle, each
\* with one of its own.
QueueConsistent ==
    /\ \A m, n \in DOMAIN queue : queue[m] = queue[n] => m = n
    /\ {queue[n] : n \in DOMAIN queue} = dirty \ processing
    /\ processing = {item[w] : w \in {v \in Workers : pc[v] # "idle"}}
    /\ \A v, w \in Workers :
          pc[v] # "idle" /\ pc[w] # "idle" /\ item[v] = item[w] => v = w
    /\ \A w \in Workers : pc[w] = "idle" <=> item[w] = None

\* controller.go:358-372: the queue, its two sets and the workers together do
\* what WorkQueue promises, through any interleaving of the handlers, the
\* workers and the end of the process.
Queue == INSTANCE WorkQueue WITH Items <- Events, pending <- dirty, active <- item
ImplementsWorkQueue == Queue!Spec

Quiescent ==
    /\ synced
    /\ watch = <<>> /\ queue = <<>>
    /\ \A w \in Workers : pc[w] = "idle"
    /\ \A j \in Jobs : job[j].pc = "free"

Served == api # None /\ api.uid \in DOMAIN stores /\ stores[api.uid].gen = api.gen

\* controller.go:323-393, events.go:56-189: at rest, stores have been built from
\* the configuration in the API server, or the very event that brought it was
\* given up (a failed call, events.go:56-64) or taken for no change
\* (controller.go:340).  No event is lost between the informer, the queue and the
\* map, whoever handled the others and in whatever order.
EveryConfigurationHandled ==
    Quiescent /\ api # None => Version(api) \in {built, skipped}

\* types.go:47, "Resource configuration has been processed successfully": at rest,
\* if the configuration in the API server is the newest that stores were built
\* from, and Processed=True is recorded for it, its stores are those in the map.
\* It fails with the two workers of options.go:139, and with one worker for a
\* monitor that is created again.
ProcessedMeansServed ==
    Quiescent /\ api # None /\ api.processed = api.gen /\ built = Version(api) => Served

\* events.go:191-205: a monitor that is gone has left no stores and no
\* cardinality behind once its deletion has been handled.
NothingLeftOfDeleted ==
    Quiescent /\ api = None =>
        DOMAIN stores = {} /\ DOMAIN perResource = {} /\ globalTotal = 0 /\ ~monitored

\* events.go:70-71, 181: emitDone is closed on every path out of handleEvent,
\* so whatever fails, the workers and goroutines come to rest.
ComesToRest == <>[]Quiescent

\* controller.go:350-393: an item put in the queue is taken out of it.
ItemsAreHandled == \A e \in Events : e \in dirty ~> e \notin dirty

=============================================================================
