---------------------------- MODULE ControllerProofs ----------------------------
(* The controller's variables keep their types, its queue does what          *)
(* WorkQueue promises, and at rest every configuration has been handled, for *)
(* any workers, goroutines and bounds.                                       *)
EXTENDS Controller, TablesProofs

\* TypeOK but for the sign of the total, which follows from what it sums.
Typed ==
    /\ api \in Objects \cup {None}
    /\ created \in 0 .. MaxUID
    /\ current \subseteq Clients
    /\ watch \in Seq([type : {"added", "modified", "deleted"}, uid : UID, gen : Gen])
    /\ synced \in BOOLEAN
    /\ lister \in Monitor \cup {None}
    /\ queue \in Seq(Events)
    /\ dirty \subseteq Events /\ processing \subseteq Events
    /\ pc \in [Workers -> Labels]
    /\ item \in [Workers -> Events \cup {None}]
    /\ obj \in [Workers -> Monitor \cup {None}]
    /\ DOMAIN stores \subseteq UID
    /\ stores \in [DOMAIN stores -> [gen : Gen, total : Totals]]
    /\ monitored \in BOOLEAN
    /\ DOMAIN perResource \subseteq UID
    /\ perResource \in [DOMAIN perResource -> Totals]
    /\ globalTotal \in Int
    /\ job \in [Jobs -> JobStates]
    /\ built \in Monitor \cup {None} /\ skipped \in Monitor \cup {None}
    /\ errors \in 0 .. MaxErrors
    /\ relists \in 0 .. MaxRelists
    /\ restarts \in 0 .. MaxRestarts

\* A worker that processes an event knows which monitor it is about, and a
\* goroutine that is not free which one it reports on.
Known ==
    /\ \A w \in Workers : pc[w] \in {"drop", "build", "purge"} => obj[w] \in Monitor
    /\ \A j \in Jobs : job[j].pc # "free" => job[j].uid \in UID

Inv == Typed /\ Known

----------------------------------------------------------------------------

\* The bounds are numbers, and 0 is a total.
LEMMA Bounds ==
    /\ MaxUID \in Nat /\ MaxGen \in Nat /\ 1 \in Gen /\ 0 \in Totals
    /\ MaxTotal \in Nat /\ Totals = 0 .. MaxTotal /\ Totals \subseteq Nat
    /\ MaxErrors \in Nat /\ MaxRelists \in Nat /\ MaxRestarts \in Nat
    /\ IsFiniteSet(UID)
  BY BoundsAssumption, FS_Interval DEF Gen, Totals, UID

\* A free goroutine is one of the states a goroutine may be in.
LEMMA IdleType == Idle \in JobStates
  BY Bounds DEF Idle, JobStates, JobLabels

\* The controller starts with nothing in memory and nothing in the API server.
LEMMA InitInv == Init => Inv
<1> SUFFICES ASSUME Init PROVE Inv
  OBVIOUS
<1>1. stores = <<>> /\ perResource = <<>>
  BY DEF Init
<1>2. /\ DOMAIN stores = {} /\ stores \in [DOMAIN stores -> [gen : Gen, total : Totals]]
      /\ DOMAIN perResource = {} /\ perResource \in [DOMAIN perResource -> Totals]
  BY <1>1
<1>3. job \in [Jobs -> JobStates]
  BY IdleType DEF Init
<1>4. watch \in Seq([type : {"added", "modified", "deleted"}, uid : UID, gen : Gen])
      /\ queue \in Seq(Events)
  BY DEF Init
<1>5. /\ pc \in [Workers -> Labels]
      /\ item \in [Workers -> Events \cup {None}]
      /\ obj \in [Workers -> Monitor \cup {None}]
  BY DEF Init, Labels
<1>6. /\ created \in 0 .. MaxUID /\ globalTotal \in Int
      /\ errors \in 0 .. MaxErrors /\ relists \in 0 .. MaxRelists
      /\ restarts \in 0 .. MaxRestarts
  BY Bounds DEF Init
<1>7. Typed
  BY <1>1, <1>2, <1>3, <1>4, <1>5, <1>6 DEF Init, Typed
<1>8. Known
  BY DEF Init, Known, Idle
<1> QED
  BY <1>7, <1>8 DEF Inv

----------------------------------------------------------------------------
(* The actions, one by one.                                                  *)

\* The version of a monitor that is there is one of a monitor.
LEMMA VersionTypes == Inv /\ api # None => Version(api) \in Monitor
  BY DEF Version, Inv, Typed, Objects, Monitor

\* Any write announces a version of the monitor that is there.
LEMMA NotifyType ==
    ASSUME Inv, NEW type \in {"added", "modified", "deleted"}, api' \in Objects, Notify(type)
    PROVE  watch' \in Seq([type : {"added", "modified", "deleted"}, uid : UID, gen : Gen])
<1>1. api'.uid \in UID /\ api'.gen \in Gen
  BY DEF Objects
<1> QED
  BY <1>1 DEF Notify, Inv, Typed

\* The users' actions keep the types.
LEMMA UsersInv == ASSUME Inv, Users PROVE Inv'
<1> USE DEF Write
<1>1. ASSUME Create PROVE Inv'
  <2>1. api' \in Objects /\ created' \in 0 .. MaxUID
    BY <1>1, Bounds DEF Create, Objects, UID, Inv, Typed
  <2>2. watch' \in Seq([type : {"added", "modified", "deleted"}, uid : UID, gen : Gen])
    BY <1>1, <2>1, NotifyType DEF Create
  <2> QED
    BY <1>1, <2>1, <2>2 DEF Create, Inv, Typed, Known, memory, informerVars, queueVars,
       workerVars, globalVars, history, bounds
<1>2. ASSUME Edit PROVE Inv'
  <2>1. api' \in Objects
    <3>1. api \in Objects
      BY <1>2 DEF Edit, Inv, Typed
    <3>2. api.gen \in Gen /\ api.gen < MaxGen
      BY <1>2, <3>1 DEF Edit, Objects
    <3>3. api.gen + 1 \in Gen
      BY <3>2, Bounds DEF Gen
    <3> QED
      BY <1>2, <3>1, <3>3 DEF Edit, Objects
  <2>2. watch' \in Seq([type : {"added", "modified", "deleted"}, uid : UID, gen : Gen])
    BY <1>2, <2>1, NotifyType DEF Edit
  <2> QED
    BY <1>2, <2>1, <2>2 DEF Edit, Inv, Typed, Known, memory, informerVars, queueVars,
       workerVars, globalVars, history, bounds
<1>3. ASSUME Delete PROVE Inv'
  <2>1. api.uid \in UID /\ api.gen \in Gen
    BY <1>3 DEF Delete, Inv, Typed, Objects
  <2>2. watch' \in Seq([type : {"added", "modified", "deleted"}, uid : UID, gen : Gen])
    BY <1>3, <2>1 DEF Delete, Inv, Typed
  <2> QED
    BY <1>3, <2>2 DEF Delete, Inv, Typed, Known, memory, informerVars, queueVars,
       workerVars, globalVars, history, bounds
<1> QED
  BY <1>1, <1>2, <1>3 DEF Users

\* Adding an item keeps the queue a sequence of events.
LEMMA EnqueueType ==
    ASSUME Inv, NEW e \in Events, Enqueue(e)
    PROVE  queue' \in Seq(Events) /\ dirty' \subseteq Events /\ processing' \subseteq Events
  BY DEF Enqueue, Inv, Typed

\* What the handlers may do to the queue: nothing, or add an event.
LEMMA HandlerSteps ==
    ASSUME Deliver \/ FirstList \/ Relist
    PROVE  UNCHANGED queueVars \/ \E e \in Events : Enqueue(e)
  BY DEF Deliver, FirstList, Relist, Listed, UpdateHandler, Events

\* The informer keeps the types.
LEMMA InformerInv == ASSUME Inv, Deliver \/ FirstList \/ Relist PROVE Inv'
<1>1. queue' \in Seq(Events) /\ dirty' \subseteq Events /\ processing' \subseteq Events
  <2>1. CASE UNCHANGED queueVars
    BY <2>1 DEF queueVars, Inv, Typed
  <2> QED
    BY <2>1, EnqueueType, HandlerSteps
<1>2. /\ lister' \in Monitor \cup {None} /\ synced' \in BOOLEAN /\ relists' \in 0 .. MaxRelists
      /\ watch' \in Seq([type : {"added", "modified", "deleted"}, uid : UID, gen : Gen])
  <2>1. CASE Deliver
    <3> DEFINE Sent == [type : {"added", "modified", "deleted"}, uid : UID, gen : Gen]
    <3>a. watch \in Seq(Sent) /\ watch # <<>> /\ watch' = Tail(watch)
      BY <2>1 DEF Deliver, Inv, Typed
    <3>b. Head(watch) \in Sent /\ watch' \in Seq(Sent)
      <4> HIDE DEF Sent
      <4> QED
        BY <3>a
    <3>1. Head(watch) \in [type : {"added", "modified", "deleted"}, uid : UID, gen : Gen]
      BY <3>b
    <3>2. watch' \in Seq([type : {"added", "modified", "deleted"}, uid : UID, gen : Gen])
      BY <3>b
    <3>3. Head(watch).uid \in UID /\ Head(watch).gen \in Gen
      BY <3>1
    <3>4. lister' = None \/ lister' = Version(Head(watch))
      BY <2>1 DEF Deliver
    <3>5. lister' \in Monitor \cup {None}
      BY <3>3, <3>4 DEF Monitor, Version
    <3>6. UNCHANGED <<synced, relists>>
      BY <2>1 DEF Deliver, history, bounds
    <3>7. synced' \in BOOLEAN
      BY <3>6 DEF Inv, Typed
    <3>8. relists' \in 0 .. MaxRelists
      BY <3>6 DEF Inv, Typed
    <3> QED
      BY <3>2, <3>5, <3>7, <3>8
  <2>2. CASE FirstList \/ Relist
    <3>1. api # None => Version(api) \in Monitor
      BY VersionTypes
    <3>2. lister' \in Monitor \cup {None} /\ watch' = <<>>
      BY <2>2, <3>1 DEF FirstList, Relist, Listed
    <3>3. synced' \in BOOLEAN
      BY <2>2 DEF FirstList, Relist, Inv, Typed
    <3>4. relists' = relists \/ (relists < MaxRelists /\ relists' = relists + 1)
      BY <2>2 DEF FirstList, Relist
    <3>5. relists' \in 0 .. MaxRelists
      BY <3>4, Bounds DEF Inv, Typed
    <3> QED
      BY <3>2, <3>3, <3>5
  <2> QED
    BY <2>1, <2>2
<1>3. UNCHANGED <<api, created, current, workerVars, stores, monitored, globalVars, job,
                  built, errors, restarts>>
  BY DEF Deliver, FirstList, Relist, Listed, history, bounds
<1>4. skipped' \in Monitor \cup {None}
  <2>1. api # None => Version(api) \in Monitor
    BY VersionTypes
  <2> QED
    BY <2>1 DEF Deliver, FirstList, Relist, Listed, Replaced, Newest, history, Inv, Typed
<1> QED
  BY <1>1, <1>2, <1>3, <1>4 DEF Inv, Typed, Known, workerVars, globalVars

\* A worker's calls to the API server keep the types.
LEMMA CallInv == ASSUME Inv, NEW w \in Workers, Call(w) \/ ApiFail(w) PROVE Inv'
<1> USE DEF Goto, Write
<1>1. pc' \in [Workers -> Labels]
  <2>1. \E l \in Labels : pc' = [pc EXCEPT ![w] = l]
    <3>1. CASE ApiGet(w)
      <4>1. pc[w] \in GetCalls
        BY <3>1 DEF ApiGet, CanGet
      <4>2. PutOf[pc[w]] \in Labels
        BY <4>1 DEF GetCalls, PutOf, Labels, PutCalls
      <4> QED
        BY <3>1, <4>2 DEF ApiGet
    <3>2. CASE ApiFail(w) \/ PutMetadata(w) \/ PutDone(w)
      BY <3>2 DEF ApiFail, PutMetadata, PutDone, Labels, GetCalls
    <3>3. CASE PutReceived(w)
      BY <3>3 DEF PutReceived, Labels
    <3> QED
      BY <3>1, <3>2, <3>3 DEF Call
  <2> QED
    BY <2>1 DEF Inv, Typed
<1>2. /\ \A v \in Workers \ {w} : pc'[v] = pc[v] /\ obj'[v] = obj[v]
      /\ pc'[w] \in {"drop", "build", "purge"} => obj'[w] \in Monitor
      /\ obj' \in [Workers -> Monitor \cup {None}]
  <2>1. CASE PutReceived(w)
    <3>2. obj' = [obj EXCEPT ![w] = Version(api)]
          /\ Version(api) \in Monitor
      BY <2>1, VersionTypes DEF PutReceived, CanPut
    <3>3. \A v \in Workers \ {w} : pc'[v] = pc[v]
      BY <2>1 DEF PutReceived, Inv, Typed
    <3> QED
      BY <3>2, <3>3 DEF Inv, Typed
  <2>2. CASE ApiGet(w) \/ ApiFail(w) \/ PutMetadata(w) \/ PutDone(w)
    <3>1. obj' = obj
      BY <2>2 DEF ApiGet, ApiFail, PutMetadata, PutDone
    <3>2. /\ \A v \in Workers \ {w} : pc'[v] = pc[v]
          /\ pc'[w] \notin {"drop", "build", "purge"}
      BY <2>2 DEF ApiGet, ApiFail, PutMetadata, PutDone, CanGet, GetCalls, PutOf, Inv, Typed
    <3> QED
      BY <3>1, <3>2 DEF Inv, Typed
  <2> QED
    BY <2>1, <2>2 DEF Call
<1>3. /\ api' \in Objects \cup {None}
      /\ watch' \in Seq([type : {"added", "modified", "deleted"}, uid : UID, gen : Gen])
  <2>1. CASE UNCHANGED <<api, watch>>
    BY <2>1 DEF Inv, Typed
  <2>2. CASE api' \in Objects /\ Notify("modified")
    BY <2>2, NotifyType
  <2>3. CASE PutMetadata(w)
    <3>1. api \in Objects
      BY <2>3 DEF PutMetadata, CanPut, Inv, Typed
    <3> QED
      BY <2>1, <2>2, <2>3, <3>1 DEF PutMetadata, Objects
  <2>4. CASE PutReceived(w) \/ PutDone(w)
    <3>1. api \in Objects
      BY <2>4 DEF PutReceived, PutDone, CanPut, Inv, Typed
    <3>2. api.gen \in 0 .. MaxGen
      BY <3>1, Bounds DEF Objects, Gen
    <3>3. api' = [api EXCEPT !.processed = 0] \/ api' = [api EXCEPT !.processed = api.gen]
      BY <2>4 DEF PutReceived, PutDone
    <3>4. 0 \in 0 .. MaxGen
      BY Bounds
    <3>5. api' \in Objects
      BY <3>1, <3>2, <3>3, <3>4 DEF Objects
    <3> QED
      BY <2>2, <2>4, <3>5 DEF PutReceived, PutDone
  <2> QED
    BY <2>1, <2>3, <2>4 DEF Call, ApiGet, ApiFail, apiVars
<1>4. current' \subseteq Clients
  BY DEF Call, ApiGet, ApiFail, PutMetadata, PutReceived, PutDone, Inv, Typed, Clients, apiVars
<1>5. errors' \in 0 .. MaxErrors
  <2>1. errors' = errors \/ (errors < MaxErrors /\ errors' = errors + 1)
    BY DEF Call, ApiGet, ApiFail, PutMetadata, PutReceived, PutDone, history, bounds
  <2> QED
    BY <2>1, Bounds DEF Inv, Typed
<1>6. built' = built /\ skipped' \in Monitor \cup {None}
  BY DEF Call, ApiGet, ApiFail, PutMetadata, PutReceived, PutDone, Newest, history, Inv, Typed
<1>7. UNCHANGED <<created, informerVars, queueVars, item, stores, monitored, globalVars, job,
                  relists, restarts>>
  BY DEF Call, ApiGet, ApiFail, PutMetadata, PutReceived, PutDone, apiVars, history, bounds
<1>8. Typed'
  BY <1>1, <1>2, <1>3, <1>4, <1>5, <1>6, <1>7 DEF Inv, Typed, informerVars, queueVars, globalVars
<1>9. Known'
  BY <1>2, <1>7 DEF Inv, Known
<1> QED
  BY <1>8, <1>9 DEF Inv

\* A worker takes an item, reads its monitor, and gives the item back.
LEMMA ItemInv == ASSUME Inv, NEW w \in Workers, Get(w) \/ SyncHandler(w) \/ Finish(w) PROVE Inv'
<1> USE DEF Goto
<1>1. ASSUME Get(w) PROVE Inv'
  <2>1. queue \in Seq(Events) /\ queue # <<>> /\ queue' = Tail(queue)
    BY <1>1 DEF Get, QueueGet, Inv, Typed
  <2>2. queue' \in Seq(Events) /\ Head(queue) \in Events
    <3> HIDE DEF Events
    <3> QED
      BY <2>1
  <2>3. /\ item' \in [Workers -> Events \cup {None}]
        /\ dirty' \subseteq Events /\ processing' \subseteq Events
    BY <1>1, <2>2 DEF Get, QueueGet, Inv, Typed
  <2>4. pc' \in [Workers -> Labels]
        /\ \A v \in Workers : pc'[v] \in {"drop", "build", "purge"} => pc'[v] = pc[v]
    BY <1>1 DEF Get, Inv, Typed, Labels
  <2>5. UNCHANGED <<apiVars, informerVars, obj, stores, monitored, globalVars, job, history, bounds>>
    BY <1>1 DEF Get
  <2> QED
    BY <2>2, <2>3, <2>4, <2>5
       DEF Inv, Typed, Known, apiVars, informerVars, globalVars, history, bounds
<1>2. ASSUME SyncHandler(w) PROVE Inv'
  <2>1. obj' \in [Workers -> Monitor \cup {None}]
        /\ \A v \in Workers \ {w} : obj'[v] = obj[v]
    BY <1>2 DEF SyncHandler, Inv, Typed
  <2>2. pc' \in [Workers -> Labels] /\ pc'[w] = "getMetadata"
        /\ \A v \in Workers \ {w} : pc'[v] = pc[v]
    BY <1>2 DEF SyncHandler, Inv, Typed, Labels, GetCalls
  <2>3. UNCHANGED <<apiVars, informerVars, queueVars, item, stores, monitored, globalVars, job,
                    history, bounds>>
    BY <1>2 DEF SyncHandler
  <2>4. Typed'
    BY <2>1, <2>2, <2>3 DEF Inv, Typed, apiVars, informerVars, queueVars, globalVars, history, bounds
  <2>5. Known'
    BY <2>1, <2>2, <2>3 DEF Inv, Known
  <2> QED
    BY <2>4, <2>5 DEF Inv
<1>3. ASSUME Finish(w) PROVE Inv'
  <2>1. queue' = queue \/ \E e \in Events : queue' = Append(queue, e)
    BY <1>3 DEF Finish, QueueDone, Inv, Typed
  <2>2. queue' \in Seq(Events) /\ dirty' \subseteq Events /\ processing' \subseteq Events
    <3>1. queue \in Seq(Events)
      BY DEF Inv, Typed
    <3>2. queue' \in Seq(Events)
      <4> HIDE DEF Events
      <4> QED
        BY <2>1, <3>1
    <3> QED
      BY <1>3, <3>2 DEF Finish, QueueDone, Inv, Typed
  <2>3. /\ item' \in [Workers -> Events \cup {None}]
        /\ obj' \in [Workers -> Monitor \cup {None}]
        /\ \A v \in Workers \ {w} : obj'[v] = obj[v]
    BY <1>3 DEF Finish, Inv, Typed
  <2>4. pc' \in [Workers -> Labels] /\ pc'[w] = "idle"
        /\ \A v \in Workers \ {w} : pc'[v] = pc[v]
    BY <1>3 DEF Finish, Inv, Typed, Labels
  <2>5. job' \in [Jobs -> JobStates] /\ \A j \in Jobs : job'[j].pc = job[j].pc /\ job'[j].uid = job[j].uid
    <3>1. ASSUME NEW j \in Jobs
          PROVE  /\ [job[j] EXCEPT !.emitDone = TRUE, !.waitsFor = None] \in JobStates
                 /\ [job[j] EXCEPT !.emitDone = TRUE, !.waitsFor = None].pc = job[j].pc
                 /\ [job[j] EXCEPT !.emitDone = TRUE, !.waitsFor = None].uid = job[j].uid
      <4>1. job[j] \in JobStates
        BY DEF Inv, Typed
      <4> QED
        BY <4>1 DEF JobStates
    <3>2. job \in [Jobs -> JobStates]
      BY DEF Inv, Typed
    <3>3. job' = [j \in Jobs |-> IF job[j].waitsFor = w
                                 THEN [job[j] EXCEPT !.emitDone = TRUE, !.waitsFor = None]
                                 ELSE job[j]]
      BY <1>3 DEF Finish
    <3> QED
      BY <3>1, <3>2, <3>3
  <2>6. UNCHANGED <<apiVars, informerVars, stores, monitored, globalVars, history, bounds>>
    BY <1>3 DEF Finish
  <2>7. Typed'
    BY <2>2, <2>3, <2>4, <2>5, <2>6 DEF Inv, Typed, apiVars, informerVars, globalVars, history, bounds
  <2>8. Known'
    BY <2>3, <2>4, <2>5 DEF Inv, Known
  <2> QED
    BY <2>7, <2>8 DEF Inv
<1> QED
  BY <1>1, <1>2, <1>3

\* Deleting an entry keeps a table typed.
LEMMA WithoutType ==
    ASSUME NEW T, NEW K, NEW V, DOMAIN T \subseteq K, T \in [DOMAIN T -> V], NEW u
    PROVE  /\ DOMAIN Without(T, u) \subseteq K
           /\ Without(T, u) \in [DOMAIN Without(T, u) -> V]
  BY DEF Without

\* So does setting one.
LEMMA PutType ==
    ASSUME NEW T, NEW K, NEW V, DOMAIN T \subseteq K, T \in [DOMAIN T -> V],
           NEW u \in K, NEW x \in V
    PROVE  DOMAIN Put(T, u, x) \subseteq K /\ Put(T, u, x) \in [DOMAIN Put(T, u, x) -> V]
  BY DEF Put

\* What is counted for a resource is a total.
LEMMA CountType == ASSUME Inv, NEW u PROVE CountOf(perResource, u) \in Totals
  BY Bounds DEF CountOf, Inv, Typed

\* Processing an event keeps the types.
LEMMA ProcessInv == ASSUME Inv, NEW w \in Workers, Process(w) PROVE Inv'
<1> USE DEF Goto
<1>0. obj[w] \in Monitor /\ obj[w].uid \in UID /\ obj[w].gen \in Gen
  BY DEF Process, DropStores, Build, ProcessDelete, Inv, Known, Monitor
<1>1. DOMAIN stores' \subseteq UID /\ stores' \in [DOMAIN stores' -> [gen : Gen, total : Totals]]
  <2> DEFINE Stores == [gen : Gen, total : Totals]
  <2>1. [gen |-> obj[w].gen, total |-> 0] \in Stores
    BY <1>0, Bounds
  <2>2. \/ stores' = Without(stores, obj[w].uid)
        \/ stores' = Put(stores, obj[w].uid, [gen |-> obj[w].gen, total |-> 0])
    BY DEF Process, DropStores, Build, ProcessDelete
  <2>3. DOMAIN stores \subseteq UID /\ stores \in [DOMAIN stores -> Stores]
    BY DEF Inv, Typed
  <2> HIDE DEF Stores
  <2> DEFINE entry == [gen |-> obj[w].gen, total |-> 0]
             kept == Without(stores, obj[w].uid)
             new == Put(stores, obj[w].uid, entry)
  <2>a. DOMAIN kept \subseteq UID /\ kept \in [DOMAIN kept -> Stores]
    BY <2>3, WithoutType
  <2>b. DOMAIN new \subseteq UID /\ new \in [DOMAIN new -> Stores]
    <3>1. entry \in Stores
      BY <2>1
    <3> HIDE DEF entry
    <3> QED
      BY <1>0, <2>3, <3>1, PutType
  <2>4. DOMAIN stores' \subseteq UID /\ stores' \in [DOMAIN stores' -> Stores]
    BY <2>2, <2>a, <2>b
  <2> QED
    BY <2>4 DEF Stores
<1>2. /\ DOMAIN perResource' \subseteq UID
      /\ perResource' \in [DOMAIN perResource' -> Totals]
  <2>1. perResource' = perResource \/ perResource' = Without(perResource, obj[w].uid)
    BY DEF Process, DropStores, Build, ProcessDelete, globalVars
  <2>2. DOMAIN perResource \subseteq UID /\ perResource \in [DOMAIN perResource -> Totals]
    BY DEF Inv, Typed
  <2> DEFINE kept == Without(perResource, obj[w].uid)
  <2>3. DOMAIN kept \subseteq UID /\ kept \in [DOMAIN kept -> Totals]
    BY <2>2, WithoutType
  <2> QED
    BY <2>1, <2>2, <2>3
<1>3. globalTotal' \in Int
  <2>1. \/ globalTotal' = globalTotal
        \/ globalTotal' = globalTotal - CountOf(perResource, obj[w].uid)
    BY DEF Process, DropStores, Build, ProcessDelete, globalVars, OldTotal
  <2>2. globalTotal \in Int
    BY DEF Inv, Typed
  <2> QED
    BY <2>1, <2>2, CountType, Bounds
<1>4. job' \in [Jobs -> JobStates]
      /\ \A j \in Jobs : job'[j].pc # "free" => job'[j].uid \in UID
  <2>1. CASE job' = job
    BY <2>1 DEF Inv, Typed, Known
  <2>2. CASE Build(w)
    <3> DEFINE new == [Idle EXCEPT !.pc = "poll", !.uid = obj[w].uid, !.waitsFor = w]
    <3>1. PICK j \in Jobs : job' = [job EXCEPT ![j] = new]
      BY <2>2 DEF Build
    <3>2. obj[w].uid \in 0 .. MaxUID
      BY <1>0, Bounds DEF UID
    <3>3. new \in JobStates /\ new.uid \in UID
      BY <1>0, <3>2, IdleType DEF Idle, JobStates, JobLabels
    <3> HIDE DEF new
    <3> QED
      BY <3>1, <3>3 DEF Inv, Typed, Known
  <2> QED
    BY <2>1, <2>2 DEF Process, DropStores, ProcessDelete
<1>5. pc' \in [Workers -> Labels]
      /\ \A v \in Workers : pc'[v] \in {"drop", "build", "purge"} => obj[v] \in Monitor
  <2>1. pc' = [pc EXCEPT ![w] = "build"] \/ pc' = [pc EXCEPT ![w] = "getDone"]
    BY DEF Process, DropStores, Build, ProcessDelete
  <2> QED
    BY <1>0, <2>1 DEF Inv, Typed, Known, Labels, GetCalls
<1>6. monitored' \in BOOLEAN
  BY DEF Process, DropStores, Build, ProcessDelete, Inv, Typed
<1>7. /\ UNCHANGED <<apiVars, informerVars, queueVars, item, obj, skipped, bounds>>
      /\ built' \in Monitor \cup {None}
  BY <1>0 DEF Process, DropStores, Build, ProcessDelete, Newest, history, Inv, Typed
<1>8. Typed'
  BY <1>1, <1>2, <1>3, <1>4, <1>5, <1>6, <1>7
     DEF Inv, Typed, apiVars, informerVars, queueVars, history, bounds
<1>9. Known'
  BY <1>4, <1>5, <1>7 DEF Known
<1> QED
  BY <1>8, <1>9 DEF Inv

\* The stores fill within their bounds.
LEMMA FillInv == ASSUME Inv, NEW u \in UID, Fill(u) PROVE Inv'
<1>1. stores' \in [DOMAIN stores' -> [gen : Gen, total : Totals]] /\ DOMAIN stores' \subseteq UID
  <2>1. PICK n \in Totals : stores' = [stores EXCEPT ![u].total = n]
    BY DEF Fill
  <2>2. u \in DOMAIN stores /\ stores[u] \in [gen : Gen, total : Totals]
    BY DEF Fill, Inv, Typed
  <2>3. [stores[u] EXCEPT !.total = n] \in [gen : Gen, total : Totals]
    BY <2>2
  <2>4. /\ stores' = [v \in DOMAIN stores |-> IF v = u THEN [stores[u] EXCEPT !.total = n]
                                                      ELSE stores[v]]
        /\ DOMAIN stores' = DOMAIN stores
    BY <2>1, <2>2
  <2> QED
    BY <2>3, <2>4 DEF Inv, Typed
<1>2. UNCHANGED <<apiVars, informerVars, queueVars, workerVars, monitored, globalVars, job,
                  history, bounds>>
  BY DEF Fill
<1> QED
  BY <1>1, <1>2 DEF Inv, Typed, Known, apiVars, informerVars, queueVars, workerVars, globalVars,
     history, bounds

\* What the goroutine's steps make of it.
LEMMA JobSteps ==
    ASSUME Inv, NEW j \in Jobs, Report(j)
    PROVE  /\ job' \in [Jobs -> JobStates]
           /\ \A k \in Jobs : job'[k].pc # "free" => job'[k].uid \in UID
<1>1. job \in [Jobs -> JobStates] /\ job[j] \in JobStates
  BY DEF Inv, Typed
<1>2. job[j].pc # "free" /\ job[j].uid \in UID
  BY DEF Report, Aggregate, UpdateResource, GetStatus, PutStatus, StatusFail, Inv, Known
<1>3. \E new \in JobStates :
          job' = [job EXCEPT ![j] = new] /\ (new.pc # "free" => new.uid = job[j].uid)
  <2>1. CASE Aggregate(j)
    <3>1. ASSUME job[j].uid \in DOMAIN stores
          PROVE  /\ [job[j] EXCEPT !.pc = "global", !.total = stores[job[j].uid].total] \in JobStates
                 /\ [job[j] EXCEPT !.pc = "global", !.total = stores[job[j].uid].total].uid = job[j].uid
      <4>1. stores[job[j].uid].total \in Totals
        BY <3>1 DEF Inv, Typed
      <4> QED
        BY <1>1, <4>1 DEF JobStates, JobLabels
    <3> QED
      BY <2>1, <3>1, IdleType DEF Aggregate, Idle
  <2>2. CASE UpdateResource(j)
    <3>1. [job[j] EXCEPT !.pc = "getStatus"] \in JobStates
          /\ [job[j] EXCEPT !.pc = "getStatus"].uid = job[j].uid
      BY <1>1 DEF JobStates, JobLabels
    <3> QED
      BY <2>2, <3>1 DEF UpdateResource
  <2>3. CASE GetStatus(j)
    <3>1. [job[j] EXCEPT !.pc = "putStatus"] \in JobStates
          /\ [job[j] EXCEPT !.pc = "putStatus"].uid = job[j].uid
      BY <1>1 DEF JobStates, JobLabels
    <3> QED
      BY <2>3, <3>1 DEF GetStatus
  <2>4. CASE PutStatus(j) \/ StatusFail(j)
    BY <2>4, IdleType DEF PutStatus, StatusFail, Idle
  <2> QED
    BY <2>1, <2>2, <2>3, <2>4 DEF Report
<1> QED
  BY <1>1, <1>2, <1>3 DEF Inv, Known

\* The goroutine that reports cardinality keeps the types.
LEMMA ReportInv == ASSUME Inv, NEW j \in Jobs, Report(j) PROVE Inv'
<1>1. job[j] \in JobStates /\ job[j].uid \in UID /\ job[j].total \in Totals
  <2>1. job[j].pc # "free"
    BY DEF Report, Aggregate, UpdateResource, GetStatus, PutStatus, StatusFail
  <2> QED
    BY <2>1 DEF Inv, Typed, Known, JobStates
<1>2. /\ DOMAIN perResource' \subseteq UID
      /\ perResource' \in [DOMAIN perResource' -> Totals]
  <2>1. \/ perResource' = perResource
        \/ perResource' = Put(perResource, job[j].uid, job[j].total)
    BY DEF Report, Aggregate, UpdateResource, GetStatus, PutStatus, StatusFail, globalVars
  <2>2. DOMAIN perResource \subseteq UID /\ perResource \in [DOMAIN perResource -> Totals]
    BY DEF Inv, Typed
  <2> DEFINE new == Put(perResource, job[j].uid, job[j].total)
  <2>3. DOMAIN new \subseteq UID /\ new \in [DOMAIN new -> Totals]
    BY <1>1, <2>2, PutType
  <2> QED
    BY <2>1, <2>2, <2>3
<1>3. globalTotal' \in Int
  <2>1. \/ globalTotal' = globalTotal
        \/ globalTotal' = globalTotal - CountOf(perResource, job[j].uid) + job[j].total
    BY DEF Report, Aggregate, UpdateResource, GetStatus, PutStatus, StatusFail, globalVars, OldTotal
  <2>2. globalTotal \in Int
    BY DEF Inv, Typed
  <2> QED
    BY <1>1, <2>1, <2>2, CountType, Bounds
<1>4. /\ api' \in Objects \cup {None}
      /\ watch' \in Seq([type : {"added", "modified", "deleted"}, uid : UID, gen : Gen])
  <2>1. CASE UNCHANGED <<api, watch>>
    BY <2>1 DEF Inv, Typed
  <2>2. CASE PutStatus(j)
    <3>1. api \in Objects /\ api' = api
      BY <2>2 DEF PutStatus, Write, Inv, Typed
    <3> QED
      BY <2>2, <3>1, NotifyType DEF PutStatus
  <2> QED
    BY <2>1, <2>2 DEF Report, Aggregate, UpdateResource, GetStatus, StatusFail, apiVars
<1>5. current' \subseteq Clients
  BY DEF Report, Aggregate, UpdateResource, GetStatus, PutStatus, StatusFail, Write, apiVars,
     Inv, Typed, Clients
<1>6. errors' \in 0 .. MaxErrors
  <2>1. errors' = errors \/ (errors < MaxErrors /\ errors' = errors + 1)
    BY DEF Report, Aggregate, UpdateResource, GetStatus, PutStatus, StatusFail, history, bounds
  <2> QED
    BY <2>1, Bounds DEF Inv, Typed
<1>7. UNCHANGED <<created, informerVars, queueVars, workerVars, stores, monitored, history,
                  relists, restarts>>
  BY DEF Report, Aggregate, UpdateResource, GetStatus, PutStatus, StatusFail, apiVars, history, bounds
<1>8. Typed'
  BY <1>2, <1>3, <1>4, <1>5, <1>6, <1>7, JobSteps
     DEF Inv, Typed, informerVars, queueVars, workerVars, history
<1>9. Known'
  BY <1>7, JobSteps DEF Inv, Known, workerVars
<1> QED
  BY <1>8, <1>9 DEF Inv

\* The end of the process empties its memory and no more.
LEMMA RestartInv == ASSUME Inv, Restart PROVE Inv'
<1>1. /\ stores' = <<>> /\ perResource' = <<>> /\ watch' = <<>> /\ queue' = <<>>
      /\ job' = [j \in Jobs |-> Idle]
  BY DEF Restart
<1>2. /\ DOMAIN stores' = {} /\ stores' \in [DOMAIN stores' -> [gen : Gen, total : Totals]]
      /\ DOMAIN perResource' = {} /\ perResource' \in [DOMAIN perResource' -> Totals]
  BY <1>1
<1>3. job' \in [Jobs -> JobStates] /\ \A j \in Jobs : job'[j].pc = "free"
  BY <1>1, IdleType DEF Idle
<1>4. /\ pc' \in [Workers -> Labels] /\ \A w \in Workers : pc'[w] = "idle"
      /\ item' \in [Workers -> Events \cup {None}]
      /\ obj' \in [Workers -> Monitor \cup {None}]
  BY DEF Restart, Labels
<1>5. restarts' \in 0 .. MaxRestarts /\ globalTotal' \in Int
  BY Bounds DEF Restart, Inv, Typed
<1>6. /\ watch' \in Seq([type : {"added", "modified", "deleted"}, uid : UID, gen : Gen])
      /\ queue' \in Seq(Events)
  BY <1>1
<1>7. /\ synced' \in BOOLEAN /\ monitored' \in BOOLEAN /\ built' = None /\ skipped' = None
      /\ lister' = None /\ dirty' = {} /\ processing' = {} /\ current' = {}
      /\ UNCHANGED <<api, created, errors, relists>>
  BY DEF Restart
<1>8. Typed'
  BY <1>2, <1>3, <1>4, <1>5, <1>6, <1>7 DEF Inv, Typed
<1>9. Known'
  BY <1>3, <1>4 DEF Known
<1> QED
  BY <1>8, <1>9 DEF Inv

\* Every step keeps the types.
LEMMA NextInv == Inv /\ [Next]_vars => Inv'
<1> SUFFICES ASSUME Inv, [Next]_vars PROVE Inv'
  OBVIOUS
<1>1. CASE Users
  BY <1>1, UsersInv
<1>2. CASE Deliver \/ FirstList \/ Relist
  BY <1>2, InformerInv
<1>3. ASSUME NEW w \in Workers, Work(w) PROVE Inv'
  BY <1>3, CallInv, ItemInv, ProcessInv DEF Work
<1>4. ASSUME NEW u \in UID, Fill(u) PROVE Inv'
  BY <1>4, FillInv
<1>5. ASSUME NEW j \in Jobs, Report(j) PROVE Inv'
  BY <1>5, ReportInv
<1>6. CASE Restart
  BY <1>6, RestartInv
<1>7. CASE UNCHANGED vars
  BY <1>7 DEF Inv, Typed, Known, vars, apiVars, memory, informerVars, queueVars, workerVars,
     globalVars, history, bounds
<1> QED
  BY <1>1, <1>2, <1>3, <1>4, <1>5, <1>6, <1>7 DEF Next

----------------------------------------------------------------------------
(* The global total.                                                         *)

\* What keeps the total from getting negative: it is the sum of the reports.
TotalIsSum == globalTotal = SumOf(perResource, MaxTotal)


\* TypeOK but for the total, which has the sign of the sum it is.
LEMMA InvTypeOK == Inv /\ TotalIsSum => TypeOK
<1> SUFFICES ASSUME Inv, TotalIsSum PROVE TypeOK
  OBVIOUS
<1>1. DOMAIN perResource \subseteq UID /\ perResource \in [DOMAIN perResource -> Totals]
  BY DEF Inv, Typed
<1>2. IsFiniteSet(DOMAIN perResource) /\ perResource \in [DOMAIN perResource -> 0 .. MaxTotal]
  BY <1>1, Bounds, FS_Subset
<1>3. SumOf(perResource, MaxTotal) \in Nat
  BY <1>2, Bounds, SumIsNat
<1>4. globalTotal \in Nat
  BY <1>3 DEF TotalIsSum
<1> QED
  BY <1>4 DEF Inv, Typed, TypeOK

\* Only three steps touch the reports, and each corrects the total by what it
\* changes.
LEMMA NextSum == Inv /\ TotalIsSum /\ [Next]_vars => TotalIsSum'
<1> SUFFICES ASSUME Inv, TotalIsSum, [Next]_vars PROVE TotalIsSum'
  OBVIOUS
<1>1. /\ IsFiniteSet(DOMAIN perResource)
      /\ perResource \in [DOMAIN perResource -> 0 .. MaxTotal]
      /\ MaxTotal \in Nat
  <2>1. DOMAIN perResource \subseteq UID /\ perResource \in [DOMAIN perResource -> Totals]
    BY DEF Inv, Typed
  <2> QED
    BY <2>1, Bounds, FS_Subset
<1>2. ASSUME NEW w \in Workers, ProcessDelete(w) PROVE TotalIsSum'
  <2> DEFINE u == obj[w].uid
  <2>1. SumOf(Without(perResource, u), MaxTotal) = SumOf(perResource, MaxTotal) - CountOf(perResource, u)
    BY <1>1, SumWithout
  <2> QED
    BY <1>2, <2>1 DEF ProcessDelete, OldTotal, TotalIsSum
<1>3. ASSUME NEW j \in Jobs, UpdateResource(j) PROVE TotalIsSum'
  <2> DEFINE u == job[j].uid
             n == job[j].total
  <2>1. n \in 0 .. MaxTotal
    BY Bounds DEF Inv, Typed, JobStates
  <2>2. SumOf(Put(perResource, u, n), MaxTotal)
          = SumOf(perResource, MaxTotal) - CountOf(perResource, u) + n
    <3> HIDE DEF u, n
    <3> QED
      BY <1>1, <2>1, SumPut
  <2> QED
    BY <1>3, <2>2 DEF UpdateResource, OldTotal, TotalIsSum
<1>4. CASE Restart
  <2>1. perResource' = <<>> /\ globalTotal' = 0
    BY <1>4 DEF Restart
  <2>2. DOMAIN perResource' = {} /\ perResource' \in [DOMAIN perResource' -> 0 .. MaxTotal]
    BY <2>1
  <2>3. SumOf(perResource', MaxTotal) = 0
    BY <1>1, <2>2, SumIsNat, FS_EmptySet
  <2> QED
    BY <2>1, <2>3 DEF TotalIsSum
<1>5. CASE UNCHANGED globalVars
  BY <1>5 DEF globalVars, TotalIsSum
<1>6. \/ UNCHANGED globalVars
      \/ \E w \in Workers : ProcessDelete(w)
      \/ \E j \in Jobs : UpdateResource(j)
      \/ Restart
  <2>1. CASE Users \/ Deliver \/ FirstList \/ Relist
    BY <2>1 DEF Users, Create, Edit, Delete, Deliver, FirstList, Relist, Listed, memory
  <2>2. ASSUME NEW w \in Workers, Work(w) PROVE UNCHANGED globalVars \/ ProcessDelete(w)
    BY <2>2 DEF Work, Get, SyncHandler, Call, ApiGet, PutMetadata, PutReceived, PutDone, ApiFail,
       Process, DropStores, Build, Finish
  <2>3. ASSUME NEW u \in UID, Fill(u) PROVE UNCHANGED globalVars
    BY <2>3 DEF Fill
  <2>4. ASSUME NEW j \in Jobs, Report(j) PROVE UNCHANGED globalVars \/ UpdateResource(j)
    BY <2>4 DEF Report, Aggregate, GetStatus, PutStatus, StatusFail
  <2>5. CASE UNCHANGED vars
    BY <2>5 DEF vars, memory
  <2> QED
    BY <2>1, <2>2, <2>3, <2>4, <2>5 DEF Next
<1> QED
  BY <1>2, <1>3, <1>4, <1>5, <1>6

\* The total starts as the sum of no reports.
LEMMA InitSum == Init => TotalIsSum
<1> SUFFICES ASSUME Init PROVE TotalIsSum
  OBVIOUS
<1>1. perResource = <<>> /\ globalTotal = 0
  BY DEF Init
<1>2. DOMAIN perResource = {} /\ perResource \in [DOMAIN perResource -> 0 .. MaxTotal]
  BY <1>1
<1>3. SumOf(perResource, MaxTotal) = 0
  BY <1>2, Bounds, SumIsNat, FS_EmptySet
<1> QED
  BY <1>1, <1>3 DEF TotalIsSum

\* TypeOK holds in every reachable state.
THEOREM TypeCorrect == Spec => []TypeOK
<1>1. Init => Inv /\ TotalIsSum
  BY InitInv, InitSum
<1>2. Inv /\ TotalIsSum /\ [Next]_vars => Inv' /\ TotalIsSum'
  BY NextInv, NextSum
<1> QED
  BY <1>1, <1>2, InvTypeOK, PTL DEF Spec

----------------------------------------------------------------------------
(* The workqueue.                                                            *)

\* Every item of the sequence stands in it once, and E are its items.
Holds(q, E) ==
    /\ \A m, n \in DOMAIN q : q[m] = q[n] => m = n
    /\ {q[n] : n \in DOMAIN q} = E

\* An item that is not there yet may be appended.
LEMMA HoldsAppend ==
    ASSUME NEW S, NEW q \in Seq(S), NEW E, Holds(q, E), NEW e \in S, e \notin E
    PROVE  Holds(Append(q, e), E \cup {e})
<1>1. Len(q) \in Nat /\ DOMAIN q = 1 .. Len(q)
  OBVIOUS
<1>2. DOMAIN Append(q, e) = 1 .. (Len(q) + 1)
      /\ Append(q, e)[Len(q) + 1] = e
      /\ \A n \in DOMAIN q : Append(q, e)[n] = q[n]
  BY <1>1
<1>3. DOMAIN Append(q, e) = DOMAIN q \cup {Len(q) + 1} /\ Len(q) + 1 \notin DOMAIN q
  BY <1>1, <1>2
<1>4. \A n \in DOMAIN q : q[n] \in E
  BY DEF Holds
<1>5. ASSUME NEW m \in DOMAIN Append(q, e), NEW n \in DOMAIN Append(q, e),
             Append(q, e)[m] = Append(q, e)[n]
      PROVE  m = n
  BY <1>2, <1>3, <1>4, <1>5 DEF Holds
<1>6. {Append(q, e)[n] : n \in DOMAIN Append(q, e)} = {q[n] : n \in DOMAIN q} \cup {e}
  BY <1>2, <1>3
<1> QED
  BY <1>5, <1>6 DEF Holds

\* The head leaves the rest as it was.
LEMMA HoldsTail ==
    ASSUME NEW S, NEW q \in Seq(S), q # <<>>, NEW E, Holds(q, E)
    PROVE  Head(q) \in E /\ Holds(Tail(q), E \ {Head(q)})
<1>1. Len(q) \in Nat \ {0} /\ DOMAIN q = 1 .. Len(q) /\ Head(q) = q[1] /\ 1 \in DOMAIN q
  OBVIOUS
<1>2. DOMAIN Tail(q) = 1 .. (Len(q) - 1)
      /\ \A n \in DOMAIN Tail(q) : n + 1 \in DOMAIN q /\ n + 1 # 1 /\ Tail(q)[n] = q[n + 1]
  BY <1>1
<1>3. \A m, n \in DOMAIN Tail(q) : Tail(q)[m] = Tail(q)[n] => m = n
  <2> SUFFICES ASSUME NEW m \in DOMAIN Tail(q), NEW n \in DOMAIN Tail(q), Tail(q)[m] = Tail(q)[n]
               PROVE  m = n
    OBVIOUS
  <2>1. m + 1 = n + 1
    BY <1>2 DEF Holds
  <2> QED
    BY <1>1, <1>2, <2>1
<1>4. {Tail(q)[n] : n \in DOMAIN Tail(q)} \subseteq E \ {Head(q)}
  <2> SUFFICES ASSUME NEW n \in DOMAIN Tail(q) PROVE Tail(q)[n] \in E \ {Head(q)}
    OBVIOUS
  <2>1. q[n + 1] \in E /\ q[n + 1] # q[1]
    BY <1>1, <1>2 DEF Holds
  <2> QED
    BY <1>1, <1>2, <2>1
<1>5. E \ {Head(q)} \subseteq {Tail(q)[n] : n \in DOMAIN Tail(q)}
  <2> SUFFICES ASSUME NEW e \in E, e # Head(q) PROVE \E n \in DOMAIN Tail(q) : Tail(q)[n] = e
    OBVIOUS
  <2>1. PICK n \in DOMAIN q : q[n] = e
    BY DEF Holds
  <2>2. n \in 2 .. Len(q)
    BY <1>1, <2>1
  <2>3. n - 1 \in DOMAIN Tail(q) /\ (n - 1) + 1 = n
    BY <1>1, <1>2, <2>2
  <2> QED
    BY <1>2, <2>1, <2>3
<1>6. Head(q) \in E
  BY <1>1 DEF Holds
<1> QED
  BY <1>3, <1>4, <1>5, <1>6 DEF Holds

\* The workers hold distinct items, those of the processing set, and the idle
\* ones none.
Held(P, at, has) ==
    /\ P = {has[w] : w \in {v \in Workers : at[v] # "idle"}}
    /\ \A v, w \in Workers :
          at[v] # "idle" /\ at[w] # "idle" /\ has[v] = has[w] => v = w
    /\ \A w \in Workers : at[w] = "idle" <=> has[w] = None

\* The two halves of QueueConsistent.
LEMMA Halves == QueueConsistent <=> Holds(queue, dirty \ processing) /\ Held(processing, pc, item)
  BY DEF QueueConsistent, Holds, Held

\* Adding an item keeps the queue consistent.
LEMMA EnqueueConsistent ==
    ASSUME Inv, QueueConsistent, NEW e \in Events, Enqueue(e), UNCHANGED <<pc, item>>
    PROVE  QueueConsistent'
<1>1. queue \in Seq(Events) /\ Holds(queue, dirty \ processing) /\ Held(processing, pc, item)
  BY Halves DEF Inv, Typed
<1>2. Held(processing, pc, item)'
  BY <1>1 DEF Enqueue, Held
<1>3. Holds(queue', dirty' \ processing')
  <2>1. CASE e \in dirty \cup processing
    <3>1. dirty' \ processing' = dirty \ processing /\ queue' = queue
      BY <2>1 DEF Enqueue
    <3> QED
      BY <1>1, <3>1
  <2>2. CASE e \notin dirty \cup processing
    <3>1. /\ dirty' \ processing' = (dirty \ processing) \cup {e} /\ queue' = Append(queue, e)
          /\ e \notin dirty \ processing
      BY <2>2 DEF Enqueue
    <3>2. Holds(Append(queue, e), (dirty \ processing) \cup {e})
      <4> HIDE DEF Events
      <4> QED
        BY <1>1, <3>1, HoldsAppend
    <3> QED
      BY <3>1, <3>2
  <2> QED
    BY <2>1, <2>2
<1> QED
  BY <1>2, <1>3 DEF QueueConsistent, Holds, Held

\* A worker that takes the head becomes its only holder.
LEMMA GetConsistent ==
    ASSUME Inv, QueueConsistent, NEW w \in Workers, Get(w)
    PROVE  /\ QueueConsistent'
           /\ item[w] = None /\ Head(queue) \in dirty
           /\ \A v \in Workers : item[v] # Head(queue)
<1>1. queue \in Seq(Events) /\ Holds(queue, dirty \ processing) /\ Held(processing, pc, item)
  BY Halves DEF Inv, Typed
<1>2. queue # <<>> /\ pc[w] = "idle"
  BY DEF Get, QueueGet
<1> DEFINE e == Head(queue)
<1>3. e \in dirty \ processing /\ Holds(Tail(queue), (dirty \ processing) \ {e})
  BY <1>1, <1>2, HoldsTail
<1>4. e \in Events
  <2> HIDE DEF Events
  <2> QED
    BY <1>1, <1>2
<1>5. e # None
  BY <1>4, NoneAssumption
<1>6. \A v \in Workers : item[v] # e
  <2> SUFFICES ASSUME NEW v \in Workers PROVE item[v] # e
    OBVIOUS
  <2> HIDE DEF e
  <2> QED
    BY <1>1, <1>3, <1>5 DEF Held
<1>7. /\ queue' = Tail(queue) /\ dirty' = dirty \ {e} /\ processing' = processing \cup {e}
      /\ item' = [item EXCEPT ![w] = e] /\ pc' = [pc EXCEPT ![w] = "sync"]
  BY DEF Get, QueueGet, Goto
<1>8. item \in [Workers -> Events \cup {None}] /\ pc \in [Workers -> Labels]
  BY DEF Inv, Typed
<1> HIDE DEF e
<1>9. Holds(queue', dirty' \ processing')
  <2>1. dirty' \ processing' = (dirty \ processing) \ {e}
    BY <1>7
  <2> QED
    BY <1>3, <1>7, <2>1
<1>10. Held(processing', pc', item')
  <2>1. \A v \in Workers : /\ item'[v] = IF v = w THEN e ELSE item[v]
                           /\ pc'[v] = IF v = w THEN "sync" ELSE pc[v]
    BY <1>7, <1>8
  <2>2. processing' = {item'[x] : x \in {v \in Workers : pc'[v] # "idle"}}
    <3>1. \A x \in processing' : \E v \in Workers : pc'[v] # "idle" /\ item'[v] = x
      BY <1>1, <1>2, <1>7, <2>1 DEF Held
    <3>2. \A v \in Workers : pc'[v] # "idle" => item'[v] \in processing'
      BY <1>1, <1>2, <1>7, <2>1 DEF Held
    <3> QED
      BY <3>1, <3>2
  <2>3. \A u, v \in Workers : pc'[u] # "idle" /\ pc'[v] # "idle" /\ item'[u] = item'[v] => u = v
    BY <1>1, <1>6, <2>1 DEF Held
  <2>4. \A v \in Workers : pc'[v] = "idle" <=> item'[v] = None
    BY <1>1, <1>5, <2>1 DEF Held
  <2> QED
    BY <2>2, <2>3, <2>4 DEF Held
<1>11. QueueConsistent'
  BY <1>9, <1>10 DEF QueueConsistent, Holds, Held
<1> QED
  BY <1>1, <1>2, <1>3, <1>6, <1>11 DEF Held, e

\* A worker that is done gives its item back, to the queue if it was added
\* again meanwhile.
LEMMA FinishConsistent ==
    ASSUME Inv, QueueConsistent, NEW w \in Workers, Finish(w)
    PROVE  QueueConsistent'
<1>1. queue \in Seq(Events) /\ Holds(queue, dirty \ processing) /\ Held(processing, pc, item)
  BY Halves DEF Inv, Typed
<1> DEFINE e == item[w]
<1>2. pc[w] = "finish" /\ e \in processing /\ e \in Events
  BY <1>1 DEF Finish, Held, Inv, Typed
<1>3. /\ processing' = processing \ {e} /\ dirty' = dirty
      /\ queue' = IF e \in dirty THEN Append(queue, e) ELSE queue
      /\ item' = [item EXCEPT ![w] = None] /\ pc' = [pc EXCEPT ![w] = "idle"]
  BY DEF Finish, QueueDone, Goto
<1>4. item \in [Workers -> Events \cup {None}] /\ pc \in [Workers -> Labels]
  BY DEF Inv, Typed
<1>5. \A v \in Workers : /\ item'[v] = IF v = w THEN None ELSE item[v]
                         /\ pc'[v] = IF v = w THEN "idle" ELSE pc[v]
  BY <1>3, <1>4
<1>6. \A v \in Workers : v # w /\ pc[v] # "idle" => item[v] # e
  BY <1>1, <1>2 DEF Held
<1> HIDE DEF e
<1>7. Holds(queue', dirty' \ processing')
  <2>1. CASE e \in dirty
    <3>1. dirty' \ processing' = (dirty \ processing) \cup {e} /\ e \notin dirty \ processing
      BY <1>2, <1>3, <2>1
    <3>2. Holds(Append(queue, e), (dirty \ processing) \cup {e})
      <4> HIDE DEF Events
      <4> QED
        BY <1>1, <1>2, <3>1, HoldsAppend
    <3> QED
      BY <1>3, <2>1, <3>1, <3>2
  <2>2. CASE e \notin dirty
    <3>1. dirty' \ processing' = dirty \ processing
      BY <1>3, <2>2
    <3> QED
      BY <1>1, <1>3, <2>2, <3>1
  <2> QED
    BY <2>1, <2>2
<1>8. Held(processing', pc', item')
  <2>1. processing' = {item'[x] : x \in {v \in Workers : pc'[v] # "idle"}}
    <3>1. \A x \in processing' : \E v \in Workers : pc'[v] # "idle" /\ item'[v] = x
      BY <1>1, <1>3, <1>5 DEF Held, e
    <3>2. \A v \in Workers : pc'[v] # "idle" => item'[v] \in processing'
      BY <1>1, <1>3, <1>5, <1>6 DEF Held
    <3> QED
      BY <3>1, <3>2
  <2>2. \A u, v \in Workers : pc'[u] # "idle" /\ pc'[v] # "idle" /\ item'[u] = item'[v] => u = v
    BY <1>1, <1>5 DEF Held
  <2>3. \A v \in Workers : pc'[v] = "idle" <=> item'[v] = None
    BY <1>1, <1>5 DEF Held
  <2> QED
    BY <2>1, <2>2, <2>3 DEF Held
<1> QED
  BY <1>7, <1>8 DEF QueueConsistent, Holds, Held

\* A step that moves no item and neither starts nor ends a worker.
LEMMA OtherConsistent ==
    ASSUME QueueConsistent, UNCHANGED <<queueVars, item>>,
           \A w \in Workers : pc'[w] = "idle" <=> pc[w] = "idle"
    PROVE  QueueConsistent'
<1>1. Held(processing, pc, item) /\ Holds(queue, dirty \ processing)
  BY Halves
<1>2. Held(processing', pc', item')
  <2>1. {v \in Workers : pc'[v] # "idle"} = {v \in Workers : pc[v] # "idle"}
    OBVIOUS
  <2> QED
    BY <1>1, <2>1 DEF Held, queueVars
<1>3. Holds(queue', dirty' \ processing')
  BY <1>1 DEF queueVars
<1> QED
  BY <1>2, <1>3 DEF QueueConsistent, Holds, Held

\* What a step of the controller is to the queue.
LEMMA QueueSteps ==
    ASSUME Inv, [Next]_vars
    PROVE  \/ (\E e \in Events : Enqueue(e)) /\ UNCHANGED <<pc, item>>
           \/ \E w \in Workers : Get(w) \/ Finish(w)
           \/ /\ UNCHANGED <<queueVars, item>>
              /\ \A w \in Workers : pc'[w] = "idle" <=> pc[w] = "idle"
           \/ Restart
<1>1. CASE Users
  BY <1>1 DEF Users, Create, Edit, Delete, memory, workerVars
<1>2. CASE Deliver \/ FirstList \/ Relist
  <2>1. UNCHANGED <<pc, item>>
    BY <1>2 DEF Deliver, FirstList, Relist, Listed, workerVars
  <2> QED
    BY <1>2, <2>1, HandlerSteps
<1>3. ASSUME NEW w \in Workers, Work(w), ~Get(w), ~Finish(w)
      PROVE  /\ UNCHANGED <<queueVars, item>>
             /\ \A v \in Workers : pc'[v] = "idle" <=> pc[v] = "idle"
  <2>1. pc[w] # "idle"
    BY <1>3 DEF Work, SyncHandler, Call, ApiGet, CanGet, PutMetadata, PutReceived, PutDone,
       ApiFail, Process, DropStores, Build, ProcessDelete, GetCalls, PutCalls
  <2>2. \E l \in Labels \ {"idle"} : pc' = [pc EXCEPT ![w] = l]
    <3>1. CASE ApiGet(w)
      <4>1. pc[w] \in GetCalls
        BY <3>1 DEF ApiGet, CanGet
      <4>2. PutOf[pc[w]] \in Labels \ {"idle"}
        BY <4>1 DEF GetCalls, PutOf, Labels, PutCalls
      <4> QED
        BY <3>1, <4>2 DEF ApiGet, Goto
    <3>2. CASE SyncHandler(w) \/ ApiFail(w) \/ PutMetadata(w) \/ PutDone(w) \/ Process(w)
      BY <3>2 DEF SyncHandler, ApiFail, PutMetadata, PutDone, Process, DropStores, Build,
         ProcessDelete, Goto, Labels, GetCalls
    <3>3. CASE PutReceived(w)
      <4>1. pc' = [pc EXCEPT ![w] = "purge"] \/ pc' = [pc EXCEPT ![w] = "drop"]
        BY <3>3 DEF PutReceived, Goto
      <4> QED
        BY <4>1 DEF Labels
    <3> QED
      BY <1>3, <3>1, <3>2, <3>3 DEF Work, Call
  <2>3. pc \in [Workers -> Labels]
    BY DEF Inv, Typed
  <2>4. \A v \in Workers : pc'[v] = "idle" <=> pc[v] = "idle"
    BY <2>1, <2>2, <2>3
  <2>5. UNCHANGED <<queueVars, item>>
    BY <1>3 DEF Work, SyncHandler, Call, ApiGet, PutMetadata, PutReceived, PutDone,
       ApiFail, Process, DropStores, Build, ProcessDelete
  <2> QED
    BY <2>4, <2>5
<1>4. ASSUME NEW u \in UID, Fill(u) PROVE UNCHANGED <<queueVars, workerVars>>
  BY <1>4 DEF Fill
<1>5. ASSUME NEW j \in Jobs, Report(j) PROVE UNCHANGED <<queueVars, workerVars>>
  BY <1>5 DEF Report, Aggregate, UpdateResource, GetStatus, PutStatus, StatusFail
<1>6. CASE UNCHANGED vars
  BY <1>6 DEF vars, memory, workerVars
<1>7. ASSUME UNCHANGED <<queueVars, workerVars>>
      PROVE  /\ UNCHANGED <<queueVars, item>>
             /\ \A w \in Workers : pc'[w] = "idle" <=> pc[w] = "idle"
  BY <1>7 DEF workerVars
<1> QED
  BY <1>1, <1>2, <1>3, <1>4, <1>5, <1>6, <1>7 DEF Next

\* Every step keeps the queue consistent.
LEMMA NextConsistent == Inv /\ QueueConsistent /\ [Next]_vars => QueueConsistent'
<1> SUFFICES ASSUME Inv, QueueConsistent, [Next]_vars PROVE QueueConsistent'
  OBVIOUS
<1>1. CASE Restart
  BY <1>1 DEF Restart, QueueConsistent
<1> QED
  BY <1>1, QueueSteps, EnqueueConsistent, GetConsistent, FinishConsistent, OtherConsistent

\* The queue starts empty.
LEMMA InitConsistent == Init => QueueConsistent
  BY DEF Init, QueueConsistent

\* controller.go:358-393: an item waits once and only while no worker has it, and
\* no two workers have the same one, however many run.
THEOREM QueueAlwaysConsistent == Spec => []QueueConsistent
  BY InitInv, NextInv, InitConsistent, NextConsistent, PTL DEF Spec

\* A step of the controller is a step of the abstract queue, or none.
LEMMA QueueRefines == Inv /\ QueueConsistent /\ [Next]_vars => [Queue!Next]_<<dirty, item>>
<1> SUFFICES ASSUME Inv, QueueConsistent, [Next]_vars
             PROVE  Queue!Next \/ UNCHANGED <<dirty, item>>
  OBVIOUS
<1>1. ASSUME NEW e \in Events, Enqueue(e), UNCHANGED <<pc, item>> PROVE Queue!Next
  BY <1>1 DEF Enqueue, Queue!Next, Queue!Add
<1>2. ASSUME NEW w \in Workers, Get(w) PROVE Queue!Next
  <2>1. item[w] = None /\ Head(queue) \in dirty /\ \A v \in Workers : item[v] # Head(queue)
    BY <1>2, GetConsistent
  <2>2. item' = [item EXCEPT ![w] = Head(queue)] /\ dirty' = dirty \ {Head(queue)}
    BY <1>2 DEF Get, QueueGet
  <2> QED
    BY <2>1, <2>2 DEF Queue!Next, Queue!Take
<1>3. ASSUME NEW w \in Workers, Finish(w) PROVE Queue!Next
  BY <1>3 DEF Finish, QueueDone, Queue!Next, Queue!Done
<1>4. CASE Restart
  BY <1>4 DEF Restart, Queue!Next, Queue!Stop
<1>5. CASE UNCHANGED <<queueVars, item>>
  BY <1>5 DEF queueVars
<1> QED
  BY <1>1, <1>2, <1>3, <1>4, <1>5, QueueSteps

\* The controller's queue, its two sets and its workers implement WorkQueue, for
\* any number of workers and of ends of the process.
THEOREM QueueImplemented == Spec => ImplementsWorkQueue
<1>1. Init => Queue!Init
  BY DEF Init, Queue!Init
<1>2. Init => Inv /\ QueueConsistent
  BY InitInv, InitConsistent
<1>3. Inv /\ QueueConsistent /\ [Next]_vars => Inv' /\ QueueConsistent'
  BY NextInv, NextConsistent
<1>4. Inv /\ QueueConsistent /\ [Next]_vars => [Queue!Next]_<<dirty, item>>
  BY QueueRefines
<1> QED
  BY <1>1, <1>2, <1>3, <1>4, PTL DEF Spec, ImplementsWorkQueue, Queue!Spec

----------------------------------------------------------------------------
(* Versions of the monitor.                                                  *)

\* Versions are ordered like the writes that made them.
LEMMA VersionsOrdered ==
    ASSUME NEW a \in Monitor, NEW b \in Monitor, NEW c \in Monitor
    PROVE  /\ NotOlder(a, a) /\ (NotOlder(a, b) \/ NotOlder(b, a))
           /\ NotOlder(a, b) /\ NotOlder(b, c) => NotOlder(a, c)
           /\ NotOlder(a, b) /\ NotOlder(b, a) => a = b
<1>1. a # None /\ b # None /\ c # None
  BY NoneAssumption
<1>2. /\ a.uid \in Int /\ b.uid \in Int /\ c.uid \in Int
      /\ a.gen \in Int /\ b.gen \in Int /\ c.gen \in Int
      /\ a = [uid |-> a.uid, gen |-> a.gen] /\ b = [uid |-> b.uid, gen |-> b.gen]
  BY Bounds DEF Monitor, UID, Gen
<1> QED
  BY <1>1, <1>2 DEF NotOlder

\* The newest of two is one of them and as new as both.
LEMMA NewestOfTwo ==
    ASSUME NEW a \in Monitor, NEW b \in Monitor \cup {None}
    PROVE  /\ Newest(a, b) \in Monitor /\ Newest(a, b) \in {a, b}
           /\ NotOlder(Newest(a, b), a) /\ (b # None => NotOlder(Newest(a, b), b))
<1>1. CASE b = None
  BY <1>1, VersionsOrdered DEF Newest, NotOlder
<1>2. CASE b \in Monitor
  BY <1>2, VersionsOrdered DEF Newest
<1> QED
  BY <1>1, <1>2

\* What is written to the monitor from now on is no older than v.
ReachedBy(m, last, v) == v # None => v.uid <= last /\ (m # None => NotOlder(Version(m), v))

\* No step takes the monitor in the API server back to an older version.
Forward ==
    /\ created' \in Nat
    /\ \/ UNCHANGED <<api, created>>
       \/ api' = None /\ created' = created
       \/ api # None /\ api' # None /\ created' = created /\ NotOlder(Version(api'), Version(api))
       \/ api = None /\ api' # None /\ created' = created + 1 /\ api'.uid = created'

\* What the monitor has reached stays reached.
LEMMA ReachedStays ==
    ASSUME Inv, Inv', Forward, NEW v \in Monitor \cup {None}, ReachedBy(api, created, v)
    PROVE  ReachedBy(api', created', v)
<1> SUFFICES ASSUME v # None
             PROVE  v.uid <= created' /\ (api' # None => NotOlder(Version(api'), v))
  BY DEF ReachedBy
<1>1. v \in Monitor /\ v.uid \in Int /\ created \in Int
  BY Bounds DEF Monitor, UID, Inv, Typed
<1>2. v.uid <= created /\ (api # None => NotOlder(Version(api), v))
  BY DEF ReachedBy
<1>3. CASE UNCHANGED <<api, created>>
  BY <1>2, <1>3
<1>4. CASE api' = None /\ created' = created
  BY <1>2, <1>4
<1>5. CASE api # None /\ api' # None /\ created' = created /\ NotOlder(Version(api'), Version(api))
  <2>1. Version(api) \in Monitor /\ Version(api') \in Monitor
    BY <1>5 DEF Version, Inv, Typed, Objects, Monitor
  <2> QED
    BY <1>1, <1>2, <1>5, <2>1, VersionsOrdered
<1>6. CASE api = None /\ api' # None /\ created' = created + 1 /\ api'.uid = created'
  BY <1>1, <1>2, <1>6 DEF NotOlder, Version
<1> QED
  BY <1>3, <1>4, <1>5, <1>6 DEF Forward

----------------------------------------------------------------------------
(* The configuration on its way from the API server to the informer.         *)

Sent == [type : {"added", "modified", "deleted"}, uid : UID, gen : Gen]

\* The informer has no copy until it has listed.
NotListed == ~synced => lister = None

\* The last event the informer has still to see, or its copy, is current.
LatestTold ==
    synced => IF watch = <<>>
              THEN lister = IF api = None THEN None ELSE Version(api)
              ELSE IF api = None THEN watch[Len(watch)].type = "deleted"
              ELSE /\ watch[Len(watch)].type # "deleted"
                   /\ Version(watch[Len(watch)]) = Version(api)

\* One monitor takes the place of another only after the other's deletion.
Chained ==
    synced => \A n \in DOMAIN watch :
        \/ watch[n].type = "deleted"
        \/ IF n = 1 THEN lister = None \/ lister.uid = watch[1].uid
                    ELSE watch[n - 1].type = "deleted" \/ watch[n - 1].uid = watch[n].uid

\* No event and no copy is ahead of the API server.
InformerReached ==
    /\ api # None => api.uid = created
    /\ \A n \in DOMAIN watch : ReachedBy(api, created, Version(watch[n]))
    /\ ReachedBy(api, created, lister)

Told == NotListed /\ LatestTold /\ Chained /\ InformerReached

\* A write of the monitor and the event that tells of it.
Writes ==
    /\ UNCHANGED <<synced, lister>>
    /\ \/ /\ api = None /\ api' # None /\ created' = created + 1 /\ api'.uid = created'
          /\ Notify("added")
       \/ /\ api # None /\ api' # None /\ created' = created /\ api'.uid = api.uid
          /\ NotOlder(Version(api'), Version(api))
          /\ Notify("modified")
       \/ /\ api # None /\ api' = None /\ created' = created
          /\ watch' = Append(watch, [type |-> "deleted", uid |-> api.uid, gen |-> api.gen])

\* The events on their way are records of versions.
LEMMA EventTypes ==
    ASSUME Inv
    PROVE  /\ watch \in Seq(Sent)
           /\ \A n \in DOMAIN watch : watch[n] \in Sent /\ Version(watch[n]) \in Monitor
<1>1. watch \in Seq(Sent)
  BY DEF Inv, Typed, Sent
<1>2. \A n \in DOMAIN watch : watch[n] \in Sent
  BY <1>1
<1>3. \A e \in Sent : Version(e) \in Monitor
  BY DEF Sent, Version, Monitor
<1> QED
  BY <1>1, <1>2, <1>3

\* What is in a sequence with one more at its end.
LEMMA Appended ==
    ASSUME NEW S, NEW q \in Seq(S), NEW e
    PROVE  /\ Len(q) \in Nat /\ DOMAIN q = 1 .. Len(q) /\ (q = <<>> <=> Len(q) = 0)
           /\ Append(q, e) # <<>> /\ Len(Append(q, e)) = Len(q) + 1
           /\ DOMAIN Append(q, e) = 1 .. (Len(q) + 1)
           /\ Append(q, e)[Len(q) + 1] = e
           /\ \A n \in DOMAIN q : Append(q, e)[n] = q[n]
  OBVIOUS

\* What is in a sequence without its head.
LEMMA Shortened ==
    ASSUME NEW S, NEW q \in Seq(S), q # <<>>
    PROVE  /\ 1 \in DOMAIN q /\ Head(q) = q[1] /\ DOMAIN Tail(q) \subseteq Nat \ {0}
           /\ \A n \in DOMAIN Tail(q) : n + 1 \in DOMAIN q /\ Tail(q)[n] = q[n + 1]
           /\ IF Tail(q) = <<>> THEN Head(q) = q[Len(q)]
                                ELSE Tail(q)[Len(Tail(q))] = q[Len(q)]
<1>1. Len(q) \in Nat \ {0} /\ DOMAIN q = 1 .. Len(q) /\ Head(q) = q[1]
      /\ Len(Tail(q)) = Len(q) - 1 /\ DOMAIN Tail(q) = 1 .. (Len(q) - 1)
      /\ \A n \in DOMAIN Tail(q) : Tail(q)[n] = q[n + 1]
  OBVIOUS
<1>2. Tail(q) = <<>> => Len(q) = 1
  <2>1. Len(<<>>) = 0
    OBVIOUS
  <2>2. Tail(q) = <<>> => Len(Tail(q)) = 0
    BY <2>1, Zenon
  <2>3. \A k \in Nat : k - 1 = 0 => k = 1
    OBVIOUS
  <2>4. Len(q) \in Nat /\ Len(Tail(q)) = Len(q) - 1
    BY <1>1
  <2> QED
    BY <2>2, <2>3, <2>4, Zenon
<1>3. Tail(q) # <<>> => Len(q) # 1
  BY <1>1
<1> QED
  BY <1>1, <1>2, <1>3

\* A write moves forward and is told last.
LEMMA WritesTold ==
    ASSUME Inv, Inv', Told, Writes
    PROVE  Told' /\ Forward
<1>1. Forward
  <2>1. created' \in Nat
    BY Bounds DEF Inv, Typed
  <2> QED
    BY <2>1 DEF Forward, Writes
<1> PICK type \in {"added", "modified", "deleted"}, v \in Monitor :
      /\ watch' = Append(watch, [type |-> type, uid |-> v.uid, gen |-> v.gen])
      /\ api' = None <=> type = "deleted"
      /\ api' # None => v = Version(api')
      /\ api # None => v.uid = api.uid
      /\ api = None => type = "added"
      /\ ReachedBy(api', created', v)
  <2>1. CASE api' = None
    <3>1. api # None /\ Version(api) \in Monitor
      BY <2>1, VersionTypes DEF Writes, Notify
    <3>2. watch' = Append(watch, [type |-> "deleted", uid |-> Version(api).uid,
                                  gen |-> Version(api).gen])
      BY <2>1, <3>1 DEF Writes, Version
    <3>3. Version(api).uid = api.uid /\ ReachedBy(api', created', Version(api))
      <4>1. api.uid = created /\ created' = created /\ created \in Int
        BY <2>1, <3>1, Bounds DEF Told, InformerReached, Writes, Inv, Typed
      <4> QED
        BY <2>1, <4>1 DEF Version, ReachedBy
    <3> QED
      BY <2>1, <3>1, <3>2, <3>3
  <2>2. CASE api' # None
    <3>1. Version(api') \in Monitor /\ Version(api').uid = api'.uid /\ Version(api').gen = api'.gen
      BY <2>2 DEF Version, Inv, Typed, Objects, Monitor
    <3>2. /\ api = None => Notify("added")
          /\ api # None => Notify("modified") /\ api'.uid = api.uid
      BY <2>2 DEF Writes
    <3>3. api'.uid <= created'
      <4>1. created' \in Int
        BY Bounds DEF Inv, Typed
      <4>2. api'.uid = created'
        <5>1. CASE api = None
          BY <2>2, <5>1 DEF Writes
        <5>2. CASE api # None
          <6>1. api'.uid = api.uid /\ created' = created
            BY <2>2, <5>2 DEF Writes
          <6>2. api.uid = created
            BY <5>2 DEF Told, InformerReached
          <6> QED
            BY <6>1, <6>2
        <5> QED
          BY <5>1, <5>2
      <4> QED
        BY <4>1, <4>2
    <3>4. ReachedBy(api', created', Version(api'))
      BY <3>1, <3>3, VersionsOrdered DEF ReachedBy
    <3> QED
      BY <2>2, <3>1, <3>2, <3>4 DEF Notify
  <2> QED
    BY <2>1, <2>2
<1> DEFINE e == [type |-> type, uid |-> v.uid, gen |-> v.gen]
<1>2. e.type = type /\ e.uid = v.uid /\ Version(e) = v /\ watch' = Append(watch, e)
  BY DEF Version, Monitor
<1> HIDE DEF e
<1>3. /\ Len(watch) \in Nat /\ DOMAIN watch = 1 .. Len(watch) /\ (watch = <<>> <=> Len(watch) = 0)
      /\ watch' # <<>> /\ Len(watch') = Len(watch) + 1
      /\ DOMAIN watch' = 1 .. (Len(watch) + 1)
      /\ watch'[Len(watch) + 1] = e
      /\ \A n \in DOMAIN watch : watch'[n] = watch[n]
  BY <1>2, EventTypes, Appended
<1>4. UNCHANGED <<synced, lister>>
  BY DEF Writes
<1>5. NotListed'
  BY <1>4 DEF Told, NotListed
<1>6. LatestTold'
  BY <1>2, <1>3 DEF LatestTold
<1>7. Chained'
  <2> SUFFICES ASSUME synced, NEW n \in DOMAIN watch', watch'[n].type # "deleted"
               PROVE  IF n = 1 THEN lister = None \/ lister.uid = watch'[1].uid
                      ELSE watch'[n - 1].type = "deleted" \/ watch'[n - 1].uid = watch'[n].uid
    BY <1>4 DEF Chained
  <2>1. CASE n \in DOMAIN watch
    <3>1. watch'[n] = watch[n] /\ (n # 1 => watch'[n - 1] = watch[n - 1])
      BY <1>3, <2>1
    <3> QED
      BY <2>1, <3>1 DEF Told, Chained
  <2>2. CASE n = Len(watch) + 1
    <3>1. watch'[n] = e
      BY <1>3, <2>2
    <3>2. CASE watch = <<>>
      <4>1. n = 1 /\ lister = IF api = None THEN None ELSE Version(api)
        BY <1>3, <2>2, <3>2 DEF Told, LatestTold
      <4> QED
        BY <1>2, <3>1, <4>1 DEF Version
    <3>3. CASE watch # <<>>
      <4>0. n # 1 /\ n - 1 = Len(watch) /\ Len(watch) \in DOMAIN watch
        BY <1>3, <2>2, <3>3
      <4>1. n # 1 /\ watch'[n - 1] = watch[Len(watch)]
        BY <1>3, <4>0
      <4>2. watch[Len(watch)].type = "deleted" \/ (api # None /\ watch[Len(watch)].uid = api.uid)
        BY <3>3 DEF Told, LatestTold, Version
      <4> QED
        BY <1>2, <3>1, <4>1, <4>2
    <3> QED
      BY <3>2, <3>3
  <2> QED
    BY <1>3, <2>1, <2>2
<1>8. InformerReached'
  <2>1. api' # None => api'.uid = created'
    BY DEF Writes, Told, InformerReached
  <2>2. ASSUME NEW n \in DOMAIN watch' PROVE ReachedBy(api', created', Version(watch'[n]))
    <3>1. CASE n \in DOMAIN watch
      BY <1>1, <1>3, <3>1, EventTypes, ReachedStays DEF Told, InformerReached
    <3>2. CASE n = Len(watch) + 1
      BY <1>2, <1>3, <3>2
    <3> QED
      BY <1>3, <3>1, <3>2
  <2>3. ReachedBy(api', created', lister')
    BY <1>1, <1>4, ReachedStays DEF Told, InformerReached, Inv, Typed
  <2> QED
    BY <2>1, <2>2, <2>3 DEF InformerReached
<1> QED
  BY <1>1, <1>5, <1>6, <1>7, <1>8 DEF Told

\* A version is known by its parts.
LEMMA SameVersion ==
    ASSUME NEW a \in Monitor, NEW b \in Monitor, a.uid = b.uid, a.gen = b.gen
    PROVE  a = b
  BY DEF Monitor

\* The informer takes an event, or a list, and is told the rest later.
LEMMA InformerTold ==
    ASSUME Inv, Told, Deliver \/ FirstList \/ Relist
    PROVE  Told' /\ UNCHANGED <<api, created>>
<1>1. UNCHANGED <<api, created>> /\ synced'
  BY DEF Deliver, FirstList, Relist, Listed
<1>2. NotListed'
  BY <1>1 DEF NotListed
<1>3. CASE Deliver
  <2>1. synced /\ watch # <<>> /\ watch' = Tail(watch)
    BY <1>3 DEF Deliver
  <2>2. /\ 1 \in DOMAIN watch /\ Head(watch) = watch[1] /\ DOMAIN watch' \subseteq Nat \ {0}
        /\ \A n \in DOMAIN watch' : n + 1 \in DOMAIN watch /\ watch'[n] = watch[n + 1]
        /\ IF watch' = <<>> THEN watch[1] = watch[Len(watch)]
                            ELSE watch'[Len(watch')] = watch[Len(watch)]
    BY <2>1, EventTypes, Shortened
  <2>3. lister' = IF watch[1].type = "deleted" THEN None ELSE Version(watch[1])
    BY <1>3, <2>2 DEF Deliver
  <2>4. LatestTold'
    BY <1>1, <2>1, <2>2, <2>3 DEF Told, LatestTold
  <2>5. Chained'
    <3> SUFFICES ASSUME NEW n \in DOMAIN watch', watch'[n].type # "deleted"
                 PROVE  IF n = 1 THEN lister' = None \/ lister'.uid = watch'[1].uid
                        ELSE watch'[n - 1].type = "deleted" \/ watch'[n - 1].uid = watch'[n].uid
      BY DEF Chained
    <3>1. /\ n \in Nat \ {0} /\ n + 1 \in DOMAIN watch /\ watch'[n] = watch[n + 1]
          /\ (n + 1) - 1 = n /\ n + 1 # 1
      BY <2>2
    <3>2. watch[n].type = "deleted" \/ watch[n].uid = watch[n + 1].uid
      BY <2>1, <3>1 DEF Told, Chained
    <3>3. CASE n = 1
      BY <2>3, <3>1, <3>2, <3>3 DEF Version
    <3>4. CASE n # 1
      <4>1. n - 1 \in DOMAIN watch' /\ (n - 1) + 1 = n
        <5>1. Len(watch') \in Nat /\ DOMAIN watch' = 1 .. Len(watch')
          <6>1. watch' \in Seq(Sent)
            BY <2>1, EventTypes
          <6> QED
            BY <6>1
        <5> QED
          BY <3>1, <3>4, <5>1
      <4>2. watch'[n - 1] = watch[n]
        BY <2>2, <4>1
      <4> QED
        BY <3>1, <3>2, <3>4, <4>2
    <3> QED
      BY <3>3, <3>4
  <2>6. InformerReached'
    <3>1. ReachedBy(api, created, None)
      BY DEF ReachedBy
    <3> QED
      BY <1>1, <2>2, <2>3, <3>1 DEF Told, InformerReached
  <2> QED
    BY <1>1, <1>2, <2>4, <2>5, <2>6 DEF Told
<1>4. CASE FirstList \/ Relist
  <2>1. watch' = <<>> /\ lister' = IF api = None THEN None ELSE Version(api)
    BY <1>4 DEF FirstList, Relist, Listed
  <2>2. LatestTold'
    BY <1>1, <2>1 DEF LatestTold
  <2>3. DOMAIN watch' = {}
    BY <2>1
  <2>4. ReachedBy(api, created, lister')
    <3>1. CASE api = None
      BY <2>1, <3>1 DEF ReachedBy
    <3>2. CASE api # None
      <4>1. Version(api) \in Monitor
        BY <3>2, VersionTypes
      <4>2. Version(api).uid = created
        BY <3>2 DEF Told, InformerReached, Version
      <4>3. created \in Int
        BY Bounds DEF Inv, Typed
      <4> QED
        BY <2>1, <3>2, <4>1, <4>2, <4>3, VersionsOrdered DEF ReachedBy
    <3> QED
      BY <3>1, <3>2
  <2> QED
    BY <1>1, <1>2, <2>2, <2>3, <2>4 DEF Told, Chained, InformerReached
<1> QED
  BY <1>1, <1>3, <1>4

\* The next generation of a monitor, its next status.
LEMMA Rewritten ==
    ASSUME Inv, api # None,
           \/ api.gen < MaxGen /\ api' = [api EXCEPT !.gen = @ + 1]
           \/ api' = [api EXCEPT !.labelled = TRUE]
           \/ \E n \in 0 .. MaxGen : api' = [api EXCEPT !.processed = n]
           \/ api' = api
    PROVE  api' # None /\ api'.uid = api.uid /\ NotOlder(Version(api'), Version(api))
<1>1. api \in Objects /\ api.gen \in Int /\ api.uid \in Int
  <2>1. api \in Objects
    BY DEF Inv, Typed
  <2>2. api.gen \in Gen /\ api.uid \in UID
    BY <2>1 DEF Objects
  <2> QED
    BY <2>1, <2>2, Bounds DEF UID, Gen
<1>2. CASE api.gen < MaxGen /\ api' = [api EXCEPT !.gen = @ + 1]
  <2>1. api.gen + 1 \in Gen
    BY <1>1, <1>2, Bounds DEF Objects, Gen
  <2>2. api' \in Objects /\ api'.uid = api.uid /\ api'.gen = api.gen + 1
    BY <1>1, <1>2, <2>1 DEF Objects
  <2> QED
    BY <1>1, <2>2, NoneAssumption DEF NotOlder, Version
<1>3. CASE api' = [api EXCEPT !.labelled = TRUE]
  <2>1. api' \in Objects /\ api'.uid = api.uid /\ api'.gen = api.gen
    BY <1>1, <1>3 DEF Objects
  <2> QED
    BY <1>1, <2>1, NoneAssumption DEF NotOlder, Version
<1>4. CASE \E n \in 0 .. MaxGen : api' = [api EXCEPT !.processed = n]
  <2>1. api' \in Objects /\ api'.uid = api.uid /\ api'.gen = api.gen
    BY <1>1, <1>4 DEF Objects
  <2> QED
    BY <1>1, <2>1, NoneAssumption DEF NotOlder, Version
<1>5. CASE api' = api
  BY <1>1, <1>5 DEF NotOlder, Version
<1> QED
  BY <1>2, <1>3, <1>4, <1>5

\* What users write.
LEMMA UsersWrite == ASSUME Inv, Told, Users PROVE Writes /\ UNCHANGED memory
<1>1. UNCHANGED memory /\ UNCHANGED <<synced, lister>>
  BY DEF Users, Create, Edit, Delete, memory, informerVars
<1>2. CASE Create
  <2> DEFINE new == [uid |-> created + 1, gen |-> 1, labelled |-> FALSE, processed |-> 0]
  <2>1. api = None /\ api' = new /\ created' = created + 1 /\ Notify("added")
    BY <1>2 DEF Create, Write
  <2>2. new \in Objects /\ new.uid = created + 1
    <3>1. created + 1 \in UID
      BY <1>2, Bounds DEF Create, UID, Inv, Typed
    <3>2. 0 \in 0 .. MaxGen
      BY Bounds
    <3> QED
      BY <3>1, <3>2, Bounds DEF Objects
  <2> HIDE DEF new
  <2> QED
    BY <1>1, <2>1, <2>2, NoneAssumption DEF Writes
<1>3. CASE Edit
  <2>1. api # None /\ created' = created /\ Notify("modified")
        /\ api.gen < MaxGen /\ api' = [api EXCEPT !.gen = @ + 1]
    BY <1>3 DEF Edit, Write
  <2> QED
    BY <1>1, <2>1, Rewritten DEF Writes
<1>4. CASE Delete
  BY <1>1, <1>4 DEF Writes, Delete, Write
<1> QED
  BY <1>1, <1>2, <1>3, <1>4 DEF Users

\* What the controller's clients write is the monitor's status and labels.
LEMMA ClientsWrite ==
    ASSUME Inv, \/ \E w \in Workers : Work(w)
                \/ \E j \in Jobs : Report(j)
    PROVE  /\ UNCHANGED <<synced, lister>>
           /\ Writes \/ UNCHANGED <<api, created, watch>>
           /\ api # None => api'.gen = api.gen /\ api'.uid = api.uid
<1>1. UNCHANGED <<synced, lister>>
  BY DEF Work, Get, SyncHandler, Call, ApiGet, PutMetadata, PutReceived, PutDone, ApiFail,
     Process, DropStores, Build, ProcessDelete, Finish, Report, Aggregate, UpdateResource,
     GetStatus, PutStatus, StatusFail, informerVars
<1>2. \/ UNCHANGED <<api, created, watch>>
      \/ /\ api # None /\ created' = created /\ Notify("modified")
         /\ \/ api' = [api EXCEPT !.labelled = TRUE]
            \/ \E n \in 0 .. MaxGen : api' = [api EXCEPT !.processed = n]
            \/ api' = api
  <2>1. ASSUME NEW w \in Workers, Work(w)
        PROVE  \/ UNCHANGED <<api, created, watch>>
               \/ PutMetadata(w) /\ ~api.labelled
               \/ PutReceived(w) \/ PutDone(w)
    BY <2>1 DEF Work, Get, SyncHandler, Call, ApiGet, PutMetadata, ApiFail, Process, DropStores,
       Build, ProcessDelete, Finish, apiVars
  <2>2. ASSUME NEW j \in Jobs, Report(j)
        PROVE  UNCHANGED <<api, created, watch>> \/ PutStatus(j)
    BY <2>2 DEF Report, Aggregate, UpdateResource, GetStatus, StatusFail, apiVars
  <2>3. ASSUME NEW w \in Workers, PutMetadata(w), ~api.labelled
        PROVE  /\ api # None /\ created' = created /\ Notify("modified")
               /\ api' = [api EXCEPT !.labelled = TRUE]
    BY <2>3 DEF PutMetadata, CanPut, Write
  <2>4. ASSUME NEW w \in Workers, PutReceived(w) \/ PutDone(w)
        PROVE  /\ api # None /\ created' = created /\ Notify("modified")
               /\ \E n \in 0 .. MaxGen : api' = [api EXCEPT !.processed = n]
    <3>1. api # None /\ created' = created /\ Notify("modified")
          /\ (api' = [api EXCEPT !.processed = 0] \/ api' = [api EXCEPT !.processed = api.gen])
      BY <2>4 DEF PutReceived, PutDone, CanPut, Write
    <3>2. 0 \in 0 .. MaxGen /\ api.gen \in 0 .. MaxGen
      BY <3>1, Bounds DEF Inv, Typed, Objects, Gen
    <3> QED
      BY <3>1, <3>2
  <2>5. ASSUME NEW j \in Jobs, PutStatus(j)
        PROVE  /\ api # None /\ created' = created /\ Notify("modified")
               /\ api' = api
    BY <2>5 DEF PutStatus, Write
  <2> QED
    BY <2>1, <2>2, <2>3, <2>4, <2>5
<1>3. api # None => api'.gen = api.gen /\ api'.uid = api.uid
  <2>1. api # None => api \in Objects
    BY DEF Inv, Typed
  <2> QED
    BY <1>2, <2>1 DEF Objects
<1> QED
  BY <1>1, <1>2, <1>3, Rewritten DEF Writes

\* What nobody was told is what nobody changed.
LEMMA TellsNothing ==
    ASSUME Inv, Told, UNCHANGED <<synced, lister, api, created, watch>>
    PROVE  Told' /\ Forward
<1>1. created' \in Nat
  BY Bounds DEF Inv, Typed
<1>2. Told'
  BY DEF Told, NotListed, LatestTold, Chained, InformerReached
<1> QED
  BY <1>1, <1>2 DEF Forward

\* The informer is told the last version of all, whatever happens.
LEMMA NextTold == ASSUME Inv, Inv', Told, [Next]_vars PROVE Told' /\ Forward
<1>1. created' \in Nat
  BY Bounds DEF Inv, Typed
<1>2. CASE Users
  <2>1. Writes
    BY <1>2, UsersWrite
  <2> QED
    BY <2>1, WritesTold
<1>3. CASE Deliver \/ FirstList \/ Relist
  BY <1>1, <1>3, InformerTold DEF Forward
<1>4. CASE (\E w \in Workers : Work(w)) \/ (\E j \in Jobs : Report(j))
  BY <1>4, ClientsWrite, WritesTold, TellsNothing
<1>5. CASE (\E u \in UID : Fill(u)) \/ UNCHANGED vars
  <2>1. UNCHANGED <<synced, lister, api, created, watch>>
    BY <1>5 DEF Fill, vars, apiVars, memory, informerVars
  <2> QED
    BY <2>1, TellsNothing
<1>6. CASE Restart
  <2>1. watch' = <<>> /\ ~synced' /\ lister' = None /\ UNCHANGED <<api, created>>
    BY <1>6 DEF Restart
  <2>2. DOMAIN watch' = {}
    BY <2>1
  <2>3. ReachedBy(api, created, None)
    BY DEF ReachedBy
  <2>4. Told'
    BY <2>1, <2>2, <2>3 DEF Told, NotListed, LatestTold, Chained, InformerReached
  <2> QED
    BY <1>1, <2>1, <2>4 DEF Forward
<1> QED
  BY <1>2, <1>3, <1>4, <1>5, <1>6 DEF Next

\* There is nothing to tell at first.
LEMMA InitTold == Init => Told
<1> SUFFICES ASSUME Init PROVE Told
  OBVIOUS
<1>1. watch = <<>> /\ ~synced /\ lister = None /\ api = None
  BY DEF Init
<1>2. DOMAIN watch = {}
  BY <1>1
<1> QED
  BY <1>1, <1>2 DEF Told, NotListed, LatestTold, Chained, InformerReached, ReachedBy

----------------------------------------------------------------------------
(* The configuration on its way from the informer to the map of stores.      *)

AddOrUpdate == {"addEvent", "updateEvent"}

\* Where the worker's event has still to become stores.
Ahead == {"getMetadata", "putMetadata", "getReceived", "putReceived", "drop", "build"}

\* A version at least as new as the informer's copy.
Covers(v) == v # None /\ NotOlder(v, lister)

\* A worker has an event that will bring stores of the informer's copy, or newer.
OnItsWay(w) ==
    /\ item[w] \in AddOrUpdate
    /\ pc[w] = "sync" \/ (pc[w] \in Ahead /\ Covers(obj[w]))

\* What the informer has a copy of waits, is on its way, was built or given up.
Headed ==
    synced /\ lister # None =>
        \/ dirty \cap AddOrUpdate # {}
        \/ \E w \in Workers : OnItsWay(w)
        \/ Covers(built) \/ Covers(skipped)

\* Nobody is ahead of the API server.
WorkersReached ==
    /\ \A w \in Workers : ReachedBy(api, created, obj[w])
    /\ ReachedBy(api, created, built) /\ ReachedBy(api, created, skipped)

\* The versions somebody has.
Heard == {None, lister, built, skipped} \cup {obj[w] : w \in Workers}
         \cup (IF api = None THEN {} ELSE {Version(api)})

\* Nobody invents a version.
LEMMA OnlyHeard ==
    ASSUME Inv, [Next]_vars
    PROVE  (\A v \in Workers : obj'[v] \in Heard) /\ built' \in Heard /\ skipped' \in Heard
<1>0. obj \in [Workers -> Monitor \cup {None}]
  BY DEF Inv, Typed
<1>1. CASE UNCHANGED <<obj, history>>
  BY <1>1 DEF Heard, history
<1>2. ASSUME NEW w \in Workers, NEW m \in Heard,
             obj' = [obj EXCEPT ![w] = m], UNCHANGED history
      PROVE  (\A v \in Workers : obj'[v] \in Heard) /\ built' \in Heard /\ skipped' \in Heard
  BY <1>0, <1>2 DEF Heard, history
<1>3. ASSUME NEW w \in Workers, Work(w)
      PROVE  \/ UNCHANGED <<obj, history>>
             \/ SyncHandler(w) \/ ApiFail(w) \/ PutReceived(w) \/ Build(w) \/ Finish(w)
  BY <1>3 DEF Work, Get, Call, ApiGet, PutMetadata, PutDone, Process, DropStores, ProcessDelete
<1>4. ASSUME NEW w \in Workers, SyncHandler(w)
      PROVE  (\A v \in Workers : obj'[v] \in Heard) /\ built' \in Heard /\ skipped' \in Heard
  BY <1>2, <1>4 DEF SyncHandler, Heard
<1>5. ASSUME NEW w \in Workers, ApiFail(w)
      PROVE  (\A v \in Workers : obj'[v] \in Heard) /\ built' \in Heard /\ skipped' \in Heard
  <2>1. obj' = obj /\ built' = built /\ skipped' \in {skipped, Newest(obj[w], skipped)}
    BY <1>5 DEF ApiFail
  <2>2. Newest(obj[w], skipped) \in {obj[w], skipped}
    BY DEF Newest
  <2> QED
    BY <2>1, <2>2 DEF Heard
<1>6. ASSUME NEW w \in Workers, PutReceived(w)
      PROVE  (\A v \in Workers : obj'[v] \in Heard) /\ built' \in Heard /\ skipped' \in Heard
  BY <1>2, <1>6 DEF PutReceived, CanPut, Heard
<1>7. ASSUME NEW w \in Workers, Build(w)
      PROVE  (\A v \in Workers : obj'[v] \in Heard) /\ built' \in Heard /\ skipped' \in Heard
  <2>1. obj' = obj /\ skipped' = skipped /\ built' = Newest(obj[w], built)
    BY <1>7 DEF Build
  <2> QED
    BY <2>1 DEF Heard, Newest
<1>8. ASSUME NEW w \in Workers, Finish(w)
      PROVE  (\A v \in Workers : obj'[v] \in Heard) /\ built' \in Heard /\ skipped' \in Heard
  BY <1>2, <1>8 DEF Finish, Heard
<1>9. CASE FirstList \/ Relist
  <2>1. obj' = obj /\ built' = built
        /\ skipped' \in {skipped} \cup (IF api = None THEN {} ELSE {Newest(Version(api), skipped)})
    <3>1. None \notin Objects
      BY NoneAssumption
    <3> QED
      BY <1>9 DEF FirstList, Relist, Listed, workerVars, Replaced
  <2> QED
    BY <2>1 DEF Heard, Newest
<1>10. CASE Restart
  BY <1>10 DEF Restart, Heard
<1>11. CASE Users \/ Deliver \/ (\E u \in UID : Fill(u)) \/ (\E j \in Jobs : Report(j)) \/ UNCHANGED vars
  BY <1>1, <1>11 DEF Users, Create, Edit, Delete, Deliver, Fill, Report, Aggregate, UpdateResource,
     GetStatus, PutStatus, StatusFail, vars, memory, workerVars
<1> QED
  BY <1>1, <1>3, <1>4, <1>5, <1>6, <1>7, <1>8, <1>9, <1>10, <1>11 DEF Next

\* So nobody gets ahead of the API server.
LEMMA NextReached ==
    ASSUME Inv, Inv', Told, Forward, WorkersReached, [Next]_vars
    PROVE  WorkersReached'
<1>1. ASSUME NEW v \in Heard PROVE v \in Monitor \cup {None} /\ ReachedBy(api, created, v)
  <2>1. CASE v = None
    BY <2>1 DEF ReachedBy
  <2>2. CASE v \in {lister, built, skipped} \cup {obj[w] : w \in Workers}
    <3>1. /\ lister \in Monitor \cup {None} /\ built \in Monitor \cup {None}
          /\ skipped \in Monitor \cup {None} /\ \A w \in Workers : obj[w] \in Monitor \cup {None}
      BY DEF Inv, Typed
    <3> QED
      BY <2>2, <3>1 DEF WorkersReached, Told, InformerReached
  <2>3. CASE api # None /\ v = Version(api)
    <3>1. v \in Monitor /\ v.uid = created
      BY <2>3, VersionTypes DEF Told, InformerReached, Version
    <3>2. created \in Int
      BY Bounds DEF Inv, Typed
    <3> QED
      BY <2>3, <3>1, <3>2, VersionsOrdered DEF ReachedBy
  <2> QED
    BY <2>1, <2>2, <2>3 DEF Heard
<1>2. \A v \in Heard : ReachedBy(api', created', v)
  BY <1>1, ReachedStays
<1> QED
  BY <1>2, OnlyHeard DEF WorkersReached

\* A version as new as a version that is as new as the copy is as new as it.
LEMMA CoversMore ==
    ASSUME Inv, lister # None, NEW a \in Monitor, NEW b \in Monitor,
           NotOlder(a, b), Covers(b)
    PROVE  Covers(a)
<1>1. lister \in Monitor /\ a # None
  BY NoneAssumption DEF Inv, Typed
<1> QED
  BY <1>1, VersionsOrdered DEF Covers

\* The copy stays headed for the map where nothing on its way is lost.
LEMMA HeadedStays ==
    ASSUME Headed, UNCHANGED <<synced, lister>>,
           lister # None =>
              /\ dirty \cap AddOrUpdate # {} =>
                    dirty' \cap AddOrUpdate # {} \/ \E v \in Workers : OnItsWay(v)'
              /\ \A v \in Workers :
                    OnItsWay(v) => OnItsWay(v)' \/ Covers(built)' \/ Covers(skipped)'
              /\ Covers(built) => Covers(built)'
              /\ Covers(skipped) => Covers(skipped)'
    PROVE  Headed'
<1> SUFFICES ASSUME synced, lister # None
             PROVE  \/ dirty' \cap AddOrUpdate # {}
                    \/ \E v \in Workers : OnItsWay(v)'
                    \/ Covers(built)' \/ Covers(skipped)'
  BY DEF Headed
<1> QED
  BY DEF Headed

\* A worker's steps.
LEMMA WorkHeaded ==
    ASSUME Inv, Told, WorkersReached, Headed, NEW w \in Workers, Work(w)
    PROVE  Headed'
<1>0. /\ pc \in [Workers -> Labels] /\ item \in [Workers -> Events \cup {None}]
      /\ obj \in [Workers -> Monitor \cup {None}]
      /\ built \in Monitor \cup {None} /\ skipped \in Monitor \cup {None}
  BY DEF Inv, Typed
<1>1. CASE Get(w)
  <2>1. /\ pc[w] = "idle" /\ pc' = [pc EXCEPT ![w] = "sync"] /\ obj' = obj
        /\ item' = [item EXCEPT ![w] = Head(queue)] /\ dirty' = dirty \ {Head(queue)}
        /\ UNCHANGED <<synced, lister, built, skipped>>
    BY <1>1 DEF Get, QueueGet, Goto, informerVars, history
  <2>2. \A v \in Workers : OnItsWay(v) => OnItsWay(v)'
    <3> SUFFICES ASSUME NEW v \in Workers, OnItsWay(v) PROVE OnItsWay(v)'
      OBVIOUS
    <3>1. v # w
      BY <2>1 DEF OnItsWay, Ahead
    <3>2. item'[v] = item[v] /\ pc'[v] = pc[v] /\ obj'[v] = obj[v]
      BY <1>0, <2>1, <3>1
    <3> QED
      BY <2>1, <3>2 DEF OnItsWay, Covers
  <2>3. dirty \cap AddOrUpdate # {} => dirty' \cap AddOrUpdate # {} \/ OnItsWay(w)'
    <3>1. item'[w] = Head(queue) /\ pc'[w] = "sync"
      BY <1>0, <2>1
    <3>2. Head(queue) \in AddOrUpdate => OnItsWay(w)'
      BY <3>1 DEF OnItsWay
    <3>3. Head(queue) \notin AddOrUpdate => dirty' \cap AddOrUpdate = dirty \cap AddOrUpdate
      BY <2>1
    <3> QED
      BY <3>2, <3>3
  <2>4. (Covers(built) => Covers(built)') /\ (Covers(skipped) => Covers(skipped)')
    BY <2>1 DEF Covers
  <2> QED
    BY <2>1, <2>2, <2>3, <2>4, HeadedStays
<1>2. ASSUME UNCHANGED <<dirty, synced, lister, built, skipped>>,
             \A v \in Workers : OnItsWay(v) => OnItsWay(v)'
      PROVE  Headed'
  <2>1. (Covers(built) => Covers(built)') /\ (Covers(skipped) => Covers(skipped)')
    BY <1>2 DEF Covers
  <2> QED
    BY <1>2, <2>1, HeadedStays
<1>3. ASSUME NEW m \in Monitor \cup {None}, NEW to,
             UNCHANGED <<dirty, synced, lister, built, skipped, item>>,
             obj' = [obj EXCEPT ![w] = m], pc' = [pc EXCEPT ![w] = to],
             OnItsWay(w) => to \in Ahead /\ (lister # None => Covers(m))
      PROVE  Headed'
  <2>1. CASE lister = None
    BY <1>3, <2>1 DEF Headed
  <2>2. CASE lister # None
    <3>1. ASSUME NEW v \in Workers, OnItsWay(v) PROVE OnItsWay(v)'
      <4>1. CASE v = w
        <5>1. item'[v] = item[v] /\ pc'[v] \in Ahead /\ obj'[v] = m /\ Covers(m)
          BY <1>0, <1>3, <2>2, <3>1, <4>1
        <5> QED
          BY <1>3, <3>1, <5>1 DEF OnItsWay, Covers
      <4>2. CASE v # w
        <5>1. item'[v] = item[v] /\ pc'[v] = pc[v] /\ obj'[v] = obj[v]
          BY <1>0, <1>3, <4>2
        <5> QED
          BY <1>3, <3>1, <5>1 DEF OnItsWay, Covers
      <4> QED
        BY <4>1, <4>2
    <3> QED
      BY <1>2, <1>3, <3>1
  <2> QED
    BY <2>1, <2>2
<1>4. CASE SyncHandler(w)
  <2>1. lister # None => Covers(lister)
    BY VersionsOrdered DEF Covers, Inv, Typed
  <2>2. lister \in Monitor \cup {None} /\ "getMetadata" \in Ahead
    BY DEF Inv, Typed, Ahead
  <2>3. /\ UNCHANGED <<dirty, synced, lister, built, skipped, item>>
        /\ obj' = [obj EXCEPT ![w] = lister] /\ pc' = [pc EXCEPT ![w] = "getMetadata"]
    BY <1>4 DEF SyncHandler, Goto, informerVars, queueVars, history
  <2> QED
    BY <1>3, <2>1, <2>2, <2>3
<1>5. ASSUME NEW to, UNCHANGED <<dirty, synced, lister, built, skipped, item, obj>>,
             pc' = [pc EXCEPT ![w] = to], OnItsWay(w) => to \in Ahead /\ pc[w] # "sync"
      PROVE  Headed'
  <2>1. obj[w] \in Monitor \cup {None} /\ obj' = [obj EXCEPT ![w] = obj[w]]
    BY <1>0, <1>5
  <2>2. OnItsWay(w) => to \in Ahead /\ (lister # None => Covers(obj[w]))
    BY <1>5 DEF OnItsWay
  <2> QED
    BY <1>3, <1>5, <2>1, <2>2
<1>6. CASE ApiGet(w)
  <2>1. UNCHANGED <<dirty, synced, lister, built, skipped, item, obj>>
        /\ pc' = [pc EXCEPT ![w] = PutOf[pc[w]]] /\ pc[w] \in GetCalls
    BY <1>6 DEF ApiGet, CanGet, Goto, informerVars, queueVars, history
  <2>2. OnItsWay(w) => PutOf[pc[w]] \in Ahead /\ pc[w] # "sync"
    BY <2>1 DEF OnItsWay, GetCalls, PutOf, Ahead
  <2> QED
    BY <1>5, <2>1, <2>2
<1>7. CASE PutMetadata(w)
  <2>1. UNCHANGED <<dirty, synced, lister, built, skipped, item, obj>>
        /\ pc' = [pc EXCEPT ![w] = "getReceived"] /\ pc[w] = "putMetadata"
    BY <1>7 DEF PutMetadata, Goto, informerVars, queueVars, history
  <2> QED
    BY <1>5, <2>1 DEF Ahead
<1>8. CASE PutReceived(w)
  <2>1. UNCHANGED <<dirty, synced, lister, built, skipped, item>>
        /\ obj' = [obj EXCEPT ![w] = Version(api)] /\ api # None
        /\ pc' = [pc EXCEPT ![w] = IF item[w] = "deleteEvent" THEN "purge" ELSE "drop"]
    BY <1>8 DEF PutReceived, CanPut, Goto, informerVars, queueVars, history
  <2>2. Version(api) \in Monitor
    BY <2>1, VersionTypes
  <2>3. lister # None => Covers(Version(api))
    BY <2>1, <2>2, NoneAssumption DEF Told, InformerReached, ReachedBy, Covers
  <2>4. OnItsWay(w) => (IF item[w] = "deleteEvent" THEN "purge" ELSE "drop") \in Ahead
    BY DEF OnItsWay, AddOrUpdate, Ahead
  <2> QED
    BY <1>3, <2>1, <2>2, <2>3, <2>4
<1>9. CASE DropStores(w)
  <2>1. UNCHANGED <<dirty, synced, lister, built, skipped, item, obj>>
        /\ pc' = [pc EXCEPT ![w] = "build"] /\ pc[w] = "drop"
    BY <1>9 DEF DropStores, Goto, informerVars, queueVars, history
  <2> QED
    BY <1>5, <2>1 DEF Ahead
<1>10. CASE ProcessDelete(w) \/ PutDone(w)
  <2>1. /\ UNCHANGED <<dirty, synced, lister, built, skipped, item, obj>>
        /\ pc[w] \in {"purge", "putDone"}
        /\ pc' = [pc EXCEPT ![w] = "getDone"] \/ pc' = [pc EXCEPT ![w] = "finish"]
    BY <1>10 DEF ProcessDelete, PutDone, Goto, informerVars, queueVars, history
  <2>2. ~OnItsWay(w)
    BY <2>1 DEF OnItsWay, Ahead
  <2> QED
    BY <1>5, <2>1, <2>2
<1>11. CASE Finish(w)
  <2>1. pc[w] = "finish" /\ UNCHANGED <<dirty, synced, lister, built, skipped>>
        /\ pc' = [pc EXCEPT ![w] = "idle"] /\ obj' = [obj EXCEPT ![w] = None]
        /\ item' = [item EXCEPT ![w] = None]
    BY <1>11 DEF Finish, QueueDone, Goto, informerVars, history
  <2>2. ASSUME NEW v \in Workers, OnItsWay(v) PROVE OnItsWay(v)'
    <3>1. v # w
      BY <2>1, <2>2 DEF OnItsWay, Ahead
    <3>2. item'[v] = item[v] /\ pc'[v] = pc[v] /\ obj'[v] = obj[v]
      BY <1>0, <2>1, <3>1
    <3> QED
      BY <2>1, <2>2, <3>2 DEF OnItsWay, Covers
  <2> QED
    BY <1>2, <2>1, <2>2
<1>12. ASSUME UNCHANGED <<dirty, synced, lister, item, obj>>, NEW to,
              pc' = [pc EXCEPT ![w] = to],
              /\ lister # None /\ OnItsWay(w) => Covers(built)' \/ Covers(skipped)'
              /\ lister # None /\ Covers(built) => Covers(built)'
              /\ lister # None /\ Covers(skipped) => Covers(skipped)'
       PROVE  Headed'
  <2>1. ASSUME NEW v \in Workers, v # w, OnItsWay(v) PROVE OnItsWay(v)'
    <3>1. pc'[v] = pc[v]
      BY <1>0, <1>12, <2>1
    <3> QED
      BY <1>12, <2>1, <3>1 DEF OnItsWay, Covers
  <2> QED
    BY <1>12, <2>1, HeadedStays
<1>13. ASSUME NEW old \in Monitor \cup {None}, NEW new, lister # None,
              new = old \/ (obj[w] \in Monitor /\ new = Newest(obj[w], old)), Covers(old)
       PROVE  Covers(new)
  <2>1. old \in Monitor
    BY <1>13 DEF Covers
  <2>2. obj[w] \in Monitor =>
          Newest(obj[w], old) \in Monitor /\ NotOlder(Newest(obj[w], old), old)
    BY <2>1, NewestOfTwo, NoneAssumption
  <2> QED
    BY <1>13, <2>1, <2>2, CoversMore
<1>14. ASSUME NEW old \in Monitor \cup {None}, lister # None,
              obj[w] \in Monitor, Covers(obj[w])
       PROVE  Covers(Newest(obj[w], old))
  <2>1. Newest(obj[w], old) \in Monitor /\ NotOlder(Newest(obj[w], old), obj[w])
    BY <1>14, NewestOfTwo
  <2> QED
    BY <1>14, <2>1, CoversMore
<1>15. CASE ApiFail(w)
  <2>1. /\ UNCHANGED <<dirty, synced, lister, item, obj, built>>
        /\ pc' = [pc EXCEPT ![w] = "finish"]
    BY <1>15 DEF ApiFail, Goto, informerVars, queueVars
  <2>2. skipped' = skipped \/ (obj[w] \in Monitor /\ skipped' = Newest(obj[w], skipped))
    BY <1>0, <1>15 DEF ApiFail
  <2>3. OnItsWay(w) => Covers(obj[w]) /\ skipped' = Newest(obj[w], skipped)
    BY <1>15 DEF ApiFail, OnItsWay, AddOrUpdate, GetCalls, PutCalls, Ahead, Covers
  <2>4. obj[w] # None => obj[w] \in Monitor
    BY <1>0
  <2>5. lister # None /\ OnItsWay(w) => Covers(skipped')
    BY <1>0, <1>14, <2>3, <2>4 DEF Covers
  <2>6. lister # None /\ Covers(skipped) => Covers(skipped')
    BY <1>0, <1>13, <2>2
  <2> QED
    BY <1>12, <2>1, <2>5, <2>6 DEF Covers
<1>16. CASE Build(w)
  <2>1. /\ UNCHANGED <<dirty, synced, lister, item, obj, skipped>>
        /\ pc' = [pc EXCEPT ![w] = "getDone"] /\ pc[w] = "build" /\ built' = Newest(obj[w], built)
    BY <1>16 DEF Build, Goto, informerVars, queueVars
  <2>2. obj[w] \in Monitor
    BY <2>1 DEF Inv, Known
  <2>3. OnItsWay(w) => Covers(obj[w])
    BY <2>1 DEF OnItsWay
  <2>4. lister # None /\ OnItsWay(w) => Covers(built')
    BY <1>0, <1>14, <2>1, <2>2, <2>3
  <2>5. lister # None /\ Covers(built) => Covers(built')
    BY <1>0, <1>13, <2>1, <2>2
  <2> QED
    BY <1>12, <2>1, <2>4, <2>5 DEF Covers
<1> QED
  BY <1>1, <1>4, <1>6, <1>7, <1>8, <1>9, <1>10, <1>11, <1>15, <1>16 DEF Work, Call, Process

\* The informer's steps: what it takes over is queued, or its copy was as new.
LEMMA InformerHeaded ==
    ASSUME Inv, Told, Headed, Deliver \/ FirstList \/ Relist
    PROVE  Headed'
<1>1. UNCHANGED <<pc, item, obj, built>>
  BY DEF Deliver, FirstList, Relist, Listed, workerVars, history
<1>2. ASSUME NEW e \in AddOrUpdate, Enqueue(e) PROVE Headed'
  <2>1. e \in dirty'
    BY <1>2 DEF Enqueue
  <2> QED
    BY <1>2, <2>1 DEF Headed
<1>3. ASSUME UNCHANGED <<synced, lister, skipped, dirty>> PROVE Headed'
  <2>1. /\ \A v \in Workers : OnItsWay(v) => OnItsWay(v)'
        /\ Covers(built) => Covers(built)'
        /\ Covers(skipped) => Covers(skipped)'
    BY <1>1, <1>3 DEF OnItsWay, Covers
  <2> QED
    BY <1>3, <2>1, HeadedStays
<1>4. "addEvent" \in AddOrUpdate /\ "updateEvent" \in AddOrUpdate
  BY DEF AddOrUpdate
<1>5. lister \in Monitor \cup {None} /\ skipped \in Monitor \cup {None}
  BY DEF Inv, Typed
<1>6. CASE Deliver
  <2>1. synced /\ UNCHANGED <<synced, skipped>> /\ watch # <<>>
    BY <1>6 DEF Deliver, history
  <2>2. CASE Head(watch).type = "deleted"
    <3>1. lister' = None
      BY <1>6, <2>2 DEF Deliver
    <3> QED
      BY <3>1 DEF Headed
  <2>3. CASE Head(watch).type # "deleted" /\ lister = None
    BY <1>2, <1>4, <1>6, <2>3 DEF Deliver
  <2>4. CASE Head(watch).type # "deleted" /\ lister # None
    <3> DEFINE new == Version(Head(watch))
    <3>1. 1 \in DOMAIN watch /\ Head(watch) = watch[1]
      BY <2>1, EventTypes, Shortened
    <3>2. new \in Monitor /\ lister' = new /\ UpdateHandler(lister, new) /\ lister.uid = new.uid
      <4>1. lister' = new /\ UpdateHandler(lister, new)
        BY <1>6, <2>4 DEF Deliver
      <4>2. new \in Monitor
        BY <3>1, EventTypes
      <4>3. lister.uid = new.uid
        BY <2>1, <2>4, <3>1 DEF Told, Chained, Version
      <4> QED
        BY <4>1, <4>2, <4>3
    <3> HIDE DEF new
    <3>3. CASE SameSpec(lister, new)
      <4>1. lister' = lister
        BY <1>5, <2>4, <3>2, <3>3, SameVersion DEF SameSpec
      <4> QED
        BY <1>3, <2>1, <3>2, <3>3, <4>1 DEF UpdateHandler, queueVars
    <3>4. CASE ~SameSpec(lister, new)
      BY <1>2, <1>4, <3>2, <3>4 DEF UpdateHandler
    <3> QED
      BY <3>3, <3>4
  <2> QED
    BY <2>2, <2>3, <2>4
<1>7. CASE FirstList \/ Relist
  <2>1. Listed
    BY <1>7 DEF FirstList, Relist
  <2>2. CASE api = None
    BY <2>1, <2>2 DEF Listed, Headed
  <2>3. CASE api # None /\ lister = None
    BY <1>2, <1>4, <2>1, <2>3 DEF Listed
  <2>4. CASE api # None /\ lister # None
    <3>1. synced /\ synced'
      BY <1>7, <2>4 DEF Told, NotListed, FirstList, Relist
    <3> DEFINE new == Version(api)
    <3>2. new \in Monitor /\ new.uid = api.uid /\ new.gen = api.gen
      BY <2>4, VersionTypes DEF Version
    <3>3. lister' = new /\ UpdateHandler(lister, new)
          /\ skipped' = IF Replaced(lister, api) THEN Newest(new, skipped) ELSE skipped
      BY <2>1, <2>4 DEF Listed
    <3> HIDE DEF new
    <3>4. CASE ~SameSpec(lister, new)
      BY <1>2, <1>4, <3>3, <3>4 DEF UpdateHandler
    <3>5. CASE SameSpec(lister, new) /\ lister.uid = new.uid
      <4>1. lister' = lister
        BY <1>5, <2>4, <3>2, <3>3, <3>5, SameVersion DEF SameSpec
      <4>2. skipped' = skipped
        BY <3>2, <3>3, <3>5 DEF Replaced
      <4> QED
        BY <1>3, <3>1, <3>3, <3>5, <4>1, <4>2 DEF UpdateHandler, queueVars
    <3>6. CASE SameSpec(lister, new) /\ lister.uid # new.uid
      <4>1. skipped' = Newest(new, skipped)
        BY <2>4, <3>2, <3>3, <3>6 DEF Replaced, SameSpec
      <4>2. skipped' \in Monitor /\ NotOlder(skipped', new)
        BY <1>5, <3>2, <4>1, NewestOfTwo
      <4> QED
        BY <3>3, <4>2, NoneAssumption DEF Headed, Covers
    <3> QED
      BY <3>4, <3>5, <3>6
  <2> QED
    BY <2>2, <2>3, <2>4
<1> QED
  BY <1>6, <1>7

\* No step loses the configuration the informer has.
LEMMA NextHeaded ==
    ASSUME Inv, Told, WorkersReached, Headed, [Next]_vars
    PROVE  Headed'
<1>1. CASE Users \/ (\E u \in UID : Fill(u)) \/ (\E j \in Jobs : Report(j)) \/ UNCHANGED vars
  <2>1. UNCHANGED <<dirty, synced, lister, pc, item, obj, built, skipped>>
    BY <1>1 DEF Users, Create, Edit, Delete, Fill, Report, Aggregate, UpdateResource, GetStatus,
       PutStatus, StatusFail, vars, memory, informerVars, queueVars, workerVars, history
  <2>2. /\ \A v \in Workers : OnItsWay(v) => OnItsWay(v)'
        /\ Covers(built) => Covers(built)'
        /\ Covers(skipped) => Covers(skipped)'
    BY <2>1 DEF OnItsWay, Covers
  <2> QED
    BY <2>1, <2>2, HeadedStays
<1>2. CASE Restart
  BY <1>2 DEF Restart, Headed
<1> QED
  BY <1>1, <1>2, WorkHeaded, InformerHeaded DEF Next

\* What holds of the way of a configuration, from end to end.
Delivered == Told /\ WorkersReached /\ Headed

\* At the end of the way, the configuration has been handled.
LEMMA DeliveredHandled ==
    Inv /\ QueueConsistent /\ Delivered => EveryConfigurationHandled
<1> SUFFICES ASSUME Inv, QueueConsistent, Delivered, Quiescent, api # None
             PROVE  Version(api) \in {built, skipped}
  BY DEF EveryConfigurationHandled
<1>1. dirty = {}
  <2>1. \A w \in Workers : pc[w] = "idle"
    BY DEF Quiescent
  <2>2. processing = {}
    BY <2>1 DEF QueueConsistent
  <2>3. {queue[n] : n \in DOMAIN queue} = {}
    BY DEF Quiescent
  <2> QED
    BY <2>2, <2>3 DEF QueueConsistent
<1>2. lister = Version(api) /\ lister \in Monitor /\ lister # None
  <2>1. lister = Version(api)
    BY DEF Delivered, Told, LatestTold, Quiescent
  <2> QED
    BY <2>1, VersionTypes, NoneAssumption
<1>3. Covers(built) \/ Covers(skipped)
  <2>1. \A w \in Workers : ~OnItsWay(w)
    BY DEF Quiescent, OnItsWay, Ahead
  <2> QED
    BY <1>1, <1>2, <2>1 DEF Delivered, Headed, Quiescent
<1>4. ASSUME NEW v \in Monitor \cup {None}, Covers(v), ReachedBy(api, created, v)
      PROVE  v = Version(api)
  BY <1>2, <1>4, VersionsOrdered DEF Covers, ReachedBy
<1>5. built \in Monitor \cup {None} /\ skipped \in Monitor \cup {None}
      /\ ReachedBy(api, created, built) /\ ReachedBy(api, created, skipped)
  BY DEF Inv, Typed, Delivered, WorkersReached
<1> QED
  BY <1>3, <1>4, <1>5

\* Nothing is on its way at first.
LEMMA InitDelivered == Init => Delivered
<1> SUFFICES ASSUME Init PROVE Delivered
  OBVIOUS
<1>1. Told
  BY InitTold
<1>2. WorkersReached /\ Headed
  BY DEF Init, WorkersReached, ReachedBy, Headed
<1> QED
  BY <1>1, <1>2 DEF Delivered

\* Every step keeps it.
LEMMA NextDelivered == Inv /\ Inv' /\ Delivered /\ [Next]_vars => Delivered'
  BY NextTold, NextReached, NextHeaded DEF Delivered

\* controller.go:323-393, events.go:56-189: at rest, the configuration in the API
\* server has been built, or its own event was given up or taken for no change,
\* for any number of workers, incarnations and generations, failed calls,
\* expired watches and ends of the process.
THEOREM EveryConfigurationAlwaysHandled == Spec => []EveryConfigurationHandled
<1>1. Init => Inv /\ QueueConsistent /\ Delivered
  BY InitInv, InitConsistent, InitDelivered
<1>2. Inv /\ QueueConsistent /\ Delivered /\ [Next]_vars => (Inv /\ QueueConsistent /\ Delivered)'
  BY NextInv, NextConsistent, NextDelivered
<1>3. Inv /\ QueueConsistent /\ Delivered => EveryConfigurationHandled
  BY DeliveredHandled
<1> QED
  BY <1>1, <1>2, <1>3, PTL DEF Spec

=============================================================================
