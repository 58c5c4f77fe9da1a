-------------------------- MODULE StoreTrackingProofs --------------------------
(* What a store tracks and shows, for any objects, writes, lists, expired    *)
(* watches and goroutines: every object of the cluster is tracked as it is   *)
(* once its events have been handled, synced means that the initial list is  *)
(* in, what is shown of a family over its limit is bounded, and the store is *)
(* an implementation of soft limits.                                         *)
EXTENDS StoreCardinalityProofs, SequenceTheorems

----------------------------------------------------------------------------
(* The path of an object into the tracker: it waits in the watch, then in    *)
(* the rest of the list, then in the call in progress.                       *)

InCall == pc[Reflector] \in {"render", "track"}
CallOf(u) == InCall /\ op.uid = u
About(u) == {i \in 1 .. Len(events) : events[i].uid = u}
AddOf(u, c) == [kind |-> "add", uid |-> u, counts |-> c]
TrackedAs(u, c) == u \in DOMAIN perObject /\ perObject[u] = c

\* No call is in progress when the reflector lists.
IdleToList == phase = "list" => pc[Reflector] = "idle"

\* Only a list leaves objects to add.
NothingToDo == phase # "replace" => todo = {}

\* An object's last event has its current contents ...
LastEventCurrent ==
    phase # "list" => \A u \in Present : \A i \in About(u) :
        (\A j \in About(u) : j <= i) => events[i] = AddOf(u, cluster[u])

\* ... and without an event, what comes next of it has.
NextIs(u, c) ==
    IF u \in todo THEN listed[u] = c
    ELSE IF CallOf(u) THEN op = AddOf(u, c)
    ELSE TrackedAs(u, c)
WithoutEventCurrent ==
    phase # "list" => \A u \in Present : About(u) = {} => NextIs(u, cluster[u])

Tracking == IdleToList /\ NothingToDo /\ LastEventCurrent /\ WithoutEventCurrent

\* A call starts with Call and ends with the tracker's update.
LEMMA CallsInProgress ==
    ASSUME Typed, [Next]_vars,
           ~ WatchEvent, ~ (\E u \in UIDs : ReplaceItem(u))
    PROVE  /\ InCall' => InCall
           /\ InCall => InCall' \/ TrackAdd \/ TrackDelete
           /\ pc[Reflector] = "idle" => pc'[Reflector] = "idle"
           /\ UNCHANGED op
<1>1. CASE Cluster
  BY <1>1 DEF Cluster, ClusterWrite, ClusterDelete, InCall
<1>2. CASE List \/ ReplaceDone \/ WatchExpired
  BY <1>2 DEF List, ReplaceDone, WatchExpired, InCall
<1>3. CASE Track
  BY <1>3, CountsType
  DEF Track, RenderFamily, TrackAdd, TrackDelete, InCall, Typed, TypeOK
<1>4. ASSUME NEW t \in Checkers, StartCheck(t)
      PROVE  pc'[Reflector] = pc[Reflector] /\ UNCHANGED op
  BY <1>4, NamesAssumption, CountsType DEF StartCheck, Typed, TypeOK, Threads
<1>5. ASSUME NEW t \in Threads, Apply(t)
      PROVE  /\ InCall' <=> InCall
             /\ pc[Reflector] = "idle" => pc'[Reflector] = "idle"
             /\ UNCHANGED op
  BY <1>5, CountsType
  DEF Apply, CheckThresholds, ReadCutoff, SetCutoff, Finished, InCall, Typed, TypeOK
<1>6. CASE UNCHANGED vars
  BY <1>6 DEF vars, InCall
<1> QED
  BY <1>1, <1>2, <1>3, <1>4, <1>5, <1>6 DEF Next, Reflect, InCall

\* The reflector's own variables are written by its steps.
LEMMA ReflectorUnchanged ==
    ASSUME [Next]_vars, ~ Reflect, ~ WatchExpired
    PROVE  UNCHANGED reflectorVars
  BY DEF Next, Cluster, ClusterWrite, ClusterDelete, Track, RenderFamily, TrackAdd,
         TrackDelete, StartCheck, Apply, CheckThresholds, ReadCutoff, SetCutoff, vars

\* The watch and the cluster are written by the cluster's steps and the reflector's.
LEMMA EventsUnchanged ==
    ASSUME [Next]_vars, ~ Cluster, ~ Reflect, ~ WatchExpired
    PROVE  UNCHANGED <<events, cluster>>
  BY DEF Next, Track, RenderFamily, TrackAdd, TrackDelete, StartCheck, Apply,
         CheckThresholds, ReadCutoff, SetCutoff, vars, apiVars

\* The reflector lists when it is idle, and adds what it has listed.
LEMMA NextPhases ==
    Typed /\ IdleToList /\ NothingToDo /\ [Next]_vars => (IdleToList /\ NothingToDo)'
<1> SUFFICES ASSUME Typed, IdleToList, NothingToDo, [Next]_vars
             PROVE  IdleToList' /\ NothingToDo'
  OBVIOUS
<1>1. CASE List \/ ReplaceDone \/ WatchExpired
  BY <1>1 DEF List, ReplaceDone, AllAdded, WatchExpired, IdleToList, NothingToDo
<1>2. CASE WatchEvent
  BY <1>2 DEF WatchEvent, IdleToList, NothingToDo, reflectorVars
<1>3. ASSUME NEW u \in UIDs, ReplaceItem(u) PROVE IdleToList' /\ NothingToDo'
  BY <1>3 DEF ReplaceItem, IdleToList, NothingToDo
<1>4. CASE ~ Reflect /\ ~ WatchExpired
  <2>1. UNCHANGED <<phase, todo>>
    BY <1>4, ReflectorUnchanged DEF reflectorVars
  <2>2. pc[Reflector] = "idle" => pc'[Reflector] = "idle"
    BY <1>4, CallsInProgress DEF Reflect
  <2> QED
    BY <2>1, <2>2 DEF IdleToList, NothingToDo
<1> QED
  BY <1>1, <1>2, <1>3, <1>4 DEF Reflect

\* What an event that is sent, and one that is taken, do to the others.
LEMMA SentEvent ==
    ASSUME TypeOK, NEW e \in Calls, events' = Append(events, e)
    PROVE  /\ Len(events') = Len(events) + 1
           /\ events'[Len(events) + 1] = e
           /\ \A i \in 1 .. Len(events) : events'[i] = events[i]
           /\ \A u : About(u)' = IF u = e.uid THEN About(u) \cup {Len(events) + 1}
                                              ELSE About(u)
<1>1. events \in Seq(Calls) /\ Len(events) \in Nat
  BY DEF TypeOK
<1>2. /\ Len(events') = Len(events) + 1
      /\ events'[Len(events) + 1] = e
      /\ \A i \in 1 .. Len(events) : events'[i] = events[i]
  BY <1>1
<1>3. \A u : About(u)' = {i \in 1 .. Len(events) + 1 : events'[i].uid = u}
  BY <1>2 DEF About
<1> QED
  BY <1>1, <1>2, <1>3 DEF About

LEMMA TakenEvent ==
    ASSUME TypeOK, events # <<>>, events' = Tail(events)
    PROVE  /\ Head(events) \in Calls
           /\ Head(events) = events[1]
           /\ 1 \in 1 .. Len(events)
           /\ \A i \in 1 .. Len(events') : i + 1 \in 1 .. Len(events) /\ events'[i] = events[i + 1]
           /\ \A u, i : i \in About(u)' <=> i \in Nat \ {0} /\ i + 1 \in About(u)
<1>1. events \in Seq(Calls) /\ Len(events) \in Nat \ {0}
  BY EmptySeq DEF TypeOK
<1>2. /\ Head(events) \in Calls /\ Head(events) = events[1]
      /\ Len(events') = Len(events) - 1
      /\ \A i \in 1 .. Len(events') : events'[i] = events[i + 1]
  BY <1>1, HeadTailProperties
<1>3. \A i \in 1 .. Len(events') : i + 1 \in 1 .. Len(events)
  BY <1>1, <1>2
<1>4. ASSUME NEW u, NEW i
      PROVE  i \in About(u)' <=> i \in Nat \ {0} /\ i + 1 \in About(u)
  <2>1. i \in About(u)' <=> i \in 1 .. Len(events) - 1 /\ events'[i].uid = u
    BY <1>2 DEF About
  <2>2. i \in 1 .. Len(events) - 1 <=> i \in Nat \ {0} /\ i + 1 \in 1 .. Len(events)
    BY <1>1
  <2> QED
    BY <1>2, <2>1, <2>2 DEF About
<1> QED
  BY <1>1, <1>2, <1>3, <1>4

\* A step that neither sends nor takes an event, lists, adds nor tracks keeps
\* every object where it is on its path.
LEMMA PathUnchanged ==
    ASSUME LastEventCurrent, WithoutEventCurrent,
           UNCHANGED <<events, cluster, listed, todo, op, perObject>>,
           InCall' <=> InCall,
           phase' # "list" => phase # "list"
    PROVE  LastEventCurrent' /\ WithoutEventCurrent'
<1>1. /\ \A u : About(u)' = About(u) /\ NextIs(u, cluster[u])' = NextIs(u, cluster[u])
      /\ Present' = Present
  BY DEF About, NextIs, CallOf, TrackedAs, Present
<1> QED
  BY <1>1 DEF LastEventCurrent, WithoutEventCurrent

\* An edit is the last event of its object, and is no business of the others.
LEMMA ClusterTracks ==
    ASSUME Typed, LastEventCurrent, WithoutEventCurrent, Cluster
    PROVE  LastEventCurrent' /\ WithoutEventCurrent'
<1>1. ASSUME NEW v \in UIDs, NEW e \in Calls, e.uid = v, Send(e),
             cluster' = [cluster EXCEPT ![v] = IF e.kind = "add" THEN e.counts ELSE Absent],
             e.kind = "add" => e = AddOf(v, e.counts),
             UNCHANGED <<phase, listed, todo, op, perObject, pc>>
      PROVE  LastEventCurrent' /\ WithoutEventCurrent'
  <2> SUFFICES ASSUME phase' # "list", NEW u \in UIDs, u \in Present'
               PROVE  /\ \A i \in About(u)' :
                            (\A j \in About(u)' : j <= i) => events'[i] = AddOf(u, cluster'[u])
                      /\ About(u)' = {} => NextIs(u, cluster[u])'
    BY DEF LastEventCurrent, WithoutEventCurrent, Present
  <2>1. events' = Append(events, e) /\ Len(events) \in Nat
    BY <1>1 DEF Send, Typed, TypeOK
  <2>2. CASE u = v
    <3>1. e.kind = "add" /\ cluster'[u] = e.counts
      BY <1>1, <2>2 DEF Present, Typed, TypeOK
    <3>2. About(u)' = About(u) \cup {Len(events) + 1} /\ events'[Len(events) + 1] = e
      BY <1>1, <2>1, <2>2, SentEvent DEF Typed
    <3>3. \A i \in About(u)' : (\A j \in About(u)' : j <= i) => i = Len(events) + 1
      BY <2>1, <3>2 DEF About
    <3> QED
      BY <1>1, <2>2, <3>1, <3>2, <3>3
  <2>3. CASE u # v
    <3>1. cluster'[u] = cluster[u] /\ u \in Present
      BY <1>1, <2>3 DEF Present, Typed, TypeOK
    <3>2. About(u)' = About(u) /\ \A i \in About(u) : events'[i] = events[i]
      BY <1>1, <2>1, <2>3, SentEvent DEF Typed, About
    <3>3. NextIs(u, cluster[u])' = NextIs(u, cluster[u])
      BY <1>1, <3>1 DEF NextIs, CallOf, InCall, TrackedAs
    <3> QED
      BY <1>1, <3>1, <3>2, <3>3 DEF LastEventCurrent, WithoutEventCurrent
  <2> QED
    BY <2>2, <2>3
<1>2. ASSUME NEW v \in UIDs, NEW c \in Contents, ClusterWrite(v, c)
      PROVE  LastEventCurrent' /\ WithoutEventCurrent'
  <2>1. AddOf(v, c) \in Calls
    BY CountsType DEF AddOf, Calls, Kinds
  <2> QED
    BY <1>1, <1>2, <2>1 DEF ClusterWrite, AddOf, reflectorVars, trackerVars
<1>3. ASSUME NEW v \in UIDs, ClusterDelete(v)
      PROVE  LastEventCurrent' /\ WithoutEventCurrent'
  <2> DEFINE e == [kind |-> "delete", uid |-> v, counts |-> cluster[v]]
  <2>1. e \in Calls
    BY <1>3, CountsType DEF ClusterDelete, Typed, TypeOK, Calls, Kinds
  <2>2. e.uid = v /\ e.kind = "delete" /\ Send(e) /\ cluster' = [cluster EXCEPT ![v] = Absent]
    BY <1>3 DEF ClusterDelete
  <2>3. UNCHANGED <<phase, listed, todo, op, perObject, pc>>
    BY <1>3 DEF ClusterDelete, reflectorVars, trackerVars
  <2> HIDE DEF e
  <2> QED
    BY <1>1, <2>1, <2>2, <2>3
<1> QED
  BY <1>2, <1>3 DEF Cluster

\* A list has every object as it is; its items and the events become calls.
LEMMA ReflectTracks ==
    ASSUME Typed, Tracking, Reflect
    PROVE  LastEventCurrent' /\ WithoutEventCurrent'
<1> USE DEF Tracking
<1>1. CASE List
  <2>1. /\ \A u : About(u)' = {}
        /\ cluster' = cluster /\ Present' = Present
        /\ todo' = Present /\ \A u \in Present : listed'[u] = cluster[u]
    BY <1>1 DEF List, About, apiVars, Present
  <2> QED
    BY <2>1 DEF LastEventCurrent, WithoutEventCurrent, NextIs
<1>2. CASE ReplaceDone
  <2>1. /\ UNCHANGED <<events, cluster, listed, todo, op, perObject>>
        /\ InCall' <=> InCall
        /\ phase # "list"
    BY <1>2 DEF ReplaceDone, AllAdded, AddReturned, apiVars, trackerVars, InCall
  <2> QED
    BY <2>1, PathUnchanged
<1>3. ASSUME NEW v \in UIDs, ReplaceItem(v)
      PROVE  LastEventCurrent' /\ WithoutEventCurrent'
  <2>1. /\ UNCHANGED <<events, cluster, listed, perObject, phase>>
        /\ todo' = todo \ {v} /\ v \in todo
        /\ phase = "replace" /\ pc[Reflector] = "idle"
        /\ op' = AddOf(v, listed[v]) /\ op'.uid = v
        /\ InCall'
    BY <1>3, CountsType
    DEF ReplaceItem, Call, apiVars, trackerVars, InCall, AddOf, Typed, TypeOK
  <2>2. \A u : NextIs(u, cluster[u]) => NextIs(u, cluster[u])'
    BY <2>1 DEF NextIs, CallOf, InCall, TrackedAs
  <2>3. \A u : About(u)' = About(u)
    BY <2>1 DEF About
  <2> QED
    BY <2>1, <2>2, <2>3 DEF LastEventCurrent, WithoutEventCurrent, Present
<1>4. CASE WatchEvent
  <2>1. /\ phase = "watch" /\ todo = {} /\ todo' = {}
        /\ events # <<>> /\ events' = Tail(events)
        /\ op' = Head(events) /\ pc[Reflector] = "idle"
        /\ UNCHANGED <<cluster, listed, perObject>>
    BY <1>4 DEF WatchEvent, Call, apiVars, reflectorVars, trackerVars, NothingToDo
  <2>2. op'.kind = "add" => InCall'
    BY <1>4, CountsType DEF WatchEvent, Call, InCall, Typed, TypeOK
  <2>3. op'.kind = "delete" => InCall'
    BY <1>4, CountsType DEF WatchEvent, Call, InCall, Typed, TypeOK
  <2>4. /\ op' = events[1] /\ op' \in Calls /\ 1 \in 1 .. Len(events)
        /\ \A i \in 1 .. Len(events') : i + 1 \in 1 .. Len(events) /\ events'[i] = events[i + 1]
        /\ \A u, i : i \in About(u)' <=> i \in Nat \ {0} /\ i + 1 \in About(u)
    BY <2>1, TakenEvent DEF Typed
  <2>5. InCall'
    BY <2>2, <2>3, <2>4 DEF Calls, Kinds
  <2> SUFFICES ASSUME NEW u \in Present
               PROVE  /\ \A i \in About(u)' :
                            (\A j \in About(u)' : j <= i) => events'[i] = AddOf(u, cluster[u])
                      /\ About(u)' = {} => NextIs(u, cluster[u])'
    BY <2>1 DEF LastEventCurrent, WithoutEventCurrent, Present
  <2>6. ASSUME NEW i \in About(u)', \A j \in About(u)' : j <= i
        PROVE  events'[i] = AddOf(u, cluster[u])
    <3>1. i \in 1 .. Len(events') /\ i \in Nat \ {0} /\ i + 1 \in About(u)
      BY <2>4, <2>6 DEF About
    <3>2. \A k \in About(u) : k <= i + 1
      <4>1. SUFFICES ASSUME NEW k \in About(u) PROVE k <= i + 1
        OBVIOUS
      <4>2. k \in Nat \ {0}
        BY DEF About
      <4>3. CASE k = 1
        BY <3>1, <4>3
      <4>4. CASE k # 1
        <5>1. k - 1 \in Nat \ {0} /\ (k - 1) + 1 = k
          BY <4>2, <4>4
        <5>2. k - 1 \in About(u)'
          BY <2>4, <5>1
        <5> QED
          BY <2>6, <3>1, <4>2, <5>2
      <4> QED
        BY <4>3, <4>4
    <3>3. events[i + 1] = AddOf(u, cluster[u])
      BY <2>1, <3>1, <3>2 DEF LastEventCurrent
    <3> QED
      BY <2>4, <3>1, <3>3
  <2>7. ASSUME About(u)' = {} PROVE NextIs(u, cluster[u])'
    <3>1. \A k \in About(u) : k = 1
      <4>1. SUFFICES ASSUME NEW k \in About(u), k # 1 PROVE FALSE
        OBVIOUS
      <4>2. k - 1 \in Nat \ {0} /\ (k - 1) + 1 = k
        BY <4>1 DEF About
      <4> QED
        BY <2>4, <2>7, <4>2
    <3>2. CASE op'.uid = u
      <4>1. 1 \in About(u)
        BY <2>4, <3>2 DEF About
      <4>2. op' = AddOf(u, cluster[u])
        BY <2>1, <2>4, <3>1, <4>1 DEF LastEventCurrent
      <4> QED
        BY <2>1, <2>5, <3>2, <4>2 DEF NextIs, CallOf
    <3>3. CASE op'.uid # u
      <4>1. About(u) = {}
        BY <2>4, <3>1, <3>3 DEF About
      <4>2. TrackedAs(u, cluster[u])
        BY <2>1, <4>1 DEF WithoutEventCurrent, NextIs, CallOf, InCall
      <4> QED
        BY <2>1, <3>3, <4>2 DEF NextIs, CallOf, TrackedAs
    <3> QED
      BY <3>2, <3>3
  <2> QED
    BY <2>6, <2>7
<1> QED
  BY <1>1, <1>2, <1>3, <1>4 DEF Reflect

\* The call puts the object it is about into the tracker as it is.
LEMMA TrackTracks ==
    ASSUME Typed, LastEventCurrent, WithoutEventCurrent, TrackAdd \/ TrackDelete
    PROVE  LastEventCurrent' /\ WithoutEventCurrent'
<1>1. /\ UNCHANGED <<events, cluster, listed, todo, op, phase>>
      /\ InCall /\ ~ InCall'
  BY CountsType DEF TrackAdd, TrackDelete, apiVars, reflectorVars, InCall, Typed, TypeOK
<1>2. ASSUME NEW u, NextIs(u, cluster[u]) PROVE NextIs(u, cluster[u])'
  <2>1. CASE u \in todo
    BY <1>1, <1>2, <2>1 DEF NextIs
  <2>2. CASE u \notin todo /\ op.uid = u
    <3>1. op.kind = "add" /\ op.counts = cluster[u]
      BY <1>1, <1>2, <2>2 DEF NextIs, CallOf, AddOf
    <3>2. perObject' = Put(perObject, u, cluster[u])
      BY <2>2, <3>1 DEF TrackAdd, TrackDelete
    <3>3. TrackedAs(u, cluster[u])'
      BY <1>1, <3>2 DEF TrackedAs, Put
    <3> QED
      BY <1>1, <2>2, <3>3 DEF NextIs, CallOf
  <2>3. CASE u \notin todo /\ op.uid # u
    <3>1. TrackedAs(u, cluster[u])
      BY <1>2, <2>3 DEF NextIs, CallOf
    <3>2. TrackedAs(u, cluster[u])'
      BY <1>1, <2>3, <3>1 DEF TrackAdd, TrackDelete, TrackedAs, Put, Without
    <3> QED
      BY <1>1, <2>3, <3>2 DEF NextIs, CallOf
  <2> QED
    BY <2>1, <2>2, <2>3
<1>3. \A u : About(u)' = About(u)
  BY <1>1 DEF About
<1> QED
  BY <1>1, <1>2, <1>3 DEF LastEventCurrent, WithoutEventCurrent, Present

\* Every step keeps every object on its path.
LEMMA NextTracking == Typed /\ Tracking /\ [Next]_vars => Tracking'
<1> SUFFICES ASSUME Typed, Tracking, [Next]_vars PROVE Tracking'
  OBVIOUS
<1>1. (IdleToList /\ NothingToDo)'
  BY NextPhases DEF Tracking
<1>2. LastEventCurrent' /\ WithoutEventCurrent'
  <2>1. CASE Cluster
    BY <2>1, ClusterTracks DEF Tracking
  <2>2. CASE Reflect
    BY <2>2, ReflectTracks
  <2>3. CASE TrackAdd \/ TrackDelete
    BY <2>3, TrackTracks DEF Tracking
  <2>4. CASE WatchExpired
    BY <2>4 DEF WatchExpired, LastEventCurrent, WithoutEventCurrent
  <2>5. CASE ~ Cluster /\ ~ Reflect /\ ~ TrackAdd /\ ~ TrackDelete /\ ~ WatchExpired
    <3>1. UNCHANGED <<events, cluster, listed, todo, phase>>
      BY <2>5, EventsUnchanged, ReflectorUnchanged DEF reflectorVars
    <3>2. UNCHANGED perObject
      BY <2>5, TablesUnchanged
    <3>3. (InCall' <=> InCall) /\ UNCHANGED op
      BY <2>5, CallsInProgress DEF Reflect
    <3> QED
      BY <3>1, <3>2, <3>3, PathUnchanged DEF Tracking
  <2> QED
    BY <2>1, <2>2, <2>3, <2>4, <2>5
<1> QED
  BY <1>1, <1>2 DEF Tracking

\* The first thing a reflector does is list.
LEMMA InitTracking == Init => Tracking
  BY CountsType
  DEF Init, Tracking, IdleToList, NothingToDo, LastEventCurrent, WithoutEventCurrent

\* store.go:136-146: when nothing of the watch is left to handle, every object
\* of the cluster is tracked at its current contents, whatever was edited
\* during a list or lost with an expired watch.
THEOREM PresentObjectsAlwaysTracked == Spec => []PresentObjectsTracked
<1>1. Init => Typed /\ Tracking
  BY InitTyped, InitTracking
<1>2. Typed /\ Tracking /\ [Next]_vars => (Typed /\ Tracking)'
  BY NextTyped, NextTracking
<1>3. Typed /\ Tracking => PresentObjectsTracked
  <2> SUFFICES ASSUME Typed, Tracking, CaughtUp, NEW u \in Present
               PROVE  u \in DOMAIN perObject /\ perObject[u] = cluster[u]
    BY DEF PresentObjectsTracked
  <2>1. About(u) = {} /\ u \notin todo /\ ~ InCall /\ phase # "list"
    BY DEF CaughtUp, StoreUnlocked, Tracking, NothingToDo, About, InCall
  <2> QED
    BY <2>1 DEF Tracking, WithoutEventCurrent, NextIs, CallOf, TrackedAs
<1> QED
  BY <1>1, <1>2, <1>3, PTL DEF Spec

----------------------------------------------------------------------------
(* Replace: the items of the list that are no longer to be added have been.  *)

ListAdded ==
    phase = "replace" => \A u \in DOMAIN listed \ todo :
        IF CallOf(u) THEN op = AddOf(u, listed[u]) ELSE TrackedAs(u, listed[u])

\* An item leaves the list for a call, and a call ends in the tracker.
LEMMA NextListAdded == Typed /\ ListAdded /\ [Next]_vars => ListAdded'
<1> SUFFICES ASSUME Typed, ListAdded, [Next]_vars PROVE ListAdded'
  OBVIOUS
<1>1. CASE List
  <2>1. DOMAIN listed' = Present /\ todo' = Present
    BY <1>1 DEF List
  <2> QED
    BY <2>1 DEF ListAdded
<1>2. CASE ReplaceDone \/ WatchExpired
  BY <1>2 DEF ReplaceDone, WatchExpired, ListAdded
<1>3. CASE WatchEvent
  BY <1>3 DEF WatchEvent, reflectorVars, ListAdded
<1>4. ASSUME NEW v \in UIDs, ReplaceItem(v) PROVE ListAdded'
  <2>1. /\ UNCHANGED <<listed, perObject, phase>>
        /\ todo' = todo \ {v} /\ phase = "replace" /\ pc[Reflector] = "idle"
        /\ op' = AddOf(v, listed[v]) /\ op'.uid = v
        /\ InCall'
    BY <1>4, CountsType DEF ReplaceItem, Call, trackerVars, InCall, AddOf, Typed, TypeOK
  <2> QED
    BY <2>1 DEF ListAdded, CallOf, InCall, TrackedAs
<1>5. CASE TrackAdd \/ TrackDelete
  <2>1. /\ UNCHANGED <<listed, todo, phase, op>>
        /\ InCall /\ ~ InCall'
    BY <1>5, CountsType DEF TrackAdd, TrackDelete, reflectorVars, InCall, Typed, TypeOK
  <2> SUFFICES ASSUME phase = "replace", NEW u \in DOMAIN listed \ todo
               PROVE  TrackedAs(u, listed[u])'
    BY <2>1 DEF ListAdded, CallOf
  <2>2. CASE op.uid = u
    <3>1. op = AddOf(u, listed[u])
      BY <2>1, <2>2 DEF ListAdded, CallOf
    <3>2. perObject' = Put(perObject, u, listed[u])
      BY <1>5, <3>1 DEF TrackAdd, TrackDelete, AddOf
    <3> QED
      BY <2>1, <3>2 DEF TrackedAs, Put
  <2>3. CASE op.uid # u
    <3>1. TrackedAs(u, listed[u])
      BY <2>3 DEF ListAdded, CallOf
    <3> QED
      BY <1>5, <2>1, <2>3, <3>1 DEF TrackAdd, TrackDelete, TrackedAs, Put, Without
  <2> QED
    BY <2>2, <2>3
<1>6. CASE ~ Reflect /\ ~ WatchExpired /\ ~ TrackAdd /\ ~ TrackDelete
  <2>1. UNCHANGED <<listed, todo, phase>>
    BY <1>6, ReflectorUnchanged DEF reflectorVars
  <2>2. UNCHANGED perObject
    BY <1>6, TablesUnchanged
  <2>3. (InCall' <=> InCall) /\ UNCHANGED op
    BY <1>6, CallsInProgress DEF Reflect
  <2> QED
    BY <2>1, <2>2, <2>3 DEF ListAdded, CallOf, TrackedAs
<1> QED
  BY <1>1, <1>2, <1>3, <1>4, <1>5, <1>6 DEF Reflect

\* store.go:44-46, events.go:161-179: when a store says that it is synced, every
\* object of its initial list has metrics and is counted as it was listed.
THEOREM SyncedAlwaysMeansListed == Spec => SyncedMeansListed
<1> DEFINE Means == ~ synced /\ synced' => \A u \in DOMAIN listed :
                        u \in DOMAIN metrics /\ perObject[u] = listed[u]
<1>1. Init => Typed /\ RenderInv /\ ListAdded
  <2> SUFFICES ASSUME Init PROVE RenderInv /\ ListAdded
    BY InitTyped
  <2>1. pc[Reflector] = "idle"
    BY CountsType DEF Init
  <2>2. DOMAIN metrics = {} /\ DOMAIN perObject = {} /\ phase = "list"
    BY DEF Init
  <2> QED
    BY <2>1, <2>2 DEF RenderInv, RenderedOfCall, MetricsOfTracked, ListAdded
<1>2. Typed /\ RenderInv /\ ListAdded /\ [Next]_vars => (Typed /\ RenderInv /\ ListAdded)'
  BY NextTyped, NextRendered, NextMetrics, NextListAdded DEF RenderInv
<1>3. Typed /\ RenderInv /\ ListAdded /\ [Next]_vars => [Means]_vars
  <2> SUFFICES ASSUME RenderInv, ListAdded, [Next]_vars, ~ synced, synced'
               PROVE  \A u \in DOMAIN listed :
                         u \in DOMAIN metrics /\ perObject[u] = listed[u]
    OBVIOUS
  <2>1. ReplaceDone
    <3>1. CASE ~ Reflect /\ ~ WatchExpired
      BY <3>1, ReflectorUnchanged DEF reflectorVars
    <3>2. CASE Reflect \/ WatchExpired
      BY <3>2 DEF Reflect, WatchExpired, List, WatchEvent, ReplaceItem, reflectorVars
    <3> QED
      BY <3>1, <3>2
  <2>2. phase = "replace" /\ todo = {} /\ ~ InCall
    BY <2>1 DEF ReplaceDone, AllAdded, AddReturned, InCall
  <2> QED
    BY <2>2 DEF ListAdded, CallOf, TrackedAs, RenderInv, MetricsOfTracked
<1> HIDE DEF Means
<1>4. Spec => [][Means]_vars
  BY <1>1, <1>2, <1>3, PTL DEF Spec
<1> QED
  BY <1>4 DEF Means, SyncedMeansListed

----------------------------------------------------------------------------
(* The overshoot of a limit.                                                 *)

\* The samples of a family that the metrics show.
Shown(f) == Cardinality(FamilySamples(metrics, f))

\* The goroutines that cannot write the flag of a family any more; each has had
\* one occasion to write back a flag it had read before.
Spent(f) ==
    {t \in Checkers : pc[t] = "done" \/ (pc[t] \in {"read", "set"} /\ at[t] > f)}
Allowed(f) == FamilyThreshold[f] + (1 + Cardinality(Spent(f))) * MaxSamples

\* The call in progress has rendered the family and has yet to store it.
Rendered(f) ==
    pc[Reflector] = "track" \/ (pc[Reflector] = "render" /\ at[Reflector] > f)

\* It has stored it, and has yet to set the family's flag.
Unflagged(f) ==
    pc[Reflector] = "check" \/ (pc[Reflector] \in {"read", "set"} /\ at[Reflector] <= f)

\* What is shown is bounded, with what is about to be stored, and as long as the
\* family's flag lets the next object through there is room for it.
Bounded(f) ==
    /\ Shown(f) <= Allowed(f)
    /\ Rendered(f) => Shown(f) + rendered[f] <= Allowed(f)
    /\ ~ Rendered(f) /\ ~ Unflagged(f) /\ ~ cutoff[f] =>
          Shown(f) + MaxSamples <= Allowed(f)
AllBounded == \A f \in Family : FamilyThreshold[f] > 0 => Bounded(f)

\* The flag that the reflector is about to write is right.
SeenIsDecision ==
    pc[Reflector] = "set" /\ FamilyThreshold[at[Reflector]] > 0 =>
        (seen[Reflector] <=> FamilyOver(at[Reflector]) \/ StoreOver)

\* Storing and deleting an object's metrics, as far as one family is concerned.
LEMMA ShownOf ==
    ASSUME NEW T, DOMAIN T \subseteq UIDs, T \in [DOMAIN T -> Counts],
           NEW u, NEW c \in Counts, NEW f \in Family
    PROVE  /\ Cardinality(FamilySamples(T, f)) \in Nat
           /\ Cardinality(FamilySamples(Put(T, u, c), f))
                 <= Cardinality(FamilySamples(T, f)) + c[f]
           /\ Cardinality(FamilySamples(Without(T, u), f))
                 <= Cardinality(FamilySamples(T, f))
<1> DEFINE A == FamilySlices(T, f)
           E == 1 .. MaxSamples
           X == 1 .. c[f]
           Old == IF u \in DOMAIN A THEN Cardinality(A[u]) ELSE 0
<1>1. IsFiniteSet(DOMAIN A)
  BY NamesAssumption, FS_Subset DEF FamilySlices
<1>2. /\ IsFiniteSet(E)
      /\ \A k \in DOMAIN A : A[k] \subseteq E /\ Cardinality(A[k]) \in Nat
  <2>1. \A k \in DOMAIN A : T[k] \in Counts /\ A[k] = 1 .. T[k][f]
    BY DEF FamilySlices
  <2> QED
    BY <2>1, SamplesFinite, CountSize, CountsType
<1>3. X \subseteq E /\ Cardinality(X) = c[f] /\ c[f] \in Nat
  BY CountSize, CountsType
<1>4. FamilySamples(T, f) = Pairs(A, E)
  BY DEF FamilySamples, FamilySlices
<1>5. FamilySlices(Put(T, u, c), f) = Put(A, u, X)
  BY DEF FamilySlices, Put
<1>6. FamilySamples(Put(T, u, c), f) = Pairs(Put(A, u, X), E)
  BY <1>5 DEF FamilySamples, FamilySlices
<1>7. FamilySlices(Without(T, u), f) = Without(A, u)
  BY DEF FamilySlices, Without
<1>8. FamilySamples(Without(T, u), f) = Pairs(Without(A, u), E)
  BY <1>7 DEF FamilySamples, FamilySlices
<1>9. Old \in Nat
  BY <1>2
<1> HIDE DEF A, E, X
<1>10. Cardinality(Pairs(A, E)) \in Nat
  BY <1>1, <1>2, PairsFinite
<1>11. Cardinality(Pairs(Put(A, u, X), E)) = Cardinality(Pairs(A, E)) - Old + Cardinality(X)
  BY <1>1, <1>2, <1>3, PairsPut
<1>12. Cardinality(Pairs(Without(A, u), E)) = Cardinality(Pairs(A, E)) - Old
  BY <1>1, <1>2, PairsWithout
<1> HIDE DEF Old
<1> QED
  BY <1>3, <1>4, <1>6, <1>8, <1>9, <1>10, <1>11, <1>12

\* What is shown of a family is no more than what is tracked of it.
LEMMA ShownIsTracked ==
    ASSUME TypeOK, TotalsMatchObjects, MetricsOfTracked, NEW f \in Family
    PROVE  Shown(f) <= perFamily[f]
<1>1. \A u \in DOMAIN metrics : metrics[u][f] \in Nat /\ perObject[u][f] \in Nat
  BY CountsType DEF TypeOK, MetricsOfTracked
<1>2. \A u \in DOMAIN metrics : 1 .. metrics[u][f] \subseteq 1 .. perObject[u][f]
  BY <1>1 DEF MetricsOfTracked
<1>3. FamilySamples(metrics, f) \subseteq FamilySamples(perObject, f)
  BY <1>2 DEF FamilySamples, Pairs, MetricsOfTracked
<1>4. IsFiniteSet(FamilySamples(perObject, f))
  <2>1. /\ IsFiniteSet(DOMAIN FamilySlices(perObject, f))
        /\ IsFiniteSet(1 .. MaxSamples)
    BY TablesOfSamples, SamplesFinite DEF FamilySlices
  <2> QED
    BY <2>1, PairsFinite DEF FamilySamples, FamilySlices
<1>5. Cardinality(FamilySamples(metrics, f)) <= Cardinality(FamilySamples(perObject, f))
  BY <1>3, <1>4, FS_Subset
<1> QED
  BY <1>5 DEF Shown, TotalsMatchObjects

\* Numbers that the bound is made of.
LEMMA AllowedType ==
    ASSUME NEW f \in Family
    PROVE  /\ IsFiniteSet(Spent(f)) /\ Cardinality(Spent(f)) \in Nat
           /\ FamilyThreshold[f] \in Nat /\ MaxSamples \in Nat
           /\ Allowed(f) \in Nat
<1>1. IsFiniteSet(Spent(f))
  BY NamesAssumption, FS_Subset DEF Spent
<1>2. Cardinality(Spent(f)) \in Nat
  BY <1>1, FS_CardinalityType
<1>3. FamilyThreshold[f] \in Nat /\ MaxSamples \in Nat
  BY SizesAssumption, ThresholdAssumption
<1>4. (1 + Cardinality(Spent(f))) * MaxSamples \in Nat
  BY <1>2, <1>3
<1> QED
  BY <1>1, <1>2, <1>3, <1>4 DEF Allowed

LEMMA RoomForMore ==
    ASSUME NEW m \in Nat, NEW n \in Nat, m <= n, NEW s \in Nat
    PROVE  /\ (1 + m) * s <= (1 + n) * s
           /\ (1 + (m + 1)) * s = (1 + m) * s + s
           /\ s <= (1 + m) * s
  OBVIOUS

\* A goroutine that has passed a family does not come back to it.
LEMMA SpentGrows ==
    ASSUME Typed, [Next]_vars, NEW f \in Family
    PROVE  Spent(f) \subseteq Spent(f)'
<1> SUFFICES ASSUME NEW t \in Spent(f) PROVE t \in Spent(f)'
  OBVIOUS
<1>1. t \in Checkers /\ t \in Threads /\ t # Reflector
  BY NamesAssumption DEF Spent, Threads
<1>2. ASSUME UNCHANGED <<pc[t], at[t]>> PROVE t \in Spent(f)'
  BY <1>2 DEF Spent
<1>3. CASE Cluster
  BY <1>2, <1>3 DEF Cluster, ClusterWrite, ClusterDelete
<1>4. CASE List \/ ReplaceDone \/ WatchExpired
  BY <1>2, <1>4 DEF List, ReplaceDone, WatchExpired
<1>5. CASE WatchEvent \/ (\E u \in UIDs : ReplaceItem(u)) \/ Track
  BY <1>1, <1>2, <1>5
  DEF WatchEvent, ReplaceItem, Call, Track, RenderFamily, TrackAdd, TrackDelete, Typed, TypeOK
<1>6. ASSUME NEW v \in Checkers, StartCheck(v) PROVE t \in Spent(f)'
  <2>1. v # t
    BY <1>6 DEF StartCheck, Spent
  <2> QED
    BY <1>1, <1>2, <1>6, <2>1 DEF StartCheck, Typed, TypeOK
<1>7. ASSUME NEW v \in Threads, v # t, Apply(v) PROVE t \in Spent(f)'
  BY <1>1, <1>2, <1>7 DEF Apply, CheckThresholds, ReadCutoff, SetCutoff, Typed, TypeOK
<1>8. CASE CheckThresholds(t)
  BY <1>8 DEF CheckThresholds, Spent
<1>9. CASE ReadCutoff(t)
  BY <1>1, <1>9 DEF ReadCutoff, Spent, Typed, TypeOK
<1>10. CASE SetCutoff(t)
  <2>1. at[t] \in Family /\ at[t] > f
    BY <1>1, <1>10 DEF SetCutoff, Spent, Typed, TypeOK
  <2>2. pc'[t] = "done" \/ (pc'[t] = "read" /\ at'[t] = at[t] + 1)
    BY <1>1, <1>10 DEF SetCutoff, Finished, Typed, TypeOK
  <2>3. f \in Int /\ at[t] \in Int
    BY <2>1 DEF Family
  <2> QED
    BY <1>1, <2>1, <2>2, <2>3 DEF Spent
<1>11. CASE UNCHANGED vars
  BY <1>2, <1>11 DEF vars
<1> QED
  BY <1>3, <1>4, <1>5, <1>6, <1>7, <1>8, <1>9, <1>10, <1>11 DEF Next, Reflect, Apply

\* So the bound grows only.
LEMMA AllowedGrows ==
    ASSUME Typed, [Next]_vars, NEW f \in Family
    PROVE  Allowed(f) <= Allowed(f)' /\ Allowed(f)' \in Nat
<1>1. Spent(f) \subseteq Spent(f)' /\ IsFiniteSet(Spent(f)')
  <2>1. IsFiniteSet(Spent(f)')
    BY NamesAssumption, FS_Subset DEF Spent
  <2> QED
    BY <2>1, SpentGrows
<1>2. /\ Cardinality(Spent(f)) <= Cardinality(Spent(f)')
      /\ Cardinality(Spent(f)') \in Nat
  BY <1>1, FS_Subset, FS_CardinalityType
<1>3. /\ Cardinality(Spent(f)) \in Nat /\ FamilyThreshold[f] \in Nat /\ MaxSamples \in Nat
  BY AllowedType
<1>4. (1 + Cardinality(Spent(f))) * MaxSamples <= (1 + Cardinality(Spent(f)')) * MaxSamples
  BY <1>2, <1>3, RoomForMore
<1>5. /\ (1 + Cardinality(Spent(f))) * MaxSamples \in Nat
      /\ (1 + Cardinality(Spent(f)')) * MaxSamples \in Nat
  BY <1>2, <1>3
<1> QED
  BY <1>3, <1>4, <1>5 DEF Allowed

\* A goroutine that sets a family's flag is spent, which makes room for the
\* object the flag may let through.
LEMMA SpentBySet ==
    ASSUME Typed, NEW t \in Checkers, SetCutoff(t), NEW f \in Family, at[t] = f
    PROVE  Allowed(f)' = Allowed(f) + MaxSamples
<1>1. t \in Threads /\ t # Reflector
  BY NamesAssumption DEF Threads
<1>2. t \notin Spent(f)
  BY DEF SetCutoff, Spent, Family
<1>3. t \in Spent(f)'
  <2>1. pc'[t] = "done" \/ (pc'[t] = "read" /\ at'[t] = f + 1)
    BY <1>1 DEF SetCutoff, Finished, Typed, TypeOK
  <2> QED
    BY <2>1 DEF Spent, Family
<1>4. \A v \in Checkers \ {t} : UNCHANGED <<pc[v], at[v]>>
  BY DEF SetCutoff, Typed, TypeOK, Threads
<1>5. Spent(f)' = Spent(f) \cup {t}
  BY <1>3, <1>4 DEF Spent
<1>6. /\ IsFiniteSet(Spent(f)) /\ Cardinality(Spent(f)) \in Nat
      /\ FamilyThreshold[f] \in Nat /\ MaxSamples \in Nat
  BY AllowedType
<1>7. Cardinality(Spent(f)') = Cardinality(Spent(f)) + 1
  BY <1>2, <1>5, <1>6, FS_AddElement
<1>8. (1 + (Cardinality(Spent(f)) + 1)) * MaxSamples
        = (1 + Cardinality(Spent(f))) * MaxSamples + MaxSamples
  BY <1>6, RoomForMore
<1>9. (1 + Cardinality(Spent(f))) * MaxSamples \in Nat
  BY <1>6
<1> QED
  BY <1>6, <1>7, <1>8, <1>9 DEF Allowed

\* The numbers that Bounded compares.
LEMMA BoundedTypes ==
    ASSUME TypeOK, NEW f \in Family
    PROVE  /\ Shown(f) \in Nat /\ Allowed(f) \in Nat
           /\ rendered[f] \in 0 .. MaxSamples
           /\ MaxSamples \in Nat
<1>1. DOMAIN metrics \subseteq UIDs /\ metrics \in [DOMAIN metrics -> Counts]
  BY DEF TypeOK
<1>2. Shown(f) \in Nat
  BY <1>1, ShownOf, CountsType DEF Shown
<1> QED
  BY <1>2, AllowedType DEF TypeOK, Counts

\* A step that shows no more of the family, leaves its flag alone, and does not
\* take the reflector to another side of it.
LEMMA BoundKept ==
    ASSUME Typed, [Next]_vars, NEW f \in Family, Bounded(f),
           UNCHANGED metrics, cutoff'[f] = cutoff[f],
           Rendered(f)' => Rendered(f) /\ rendered'[f] = rendered[f],
           Rendered(f) \/ Unflagged(f) => (Rendered(f) \/ Unflagged(f))'
    PROVE  Bounded(f)'
<1>1. Shown(f)' = Shown(f)
  BY DEF Shown
<1>2. Allowed(f) <= Allowed(f)' /\ Allowed(f)' \in Nat
  BY AllowedGrows
<1>3. Shown(f) \in Nat /\ Allowed(f) \in Nat /\ rendered[f] \in 0 .. MaxSamples /\ MaxSamples \in Nat
  BY BoundedTypes DEF Typed
<1> QED
  BY <1>1, <1>2, <1>3 DEF Bounded

\* A call starts from a family whose flag is set, and renders it if that lets it.
LEMMA CallBounded ==
    ASSUME Typed, [Next]_vars, NEW f \in Family, Bounded(f),
           NEW c \in Calls, Call(c), UNCHANGED <<metrics, cutoff>>
    PROVE  Bounded(f)'
<1>1. /\ ~ Rendered(f) /\ ~ Unflagged(f) /\ ~ Unflagged(f)'
      /\ Rendered(f)' => rendered'[f] = 0
  BY CountsType DEF Call, Rendered, Unflagged, Typed, TypeOK, Zero, Family
<1>2. Shown(f)' = Shown(f)
  BY DEF Shown
<1>3. Allowed(f) <= Allowed(f)' /\ Allowed(f)' \in Nat
  BY AllowedGrows
<1>4. Shown(f) \in Nat /\ Allowed(f) \in Nat /\ MaxSamples \in Nat
  BY BoundedTypes DEF Typed
<1> QED
  BY <1>1, <1>2, <1>3, <1>4 DEF Bounded

LEMMA RenderBounded ==
    ASSUME Typed, [Next]_vars, NEW f \in Family, Bounded(f), RenderFamily
    PROVE  Bounded(f)'
<1>1. /\ op.counts \in Counts /\ at[Reflector] \in Family /\ f \in Int
      /\ NumFamilies \in Nat /\ f <= NumFamilies
      /\ UNCHANGED <<metrics, cutoff>> /\ rendered \in Counts
      /\ pc[Reflector] = "render"
  BY SizesAssumption, CountsType
  DEF RenderFamily, Typed, TypeOK, CallInProgress, Calls, Family
<1>2. /\ Shown(f)' = Shown(f) /\ Allowed(f) <= Allowed(f)' /\ Allowed(f)' \in Nat
      /\ Shown(f) \in Nat /\ Allowed(f) \in Nat /\ MaxSamples \in Nat
      /\ rendered[f] \in 0 .. MaxSamples
  BY <1>1, AllowedGrows, BoundedTypes DEF Shown, Typed
<1>3. CASE at[Reflector] = f
  <2>1. /\ ~ Rendered(f) /\ ~ Unflagged(f)
        /\ rendered'[f] = IF cutoff[f] THEN 0 ELSE op.counts[f]
    BY <1>1, <1>3 DEF Rendered, Unflagged, RenderFamily, Rendering, Counts
  <2>2. Rendered(f)' /\ op.counts[f] \in 0 .. MaxSamples
    BY <1>1, <1>3, CountsType DEF Rendered, RenderFamily, Counts, Typed, TypeOK
  <2> QED
    BY <1>2, <2>1, <2>2 DEF Bounded
<1>4. CASE at[Reflector] # f
  <2>1. rendered'[f] = rendered[f]
    BY <1>1, <1>4 DEF RenderFamily, Counts
  <2>2. CASE at[Reflector] > f
    <3>1. Rendered(f) /\ Rendered(f)'
      BY <1>1, <2>2, CountsType DEF Rendered, RenderFamily, Typed, TypeOK, Family
    <3> QED
      BY <1>1, <2>1, <3>1, BoundKept
  <2>3. CASE at[Reflector] < f
    <3>1. ~ Last(at[Reflector])
      BY <1>1, <2>3 DEF Last, Family
    <3>2. at'[Reflector] = at[Reflector] + 1 /\ pc' = pc
      BY <3>1, CountsType DEF RenderFamily, Typed, TypeOK
    <3>3. ~ Rendered(f)' /\ ~ Rendered(f) /\ ~ Unflagged(f)
      BY <1>1, <2>3, <3>2 DEF Rendered, Unflagged, Family
    <3> QED
      BY <1>1, <3>3, BoundKept
  <2> QED
    BY <1>1, <1>4, <2>2, <2>3 DEF Family
<1> QED
  BY <1>3, <1>4

\* Storing adds what was rendered, at most.
LEMMA TrackBounded ==
    ASSUME Typed, [Next]_vars, NEW f \in Family, Bounded(f), TrackAdd \/ TrackDelete
    PROVE  Bounded(f)'
<1>1. /\ Rendered(f) /\ ~ Rendered(f)' /\ Unflagged(f)'
      /\ DOMAIN metrics \subseteq UIDs /\ metrics \in [DOMAIN metrics -> Counts]
      /\ rendered \in Counts
      /\ metrics' = Put(metrics, op.uid, rendered) \/ metrics' = Without(metrics, op.uid)
  BY CountsType DEF TrackAdd, TrackDelete, Rendered, Unflagged, Typed, TypeOK
<1>2. /\ Cardinality(FamilySamples(Put(metrics, op.uid, rendered), f)) <= Shown(f) + rendered[f]
      /\ Cardinality(FamilySamples(Without(metrics, op.uid), f)) <= Shown(f)
  BY <1>1, ShownOf DEF Shown
<1>3. /\ Allowed(f) <= Allowed(f)' /\ Allowed(f)' \in Nat
      /\ Shown(f) \in Nat /\ Allowed(f) \in Nat /\ rendered[f] \in 0 .. MaxSamples
  BY AllowedGrows, BoundedTypes DEF Typed
<1>4. Shown(f)' \in Nat
  <2>1. TypeOK'
    BY NextTyped DEF Typed
  <2>2. DOMAIN metrics' \subseteq UIDs /\ metrics' \in [DOMAIN metrics' -> Counts]
    BY <2>1 DEF TypeOK
  <2> QED
    BY <2>2, ShownOf, CountsType DEF Shown
<1>5. Shown(f)' <= Shown(f) + rendered[f]
  BY <1>1, <1>2, <1>3, <1>4 DEF Shown
<1> QED
  BY <1>1, <1>3, <1>4, <1>5 DEF Bounded

\* The reflector writes a flag that is right; one that a goroutine writes may let
\* another object through, once.
LEMMA SetBounded ==
    ASSUME Typed, TotalsMatchObjects, MetricsOfTracked, SeenIsDecision, [Next]_vars,
           NEW f \in Family, FamilyThreshold[f] > 0, Bounded(f),
           NEW t \in Threads, SetCutoff(t)
    PROVE  Bounded(f)'
<1>1. /\ UNCHANGED <<metrics, rendered>> /\ cutoff' = [cutoff EXCEPT ![at[t]] = seen[t]]
      /\ at[t] \in Family /\ cutoff \in [Family -> BOOLEAN] /\ f \in Int
      /\ NumFamilies \in Nat /\ f <= NumFamilies
  BY SizesAssumption DEF SetCutoff, Typed, TypeOK, Family
<1>2. /\ Shown(f)' = Shown(f) /\ Allowed(f) <= Allowed(f)' /\ Allowed(f)' \in Nat
      /\ Shown(f) \in Nat /\ Allowed(f) \in Nat /\ MaxSamples \in Nat
      /\ rendered[f] \in 0 .. MaxSamples
  BY <1>1, AllowedGrows, BoundedTypes DEF Shown, Typed
<1>3. CASE t = Reflector
  <2>1. ~ Rendered(f) /\ ~ Rendered(f)'
    BY <1>3, CountsType DEF SetCutoff, Finished, Rendered, Typed, TypeOK
  <2>2. CASE at[t] = f
    <3>1. ~ cutoff'[f] => ~ FamilyOver(f)
      BY <1>1, <1>3, <2>2 DEF SetCutoff, SeenIsDecision
    <3>2. ~ FamilyOver(f) => Shown(f) <= FamilyThreshold[f]
      <4>1. Shown(f) <= perFamily[f] /\ perFamily[f] \in Int
        BY ShownIsTracked DEF Typed, TypeOK
      <4> QED
        BY <1>2, <4>1, AllowedType DEF FamilyOver
    <3>3. FamilyThreshold[f] + MaxSamples <= Allowed(f)
      BY AllowedType, RoomForMore DEF Allowed
    <3>4. FamilyThreshold[f] \in Nat
      BY AllowedType
    <3> QED
      BY <1>2, <2>1, <3>1, <3>2, <3>3, <3>4 DEF Bounded
  <2>3. CASE at[t] # f
    <3>1. cutoff'[f] = cutoff[f]
      BY <1>1, <2>3
    <3>2. Unflagged(f) => Unflagged(f)'
      <4>1. SUFFICES ASSUME at[t] < f PROVE Unflagged(f)'
        BY <1>1, <1>3, <2>3 DEF Unflagged, SetCutoff, Family
      <4>2. ~ Last(at[t])
        BY <1>1, <4>1 DEF Last, Family
      <4>3. at'[t] = at[t] + 1 /\ pc'[t] = "read"
        BY <1>3, <4>2 DEF SetCutoff, Typed, TypeOK
      <4> QED
        BY <1>1, <1>3, <4>1, <4>3 DEF Unflagged, Family
    <3> QED
      BY <1>1, <2>1, <3>1, <3>2, BoundKept
  <2> QED
    BY <2>2, <2>3
<1>4. CASE t # Reflector
  <2>1. t \in Checkers /\ UNCHANGED <<pc[Reflector], at[Reflector]>>
    BY <1>4, CountsType DEF SetCutoff, Typed, TypeOK, Threads
  <2>2. (Rendered(f)' <=> Rendered(f)) /\ (Unflagged(f)' <=> Unflagged(f))
    BY <2>1 DEF Rendered, Unflagged
  <2>3. CASE at[t] = f
    <3>1. Allowed(f)' = Allowed(f) + MaxSamples
      BY <2>1, <2>3, SpentBySet
    <3> QED
      BY <1>1, <1>2, <2>2, <3>1 DEF Bounded
  <2>4. CASE at[t] # f
    <3>1. cutoff'[f] = cutoff[f]
      BY <1>1, <2>4
    <3> QED
      BY <1>1, <2>2, <3>1, BoundKept
  <2> QED
    BY <2>3, <2>4
<1> QED
  BY <1>3, <1>4

\* What the reflector reads of the tracker is the decision of the last check.
LEMMA NextSeen ==
    Typed /\ CutoffIffOver /\ SeenIsDecision /\ [Next]_vars => SeenIsDecision'
<1> SUFFICES ASSUME Typed, CutoffIffOver, SeenIsDecision, [Next]_vars,
                    pc'[Reflector] = "set", FamilyThreshold[at'[Reflector]] > 0
             PROVE  seen'[Reflector] <=> FamilyOver(at[Reflector])' \/ StoreOver'
  BY DEF SeenIsDecision, FamilyOver, StoreOver
<1>1. ~ TrackAdd /\ ~ TrackDelete
  BY CountsType DEF TrackAdd, TrackDelete, Typed, TypeOK
<1>2. UNCHANGED <<perFamily, storeTotal>>
  BY <1>1, TablesUnchanged
<1>3. CASE ReadCutoff(Reflector)
  <2>1. /\ at' = at /\ at[Reflector] \in Family
        /\ seen'[Reflector] = cutoffFamilies[at[Reflector]]
        /\ pc[Reflector] = "read"
    BY <1>3, CountsType DEF ReadCutoff, Typed, TypeOK
  <2> QED
    BY <1>2, <2>1 DEF CutoffIffOver, FamilyOver, StoreOver
<1>4. CASE ~ ReadCutoff(Reflector)
  <2>1. pc[Reflector] = "set" /\ UNCHANGED <<at[Reflector], seen[Reflector]>>
    <3>1. CASE Cluster \/ List \/ ReplaceDone \/ WatchExpired
      BY <3>1 DEF Cluster, ClusterWrite, ClusterDelete, List, ReplaceDone, WatchExpired
    <3>2. ~ WatchEvent /\ ~ (\E u \in UIDs : ReplaceItem(u)) /\ ~ RenderFamily
      BY CountsType DEF WatchEvent, ReplaceItem, Call, RenderFamily, Typed, TypeOK
    <3>3. ASSUME NEW t \in Checkers, StartCheck(t)
          PROVE  UNCHANGED <<pc[Reflector], at[Reflector], seen[Reflector]>>
      BY <3>3, NamesAssumption, CountsType DEF StartCheck, Typed, TypeOK, Threads
    <3>4. ASSUME NEW t \in Threads, t # Reflector, Apply(t)
          PROVE  UNCHANGED <<pc[Reflector], at[Reflector], seen[Reflector]>>
      BY <3>4, CountsType DEF Apply, CheckThresholds, ReadCutoff, SetCutoff, Typed, TypeOK
    <3>5. ~ CheckThresholds(Reflector) /\ ~ SetCutoff(Reflector)
      BY CountsType DEF CheckThresholds, SetCutoff, Finished, Typed, TypeOK
    <3>6. CASE UNCHANGED vars
      BY <3>6 DEF vars
    <3> QED
      BY <1>1, <1>4, <3>1, <3>2, <3>3, <3>4, <3>5, <3>6 DEF Next, Reflect, Track, Apply
  <2> QED
    BY <1>2, <2>1 DEF SeenIsDecision, FamilyOver, StoreOver
<1> QED
  BY <1>3, <1>4

\* Every step keeps the bound of every family with a limit.
LEMMA NextBounded ==
    /\ Typed /\ TotalsMatchObjects /\ MetricsOfTracked /\ SeenIsDecision
    /\ AllBounded /\ [Next]_vars
    => AllBounded'
<1> SUFFICES ASSUME Typed, TotalsMatchObjects, MetricsOfTracked, SeenIsDecision, [Next]_vars,
                    NEW f \in Family, FamilyThreshold[f] > 0, Bounded(f)
             PROVE  Bounded(f)'
  BY DEF AllBounded
<1>1. ASSUME UNCHANGED <<metrics, cutoff, rendered, pc[Reflector], at[Reflector]>>
      PROVE  Bounded(f)'
  BY <1>1, BoundKept DEF Rendered, Unflagged
<1>2. CASE Cluster
  BY <1>1, <1>2 DEF Cluster, ClusterWrite, ClusterDelete
<1>3. CASE List \/ ReplaceDone \/ WatchExpired
  BY <1>1, <1>3 DEF List, ReplaceDone, WatchExpired
<1>4. CASE WatchEvent
  <2>1. Head(events) \in Calls
    BY <1>4 DEF WatchEvent, Typed, TypeOK
  <2> QED
    BY <1>4, <2>1, CallBounded DEF WatchEvent
<1>5. ASSUME NEW u \in UIDs, ReplaceItem(u) PROVE Bounded(f)'
  <2>1. [kind |-> "add", uid |-> u, counts |-> listed[u]] \in Calls
    BY <1>5 DEF ReplaceItem, Typed, TypeOK, Calls, Kinds
  <2> QED
    BY <1>5, <2>1, CallBounded DEF ReplaceItem
<1>6. ASSUME NEW t \in Checkers, StartCheck(t) PROVE Bounded(f)'
  <2>1. UNCHANGED pc[Reflector]
    BY <1>6, NamesAssumption, CountsType DEF StartCheck, Typed, TypeOK, Threads
  <2> QED
    BY <1>1, <1>6, <2>1 DEF StartCheck
<1>7. ASSUME NEW t \in Threads, CheckThresholds(t) PROVE Bounded(f)'
  <2>1. CASE t = Reflector
    <3>1. ~ Rendered(f)' /\ Unflagged(f)'
      BY <1>7, <2>1, CountsType
      DEF CheckThresholds, Rendered, Unflagged, Typed, TypeOK, Family
    <3> QED
      BY <1>7, <3>1, BoundKept DEF CheckThresholds
  <2>2. CASE t # Reflector
    BY <1>1, <1>7, <2>2, CountsType DEF CheckThresholds, Typed, TypeOK
  <2> QED
    BY <2>1, <2>2
<1>8. ASSUME NEW t \in Threads, ReadCutoff(t) PROVE Bounded(f)'
  <2>1. (Rendered(f)' <=> Rendered(f)) /\ (Unflagged(f)' <=> Unflagged(f))
    BY <1>8, CountsType DEF ReadCutoff, Rendered, Unflagged, Typed, TypeOK
  <2> QED
    BY <1>8, <2>1, BoundKept DEF ReadCutoff
<1>9. CASE UNCHANGED vars
  BY <1>1, <1>9 DEF vars
<1> QED
  BY <1>2, <1>3, <1>4, <1>5, <1>6, <1>7, <1>8, <1>9, RenderBounded, TrackBounded, SetBounded
  DEF Next, Reflect, Track, Apply

\* Initially nothing is shown.
LEMMA InitBounded == Init => SeenIsDecision /\ AllBounded
<1> SUFFICES ASSUME Init PROVE SeenIsDecision /\ AllBounded
  OBVIOUS
<1>1. pc[Reflector] = "idle" /\ DOMAIN metrics = {}
  BY CountsType DEF Init
<1>2. ASSUME NEW f \in Family PROVE Bounded(f)
  <2>1. FamilySamples(metrics, f) = {}
    BY <1>1 DEF FamilySamples, Pairs
  <2>2. Shown(f) = 0
    BY <2>1, FS_EmptySet DEF Shown
  <2>3. /\ FamilyThreshold[f] \in Nat /\ MaxSamples \in Nat /\ Cardinality(Spent(f)) \in Nat
        /\ Allowed(f) \in Nat
    BY AllowedType
  <2>4. MaxSamples <= (1 + Cardinality(Spent(f))) * MaxSamples
    BY <2>3, RoomForMore
  <2>5. (1 + Cardinality(Spent(f))) * MaxSamples \in Nat
    BY <2>3
  <2> QED
    BY <1>1, <2>2, <2>3, <2>4, <2>5 DEF Bounded, Rendered, Allowed
<1> QED
  BY <1>1, <1>2 DEF SeenIsDecision, AllBounded

\* store.go:90-94: enforcement is soft, but what a scrape shows of a family is at
\* most its limit, the object that tipped the total over it, and one object for
\* each goroutine that may have written back a flag it had read before.
THEOREM OvershootAlwaysBounded == Spec => []OvershootBounded
<1> DEFINE IInv == /\ Typed /\ TotalsMatchObjects /\ RenderInv /\ CutoffIffOver
                   /\ SeenIsDecision /\ AllBounded
<1>1. Init => IInv
  <2> SUFFICES ASSUME Init PROVE RenderInv
    BY InitTyped, InitTotals, InitCutoff, InitBounded
  <2>1. pc[Reflector] = "idle" /\ DOMAIN metrics = {} /\ DOMAIN perObject = {}
    BY CountsType DEF Init
  <2> QED
    BY <2>1 DEF RenderInv, RenderedOfCall, MetricsOfTracked
<1>2. IInv /\ [Next]_vars => IInv'
  BY NextTyped, NextTotals, NextRendered, NextMetrics, NextCutoff, NextSeen, NextBounded
  DEF RenderInv
<1>3. IInv => OvershootBounded
  <2> SUFFICES ASSUME IInv, NEW f \in Family, FamilyThreshold[f] > 0
               PROVE  Shown(f) <= FamilyThreshold[f] + (1 + Cardinality(Checkers)) * MaxSamples
    BY DEF OvershootBounded, Shown
  <2>1. Shown(f) <= Allowed(f) /\ Shown(f) \in Nat
    BY BoundedTypes DEF AllBounded, Bounded, Typed
  <2>2. /\ FamilyThreshold[f] \in Nat /\ MaxSamples \in Nat
        /\ Cardinality(Spent(f)) \in Nat /\ Allowed(f) \in Nat
    BY AllowedType
  <2>3. Cardinality(Spent(f)) <= Cardinality(Checkers) /\ Cardinality(Checkers) \in Nat
    <3>1. Spent(f) \subseteq Checkers
      BY DEF Spent
    <3> QED
      BY <3>1, NamesAssumption, FS_Subset, FS_CardinalityType
  <2>4. (1 + Cardinality(Spent(f))) * MaxSamples <= (1 + Cardinality(Checkers)) * MaxSamples
    BY <2>2, <2>3, RoomForMore
  <2>5. /\ (1 + Cardinality(Spent(f))) * MaxSamples \in Nat
        /\ (1 + Cardinality(Checkers)) * MaxSamples \in Nat
    BY <2>2, <2>3
  <2> QED
    BY <2>1, <2>2, <2>4, <2>5 DEF Allowed
<1> QED
  BY <1>1, <1>2, <1>3, PTL DEF Spec

----------------------------------------------------------------------------
(* The soft limits.  Only a check marks a family, and only one that is over; *)
(* everything else copies marks from one place to another or drops them.     *)

\* A thread is about to write f's flag.
Writing(f) == \E t \in Threads : pc[t] = "set" /\ at[t] = f /\ seen[t]

\* The instance counts as the store does.
LEMMA SameSize == \A S : Limits!Cardinality(S) = Cardinality(S)
  BY DEF Limits!Cardinality, Cardinality, Limits!IsFiniteSet, IsFiniteSet

\* The abstract counts are the tracker's totals.
LEMMA LimitsOver ==
    ASSUME TotalsMatchObjects, NEW f \in Family
    PROVE  Limits!Over(f) <=> FamilyOver(f) \/ StoreOver
<1>1. perFamily[f] = Limits!InFamily(f)
  <2>1. perFamily[f] = Cardinality(FamilySamples(perObject, f))
    BY DEF TotalsMatchObjects
  <2>2. Pairs([k \in DOMAIN [u \in DOMAIN perObject |-> perObject[u][f]] |->
                  1 .. [u \in DOMAIN perObject |-> perObject[u][f]][k]], 1 .. MaxSamples)
          = FamilySamples(perObject, f)
    BY DEF FamilySamples, Pairs
  <2> QED
    BY <2>1, <2>2, SameSize DEF Limits!InFamily, Limits!SumOf, SumOf, Limits!Pairs, Pairs
<1>2. storeTotal = Limits!InStore
  <2>1. storeTotal = Cardinality(TrackedSamples)
    BY DEF TotalsMatchObjects
  <2>2. {s \in (DOMAIN perObject) \X (Family \X (1 .. MaxSamples)) :
            s[2][2] <= perObject[s[1]][s[2][1]]} = TrackedSamples
    BY DEF TrackedSamples, Pairs, Samples
  <2> QED
    BY <2>1, <2>2, SameSize DEF Limits!InStore
<1> QED
  BY <1>1, <1>2 DEF Limits!Over, FamilyOver, StoreOver

\* A family is left out of the object being added because its flag was set.
LEMMA LeftOutByFlag ==
    ASSUME Typed, [Next]_vars, NEW f \in Family, LeftOut(f)'
    PROVE  LeftOut(f) \/ cutoff[f]
<1>1. ASSUME NEW c \in Calls, Call(c) PROVE FALSE
  BY <1>1, CountsType DEF Call, LeftOut, Typed, TypeOK, Family
<1>2. CASE RenderFamily
  <2>1. pc[Reflector] = "render" /\ op.kind = "add" /\ UNCHANGED op
    BY <1>2 DEF RenderFamily, LeftOut
  <2>2. rendered \in Counts /\ at[Reflector] \in Family
    BY CountsType DEF Typed, TypeOK
  <2>3. rendered'[f] = IF f = at[Reflector] THEN Rendering(f) ELSE rendered[f]
    BY <1>2, <2>2 DEF RenderFamily, Counts
  <2>4. f # at[Reflector] => f < at[Reflector]
    BY <1>2, <2>2, CountsType, SizesAssumption
    DEF RenderFamily, Last, LeftOut, Typed, TypeOK, Family
  <2> QED
    BY <2>1, <2>3, <2>4 DEF LeftOut, Rendering
<1>3. CASE TrackAdd \/ TrackDelete
  BY <1>3, CountsType DEF TrackAdd, TrackDelete, LeftOut, Typed, TypeOK
<1>4. CASE Cluster \/ List \/ ReplaceDone \/ WatchExpired
  BY <1>4
  DEF Cluster, ClusterWrite, ClusterDelete, List, ReplaceDone, WatchExpired, LeftOut
<1>5. CASE WatchEvent
  <2>1. Head(events) \in Calls
    BY <1>5 DEF WatchEvent, Typed, TypeOK
  <2> QED
    BY <1>1, <1>5, <2>1 DEF WatchEvent
<1>6. ASSUME NEW u \in UIDs, ReplaceItem(u) PROVE FALSE
  <2>1. AddOf(u, listed[u]) \in Calls
    BY <1>6 DEF ReplaceItem, Typed, TypeOK, Calls, Kinds, AddOf
  <2> QED
    BY <1>1, <1>6, <2>1 DEF ReplaceItem, AddOf
<1>7. ASSUME NEW t \in Checkers, StartCheck(t) PROVE LeftOut(f)
  <2>1. pc'[Reflector] = pc[Reflector]
    BY <1>7, NamesAssumption, CountsType DEF StartCheck, Typed, TypeOK, Threads
  <2> QED
    BY <1>7, <2>1 DEF StartCheck, LeftOut
<1>8. ASSUME NEW t \in Threads, Apply(t) PROVE LeftOut(f)
  <2>1. t # Reflector
    BY <1>8, CountsType
    DEF Apply, CheckThresholds, ReadCutoff, SetCutoff, Finished, LeftOut, Typed, TypeOK
  <2>2. /\ pc'[Reflector] = pc[Reflector] /\ at'[Reflector] = at[Reflector]
        /\ UNCHANGED <<op, rendered>>
    BY <1>8, <2>1, CountsType
    DEF Apply, CheckThresholds, ReadCutoff, SetCutoff, Typed, TypeOK
  <2> QED
    BY <2>2 DEF LeftOut
<1>9. CASE UNCHANGED vars
  BY <1>9 DEF vars, LeftOut
<1> QED
  BY <1>2, <1>3, <1>4, <1>5, <1>6, <1>7, <1>8, <1>9 DEF Next, Reflect, Track

\* Flags are set from values read, values are read from the tracker.
LEMMA FlagsCopied ==
    ASSUME Typed, [Next]_vars, NEW f \in Family
    PROVE  /\ cutoff'[f] => cutoff[f] \/ Writing(f)
           /\ Writing(f)' => Writing(f) \/ cutoffFamilies[f]
<1>1. ASSUME NEW t \in Threads, ReadCutoff(t)
      PROVE  UNCHANGED cutoff /\ (Writing(f)' => Writing(f) \/ cutoffFamilies[f])
  <2>1. ASSUME NEW s \in Threads, pc'[s] = "set" /\ at'[s] = f /\ seen'[s]
        PROVE  Writing(f) \/ cutoffFamilies[f]
    BY <1>1, <2>1 DEF ReadCutoff, Writing, Typed, TypeOK
  <2> QED
    BY <1>1, <2>1 DEF ReadCutoff, Writing
<1>2. ASSUME NEW t \in Threads, SetCutoff(t)
      PROVE  /\ cutoff'[f] => cutoff[f] \/ Writing(f)
             /\ Writing(f)' => Writing(f)
  <2>1. cutoff'[f] => cutoff[f] \/ Writing(f)
    BY <1>2 DEF SetCutoff, Writing, Typed, TypeOK
  <2>2. ASSUME NEW s \in Threads, pc'[s] = "set" /\ at'[s] = f /\ seen'[s]
        PROVE  Writing(f)
    BY <1>2, <2>2 DEF SetCutoff, Finished, Writing, Typed, TypeOK
  <2> QED
    BY <2>1, <2>2 DEF Writing
<1>3. ASSUME UNCHANGED <<cutoff, seen>>,
             \A s \in Threads : pc'[s] = "set" => pc[s] = "set" /\ at'[s] = at[s]
      PROVE  UNCHANGED cutoff /\ (Writing(f)' => Writing(f))
  BY <1>3 DEF Writing
<1>4. CASE Cluster \/ List \/ ReplaceDone \/ WatchExpired
  BY <1>3, <1>4
  DEF Cluster, ClusterWrite, ClusterDelete, List, ReplaceDone, WatchExpired
<1>5. CASE Track \/ WatchEvent \/ \E u \in UIDs : ReplaceItem(u)
  BY <1>3, <1>5, CountsType
  DEF Track, RenderFamily, TrackAdd, TrackDelete, WatchEvent, ReplaceItem, Call, Typed, TypeOK
<1>6. ASSUME NEW t \in Threads, StartCheck(t) \/ CheckThresholds(t)
      PROVE  UNCHANGED cutoff /\ (Writing(f)' => Writing(f))
  BY <1>3, <1>6 DEF StartCheck, CheckThresholds, Typed, TypeOK
<1>7. CASE UNCHANGED vars
  BY <1>3, <1>7 DEF vars
<1> QED
  BY <1>1, <1>2, <1>4, <1>5, <1>6, <1>7 DEF Next, Reflect, Apply, Threads

\* Only a check writes the tracker's marks.
LEMMA MarksUnchanged ==
    ASSUME [Next]_vars, ~ \E t \in Threads : CheckThresholds(t)
    PROVE  UNCHANGED cutoffFamilies
  BY DEF Next, Cluster, ClusterWrite, ClusterDelete, Reflect, List, ReplaceDone, WatchEvent,
         ReplaceItem, WatchExpired, Track, RenderFamily, TrackAdd, TrackDelete, StartCheck,
         Apply, ReadCutoff, SetCutoff, vars

\* No family is marked anew but by a check that finds it over.
LEMMA NextMarked ==
    ASSUME Typed, TotalsMatchObjects, [Next]_vars
    PROVE  Marked' \subseteq Marked \cup {f \in Family : Limits!Over(f)}
<1> SUFFICES ASSUME NEW f \in Family, f \in Marked'
             PROVE  f \in Marked \/ Limits!Over(f)
  BY DEF Marked
<1>1. f \in Marked <=> cutoffFamilies[f] \/ cutoff[f] \/ LeftOut(f) \/ Writing(f)
  BY DEF Marked, Writing
<1>2. cutoffFamilies'[f] \/ cutoff'[f] \/ LeftOut(f)' \/ Writing(f)'
  BY DEF Marked, Writing
<1>3. cutoffFamilies'[f] => cutoffFamilies[f] \/ Limits!Over(f)
  <2>1. ASSUME NEW t \in Threads, CheckThresholds(t)
        PROVE  cutoffFamilies'[f] => cutoffFamilies[f] \/ Limits!Over(f)
    BY <2>1, LimitsOver DEF CheckThresholds, Decision
  <2> QED
    BY <2>1, MarksUnchanged
<1> QED
  BY <1>1, <1>2, <1>3, LeftOutByFlag, FlagsCopied

\* A call is tracked without a check or a mark.
LEMMA TrackMarked ==
    ASSUME Typed, TotalsMatchObjects, TrackAdd \/ TrackDelete
    PROVE  /\ Marked' \subseteq Marked
           /\ TrackDelete => Marked' = Marked
<1>1. \A f \in Family : ~ LeftOut(f)'
  BY CountsType DEF TrackAdd, TrackDelete, LeftOut, Typed, TypeOK
<1>2. \A t \in Threads : pc'[t] = "set" <=> pc[t] = "set"
  BY CountsType DEF TrackAdd, TrackDelete, Typed, TypeOK
<1>3. UNCHANGED <<cutoffFamilies, cutoff, at, seen>>
  BY DEF TrackAdd, TrackDelete
<1>4. TrackDelete => \A f \in Family : ~ LeftOut(f)
  BY DEF TrackDelete, LeftOut
<1> QED
  BY <1>1, <1>2, <1>3, <1>4 DEF Marked

\* Every step keeps the promise: a tracked call adds or removes an object, any
\* other marks at most families that are over.
LEMMA LimitsRefined ==
    Typed /\ TotalsMatchObjects /\ RenderInv /\ [Next]_vars
        => [Limits!Next]_<<perObject, metrics, Marked>>
<1> SUFFICES ASSUME Typed, TotalsMatchObjects, RenderInv, [Next]_vars
             PROVE  Limits!Next \/ UNCHANGED <<perObject, metrics, Marked>>
  OBVIOUS
<1>1. CASE TrackAdd
  <2> DEFINE hidden == {f \in Family : rendered[f] # op.counts[f]}
             shown == [f \in Family |-> IF f \in hidden THEN 0 ELSE op.counts[f]]
  <2>1. op.uid \in UIDs /\ op.counts \in Counts /\ rendered \in Counts
    BY <1>1 DEF TrackAdd, Typed, TypeOK, CallInProgress, Calls
  <2>2. \A f \in Family : rendered[f] \in {0, op.counts[f]}
    BY <1>1 DEF TrackAdd, RenderInv, RenderedOfCall
  <2>3. rendered = shown
    BY <2>1, <2>2 DEF Counts
  <2>4. hidden \in SUBSET Marked
    BY <1>1 DEF TrackAdd, Marked, LeftOut
  <2>5. metrics' = Put(metrics, op.uid, shown) /\ perObject' = Put(perObject, op.uid, op.counts)
    BY <1>1, <2>3 DEF TrackAdd
  <2>6. Marked' \in SUBSET Marked
    BY <1>1, TrackMarked
  <2>7. Limits!Add(op.uid, op.counts)
    <3> HIDE DEF hidden
    <3> QED
      BY <2>4, <2>5, <2>6 DEF Limits!Add, Limits!Put, Put
  <2> QED
    BY <2>1, <2>7 DEF Limits!Next
<1>2. CASE TrackDelete
  <2>1. op.uid \in UIDs
    BY <1>2 DEF TrackDelete, Typed, CallInProgress, Calls
  <2>2. Marked' = Marked
    BY <1>2, TrackMarked
  <2>3. Limits!Remove(op.uid)
    BY <1>2, <2>2 DEF TrackDelete, Limits!Remove, Limits!Without, Without
  <2> QED
    BY <2>1, <2>3 DEF Limits!Next
<1>3. CASE ~ TrackAdd /\ ~ TrackDelete
  <2>1. Limits!Mark
    BY <1>3, TablesUnchanged, NextMarked DEF Limits!Mark
  <2> QED
    BY <2>1 DEF Limits!Next
<1> QED
  BY <1>1, <1>2, <1>3

\* Nothing is tracked, shown or marked at first.
LEMMA LimitsInit == Init => Limits!Init
<1> SUFFICES ASSUME Init PROVE Limits!Init
  OBVIOUS
<1>1. \A t \in Threads : pc[t] \in {"idle", "waiting"}
  BY DEF Init
<1>2. Marked = {}
  BY <1>1, CountsType DEF Init, Marked, LeftOut
<1> QED
  BY <1>2 DEF Init, Limits!Init

\* store.go:90-94, cardinality.go:165-232: the store with its tracker, its flags
\* and the goroutines that race on them implements soft limits: objects are
\* counted in full, and a family is left out of what is shown only after it, or
\* the store, has been over its limit.
THEOREM SoftLimitsImplemented == Spec => ImplementsSoftLimits
<1>1. Init => Limits!Init
  BY LimitsInit
<1>2. Init => Typed /\ TotalsMatchObjects /\ RenderInv
  <2> SUFFICES ASSUME Init PROVE RenderInv
    BY InitTyped, InitTotals
  <2>1. pc[Reflector] = "idle"
    BY CountsType DEF Init
  <2>2. DOMAIN metrics = {} /\ DOMAIN perObject = {}
    BY DEF Init
  <2> QED
    BY <2>1, <2>2 DEF RenderInv, RenderedOfCall, MetricsOfTracked
<1>3. Typed /\ TotalsMatchObjects /\ RenderInv /\ [Next]_vars
          => (Typed /\ TotalsMatchObjects /\ RenderInv)'
  BY NextTyped, NextTotals, NextRendered, NextMetrics DEF RenderInv
<1>4. Typed /\ TotalsMatchObjects /\ RenderInv /\ [Next]_vars
          => [Limits!Next]_<<perObject, metrics, Marked>>
  BY LimitsRefined
<1> QED
  BY <1>1, <1>2, <1>3, <1>4, PTL DEF Spec, ImplementsSoftLimits, Limits!Spec, Limits!vars
=============================================================================
