------------------------------ MODULE Exposition -------------------------------
(***************************************************************************)
(* What a scrape of the main server sees (mainServer.build, metricsWriter) *)
(* while workers replace the stores of monitors in the map (events.go,     *)
(* config.go) and the reflectors of all stores, those of replaced builds   *)
(* included, add their objects (StoreType.Add): every add evaluates the    *)
(* families of its store one after the other with the store's lock held.   *)
(*                                                                         *)
(* A populated store has one object, whose contents are another version at *)
(* each add, and the text of a family is the question it answers, or       *)
(* nothing.  A reflector is named after its store.                         *)
(***************************************************************************)
EXTENDS Evaluation, Sequences, FiniteSets, Tables

CONSTANTS
    Monitors, Workers, Scrapers,
    NumStores,    \* the stores of a build
    Populated,    \* those of a build whose kind has an object
    NumFamilies,  \* the families of a store
    MaxBuilds,    \* bound: builds
    MaxAdds,      \* bound: objects handed to the stores
    None          \* no monitor, no text

Builds == 1 .. MaxBuilds
Stores == Builds \X (1 .. NumStores)

ASSUME SizesAssumption ==
    /\ NumStores \in Nat \ {0} /\ NumFamilies \in Nat \ {0}
    /\ Populated \subseteq 1 .. NumStores
    /\ MaxBuilds \in Nat /\ MaxAdds \in Nat \ {0}
ASSUME EvaluationAssumption ==
    /\ Callers = Stores
    /\ Families = 1 .. NumFamilies
    /\ Versions = 1 .. MaxAdds
ASSUME NoneAssumption == None \notin Monitors \cup Questions

VARIABLES
    map,          \* Controller.stores: monitor -> build
    builds,       \* the builds whose reflectors were started: of which monitor
    worker,       \* what each worker does to the map
    add,          \* the call of Add in each store
    metrics,      \* StoreType.metrics: by store, the texts of the object, or none
    scrape,       \* the handlers of the requests
    adds

expositionVars == <<map, builds, worker, add, metrics, scrape, adds>>
vars == <<expositionVars, evals>>

NoWork == [pc |-> "idle", monitor |-> None, build |-> 0]
NoAdd == [pc |-> "idle", version |-> 1, texts |-> <<>>, eval |-> 0]
NoScrape == [pc |-> "idle", due |-> {}, visited |-> {}, monitor |-> None, build |-> 0,
             store |-> 1, written |-> <<>>, writtenBuilds |-> {}]

Init ==
    /\ EvalInit
    /\ map = [m \in {} |-> 0]
    /\ builds = <<>>
    /\ worker = [w \in Workers |-> NoWork]
    /\ add = [r \in Stores |-> NoAdd]
    /\ metrics = [r \in Stores |-> <<>>]
    /\ scrape = [s \in Scrapers |-> NoScrape]
    /\ adds = 0

----------------------------------------------------------------------------
(* The workers: an add or update event, and a delete event.                *)

\* Range, while it runs, need not come to a key that was away.
TakenOut(m) ==
    /\ map' = Without(map, m)
    /\ scrape' = [s \in Scrapers |-> [scrape[s] EXCEPT !.due = @ \ {m}]]

\* processAddOrUpdate takes the monitor's stores out of the map and builds new ones,
\* whose reflectors run from then on to the end of the process ...
DropStores(w, m) ==
    /\ worker[w].pc = "idle"
    /\ Len(builds) < MaxBuilds
    /\ TakenOut(m)
    /\ builds' = Append(builds, m)
    /\ worker' = [worker EXCEPT ![w] =
                     [pc |-> "store", monitor |-> m, build |-> Len(builds) + 1]]
    /\ UNCHANGED <<add, metrics, adds, evals>>

\* ... and puts them in.
StoreBuild(w) ==
    /\ worker[w].pc = "store"
    /\ map' = Put(map, worker[w].monitor, worker[w].build)
    /\ worker' = [worker EXCEPT ![w] = NoWork]
    /\ UNCHANGED <<builds, add, metrics, scrape, adds, evals>>

\* processDelete.
DeleteStores(w, m) ==
    /\ worker[w].pc = "idle"
    /\ m \in DOMAIN map
    /\ TakenOut(m)
    /\ UNCHANGED <<builds, worker, add, metrics, adds, evals>>

----------------------------------------------------------------------------
(* A store's lock: sync.RWMutex. The readers a writer has kept out come in *)
(* when it unlocks, before the next writer.                                *)

StoreOf(s) == <<scrape[s].build, scrape[s].store>>
Reading(s, r) == scrape[s].pc = "write" /\ StoreOf(s) = r
NoReaders(r) == \A s \in Scrapers : ~Reading(s, r)
Admitted(r) ==
    [s \in Scrapers |-> IF scrape[s].pc = "lock" /\ StoreOf(s) = r
                        THEN [scrape[s] EXCEPT !.pc = "write"] ELSE scrape[s]]

----------------------------------------------------------------------------
(* A reflector: StoreType.Add, and Update, of the object it was sent.      *)

\* Mutant: the writer does not wait for the readers.
IgnoresReaders(r) == TRUE

MayLock(r) == NoReaders(r)

Lock(r) ==
    /\ r[1] \in DOMAIN builds /\ r[2] \in Populated
    /\ add[r].pc = "idle"
    /\ MayLock(r)
    /\ adds < MaxAdds
    /\ adds' = adds + 1
    /\ add' = [add EXCEPT ![r] = [NoAdd EXCEPT !.pc = "render", !.version = adds + 1]]
    /\ UNCHANGED <<map, builds, worker, metrics, scrape, evals>>

\* Mutant: families are counted from zero.
FromZero(r) == Len(add[r].texts)

NextFamily(r) == Len(add[r].texts) + 1

\* buildMetricString of the next family: its resolver is called ...
Evaluate(r) ==
    /\ add[r].pc = "render"
    /\ Len(add[r].texts) < NumFamilies
    /\ \E e \in Ids :
          /\ Start(e, r, [family |-> NextFamily(r), version |-> add[r].version])
          /\ add' = [add EXCEPT ![r].pc = "wait", ![r].eval = e]
    /\ UNCHANGED <<map, builds, worker, metrics, scrape, adds>>

Rendered(r, text) ==
    /\ add' = [add EXCEPT ![r].pc = "render", ![r].eval = 0, ![r].texts = Append(@, text)]
    /\ UNCHANGED <<map, builds, worker, metrics, scrape, adds>>

\* ... and returns.  An error and a timeout leave a family without a sample: the
\* mapping of an expression to itself is no number, a script gives none.
Returned(r) ==
    /\ add[r].pc = "wait"
    /\ \/ \E d \in Ids :
            /\ Receive(add[r].eval, d)
            /\ \E text \in {evals[d].question, None} : Rendered(r, text)
       \/ Timeout(add[r].eval) /\ Rendered(r, None)

\* The texts are put in the store, and the lock is released.
Unlock(r) ==
    /\ add[r].pc = "render"
    /\ Len(add[r].texts) = NumFamilies
    /\ metrics' = [metrics EXCEPT ![r] = add[r].texts]
    /\ add' = [add EXCEPT ![r] = NoAdd]
    /\ scrape' = Admitted(r)
    /\ UNCHANGED <<map, builds, worker, adds, evals>>

----------------------------------------------------------------------------
(* A scrape: the handler, and writeStores for each monitor.                *)

BeginScrape(s) ==
    /\ scrape[s].pc = "idle"
    /\ scrape' = [scrape EXCEPT ![s] = [NoScrape EXCEPT !.pc = "range", !.due = DOMAIN map]]
    /\ UNCHANGED <<map, builds, worker, add, metrics, adds, evals>>

Visiting(record, m) ==
    [record EXCEPT !.pc = "lock", !.due = record.due \ {m},
                   !.visited = record.visited \cup {m}, !.monitor = m, !.build = map[m]]

\* Range comes to the next monitor and loads what the map has for it now.
Visit(s, m) ==
    /\ scrape[s].pc = "range"
    /\ m \in DOMAIN map \ scrape[s].visited
    /\ scrape' = [scrape EXCEPT ![s] = Visiting(scrape[s], m)]
    /\ UNCHANGED <<map, builds, worker, add, metrics, adds, evals>>

ReadLock(s) ==
    /\ scrape[s].pc = "lock"
    /\ add[StoreOf(s)].pc = "idle"
    /\ scrape' = [scrape EXCEPT ![s].pc = "write"]
    /\ UNCHANGED <<map, builds, worker, add, metrics, adds, evals>>

\* The texts of one family, of every object; none when the store has no object.
WriteFamily(s) ==
    LET f == Len(scrape[s].written) + 1
        texts == metrics[StoreOf(s)]
    IN  /\ scrape[s].pc = "write"
        /\ f \in 1 .. NumFamilies
        /\ scrape' = [scrape EXCEPT
                ![s].written = Append(@, IF texts = <<>> THEN None ELSE texts[f]),
                ![s].writtenBuilds = @ \cup {scrape[s].build}]
        /\ UNCHANGED <<map, builds, worker, add, metrics, adds, evals>>

\* The list of stores that Range loaded.
NextBuild(s) == scrape[s].build

Following(record, build) ==
    [record EXCEPT !.pc = "lock", !.store = record.store + 1, !.build = build,
                   !.written = <<>>]

\* After the last store Range goes on.
Ranging(record) ==
    [NoScrape EXCEPT !.pc = "range", !.due = record.due, !.visited = record.visited]

NextStore(s) ==
    /\ scrape[s].pc = "write"
    /\ Len(scrape[s].written) = NumFamilies
    /\ scrape' = [scrape EXCEPT ![s] =
                     IF scrape[s].store = NumStores THEN Ranging(scrape[s])
                     ELSE Following(scrape[s], NextBuild(s))]
    /\ UNCHANGED <<map, builds, worker, add, metrics, adds, evals>>

\* A failed write ends the monitor's part, not the scrape.
WriteFails(s) ==
    /\ scrape[s].pc = "write"
    /\ scrape' = [scrape EXCEPT ![s] = Ranging(@)]
    /\ UNCHANGED <<map, builds, worker, add, metrics, adds, evals>>

\* Range has come to every key that was in the map all the while.
EndScrape(s) ==
    /\ scrape[s].pc = "range"
    /\ scrape[s].due = {}
    /\ scrape' = [scrape EXCEPT ![s] = NoScrape]
    /\ UNCHANGED <<map, builds, worker, add, metrics, adds, evals>>

----------------------------------------------------------------------------

Render(r) == Evaluate(r) \/ Returned(r) \/ Unlock(r)
Serve(s) == \/ \E m \in Monitors : Visit(s, m)
            \/ ReadLock(s) \/ WriteFamily(s) \/ NextStore(s) \/ WriteFails(s)
            \/ EndScrape(s)
Goroutine(e) == (Answer(e) \/ Send(e)) /\ UNCHANGED expositionVars

Next ==
    \/ \E w \in Workers : StoreBuild(w)
    \/ \E w \in Workers, m \in Monitors : DropStores(w, m) \/ DeleteStores(w, m)
    \/ \E r \in Stores : Lock(r) \/ Render(r)
    \/ \E e \in Ids : Goroutine(e)
    \/ \E s \in Scrapers : BeginScrape(s) \/ Serve(s)

Spec == Init /\ [][Next]_vars

\* Reflectors and handlers run, clients read what is written to them, and the
\* goroutines that are sure to end do. A script that nobody cancels is not.
FairSpec ==
    /\ Spec
    /\ \A r \in Builds \X Populated : WF_vars(Render(r))
    /\ \A s \in Scrapers : WF_vars(Serve(s))
    /\ \A e \in Ids : WF_vars(Ends(e) /\ Goroutine(e))

----------------------------------------------------------------------------
(* Properties.                                                             *)

Texts == Questions \cup {None}

TypeOK ==
    /\ DOMAIN map \subseteq Monitors
    /\ \A m \in DOMAIN map : map[m] \in DOMAIN builds /\ builds[map[m]] = m
    /\ builds \in Seq(Monitors) /\ Len(builds) <= MaxBuilds
    /\ worker \in [Workers -> [pc : {"idle", "store"},
                               monitor : Monitors \cup {None}, build : 0 .. MaxBuilds]]
    /\ add \in [Stores -> [pc : {"idle", "render", "wait"}, version : Versions,
                           texts : Seq(Texts), eval : 0 .. MaxGoroutines]]
    /\ metrics \in [Stores -> Seq(Texts)]
    /\ scrape \in [Scrapers -> [pc : {"idle", "range", "lock", "write"},
                                due : SUBSET Monitors, visited : SUBSET Monitors,
                                monitor : Monitors \cup {None}, build : 0 .. MaxBuilds,
                                store : 1 .. NumStores, written : Seq(Texts),
                                writtenBuilds : SUBSET Builds]]
    /\ adds \in 0 .. MaxAdds
    /\ evals \in [Ids -> Goroutines \cup {Gone}]

\* cel.go:109-145, starlark.go:105-122: whatever answers come late, each family of an
\* object has the text of its own expression or none, and all that have one are of
\* the same contents.
RenderedTogether ==
    \A r \in Stores : metrics[r] # <<>> =>
        /\ Len(metrics[r]) = NumFamilies
        /\ \E v \in Versions : \A f \in 1 .. NumFamilies :
              metrics[r][f] \in {[family |-> f, version |-> v], None}

\* server.go:182-198, writer.go:37-81: what a scrape writes of a monitor is of one of
\* its builds, and of each store what it has at one moment, between two calls of
\* Add, through any rebuilds and edits meanwhile.
ScrapedAtOnce ==
    \A s \in Scrapers :
        /\ \A b, c \in scrape[s].writtenBuilds : b = c
        /\ \A b \in scrape[s].writtenBuilds : builds[b] = scrape[s].monitor
        /\ scrape[s].pc = "write" =>
              \A f \in 1 .. Len(scrape[s].written) :
                 scrape[s].written[f] =
                    IF metrics[StoreOf(s)] = <<>> THEN None ELSE metrics[StoreOf(s)][f]

\* cel.go:116-144, starlark.go:112-122: the timers keep every scrape from waiting
\* forever for a store that evaluates, even a script that never ends.
ScrapesEnd == \A s \in Scrapers : scrape[s].pc # "idle" ~> scrape[s].pc = "idle"

\* cel.go:109-114, starlark.go:105-110, 119: no goroutine is left behind for good: the
\* channel has room for the answer of an evaluation whose caller went away, and
\* a script that goes on is cancelled.
GoroutinesEnd ==
    \A e \in Ids : evals[e] # Gone ~> evals[e] = Gone
================================================================================
