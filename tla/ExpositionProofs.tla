---------------------------- MODULE ExpositionProofs ----------------------------
(* What a store renders of an object and what a scrape writes of a monitor   *)
(* are of one moment, for any monitors, workers, stores, families and        *)
(* evaluations that answer late, or never.                                   *)
EXTENDS Exposition, TLAPS

\* A build that is about to be put in the map is one of its monitor.
MapOk ==
    /\ DOMAIN map \subseteq Monitors
    /\ \A m \in DOMAIN map : map[m] \in DOMAIN builds /\ builds[map[m]] = m
    /\ builds \in Seq(Monitors) /\ Len(builds) <= MaxBuilds
    /\ worker \in [Workers -> [pc : {"idle", "store"},
                               monitor : Monitors \cup {None}, build : 0 .. MaxBuilds]]
    /\ \A w \in Workers : worker[w].pc = "store" =>
          /\ worker[w].monitor \in Monitors
          /\ worker[w].build \in DOMAIN builds
          /\ builds[worker[w].build] = worker[w].monitor

\* A call of Add that waits does so for a goroutine of its own, which answers the
\* question of the family that is next.
Waiting(r) ==
    /\ add[r].eval \in Ids
    /\ evals[add[r].eval] # Gone
    /\ evals[add[r].eval].by = r
    /\ evals[add[r].eval].awaited
    /\ evals[add[r].eval].question =
          [family |-> Len(add[r].texts) + 1, version |-> add[r].version]

AddOk(r) ==
    /\ Len(add[r].texts) <= NumFamilies
    /\ \A f \in 1 .. Len(add[r].texts) :
          add[r].texts[f] \in {[family |-> f, version |-> add[r].version], None}
    /\ add[r].pc = "wait" => Len(add[r].texts) < NumFamilies /\ Waiting(r)

AddsOk ==
    /\ add \in [Stores -> [pc : {"idle", "render", "wait"}, version : Versions,
                           texts : Seq(Texts), eval : 0 .. MaxGoroutines]]
    /\ adds \in 0 .. MaxAdds
    /\ evals \in [Ids -> Goroutines \cup {Gone}]
    /\ \A r \in Stores : AddOk(r)

MetricsOk == metrics \in [Stores -> Seq(Texts)] /\ RenderedTogether

\* A scrape that holds a store's lock has written what the store has.
ScrapeOk(s) ==
    /\ scrape[s].pc \in {"lock", "write"} =>
          /\ scrape[s].build \in DOMAIN builds
          /\ builds[scrape[s].build] = scrape[s].monitor
          /\ scrape[s].writtenBuilds \subseteq {scrape[s].build}
    /\ scrape[s].pc \notin {"lock", "write"} => scrape[s].writtenBuilds = {}
    /\ scrape[s].pc = "write" =>
          /\ add[StoreOf(s)].pc = "idle"
          /\ Len(scrape[s].written) <= NumFamilies
          /\ \A f \in 1 .. Len(scrape[s].written) :
                scrape[s].written[f] =
                    IF metrics[StoreOf(s)] = <<>> THEN None ELSE metrics[StoreOf(s)][f]
    /\ scrape[s].pc # "write" => scrape[s].written = <<>>

Scrape == [pc : {"idle", "range", "lock", "write"},
           due : SUBSET Monitors, visited : SUBSET Monitors,
           monitor : Monitors \cup {None}, build : 0 .. MaxBuilds,
           store : 1 .. NumStores, written : Seq(Texts), writtenBuilds : SUBSET Builds]

ScrapesOk == scrape \in [Scrapers -> Scrape] /\ \A s \in Scrapers : ScrapeOk(s)

IInv == MapOk /\ AddsOk /\ MetricsOk /\ ScrapesOk

Working == \/ \E w \in Workers : StoreBuild(w)
           \/ \E w \in Workers, m \in Monitors : DropStores(w, m) \/ DeleteStores(w, m)
Scraping == \E s \in Scrapers : BeginScrape(s) \/ Serve(s)

----------------------------------------------------------------------------
(* The invariant says what the properties say.                               *)

LEMMA InvariantImplies == IInv => TypeOK /\ RenderedTogether /\ ScrapedAtOnce
<1> SUFFICES ASSUME IInv PROVE TypeOK /\ RenderedTogether /\ ScrapedAtOnce
  OBVIOUS
<1>1. TypeOK
  BY DEF IInv, MapOk, AddsOk, MetricsOk, ScrapesOk, Scrape, TypeOK
<1>2. RenderedTogether
  BY DEF IInv, MetricsOk
<1>3. ASSUME NEW s \in Scrapers
      PROVE  /\ \A b, c \in scrape[s].writtenBuilds : b = c
             /\ \A b \in scrape[s].writtenBuilds : builds[b] = scrape[s].monitor
             /\ scrape[s].pc = "write" =>
                  \A f \in 1 .. Len(scrape[s].written) :
                     scrape[s].written[f] =
                        IF metrics[StoreOf(s)] = <<>> THEN None ELSE metrics[StoreOf(s)][f]
  <2>1. ScrapeOk(s)
    BY DEF IInv, ScrapesOk
  <2> QED
    BY <2>1 DEF ScrapeOk
<1> QED
  BY <1>1, <1>2, <1>3 DEF ScrapedAtOnce

\* It holds when nothing has been built, added or scraped.
LEMMA InitInvariant == Init => IInv
<1> SUFFICES ASSUME Init PROVE IInv
  OBVIOUS
<1> USE DEF Init
<1>1. MapOk
  <2>1. NoWork \in [pc : {"idle", "store"}, monitor : Monitors \cup {None}, build : 0 .. MaxBuilds]
        /\ NoWork.pc # "store"
    BY SizesAssumption DEF NoWork
  <2>2. DOMAIN map = {}
    OBVIOUS
  <2>3. builds \in Seq(Monitors) /\ Len(builds) <= MaxBuilds
    BY SizesAssumption
  <2> QED
    BY <2>1, <2>2, <2>3 DEF MapOk
<1>2. AddsOk
  <2>1. NoAdd \in [pc : {"idle", "render", "wait"}, version : Versions,
                   texts : Seq(Texts), eval : 0 .. MaxGoroutines]
    BY SizesAssumption, EvaluationAssumption, GoroutinesAssumption DEF NoAdd
  <2>2. \A r \in Stores : AddOk(r)
    BY SizesAssumption DEF AddOk, NoAdd
  <2> QED
    BY <2>1, <2>2, SizesAssumption DEF AddsOk, EvalInit
<1>3. MetricsOk
  BY DEF MetricsOk, RenderedTogether
<1>4. ScrapesOk
  <2>1. NoScrape \in Scrape
    BY SizesAssumption DEF NoScrape, Scrape
  <2>2. \A s \in Scrapers : ScrapeOk(s)
    BY DEF ScrapeOk, NoScrape
  <2> QED
    BY <2>1, <2>2 DEF ScrapesOk
<1> QED
  BY <1>1, <1>2, <1>3, <1>4 DEF IInv

----------------------------------------------------------------------------
(* The map: the workers alone change it.                                     *)

LEMMA NextMap == IInv /\ [Next]_vars => MapOk'
<1> SUFFICES ASSUME IInv, [Next]_vars PROVE MapOk'
  OBVIOUS
<1>1. MapOk
  BY DEF IInv
<1>2. ASSUME NEW w \in Workers, NEW m \in Monitors, DropStores(w, m) PROVE MapOk'
  <2>1. /\ builds' = Append(builds, m)
        /\ map' = Without(map, m)
        /\ worker' = [worker EXCEPT ![w] =
                         [pc |-> "store", monitor |-> m, build |-> Len(builds) + 1]]
        /\ Len(builds) < MaxBuilds
    BY <1>2 DEF DropStores, TakenOut
  <2>2. /\ builds' \in Seq(Monitors) /\ Len(builds') = Len(builds) + 1
        /\ DOMAIN builds \subseteq DOMAIN builds' /\ Len(builds) + 1 \in DOMAIN builds'
        /\ builds'[Len(builds) + 1] = m
        /\ \A b \in DOMAIN builds : builds'[b] = builds[b]
    BY <1>1, <2>1 DEF MapOk
  <2>3. Len(builds) + 1 \in 0 .. MaxBuilds
    BY <1>1, <2>1, SizesAssumption DEF MapOk
  <2>4. /\ DOMAIN map' \subseteq Monitors
        /\ \A n \in DOMAIN map' : map'[n] \in DOMAIN builds' /\ builds'[map'[n]] = n
    BY <1>1, <2>1, <2>2 DEF MapOk, Without
  <2>5. worker' \in [Workers -> [pc : {"idle", "store"},
                                 monitor : Monitors \cup {None}, build : 0 .. MaxBuilds]]
    BY <1>1, <2>1, <2>3 DEF MapOk
  <2>6. \A v \in Workers : worker'[v].pc = "store" =>
            /\ worker'[v].monitor \in Monitors
            /\ worker'[v].build \in DOMAIN builds'
            /\ builds'[worker'[v].build] = worker'[v].monitor
    BY <1>1, <2>1, <2>2 DEF MapOk
  <2> QED
    BY <2>1, <2>2, <2>4, <2>5, <2>6, <1>1, SizesAssumption DEF MapOk
<1>3. ASSUME NEW w \in Workers, StoreBuild(w) PROVE MapOk'
  BY <1>1, <1>3, SizesAssumption DEF MapOk, StoreBuild, Put, NoWork
<1>4. ASSUME NEW w \in Workers, NEW m \in Monitors, DeleteStores(w, m) PROVE MapOk'
  BY <1>1, <1>4 DEF MapOk, DeleteStores, TakenOut, Without
<1>5. ASSUME UNCHANGED <<map, builds, worker>> PROVE MapOk'
  BY <1>1, <1>5 DEF MapOk
<1>6. ASSUME NEW r \in Stores, Lock(r) \/ Render(r) PROVE UNCHANGED <<map, builds, worker>>
  BY <1>6 DEF Lock, Render, Evaluate, Returned, Rendered, Unlock
<1>7. ASSUME NEW e \in Ids, Goroutine(e) PROVE UNCHANGED <<map, builds, worker>>
  BY <1>7 DEF Goroutine, expositionVars
<1>8. ASSUME Scraping PROVE UNCHANGED <<map, builds, worker>>
  BY <1>8 DEF Scraping, BeginScrape, Serve, Visit, ReadLock, WriteFamily, NextStore,
     WriteFails, EndScrape
<1> QED
  BY <1>2, <1>3, <1>4, <1>5, <1>6, <1>7, <1>8 DEF Next, Scraping, vars, expositionVars

----------------------------------------------------------------------------
(* The calls of Add and their goroutines.                                    *)

LEMMA NextAdds == IInv /\ [Next]_vars => AddsOk'
<1> SUFFICES ASSUME IInv, [Next]_vars PROVE AddsOk'
  OBVIOUS
<1>1. AddsOk
  BY DEF IInv
<1> DEFINE Add == [pc : {"idle", "render", "wait"}, version : Versions,
                   texts : Seq(Texts), eval : 0 .. MaxGoroutines]
<1>2. /\ add \in [Stores -> Add] /\ adds \in 0 .. MaxAdds
      /\ evals \in [Ids -> Goroutines \cup {Gone}]
      /\ \A r \in Stores : AddOk(r)
  BY <1>1 DEF AddsOk
<1>3. ASSUME NEW r \in Stores, Lock(r) PROVE AddsOk'
  <2>1. /\ add' = [add EXCEPT ![r] = [NoAdd EXCEPT !.pc = "render", !.version = adds + 1]]
        /\ adds < MaxAdds /\ adds' = adds + 1 /\ evals' = evals
    BY <1>3 DEF Lock
  <2>2. adds + 1 \in Versions /\ adds' \in 0 .. MaxAdds
    BY <1>2, <2>1, EvaluationAssumption, SizesAssumption
  <2>3. add'[r] = [pc |-> "render", version |-> adds + 1, texts |-> <<>>, eval |-> 0]
    BY <1>2, <2>1 DEF NoAdd
  <2>4. add' \in [Stores -> Add]
    <3> DEFINE one == [NoAdd EXCEPT !.pc = "render"]
               new == [one EXCEPT !.version = adds + 1]
    <3>1. one = [pc |-> "render", version |-> 1, texts |-> <<>>, eval |-> 0]
      BY DEF NoAdd
    <3> HIDE DEF one
    <3>2. new = [pc |-> "render", version |-> adds + 1, texts |-> <<>>, eval |-> 0]
      BY <3>1
    <3> HIDE DEF new
    <3>3. new \in Add
      BY <2>2, <3>2, GoroutinesAssumption
    <3>4. add' = [add EXCEPT ![r] = new]
      BY <2>1 DEF one, new
    <3> HIDE DEF Add
    <3> QED
      BY <1>2, <3>3, <3>4
  <2>5. AddOk(r)'
    BY <2>3, SizesAssumption DEF AddOk
  <2>6. \A q \in Stores \ {r} : AddOk(q)'
    BY <1>2, <2>1 DEF AddOk, Waiting
  <2> QED
    BY <1>2, <2>1, <2>2, <2>4, <2>5, <2>6 DEF AddsOk
<1>4. ASSUME NEW r \in Stores, Evaluate(r) PROVE AddsOk'
  <2>1. PICK e \in Ids :
            /\ Start(e, r, [family |-> NextFamily(r), version |-> add[r].version])
            /\ add' = [add EXCEPT ![r].pc = "wait", ![r].eval = e]
    BY <1>4 DEF Evaluate
  <2> DEFINE q == [family |-> NextFamily(r), version |-> add[r].version]
  <2>2. /\ add[r].pc = "render" /\ Len(add[r].texts) < NumFamilies /\ adds' = adds
        /\ evals[e] = Gone
        /\ evals' = [evals EXCEPT ![e] =
                        [pc |-> "running", by |-> r, question |-> q, awaited |-> TRUE]]
    BY <1>4, <2>1 DEF Evaluate, Start
  <2>3. add[r] \in Add
    BY <1>2
  <2>4. q \in Questions
    BY <2>2, <2>3, EvaluationAssumption, SizesAssumption DEF Questions, NextFamily
  <2> HIDE DEF q
  <2>5. evals' \in [Ids -> Goroutines \cup {Gone}]
    <3>1. [pc |-> "running", by |-> r, question |-> q, awaited |-> TRUE] \in Goroutines
      BY <2>4, EvaluationAssumption DEF Goroutines
    <3> QED
      BY <1>2, <2>2, <3>1
  <2>6. /\ add'[r].pc = "wait" /\ add'[r].eval = e /\ add'[r].texts = add[r].texts
        /\ add'[r].version = add[r].version
        /\ \A p \in Stores \ {r} : add'[p] = add[p]
    BY <1>2, <2>1
  <2>7. add' \in [Stores -> Add]
    <3> DEFINE one == [add[r] EXCEPT !.pc = "wait"]
               new == [one EXCEPT !.eval = e]
    <3>1. one \in Add
      BY <2>3
    <3>2. add' = [add EXCEPT ![r] = new]
      BY <1>2, <2>1
    <3> HIDE DEF one
    <3>3. new \in Add
      BY <3>1, GoroutinesAssumption DEF Ids
    <3> HIDE DEF Add, new
    <3> QED
      BY <1>2, <3>2, <3>3
  <2>8. evals'[e] = [pc |-> "running", by |-> r, question |-> q, awaited |-> TRUE]
        /\ \A d \in Ids \ {e} : evals'[d] = evals[d]
    BY <1>2, <2>2
  <2>9. AddOk(r)'
    <3>1. evals'[e] # Gone
      BY <2>8 DEF Gone
    <3>2. q = [family |-> Len(add[r].texts) + 1, version |-> add[r].version]
      BY DEF q, NextFamily
    <3> QED
      BY <1>2, <2>2, <2>6, <2>8, <3>1, <3>2 DEF AddOk, Waiting
  <2>10. \A p \in Stores \ {r} : AddOk(p)'
    <3> SUFFICES ASSUME NEW p \in Stores \ {r} PROVE AddOk(p)'
      OBVIOUS
    <3>1. AddOk(p) /\ add'[p] = add[p]
      BY <1>2, <2>6
    <3>2. add[p].pc = "wait" => add[p].eval \in Ids \ {e}
      BY <2>2, <3>1 DEF AddOk, Waiting
    <3> QED
      BY <2>8, <3>1, <3>2 DEF AddOk, Waiting
  <2> QED
    BY <1>2, <2>2, <2>5, <2>7, <2>9, <2>10 DEF AddsOk
<1>5. ASSUME NEW r \in Stores, Returned(r) PROVE AddsOk'
  <2> DEFINE e == add[r].eval
  <2>0. /\ add[r] \in Add /\ AddOk(r) /\ add[r].pc = "wait" /\ adds' = adds
        /\ Len(add[r].texts) \in Nat
    BY <1>2, <1>5 DEF Returned, Rendered
  <2>1. /\ e \in Ids /\ evals[e] \in Goroutines /\ evals[e].by = r
        /\ Len(add[r].texts) < NumFamilies
        /\ evals[e].question =
               [family |-> Len(add[r].texts) + 1, version |-> add[r].version]
    BY <1>2, <2>0 DEF AddOk, Waiting
  <2>2. PICK text \in {evals[e].question, None} : Rendered(r, text)
    BY <1>5 DEF Returned, Receive, Channel
  <2>3. /\ evals' \in [Ids -> Goroutines \cup {Gone}]
        /\ \A d \in Ids \ {e} : evals'[d] = evals[d]
    <3>1. CASE \E d \in Ids : Receive(e, d)
      BY <1>2, <2>1, <3>1 DEF Receive, Channel
    <3>2. CASE Timeout(e)
      BY <1>2, <2>1, <3>2 DEF Timeout, Goroutines
    <3> QED
      BY <1>5, <3>1, <3>2 DEF Returned
  <2>4. text \in Texts
    BY <2>1, <2>2 DEF Goroutines, Texts
  <2>5. /\ add'[r].pc = "render" /\ add'[r].texts = Append(add[r].texts, text)
        /\ add'[r].version = add[r].version
        /\ \A p \in Stores \ {r} : add'[p] = add[p]
    BY <1>2, <2>2 DEF Rendered
  <2>6. add' \in [Stores -> Add]
    <3> DEFINE one == [add[r] EXCEPT !.pc = "render"]
               two == [one EXCEPT !.eval = 0]
               new == [two EXCEPT !.texts = Append(add[r].texts, text)]
    <3>1. Append(add[r].texts, text) \in Seq(Texts)
      BY <2>0, <2>4
    <3>2. add' = [add EXCEPT ![r] = new]
      BY <1>2, <2>2 DEF Rendered
    <3>3. one \in Add
      BY <2>0
    <3> HIDE DEF one
    <3>4. two \in Add
      BY <3>3, GoroutinesAssumption
    <3> HIDE DEF two
    <3>5. new \in Add
      BY <3>1, <3>4
    <3> HIDE DEF Add, new
    <3> QED
      BY <1>2, <3>2, <3>5
  <2>7. AddOk(r)'
    <3>1. /\ Len(add'[r].texts) = Len(add[r].texts) + 1
          /\ add'[r].texts[Len(add[r].texts) + 1] = text
          /\ \A f \in 1 .. Len(add[r].texts) : add'[r].texts[f] = add[r].texts[f]
      BY <2>0, <2>4, <2>5
    <3> QED
      BY <2>0, <2>1, <2>2, <2>5, <3>1, SizesAssumption DEF AddOk
  <2>8. \A p \in Stores \ {r} : AddOk(p)'
    <3> SUFFICES ASSUME NEW p \in Stores \ {r} PROVE AddOk(p)'
      OBVIOUS
    <3>1. AddOk(p)
      BY <1>2
    <3>2. add[p].pc = "wait" => add[p].eval \in Ids \ {e}
      BY <2>1, <3>1 DEF AddOk, Waiting
    <3> HIDE DEF e
    <3> QED
      BY <2>3, <2>5, <3>1, <3>2 DEF AddOk, Waiting
  <2> QED
    BY <1>2, <2>0, <2>3, <2>6, <2>7, <2>8 DEF AddsOk
<1>6. ASSUME NEW r \in Stores, Unlock(r) PROVE AddsOk'
  <2>1. add' = [add EXCEPT ![r] = NoAdd] /\ adds' = adds /\ evals' = evals
    BY <1>6 DEF Unlock
  <2>2. NoAdd \in Add
    BY GoroutinesAssumption, SizesAssumption, EvaluationAssumption DEF NoAdd
  <2>3. AddOk(r)'
    BY <1>2, <2>1, SizesAssumption DEF AddOk, NoAdd
  <2>4. \A q \in Stores \ {r} : AddOk(q)'
    BY <1>2, <2>1 DEF AddOk, Waiting
  <2> QED
    BY <1>2, <2>1, <2>2, <2>3, <2>4 DEF AddsOk
<1>7. ASSUME NEW e \in Ids, Goroutine(e) PROVE AddsOk'
  <2>1. add' = add /\ adds' = adds
    BY <1>7 DEF Goroutine, expositionVars
  <2>2. CASE Answer(e)
    <3>1. evals[e] # Gone /\ evals' = [evals EXCEPT ![e].pc = "sending"]
      BY <2>2 DEF Answer, Gone
    <3>2. evals[e] \in Goroutines
      BY <1>2, <3>1
    <3>3. /\ evals' \in [Ids -> Goroutines \cup {Gone}] /\ evals'[e].pc = "sending"
          /\ evals'[e].by = evals[e].by /\ evals'[e].question = evals[e].question
          /\ evals'[e].awaited = evals[e].awaited
          /\ \A d \in Ids \ {e} : evals'[d] = evals[d]
      BY <1>2, <3>1, <3>2 DEF Goroutines
    <3>4. evals'[e] # Gone
      BY <3>3 DEF Gone
    <3>5. \A p \in Stores : AddOk(p)'
      <4> SUFFICES ASSUME NEW p \in Stores PROVE AddOk(p)'
        OBVIOUS
      <4>1. AddOk(p)
        BY <1>2
      <4>2. Waiting(p) => Waiting(p)'
        BY <2>1, <3>3, <3>4 DEF Waiting
      <4> QED
        BY <2>1, <4>1, <4>2 DEF AddOk
    <3> QED
      BY <1>2, <2>1, <3>3, <3>5 DEF AddsOk
  <2>3. CASE Send(e)
    <3>1. /\ ~evals[e].awaited /\ evals' \in [Ids -> Goroutines \cup {Gone}]
          /\ \A d \in Ids \ {e} : evals'[d] = evals[d]
      BY <1>2, <2>3 DEF Send
    <3>2. \A p \in Stores : AddOk(p)'
      <4> SUFFICES ASSUME NEW p \in Stores PROVE AddOk(p)'
        OBVIOUS
      <4>1. AddOk(p)
        BY <1>2
      <4>2. Waiting(p) => Waiting(p)'
        BY <2>1, <3>1 DEF Waiting
      <4> QED
        BY <2>1, <4>1, <4>2 DEF AddOk
    <3> QED
      BY <1>2, <2>1, <3>1, <3>2 DEF AddsOk
  <2> QED
    BY <1>7, <2>2, <2>3 DEF Goroutine
<1>8. ASSUME UNCHANGED <<add, adds, evals>> PROVE AddsOk'
  BY <1>1, <1>8 DEF AddsOk, AddOk, Waiting
<1>9. ASSUME Scraping \/ Working PROVE UNCHANGED <<add, adds, evals>>
  BY <1>9 DEF Scraping, BeginScrape, Serve, Visit, ReadLock, WriteFamily, NextStore,
     WriteFails, EndScrape, Working, StoreBuild, DropStores, DeleteStores
<1> QED
  BY <1>3, <1>4, <1>5, <1>6, <1>7, <1>8, <1>9
     DEF Next, Render, Scraping, Working, vars, expositionVars

----------------------------------------------------------------------------
(* The stores: their texts change with the lock.                             *)

LEMMA NextMetrics == IInv /\ [Next]_vars => MetricsOk'
<1> SUFFICES ASSUME IInv, [Next]_vars PROVE MetricsOk'
  OBVIOUS
<1>1. MetricsOk /\ AddsOk
  BY DEF IInv
<1>2. ASSUME NEW r \in Stores, Unlock(r) PROVE MetricsOk'
  <2>1. metrics' = [metrics EXCEPT ![r] = add[r].texts] /\ Len(add[r].texts) = NumFamilies
    BY <1>2 DEF Unlock
  <2>2. /\ add[r].texts \in Seq(Texts) /\ add[r].version \in Versions
        /\ \A f \in 1 .. Len(add[r].texts) :
              add[r].texts[f] \in {[family |-> f, version |-> add[r].version], None}
    BY <1>1 DEF AddsOk, AddOk
  <2>3. metrics \in [Stores -> Seq(Texts)]
    BY <1>1 DEF MetricsOk
  <2>4. metrics' \in [Stores -> Seq(Texts)] /\ metrics'[r] = add[r].texts
        /\ \A q \in Stores \ {r} : metrics'[q] = metrics[q]
    BY <2>1, <2>2, <2>3
  <2>5. \E v \in Versions : \A f \in 1 .. NumFamilies :
            metrics'[r][f] \in {[family |-> f, version |-> v], None}
    BY <2>1, <2>2, <2>4
  <2>6. RenderedTogether'
    BY <1>1, <2>1, <2>4, <2>5 DEF MetricsOk, RenderedTogether
  <2> QED
    BY <2>4, <2>6 DEF MetricsOk
<1>3. ASSUME metrics' = metrics PROVE MetricsOk'
  BY <1>1, <1>3 DEF MetricsOk, RenderedTogether
<1>4. ASSUME Scraping \/ Working PROVE metrics' = metrics
  BY <1>4 DEF Scraping, BeginScrape, Serve, Visit, ReadLock, WriteFamily, NextStore,
     WriteFails, EndScrape, Working, StoreBuild, DropStores, DeleteStores
<1>5. ASSUME NEW r \in Stores, Lock(r) \/ Evaluate(r) \/ Returned(r) PROVE metrics' = metrics
  BY <1>5 DEF Lock, Evaluate, Returned, Rendered
<1>6. ASSUME NEW e \in Ids, Goroutine(e) PROVE metrics' = metrics
  BY <1>6 DEF Goroutine, expositionVars
<1> QED
  BY <1>2, <1>3, <1>4, <1>5, <1>6 DEF Next, Render, Scraping, Working, vars, expositionVars

----------------------------------------------------------------------------
(* The scrapes.                                                              *)

LEMMA BuildsAreNumbered == MapOk => DOMAIN builds \subseteq Builds
  BY SizesAssumption DEF MapOk, Builds

\* A scrape at a store is at one there is.
LEMMA StoreIsOne ==
    ASSUME MapOk, ScrapesOk, NEW s \in Scrapers, scrape[s].pc \in {"lock", "write"}
    PROVE  StoreOf(s) \in Stores
  BY BuildsAreNumbered DEF ScrapesOk, ScrapeOk, Scrape, StoreOf, Stores

\* A step that leaves a scrape and the store it is at alone, but for the monitors
\* that are due, keeps what holds of it.
LEMMA ScrapeKept ==
    ASSUME NEW s \in Scrapers, ScrapeOk(s),
           scrape'[s].pc = scrape[s].pc, scrape'[s].build = scrape[s].build,
           scrape'[s].monitor = scrape[s].monitor, scrape'[s].store = scrape[s].store,
           scrape'[s].written = scrape[s].written,
           scrape'[s].writtenBuilds = scrape[s].writtenBuilds,
           \A b \in DOMAIN builds : b \in DOMAIN builds' /\ builds'[b] = builds[b],
           scrape[s].pc = "write" =>
               /\ add'[StoreOf(s)].pc = add[StoreOf(s)].pc
               /\ metrics'[StoreOf(s)] = metrics[StoreOf(s)]
    PROVE  ScrapeOk(s)'
<1>1. StoreOf(s)' = StoreOf(s)
  BY DEF StoreOf
<1> QED
  BY <1>1 DEF ScrapeOk

\* The workers take monitors out of those that are due, and append builds.
LEMMA WorkingScrapes == IInv /\ Working => ScrapesOk'
<1> SUFFICES ASSUME IInv, Working PROVE ScrapesOk'
  OBVIOUS
<1>1. MapOk /\ ScrapesOk
  BY DEF IInv
<1>2. add' = add /\ metrics' = metrics
  BY DEF Working, StoreBuild, DropStores, DeleteStores
<1>3. \A b \in DOMAIN builds : b \in DOMAIN builds' /\ builds'[b] = builds[b]
  <2>1. builds' = builds \/ \E m \in Monitors : builds' = Append(builds, m)
    BY DEF Working, StoreBuild, DropStores, DeleteStores
  <2> QED
    BY <1>1, <2>1 DEF MapOk
<1>4. scrape' = scrape
      \/ \E m \in Monitors : scrape' = [s \in Scrapers |-> [scrape[s] EXCEPT !.due = @ \ {m}]]
  BY DEF Working, StoreBuild, DropStores, DeleteStores, TakenOut
<1>5. scrape' \in [Scrapers -> Scrape]
  <2>1. \A s \in Scrapers, m \in Monitors :
            [scrape[s] EXCEPT !.due = scrape[s].due \ {m}] \in Scrape
    <3> SUFFICES ASSUME NEW s \in Scrapers, NEW m \in Monitors
                 PROVE  [scrape[s] EXCEPT !.due = scrape[s].due \ {m}] \in Scrape
      OBVIOUS
    <3>1. scrape[s] \in Scrape
      BY <1>1 DEF ScrapesOk
    <3> QED
      BY <3>1 DEF Scrape
  <2> QED
    BY <1>1, <1>4, <2>1 DEF ScrapesOk
<1>6. ASSUME NEW s \in Scrapers PROVE ScrapeOk(s)'
  <2>1. ScrapeOk(s) /\ scrape[s] \in Scrape
    BY <1>1 DEF ScrapesOk
  <2>2. /\ scrape'[s].pc = scrape[s].pc /\ scrape'[s].build = scrape[s].build
        /\ scrape'[s].monitor = scrape[s].monitor /\ scrape'[s].store = scrape[s].store
        /\ scrape'[s].written = scrape[s].written
        /\ scrape'[s].writtenBuilds = scrape[s].writtenBuilds
    BY <1>4, <2>1 DEF Scrape
  <2> QED
    BY <1>2, <1>3, <2>1, <2>2, ScrapeKept
<1> QED
  BY <1>5, <1>6 DEF ScrapesOk

\* A reflector waits for the readers of its store, and lets in those it kept out.
LEMMA ReflectorScrapes ==
    ASSUME IInv, NEW r \in Stores, Lock(r) \/ Render(r) PROVE ScrapesOk'
<1>1. MapOk /\ AddsOk /\ ScrapesOk
  BY DEF IInv
<1>2. builds' = builds
  BY DEF Lock, Render, Evaluate, Returned, Rendered, Unlock
<1>3. ASSUME NEW s \in Scrapers, scrape[s].pc = "write", StoreOf(s) = r
      PROVE  Lock(r) => FALSE
  BY <1>3 DEF Lock, MayLock, NoReaders, Reading
<1>4. ASSUME NEW s \in Scrapers, scrape[s].pc = "write", StoreOf(s) = r
      PROVE  Render(r) => FALSE
  <2>1. add[r].pc = "idle"
    BY <1>1, <1>3, <1>4 DEF ScrapesOk, ScrapeOk
  <2> QED
    BY <2>1 DEF Render, Evaluate, Returned, Unlock
<1>5. ASSUME NEW s \in Scrapers, scrape[s].pc = "write"
      PROVE  add'[StoreOf(s)] = add[StoreOf(s)] /\ metrics'[StoreOf(s)] = metrics[StoreOf(s)]
  <2>1. StoreOf(s) \in Stores /\ StoreOf(s) # r
    BY <1>1, <1>3, <1>4, <1>5, StoreIsOne
  <2>2. \A q \in Stores \ {r} : add'[q] = add[q] /\ metrics'[q] = metrics[q]
    <3>1. metrics' = metrics \/ metrics' = [metrics EXCEPT ![r] = add[r].texts]
      BY DEF Lock, Render, Evaluate, Returned, Rendered, Unlock
    <3>2. metrics \in [Stores -> Seq(Texts)]
      BY DEF IInv, MetricsOk
    <3>3. \A q \in Stores \ {r} : add'[q] = add[q]
      <4>1. add = [q \in Stores |-> add[q]]
        BY <1>1 DEF AddsOk
      <4> QED
        BY <4>1 DEF Lock, Render, Evaluate, Returned, Rendered, Unlock
    <3> QED
      BY <3>1, <3>2, <3>3
  <2> QED
    BY <2>1, <2>2
<1>6. CASE scrape' = scrape
  <2>1. ASSUME NEW s \in Scrapers PROVE ScrapeOk(s)'
    BY <1>1, <1>2, <1>5, <1>6, ScrapeKept DEF ScrapesOk
  <2> QED
    BY <1>1, <1>6, <2>1 DEF ScrapesOk
<1>7. CASE Unlock(r)
  <2>1. /\ scrape' = [s \in Scrapers |-> IF scrape[s].pc = "lock" /\ StoreOf(s) = r
                                          THEN [scrape[s] EXCEPT !.pc = "write"]
                                          ELSE scrape[s]]
        /\ add' = [add EXCEPT ![r] = NoAdd]
    BY <1>7 DEF Unlock, Admitted
  <2>2. ASSUME NEW s \in Scrapers PROVE scrape'[s] \in Scrape /\ ScrapeOk(s)'
    <3>1. scrape[s] \in Scrape /\ ScrapeOk(s)
      BY <1>1 DEF ScrapesOk
    <3>2. CASE scrape[s].pc = "lock" /\ StoreOf(s) = r
      <4>1. scrape'[s] = [scrape[s] EXCEPT !.pc = "write"]
        BY <2>1, <3>2
      <4>2. /\ scrape'[s] \in Scrape /\ scrape'[s].pc = "write"
            /\ scrape'[s].build = scrape[s].build /\ scrape'[s].monitor = scrape[s].monitor
            /\ scrape'[s].store = scrape[s].store /\ scrape'[s].written = scrape[s].written
            /\ scrape'[s].writtenBuilds = scrape[s].writtenBuilds
        BY <3>1, <4>1 DEF Scrape
      <4>3. StoreOf(s)' = r /\ add'[r].pc = "idle"
        BY <1>1, <2>1, <3>2, <4>2 DEF StoreOf, AddsOk, NoAdd
      <4>4. scrape'[s].written = <<>>
        BY <3>1, <3>2, <4>2 DEF ScrapeOk
      <4> QED
        BY <1>2, <3>1, <3>2, <4>2, <4>3, <4>4, SizesAssumption DEF ScrapeOk
    <3>3. CASE ~(scrape[s].pc = "lock" /\ StoreOf(s) = r)
      <4>1. scrape'[s] = scrape[s]
        BY <2>1, <3>3
      <4> QED
        BY <1>2, <1>5, <3>1, <4>1, ScrapeKept
    <3> QED
      BY <3>2, <3>3
  <2>3. scrape' = [s \in Scrapers |-> scrape'[s]]
    BY <2>1
  <2> QED
    BY <2>2, <2>3 DEF ScrapesOk
<1> QED
  BY <1>6, <1>7 DEF Lock, Render, Evaluate, Returned, Rendered

\* A scrape changes its own record only.
LEMMA OneScrape ==
    ASSUME IInv, NEW s \in Scrapers, NEW record \in Scrape,
           scrape' = [scrape EXCEPT ![s] = record],
           UNCHANGED <<builds, add, metrics>>,
           ScrapeOk(s)'
    PROVE  ScrapesOk'
<1>1. ScrapesOk
  BY DEF IInv
<1>2. scrape' \in [Scrapers -> Scrape] /\ \A t \in Scrapers \ {s} : scrape'[t] = scrape[t]
  BY <1>1 DEF ScrapesOk
<1>3. \A t \in Scrapers \ {s} : ScrapeOk(t)'
  BY <1>1, <1>2, ScrapeKept DEF ScrapesOk
<1> QED
  BY <1>2, <1>3 DEF ScrapesOk

\* Off the stores nothing is written; what Range goes on with is such a record.
LEMMA OffStores ==
    ASSUME IInv, NEW s \in Scrapers, NEW record \in Scrape,
           scrape' = [scrape EXCEPT ![s] = record],
           UNCHANGED <<builds, add, metrics>>,
           record.pc \in {"idle", "range"}, record.written = <<>>, record.writtenBuilds = {}
    PROVE  ScrapesOk'
<1>1. scrape'[s] = record
  BY DEF IInv, ScrapesOk
<1>2. ScrapeOk(s)'
  BY <1>1 DEF ScrapeOk
<1> QED
  BY <1>2, OneScrape

\* A scrape that goes on ranging holds no store and has written nothing of one.
LEMMA RangingIsOff ==
    ASSUME NEW record \in Scrape
    PROVE  /\ Ranging(record) \in Scrape /\ Ranging(record).pc = "range"
           /\ Ranging(record).written = <<>> /\ Ranging(record).writtenBuilds = {}
<1>1. PICK off : off = Ranging(record)
  OBVIOUS
<1>2. off = [pc |-> "range", due |-> record.due, visited |-> record.visited,
             monitor |-> None, build |-> 0, store |-> 1, written |-> <<>>,
             writtenBuilds |-> {}]
  BY <1>1 DEF Ranging, NoScrape
<1>3. record.due \in SUBSET Monitors /\ record.visited \in SUBSET Monitors
  BY DEF Scrape
<1>4. /\ off \in Scrape /\ off.pc = "range" /\ off.written = <<>>
      /\ off.writtenBuilds = {}
  BY <1>2, <1>3, SizesAssumption DEF Scrape
<1> QED
  BY <1>1, <1>4

\* A scrape that begins, ends or breaks off keeps what is said of all scrapes.
LEMMA BeginsAndEnds ==
    ASSUME IInv, NEW s \in Scrapers, BeginScrape(s) \/ EndScrape(s) \/ WriteFails(s)
    PROVE  ScrapesOk'
<1>1. scrape[s] \in Scrape
  BY DEF IInv, ScrapesOk
<1>2. UNCHANGED <<builds, add, metrics>>
  BY DEF BeginScrape, EndScrape, WriteFails
<1>3. CASE BeginScrape(s)
  <2>0. PICK record : record = [NoScrape EXCEPT !.pc = "range", !.due = DOMAIN map]
    OBVIOUS
  <2>1. record = [pc |-> "range", due |-> DOMAIN map, visited |-> {}, monitor |-> None,
                  build |-> 0, store |-> 1, written |-> <<>>, writtenBuilds |-> {}]
    BY <2>0 DEF NoScrape
  <2>2. scrape' = [scrape EXCEPT ![s] = record]
    BY <1>3, <2>0 DEF BeginScrape
  <2>3. DOMAIN map \in SUBSET Monitors
    BY DEF IInv, MapOk
  <2>4. record \in Scrape
    BY <2>1, <2>3, SizesAssumption DEF Scrape
  <2>5. record.pc = "range" /\ record.written = <<>> /\ record.writtenBuilds = {}
    BY <2>1
  <2> QED
    BY <1>2, <2>2, <2>4, <2>5, OffStores
<1>4. CASE EndScrape(s)
  <2>1. NoScrape \in Scrape
    BY SizesAssumption DEF NoScrape, Scrape
  <2>2. NoScrape.pc = "idle" /\ NoScrape.written = <<>> /\ NoScrape.writtenBuilds = {}
    BY DEF NoScrape
  <2>3. scrape' = [scrape EXCEPT ![s] = NoScrape]
    BY <1>4 DEF EndScrape
  <2> QED
    BY <1>2, <2>1, <2>2, <2>3, OffStores
<1>5. CASE WriteFails(s)
  <2>1. scrape' = [scrape EXCEPT ![s] = Ranging(scrape[s])]
    BY <1>5 DEF WriteFails
  <2> QED
    BY <1>1, <1>2, <2>1, RangingIsOff, OffStores
<1> QED
  BY <1>3, <1>4, <1>5

\* Range loads a build that is in the map, of the monitor it has come to.
LEMMA Visits == ASSUME IInv, NEW s \in Scrapers, NEW m \in Monitors, Visit(s, m) PROVE ScrapesOk'
<1>1. MapOk /\ scrape[s] \in Scrape /\ ScrapeOk(s)
  BY DEF IInv, ScrapesOk
<1>2. /\ scrape[s].pc = "range" /\ m \in DOMAIN map
      /\ UNCHANGED <<builds, add, metrics>>
      /\ scrape' = [scrape EXCEPT ![s] = Visiting(scrape[s], m)]
  BY DEF Visit
<1>3. PICK record : record = Visiting(scrape[s], m)
  OBVIOUS
<1>4. map[m] \in DOMAIN builds /\ builds[map[m]] = m /\ map[m] \in 0 .. MaxBuilds
  BY <1>1, <1>2, BuildsAreNumbered, SizesAssumption DEF MapOk, Builds
<1>5. record = [pc |-> "lock", due |-> scrape[s].due \ {m},
                visited |-> scrape[s].visited \cup {m}, monitor |-> m,
                build |-> map[m], store |-> scrape[s].store,
                written |-> scrape[s].written, writtenBuilds |-> scrape[s].writtenBuilds]
  <2>1. PICK old : old = scrape[s]
    OBVIOUS
  <2>2. old \in Scrape /\ record = Visiting(old, m)
    BY <1>1, <1>3, <2>1
  <2>3. record = [pc |-> "lock", due |-> old.due \ {m}, visited |-> old.visited \cup {m},
                  monitor |-> m, build |-> map[m], store |-> old.store,
                  written |-> old.written, writtenBuilds |-> old.writtenBuilds]
    BY <2>2 DEF Visiting, Scrape
  <2> QED
    BY <2>1, <2>3
<1>6. scrape' = [scrape EXCEPT ![s] = record]
  BY <1>2, <1>3
<1>7. record \in Scrape
  BY <1>1, <1>4, <1>5 DEF Scrape
<1>8. scrape'[s] = record
  BY <1>6 DEF IInv, ScrapesOk
<1>9. ScrapeOk(s)'
  BY <1>1, <1>2, <1>4, <1>5, <1>8 DEF ScrapeOk
<1> QED
  BY <1>2, <1>6, <1>7, <1>9, OneScrape

\* A store that no call of Add holds is read.
LEMMA ReadLocks == ASSUME IInv, NEW s \in Scrapers, ReadLock(s) PROVE ScrapesOk'
<1>1. scrape[s] \in Scrape /\ ScrapeOk(s)
  BY DEF IInv, ScrapesOk
<1>2. /\ scrape[s].pc = "lock" /\ add[StoreOf(s)].pc = "idle"
      /\ scrape' = [scrape EXCEPT ![s] = [scrape[s] EXCEPT !.pc = "write"]]
      /\ UNCHANGED <<builds, add, metrics>>
  BY DEF ReadLock
<1>3. PICK record : record = [scrape[s] EXCEPT !.pc = "write"]
  OBVIOUS
<1>4. /\ record \in Scrape /\ record.pc = "write" /\ record.build = scrape[s].build
      /\ record.monitor = scrape[s].monitor /\ record.store = scrape[s].store
      /\ record.written = scrape[s].written
      /\ record.writtenBuilds = scrape[s].writtenBuilds
  BY <1>1, <1>3 DEF Scrape
<1>5. scrape' = [scrape EXCEPT ![s] = record] /\ scrape'[s] = record
  BY <1>2, <1>3 DEF IInv, ScrapesOk
<1>6. StoreOf(s)' = StoreOf(s)
  BY <1>4, <1>5 DEF StoreOf
<1>7. ScrapeOk(s)'
  BY <1>1, <1>2, <1>4, <1>5, <1>6, SizesAssumption DEF ScrapeOk
<1> QED
  BY <1>2, <1>4, <1>5, <1>7, OneScrape

\* What is written is what the store has, which cannot change meanwhile.
LEMMA WritesFamilies == ASSUME IInv, NEW s \in Scrapers, WriteFamily(s) PROVE ScrapesOk'
<1> DEFINE f == Len(scrape[s].written) + 1
           texts == metrics[StoreOf(s)]
           text == IF texts = <<>> THEN None ELSE texts[f]
<1>1. scrape[s] \in Scrape /\ ScrapeOk(s) /\ MapOk /\ ScrapesOk /\ MetricsOk
  BY DEF IInv, ScrapesOk
<1>2. /\ scrape[s].pc = "write" /\ f \in 1 .. NumFamilies
      /\ scrape' = [scrape EXCEPT ![s].written = Append(@, text),
                                  ![s].writtenBuilds = @ \cup {scrape[s].build}]
      /\ UNCHANGED <<builds, add, metrics>>
  BY DEF WriteFamily
<1>3. text \in Texts
  <2>1. StoreOf(s) \in Stores
    BY <1>1, <1>2, StoreIsOne
  <2>2. texts \in Seq(Texts) /\ (texts # <<>> => Len(texts) = NumFamilies)
    BY <1>1, <2>1 DEF MetricsOk, RenderedTogether
  <2>3. texts # <<>> => texts[f] \in Texts
    BY <1>2, <2>2
  <2> QED
    BY <2>3 DEF Texts
<1>4. /\ scrape[s].written \in Seq(Texts) /\ scrape[s].build \in Builds
      /\ scrape[s].writtenBuilds \in SUBSET Builds
  BY <1>1, <1>2, BuildsAreNumbered DEF Scrape, ScrapeOk
<1> HIDE DEF text
<1>5. PICK old : old = scrape[s]
  OBVIOUS
<1>6. PICK record : record = [old EXCEPT !.written = Append(old.written, text),
                                         !.writtenBuilds = old.writtenBuilds \cup {old.build}]
  OBVIOUS
<1>7. record = [pc |-> old.pc, due |-> old.due, visited |-> old.visited,
                monitor |-> old.monitor, build |-> old.build, store |-> old.store,
                written |-> Append(old.written, text),
                writtenBuilds |-> old.writtenBuilds \cup {old.build}]
  BY <1>1, <1>5, <1>6 DEF Scrape
<1>8. Append(old.written, text) \in Seq(Texts) /\ old.writtenBuilds \cup {old.build} \in SUBSET Builds
  BY <1>3, <1>4, <1>5
<1>9. record \in Scrape
  BY <1>1, <1>5, <1>7, <1>8 DEF Scrape
<1>10. scrape' = [scrape EXCEPT ![s] = record]
  BY <1>1, <1>2, <1>5, <1>6 DEF ScrapesOk
<1>11. scrape'[s] = record /\ StoreOf(s)' = StoreOf(s)
  BY <1>1, <1>5, <1>7, <1>10 DEF ScrapesOk, StoreOf
<1>12. /\ Len(record.written) = Len(scrape[s].written) + 1
       /\ record.written[f] = text
       /\ \A g \in 1 .. Len(scrape[s].written) : record.written[g] = scrape[s].written[g]
  BY <1>3, <1>4, <1>5, <1>7
<1>13. ScrapeOk(s)'
  <2>1. /\ record.build \in DOMAIN builds' /\ builds'[record.build] = record.monitor
        /\ record.writtenBuilds \subseteq {record.build} /\ record.pc = "write"
    BY <1>1, <1>2, <1>5, <1>7 DEF ScrapeOk
  <2>2. add'[StoreOf(s)].pc = "idle" /\ Len(record.written) <= NumFamilies
    <3>1. add[StoreOf(s)].pc = "idle"
      BY <1>1, <1>2 DEF ScrapeOk
    <3>2. Len(record.written) <= NumFamilies
      BY <1>2, <1>12
    <3> QED
      BY <1>2, <3>1, <3>2
  <2>3. \A g \in 1 .. Len(record.written) :
            record.written[g] = IF metrics[StoreOf(s)] = <<>> THEN None
                                ELSE metrics[StoreOf(s)][g]
    <3>1. \A g \in 1 .. Len(scrape[s].written) :
              scrape[s].written[g] = IF metrics[StoreOf(s)] = <<>> THEN None
                                     ELSE metrics[StoreOf(s)][g]
      BY <1>1, <1>2 DEF ScrapeOk
    <3>2. Len(scrape[s].written) \in Nat
      BY <1>4
    <3>3. ASSUME NEW g \in 1 .. Len(record.written)
          PROVE  g \in 1 .. Len(scrape[s].written) \/ g = f
      BY <1>12, <3>2
    <3>4. record.written[f] = IF metrics[StoreOf(s)] = <<>> THEN None
                              ELSE metrics[StoreOf(s)][f]
      BY <1>12 DEF text
    <3> QED
      BY <1>12, <3>1, <3>3, <3>4
  <2>4. scrape'[s] = record /\ StoreOf(s)' = StoreOf(s) /\ metrics' = metrics
    BY <1>2, <1>11
  <2> QED
    BY <2>1, <2>2, <2>3, <2>4 DEF ScrapeOk
<1> QED
  BY <1>2, <1>9, <1>10, <1>13, OneScrape

\* The next store is one of the same build.
LEMMA NextStores == ASSUME IInv, NEW s \in Scrapers, NextStore(s) PROVE ScrapesOk'
<1>1. scrape[s] \in Scrape /\ ScrapeOk(s) /\ ScrapesOk
  BY DEF IInv, ScrapesOk
<1>2. /\ scrape[s].pc = "write" /\ UNCHANGED <<builds, add, metrics>>
  BY DEF NextStore
<1>3. CASE scrape[s].store = NumStores
  <2>1. scrape' = [scrape EXCEPT ![s] = Ranging(scrape[s])]
    BY <1>3 DEF NextStore
  <2> QED
    BY <1>1, <1>2, <2>1, RangingIsOff, OffStores
<1>4. CASE scrape[s].store # NumStores
  <2>1. PICK old : old = scrape[s]
    OBVIOUS
  <2>2. PICK record : record = Following(old, old.build)
    OBVIOUS
  <2>3. record = [pc |-> "lock", due |-> old.due, visited |-> old.visited,
                  monitor |-> old.monitor, build |-> old.build, store |-> old.store + 1,
                  written |-> <<>>, writtenBuilds |-> old.writtenBuilds]
    BY <1>1, <2>1, <2>2 DEF Following, Scrape
  <2>4. old.store + 1 \in 1 .. NumStores
    BY <1>1, <1>4, <2>1, SizesAssumption DEF Scrape
  <2>5. record \in Scrape
    BY <1>1, <2>1, <2>3, <2>4 DEF Scrape
  <2>6. scrape' = [scrape EXCEPT ![s] = record]
    BY <1>4, <2>1, <2>2 DEF NextStore, NextBuild
  <2>7. scrape'[s] = record
    BY <1>1, <2>6 DEF ScrapesOk
  <2>8. ScrapeOk(s)'
    BY <1>1, <1>2, <2>1, <2>3, <2>7 DEF ScrapeOk
  <2> QED
    BY <1>2, <2>5, <2>6, <2>8, OneScrape
<1> QED
  BY <1>3, <1>4

\* Every step keeps what is said of the scrapes.
LEMMA NextScrapes == IInv /\ [Next]_vars => ScrapesOk'
<1> SUFFICES ASSUME IInv, [Next]_vars PROVE ScrapesOk'
  OBVIOUS
<1>1. CASE Working
  BY <1>1, WorkingScrapes
<1>2. ASSUME NEW r \in Stores, Lock(r) \/ Render(r) PROVE ScrapesOk'
  BY <1>2, ReflectorScrapes
<1>3. CASE Scraping
  BY <1>3, BeginsAndEnds, Visits, ReadLocks, WritesFamilies, NextStores DEF Scraping, Serve
<1>4. CASE (\E e \in Ids : Goroutine(e)) \/ UNCHANGED vars
  <2>1. UNCHANGED expositionVars
    BY <1>4 DEF Goroutine, vars
  <2>2. UNCHANGED <<scrape, builds, add, metrics>>
    BY <2>1 DEF expositionVars
  <2> QED
    BY <2>2, ScrapeKept DEF IInv, ScrapesOk
<1> QED
  BY <1>1, <1>2, <1>3, <1>4 DEF Next, Working, Scraping

----------------------------------------------------------------------------

\* Every step keeps the invariant.
LEMMA NextInvariant == IInv /\ [Next]_vars => IInv'
  BY NextMap, NextAdds, NextMetrics, NextScrapes DEF IInv

\* The variables keep the shapes of their Go counterparts.
THEOREM TypeCorrect == Spec => []TypeOK
  BY InitInvariant, NextInvariant, InvariantImplies, PTL DEF Spec

\* cel.go:109-145, starlark.go:105-122, store.go:194-218: a store's texts of an object
\* are those of one version of it, each of its own family, however the answers,
\* the timers and the goroutines left behind interleave.
THEOREM TextsAreTogether == Spec => []RenderedTogether
  BY InitInvariant, NextInvariant, InvariantImplies, PTL DEF Spec

\* server.go:182-198, writer.go:35-81: a scrape sees one build of a monitor, and each
\* of its stores between two calls of Add.
THEOREM ScrapesAreAtOnce == Spec => []ScrapedAtOnce
  BY InitInvariant, NextInvariant, InvariantImplies, PTL DEF Spec
================================================================================
