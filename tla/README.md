# A TLA+ model of resource-state-metrics

`resource-state-metrics` is a Kubernetes controller. A user writes a
`ResourceMetricsMonitor` (a *monitor* below) that lists stores: kinds of custom
resources and the metric families to generate from each object of the kind. The
controller builds the stores, a reflector per store keeps the metrics of the
objects up to date, an HTTP server renders them, and *cardinality* (the number
of samples) is counted, limited and reported at the level of a family, a store,
a monitor and the process.

Paths below are relative to `internal/` unless they name another directory.

## 1. Inventory

| Component | State it keeps | Operations | Talks to |
|---|---|---|---|
| Store and reflector (`store.go`, `builder.go`) | `metrics` (object UID to one string per family), `synced`, under `mutex` | `Add`, `Update` (= `Add`), `Delete`, `Replace`, called by the reflector; `checkAndApplyThresholds` | API server by list and watch; tracker; families |
| Cardinality tracker (`cardinality.go`) | `perObject`, `perFamily`, `storeTotal`, `cutoffFamilies`, under its own mutex | `Update`, `Delete`, `CheckThresholds`, `IsFamilyCutoff`, getters | called by the store and by the controller's goroutines |
| Family (`family.go`) | `cutoff` under `cutoffMu`, `Labels`, `Resolver` | `buildMetricString`, `SetCutoff`, label resolution and expansion | resolvers |
| Controller (`controller.go`) | informer and lister, workqueue of `[key, event]`, the `stores` map | informer handlers, `enqueue`, `processNextWorkItem`, `syncHandler`, `handleObject` | API server, event handling |
| Event handling and status (`events.go`) | none of its own; the monitor's conditions and cardinality in the API server | `handleEvent` and the Get-Modify-Update cycles in it, `processAddOrUpdate`, `processDelete`, a cardinality goroutine per add or update | API server, stores map, global manager |
| Global cardinality manager (`cardinality_manager.go`) | `perResource`, `globalTotal`, `cutoffResources`, under a mutex | `UpdateResource`, `DeleteResource`, `CheckThresholds` | called by the goroutines and by deletes |
| Configuration and discovery (`config.go`, `discovery.go`) | gauges of duplicates; discovery is asked anew by every build | `build`, deduplication, wildcard expansion | builder, stores map |
| Exposition (`server.go`, `writer.go`, `metric.go`) | none | a scrape walks the stores map and takes each store's read lock | stores map |
| Resolvers (`pkg/resolver`) | a goroutine and a channel per evaluation | CEL, Starlark, unstructured paths; timeouts; the builtins a script makes samples with | libraries |
| API types (`pkg/apis/.../types.go`) | the conditions of a monitor | `Status.Set` | event handling |
| Options, signals, probes, external collectors, generated clients | none that changes after start | | |

How they interact:

* Reflectors, workers, the goroutines that report cardinality and scrapes are
  all separate goroutines. What they share is the stores map (a `sync.Map`),
  each store, each tracker, each family's flag and the global manager. There is
  no lock above these, so anything that spans two of them is open to interleaving.
* The API server is the only persistent state. All writes to it are
  Get-Modify-Update cycles under optimistic concurrency; a conflict is an error.
* The stores map is keyed by the monitor's UID; the queue, the Gets and the
  gauges by its namespace and name.

What is hard here, and what should be correct:

* **Store.** Counts are maintained by differences over repeated adds (relists)
  and deletes; the cutoff flag is applied by two kinds of goroutine, one of
  them without the lock, and read family by family while an object is rendered.
  The totals must stay exact, what is scraped must be whole families, the
  overshoot of a limit bounded, the tracked objects those of the cluster, and
  `synced` must mean what the goroutines take it for.
* **Controller.** Items are pairs of key and event, the lister is read late,
  failures are swallowed, and a goroutine outlives its event. The stores should
  end up those of the current configuration, nothing should be left of a
  deleted monitor, and everything must come to rest although the controller
  is woken by its own status writes.
* **Configuration and families.** Stores come from entries in order, discovery
  may answer each entry differently or not at all, gauges outlive the build that
  set them, and a family keeps its labels from one object to the next. One store
  per kind should be built, from the first entry for it; the gauges should be
  those of the current build; a label should stay with its value; the samples of an
  object should be those of its contents.
* **Status.** Workers and goroutines change one status object; a report is put
  together from four reads of a tracker that goes on counting. The conditions must
  not contradict each other, nobody should undo what another wrote, and a report
  on a store at rest should be exact.
* **Exposition.** Scrapes run while workers replace the stores in the map and
  reflectors, those of replaced builds included, add objects under the store's
  lock, evaluating expressions that may not end. A scrape should see one build of
  a monitor and one moment of a store, late answers should reach nobody, and
  scrapes and goroutines should end.
* **Global manager.** Reports by several goroutines and deletes arrive in any
  order; the total must remain the sum and the marks must not be lost.

`PROJECT.json` lists the hazards one by one, with their lines.

## 2. Modules

| Module | Models | Role |
|---|---|---|
| `Tables` | Go maps: insertion, deletion, sums of their entries | helpers |
| `StoreCardinality` | one store, its reflector, its tracker, its families' flags, the goroutines that check it | core component |
| `SoftLimits` | what a store with limits promises: counted in full, left out only when marked, marked only when over | abstract specification that `StoreCardinality` implements |
| `Controller` | one monitor key: API server, watch, lister, queue, workers, stores map, goroutines, global manager, restarts | composes the controller's parts |
| `WorkQueue` | what the controller relies on its queue for | abstract specification that `Controller` implements |
| `Reports` | one monitor's status: what goroutines aggregate and report, what a worker sets beside it | component |
| `GlobalCardinality` | the global manager under several monitors and goroutines | component |
| `Evaluation` | evaluations under a timeout: goroutine, channel, select | component without a next-state relation of its own |
| `Exposition` | scrapes, builds that replace each other, reflectors that add objects, over `Evaluation` | composes map, stores, evaluations and the main server |
| `Discovery` | what an entry of a configuration stands for, given what discovery answers | pure |
| `Starlark` | the builtins of a script, and the samples taken from what it gives | pure |
| `Families` | the samples of one family for one object: labels, values, expansion, co-sorting, scripts | pure, over `Starlark` |
| `Configuration` | sequences of builds and of objects rendered by the stores they build | component, over `Discovery` and `Families` |
| `MC*` | symmetry sets and the constants a `.cfg` cannot write | instances for TLC |
| `TablesProofs`, `StoreCardinalityProofs`, `StoreTrackingProofs`, `GlobalCardinalityProofs`, `ControllerProofs`, `ReportsProofs`, `ExpositionProofs`, `ConfigurationProofs` | | theorems |

What the components share is modelled where it matters: the stores map in `Controller`
(what ends up in it) and `Exposition` (what a scrape finds in it), the tracker in
`StoreCardinality` (its own bookkeeping) and `Reports` (what is read from it), the
global manager in `Controller` (its total) and `GlobalCardinality` (its marks), the
API server in `Controller` (events and generations) and `Reports` (conditions).

### StoreCardinality

A custom resource is its number of samples per family; a rendered family is the
number of samples in it, 0 being the empty string of a family that was cut off.
A goroutine is a program counter; a step is what happens between two points at
which another goroutine can intervene.

| Source | Action |
|---|---|
| reflector: list, Replace's loop, `synced`, watch, expired watch | `List`, `ReplaceItem`, `ReplaceDone`, `WatchEvent`, `WatchExpired` |
| `generateMetricsForObject`, one family at a time since each samples its flag | `RenderFamily` |
| the map assignment with the tracker's `Update` or `Delete` | `TrackAdd`, `TrackDelete` |
| `CheckThresholds`, one critical section of the tracker | `CheckThresholds` |
| the loop `cutoff := IsFamilyCutoff(..); family.SetCutoff(cutoff)` | `ReadCutoff`, `SetCutoff` |
| `aggregateStoreCardinality` arriving at this store | `StartCheck` |

The map assignment and the tracker's update are one step: between them only the
tracker's mutex is free, and the only thing another goroutine does there is
`CheckThresholds`, which can as well be ordered before both (it reads the tracker
only). `store.mutex` is held exactly while `pc[Reflector] # "idle"`, so
`StoreUnlocked` is "a scrape can take the lock".

Abstractions: how many samples an object has is a function of its contents
(what the labels a family inherits do to it is the subject of `Configuration`); the names of a
store's families are distinct; `convertToUnstructured` succeeds on what the dynamic client returns;
the warning level changes no state and is left out. An object may come back
under its UID because a selector can make it leave and re-enter the
list. Goroutines start without waiting for `synced`: their poll ends after
`cardinalityPollTimeout` in any case.

`SoftLimits` is the store without its goroutines and flags: what each object counts for, what is
shown of it, and a set of marked families that may be left out. Objects are added, in full but for
some of the marked families, and removed; a family may be marked while it or the store is over
its limit, and marks may go at any time. `StoreCardinality!ImplementsSoftLimits` maps
`perObject` and `metrics` to the first two, and to the third every place a mark can be in
(`Marked`): the tracker's decision, a family's flag, the value a goroutine has read
and is about to write to a flag, and a family left out of the object that is being added.

### Controller

One key, so at most one monitor at a time; `uid` tells its incarnations apart.
A configuration is its generation. Of the status one thing is kept, the generation that
`Processed=True` was recorded with; the rest is in `Reports`.
Optimistic concurrency is the set `current`
of clients whose last Get is still current: every write empties it. Each Get and
each Update of the API server is an action, since another client may write in
between; `ApiFail` is every error path of them, all of which end in
`return nil`, so nothing is queued again.

| Source | Action |
|---|---|
| informer handlers with their filter; the list at the start and after an expired watch | `Deliver`; `FirstList`, `Relist` with `Listed` |
| `Run` ends, or the process does, and is started again | `Restart` |
| `processNextWorkItem`, `syncHandler`/`handleObject` | `Get`, `SyncHandler` |
| `updateMetadata`, `emitSuccess(False)`, `emitSuccess(True)` | `ApiGet` with `PutMetadata`, `PutReceived`, `PutDone` |
| `processAddOrUpdate`: `stores.Delete`, then `build` and the goroutine | `DropStores`, `Build` |
| `processDelete` | `ProcessDelete` |
| deferred `close(emitDone)`, `workqueue.Done` | `Finish` |
| the goroutine: `aggregateStoreCardinality`, `UpdateResource`, `persistCardinalityStatus` | `Aggregate`, `UpdateResource`, `GetStatus`, `PutStatus`, `StatusFail` |

Abstractions: `build` always ends with the store call (its errors are logged and
skip a store, not the build). `updateMetadata` writes an equal object once the
labels are set, which the API server does not turn into a new version. A deletion
that a relist discovers reaches the handler as a tombstone, for which
`MetaNamespaceKeyFunc` forms no key: it is lost (`Listed` queues nothing for it). No run is about
that alone: what it leaves behind is left behind by a delete event that arrives, too. `emitFailure` is reached by
no event the handlers enqueue. What the stores of a build count is a number that
changes on its own (`Fill`); `StoreCardinality` is about how. The queue is
client-go's: waiting items, dirty items, items being processed. `enqueue` uses
`Add`, so no rate limiting is involved.

`Restart` loses everything in memory (queue, lister, stores, totals, goroutines in
the middle of a call) and keeps the API server's object. `Run` returns without
waiting for its workers or for the cardinality goroutines (`controller.go:297-308`), so
an orderly stop leaves the same states behind as a crash. Workers start once the
informer has listed (`controller.go:162-166`, `275`): `synced` guards `Get`.

Two variables record history and no action reads them: `built` is the newest version
(incarnation and generation) stores have been built from, `skipped` the newest one that no
event is left for, because a call failed before it was processed (`ApiFail`) or a relist brought
another monitor of the same configuration, which `updateHandler` takes for no change
(`Replaced`). Both start again with the process.

`WorkQueue` is the queue as a user of it sees it: a set of pending items and an item per
worker. `Controller!ImplementsWorkQueue` maps `dirty` to the pending items and `item` to
the workers' (`INSTANCE WorkQueue WITH pending <- dirty, active <- item`); the list `queue`
and the set `processing` are how the promise is kept.

### Reports

The monitor's status as its writers see it: goroutines (`updateCardinalityStatus`)
and the worker (`emitSuccess`), each a Get, a change of the copy and an UpdateStatus that
conflicts when another came first. The store it reports on is one store's tracker, whose
reflector counts and checks in two steps. What the global manager adds to the violations is
any severity. A condition is its type, status and reason; the numbers of a report are
followed up to the end of the aggregation.

| Source | Definition |
|---|---|
| `Add`/`Delete` of a store: tracker update, then check | `Track`, `ReflectorChecks` |
| `aggregateStoreCardinality`: total, families, cutoff families, check, one lock each | `ReadTotal`, `ReadFamilies`, `ReadCutoff`, `CheckStore` |
| violations with a severity; `hasThresholdExceeded` | `StoreSeverity`, `Severest` |
| `setCardinalityConditions`, `ThresholdsExceeded` | `CutoffCondition`, `WarningCondition`, `WithReport` |
| `ResourceMetricsMonitorStatus.Set` | `Set` |
| `persistCardinalityStatus` and its failures | `GetStatus`, `PutStatus`, `StatusFails` |
| `emitSuccess` before and after an event, and its failures | `GetMonitor`, `EmitSuccess`, `EmitFails` |

That a goroutine waits for `emitDone` of its own event is in `Controller`; here
goroutines and the worker are unordered, which covers the next event's writes.

### Evaluation, Exposition

A goroutine of an evaluation is running, sending or gone; it knows its question (which
family, which version of the object) and whether its caller is still at its `select`. The timer
may fire at any time. Which error or value an answer is, is left to its receiver. Names of
goroutines are reused, the first free one first; with all of them taken `Evaluate` waits, which is
a bound of the model (`MaxGoroutines`) and no behaviour of the code: with two names
the goroutine of a caller that went away still meets a current one.

| Source | Action |
|---|---|
| `CELResolver.Resolve`, `StarlarkResolver.Resolve`: start, answer, `select`, late send | `Start`, `Answer`, `Receive`, `Timeout`, `Send` |
| `processAddOrUpdate`: out of the map, build; `build`'s store call | `DropStores`, `StoreBuild` |
| `processDelete` | `DeleteStores` |
| `Add` under the store's lock, family by family | `Lock`, `Evaluate`, `Returned`, `Unlock` |
| `/metrics`: `Range`, one list of stores per monitor | `BeginScrape`, `Visit`, `EndScrape` |
| `writeStores`, `writeFromStore`, with the read lock held | `ReadLock`, `WriteFamily`, `NextStore`, `WriteFails` |

Abstractions: one object per populated store (that a family's text covers all objects
is a loop under the same lock); a text is the question it answers or nothing. `sync.Map.Range` comes
to every key that is in the map all the while, and may come or not to the others, with the value
current at that moment. `sync.RWMutex` lets waiting readers in before the next writer. The
handler's `binarySemaphore` is only read-locked and keeps nobody out. A build's
reflectors start with `DropStores` and never stop.


### GlobalCardinality

Several monitors, and goroutines that aggregate, update and check in three
steps; `DeleteResource` may come between any two of them. The resource limit
passed to `CheckThresholds` is always 0 (`events.go:382`), so the limit is the
default of all the monitors.

### Configuration, Discovery, Families, Starlark

Strings that are only compared, sorted or parsed are numbers, in lexical order;
`NotANumber` and `BelowZero` say what `strconv.ParseFloat` and `validateValue` make
of them. An expression on an object is a scalar, or a list and a map (nested
values give both); a pattern is the set of names it matches. The order of labels
in a sample, headers and spelling are left out. The text of a family is the sequence of samples
written to its builder. A script's sample whose value cannot be written leaves its name and
labels there (`family.go:248-276`): it is in the sequence with the value `Blank`, its line is not
ended, and `SampleCount` does not count it.

| Source | Definition |
|---|---|
| `ExpandWildcards`, with subresources, `list`+`watch` and failed or partial discovery | `ExpandWildcards`, `Matches` |
| `configurer.build`: expansion, deduplication, gauges, families | `Build` with `AllExpanded`, `Deduplicated`, `GaugeSet`, `BuildStoreFromConfig` |
| `inheritFamilyConfiguration` and `buildMetricString` in `Add` | `Add` with `InheritFamilyConfiguration`, `FamilySamples` |
| `resolveLabels` | `Fixed`, `Expanding` |
| `extractAndSortExpandedMetricValues` with `sortLabels` | `CoSorted` |
| `writeMetricSamplesWithCount`, `writeExpandedSamples` | `Expansion` |
| an error in any sample drops the metric; of a Starlark sample it leaves the beginning | `MetricSamples`, `ScriptSamples` |
| the sample count beside the text | `SampleCount` |
| `metric`, `family`, `label_prefix` | `MetricBuiltin`, `FamilyBuiltin`, `LabelPrefixBuiltin` |
| `resolveWithSteps`, `extractFamilies` down to `extractLabels`, `extractFloat` | `ResolveScript`, `ExtractFamilies` ... `ExtractLabels`, `ExtractFloat` |

`StoreCardinality` takes the number of samples of an object as given;
`SampleCount(FamilySamples(..))` is that number. Abstractions: equal elements of the leading
list keep their order (the sort is stable for fewer than 13 elements, and ties move
together in any case); an expression has at most one list in it (see 5). What a
script does before it ends is the language's; it ends with globals (made with the
builtins or by hand) or an error. A value is its type and text, and an int that does
not fit an int64 has a type of its own, since labels and values treat it differently.

## 3. What is checked

Every run finishes within three minutes on two workers. Deadlock is checked in `GlobalTotals`
and `Reports`; it is off in the others because the bounds (writes, incarnations, generations,
adds) make the modelled environment stop, as users may; in `ControllerLive` coming to rest is
the property.

| Run | Bounds | Shows |
|---|---|---|
| `StoreRace` | 2 objects, 2 families (one with a threshold), store threshold, 3 writes, 1 relist, 1 goroutine; 738k states | types; `TotalsMatchObjects`; `RenderedInFullOrNotAtAll`; `CutoffIffOver`; `PresentObjectsTracked`; `SyncedMeansListed`; `ImplementsSoftLimits` |
| `StoreLive` | 3 objects, 1 family, 1 write, 1 relist, 1 goroutine; 312k states | `OvershootBounded`, `EventuallyTracked`, `EventuallySynced` |
| `ControllerRecreate` | 2 workers, 2 incarnations, 2 goroutines, 1 relist, 1 restart; 1.3M states | types; `QueueConsistent`; `EveryConfigurationHandled`; `ImplementsWorkQueue` |
| `ControllerLive` | 1 worker, 3 generations, 2 goroutines, 1 relist, 1 restart; 147k states | `EveryConfigurationHandled`, `ComesToRest`, `ItemsAreHandled` |
| `GlobalTotals` | 3 monitors, 2 goroutines, both limits; 1.3M states | types; `GlobalTotalIsSum`; `OverIsMarked` |
| `Reports` | 2 goroutines, 1 worker, 2 families with counts up to 2, a family limit and a store limit; 1.2M states | types; `ConditionsAgree`; `WritersKeepOthers`; `QuietReportsExact` |
| `Scrapes` | 1 monitor, 1 worker, 1 scraper, 2 builds of 2 stores (one of them with an object), 2 families (an expression and a script), 2 adds, 2 goroutines; 262k states | types; `RenderedTogether`; `ScrapedAtOnce`; `ScrapesEnd`; `GoroutinesEnd` |
| `Builds` | 4 configurations of up to 3 entries, 3 answers of discovery for each entry, 5 contents, 2 objects, 2 builds, 2 renderings; 28k states | types; `FirstWins`; `GaugesOfBuildCurrent`; `LabelsStayWithValues`; `ScriptsAllOrNothing`; `ScalarLabelsKeepSamples` |

Four runs state what a comment, a test or the README says of the program and
are violated by what the code does (`findings` in `PROJECT.json` quotes them):

| Run | Violated | Why |
|---|---|---|
| `StoreStickyCutoff` | `CutoffEndsWithOvershoot` | a store over its limit marks all its families, only those with a limit of their own are ever cleared |
| `ControllerDeleted` | `NothingLeftOfDeleted` | `handleEvent` starts by reading the monitor, which is gone, so `processDelete` is not reached |
| `ControllerWorkers` | `ProcessedMeansServed` | with the two workers of the default, the add and the update of one monitor are processed at once, and the older build is put in the map last and stays |
| `LabelsMultiply` | `TrueCardinality` | the store's labels are appended to the family's again for every object; a list among them expands again each time |

Why the bounds are enough: two objects distinguish "this object" from "another",
a third lets one be counted while a stale flag is written back and another tips
the total; two families, one with and one without a threshold, give both
branches of the decision and a loop that can be interrupted between them; three
writes are enough to go over a limit and under it again; one relist separates
first and later lists. In `StoreLive` the initial cluster is any, so one write suffices. Two builds and two
renderings give every change of one configuration, or object, into another; the
contents have ties, lists of different lengths, none, and values that cannot be
written; the scripts have a malformed sample beside a good one, one that cannot be written
before one that can, a malformed family beside a good
one, an int too large, labels that collide and samples made by hand. Two incarnations and two workers give every pair of
overlapping events; a monitor needs two generations for a stale build and a
third for a change during a change; one restart separates what a first process left in
the API server from what a second one makes of it. Incarnations and generations are in
different runs, each with its own reason for an event to find a newer monitor than the one it is
about; together, or two workers with three generations, they are too many states for a run and are
covered by the theorem `EveryConfigurationAlwaysHandled`. Neither run has API errors of
their own: each call can already fail by a conflict or because the monitor is gone, and ends
the event the same way. The two violations of `Controller` need neither relists nor restarts, so
their runs have none. `ControllerLive` has one worker, because its graph for liveness gets too large with
two, and the three generations it takes to queue an update again while it is being processed; what
two workers may do to an item is the subject of `ImplementsWorkQueue`, in `ControllerRecreate`. In `Reports` two goroutines and the worker give every
order of three writers, two of them alike; two families, one of them without a
limit, give each branch of a check. In `Scrapes` two builds give an old and a
new one, two stores a step between stores, two families a step between families, and
two versions something to mix up. Symmetry is used for model values that are
interchangeable and only in runs without liveness. Each property of a passing
run has a mutant: a plausible slip in one mapped definition that makes the run
fail. Mutant definitions stand beside the definition they alter and are marked
as such in a comment.

**Fairness.** `FairSpec` of `StoreCardinality`: weak fairness of the reflector's
steps and of each goroutine's. They are goroutines that block only on mutexes
held for finite sections, and client-go's reflector lists again after an error.
Nothing is assumed of the cluster or of expiring watches, whose number is
bounded; `EventuallySynced` would fail under endlessly failing lists, as it should.
`FairSpec` of `Controller`: weak fairness of the informer's list and delivery, each
worker and each reporting goroutine; a goroutine's poll has a timeout, so it ends
whatever the stores do, but it then waits for `emitDone`, and that this is
always closed is part of what `ComesToRest` checks. Users, relists, restarts and
errors are free.
`FairSpec` of `Exposition`: weak fairness of each reflector that has begun an `Add`, of each
handler, and of those goroutines that are sure to answer (`Evaluation!Ends`): an expression has a
cost limit (`cel.go:319-325`), a cancelled script ends at its next step. A script nobody
has cancelled is not assumed to end, since its step limit may be off
(`starlark.go:101-103`). That handlers go on assumes clients that read:
`ReadHeaderTimeout` is the only timeout the server sets (`server.go:215-220`), so a client that
stops reading holds a store's read lock, and with it the store's reflector, for as long as its
connection lasts. Workers and new scrapes are free.

## 4. What is proved

Every safety property a run checks is also proved: TLAPS shows it for every value of the
constants that the assumptions of the modules allow. These are:

* bounds are natural numbers (a generation can be made, so there is at least one), objects and
  monitors finitely many, contents within the counts, the clients of the API server not
  each other, and the callers of evaluations the reflectors of the stores;
* `None` is none of the values it stands beside;
* a configuration is a sequence of entries with their fields, an answer of discovery a
  sequence or `Failed`, labels, metrics and families are sequences;
* an expression evaluates to a sequence of strings and a finite map, and the lists in what a
  script gives have their items in sequences: what a Go slice, a Go map and a
  Starlark list are.

The theorems (`PROJECT.json` says which property each states):

* `StoreCardinalityProofs`: `TotalsAlwaysMatch`, `TypeCorrect`,
  `CutoffAlwaysIffOver`, `AlwaysRenderedInFullOrNotAtAll`;
* `StoreTrackingProofs`: `PresentObjectsAlwaysTracked`, `SyncedAlwaysMeansListed`,
  `OvershootAlwaysBounded`, `SoftLimitsImplemented`;
* `GlobalCardinalityProofs`: `GlobalTotalIsAlwaysSum`, `TypeCorrect`, `OverIsAlwaysMarked`;
* `ControllerProofs`: `TypeCorrect`, `QueueAlwaysConsistent`,
  `QueueImplemented`, `EveryConfigurationAlwaysHandled`;
* `ReportsProofs`: `ReportsTyped`, `ConditionsAlwaysAgree`, `WritersAlwaysKeepOthers`,
  `QuietReportsAlwaysExact`;
* `ExpositionProofs`: `TypeCorrect`, `TextsAreTogether`, `ScrapesAreAtOnce`;
* `ConfigurationProofs`: `ConfigurationTypesHold`, `TheFirstEntryWins`,
  `GaugesAreOfTheLastBuild`, `LabelsAlwaysStayWithValues`, `ScalarLabelsAlwaysKeepSamples`,
  `ScriptsAlwaysAllOrNothing`.

None of them needs more than these. In particular `EveryConfigurationAlwaysHandled` holds for any
number of workers and incarnations, errors, relists and restarts: what two workers or a name that
is used again break is not the way from the API server to a build but what happens to the map
after it, which is `ProcessedMeansServed` and its run.

**A sum without recursion.** The running totals are to equal a sum over a map.
The sum of `counts[u]` over a finite map is stated as the number of pairs
`<<u, i>>` with `i` one of `counts[u]` samples (`Tables!Pairs`). `TablesProofs` shows how
that number changes: `PairsPut` (insertion replaces the old slice by the new one)
and `PairsWithout` (deletion takes the slice away). `UpdateTotals`, `DeleteTotals`,
`UpdateSum` and `DeleteSum` apply them to the code's
subtract-and-add, for the store total, each family total and the global total.

**Store.** The inductive invariant of the totals is `Typed /\
TotalsMatchObjects`, where `Typed` is `TypeOK` and `CallInProgress`: while a call is rendered or
tracked, `op` is a call. `TypeOK` alone is not inductive, as it allows `op` to
be "none" in `TrackAdd`. The cutoff invariant is inductive with `Typed`: the
three actions that change a total leave the reflector at "check", and a check
by anyone re-establishes it. `RenderedInFullOrNotAtAll` speaks only of
unlocked states; the invariant `RenderInv` extends it to the middle of a call:
what is rendered so far is empty or in full for the call's counts
(`RenderedOfCall`), and the map agrees with the tracker at all times (`MetricsOfTracked`).

**What is tracked.** `PresentObjectsTracked` is about the moments when nothing is on its
way. `Tracking` follows an object from the cluster to the tracker: its last event in the watch,
if it has one, carries its current contents; without an event, what comes next of it does: the
rest of the list, else the call in progress, else what is tracked. Each step passes the object on
from one of these places to the next. `SyncedMeansListed` needs `ListAdded`: what the list had
and is no longer to be added has been.

**Overshoot.** `OvershootBounded` is not inductive: a goroutine that read a flag's value before the
reflector changed it may write it back and let one more object through. `Spent` is the
set of goroutines that cannot write a family's flag any more; each has had one such occasion, so
what is shown is at most `Allowed`, the threshold and one object's samples for each of them
and one more. `Bounded` says so of the metrics, of what the call in progress has
rendered and is about to store, and, while the flag lets the next object through, of that one too;
the last part is what a stale write would break, were it not that it spends its goroutine.
`SeenIsDecision` says that the reflector itself writes no stale flag.

**Soft limits.** `SoftLimitsImplemented` rests on one fact: no step makes `Marked` larger but a
check that finds a family, or the store, over its limit (`NextMarked`). Flags are copied from
values that were read and these from the tracker (`FlagsCopied`), and a family is left out of an
object because its flag was set (`LeftOutByFlag`), so a mark that is stale by the time it takes effect is
still one that was made for a reason. `TotalsMatchObjects` makes the tracker's running totals those of
the abstract limits (`LimitsOver`), and `RenderedOfCall` makes what an `Add` stores its
counts but for marked families. `TrackAdd` is `Add`, `TrackDelete` is `Remove`, and every other
step is `Mark` or changes nothing.

**Global manager.** `globalTotal \in Nat` does not follow from the steps alone (a
delete subtracts), so `Typed` says only that it is an integer, `GlobalTotalIsSum`
is proved with it, and `TypeCorrect` draws `Nat` from the sum.

`OverIsMarked` speaks of the moments when no goroutine is about to check;
the inductive `Marking` covers the others: a monitor over its own limit is marked or being
checked, and while the total is over, all are marked or some check is still to come.

**Controller.** `Typed` is again `TypeOK` but for the sign of the total, which follows from the
total being the sum of what is reported (`TotalIsSum`), and `Known` says that
a worker which processes an event has a monitor and a busy goroutine a UID: what `Put` and
`Without` need for their keys. `QueueConsistent` is inductive with them. It has two halves, what
the list holds (`Holds`) and what the workers hold (`Held`): `Enqueue`, `QueueGet` and
`QueueDone` are shown to keep each, and every other action leaves the queue alone. The
refinement follows: an `Enqueue` is `Add`, a `Get` is `Take` (the head of the list is in
`dirty` and with no other worker, by `QueueConsistent`), `Finish` is `Done`, `Restart` is
`Stop`, and everything else stutters.

`EveryConfigurationHandled` follows a version of the monitor from the API server to a build.
Versions are ordered by incarnation, then generation (`NotOlder`), and the API server only moves
forward in that order (`Forward`). The inductive `Delivered` has three parts, one for each stretch of the way:

* `Told`: the last watch event, or without one the lister's copy, is the current version
  (`LatestTold`); one monitor takes the place of another only after an event of the other's
  deletion (`Chained`), so a new incarnation is an add and not an update that might be skipped;
* `WorkersReached`: no copy of the lister, of a worker or in the history is ahead of the API server;
* `Headed`: for what the lister has, an add or update item is dirty, or a worker is about to read
  the lister, or holds a version that covers it (`Covers`: the same or a newer one) and has not built yet
  (`OnItsWay`), or a version that covers it has been built or given up.

That `Headed` survives every step is the heart of it: a step of a worker can only replace what it
holds by something newer, and ends in `built` or `skipped`; a step of the informer that moves
the lister forward queues an item, unless nothing in the configuration changed. At rest
nothing is dirty or on its way, so `built` or `skipped` covers the lister's copy, which is the
current version; being ahead of the API server is excluded, so one of them is that version.

**Reports.** `ConditionsAgree` about the status needs it about every copy that
may be written back (`AllAgree`), and the lemma `SetWritesOne`: `Set` keeps one condition of a
type and the conditions of all others. `WritersKeepOthers` needs `Fresh`: a client
whose update would succeed has read the status that is there, which is what
optimistic concurrency gives. `QuietReportsExact` needs `Settled` (a store that has been
checked has the marks of a check, which is idempotent: `CheckTwice`) and `AsRead`: what a
goroutine has read of a quiet store is what is there.

**Exposition.** The invariant is a conjunction of four: `MapOk` (a build in the map, or about to be
put there, is one of its monitor), `AddsOk` (a call of `Add` that waits has a goroutine of its
own, which answers the question of the family that is next: the reason a late answer
reaches nobody), `MetricsOk`, and `ScrapesOk` (a scrape that holds a store's lock has
written what the store has, and of one build).

**Configuration.** Everything here is a sequence made of sequences: entries expand into stores,
stores into families, labels into lists, metrics and scripts into samples. The one fact all proofs
rest on is what `FlattenSeq` gives: the elements at the places `<<i, j>>`, each once and
in their order (`Flattens`, `FlattenSeqFlattens`, and `FlattensBijective` to count them). It is an
induction over the sequence, which is carried out on a set of numbers with the least-number
principle (`LeastNumber`, `UpTo`) in place of a theorem that takes an operator.

`BuildInv` says that the stores in the map are those of the last build up to what rendering
changes (`BuiltLikeKept`), that what was rendered has a list per family, and that the gauges count what the
build has seen. `FirstWins` follows from `FirstOfEach` (deduplication keeps one store of each key, the
first) and `GaugesOfBuildCurrent` from `OccurrencesArePlaces` (an element occurs as
often as there are places with it).

`FamilyInv` adds what the families have become: those of the configuration with labels of their
store added, any number of times (`FamiliesGrown`), and that what is rendered of an object is
what such a family gives on its current contents (`SamplesRendered`). The three properties of
samples are then properties of `FamilySamples`:

* labels and values: the order a list is brought into is a permutation (`SortedIndicesPermute`, by
  the rank of each element), every list is brought into the same one, and so a pair is seen as
  often as it was given (`SamplesOfLists`, `SeenAsOften`);
* scalar labels: a label that is a scalar expands nothing (`ScalarsExpandNothing`: its lists
  are empty ones at the end, `FlattenTrailing`), so each metric has the same values with and
  without it (`SameMetricValues`), and so has the family (`FlattenSameValues`);
* scripts: the extraction is all or nothing at each level (`SampleExtracted`,
  `SamplesExtracted`, `FamilyExtracted`, `ScriptResolved`), and the sample at each place of the
  text is the one given there, in the order of the families and of the samples in each
  (`FlattensPositions`, `ScriptRendered`).

Only model-checked: the liveness properties (`EventuallyTracked`, `EventuallySynced`, `ComesToRest`,
`ItemsAreHandled`, `ScrapesEnd`, `GoroutinesEnd`), which are outside what TLAPS proves, and the
four violations.

## 5. Behaviour seen while modelling

Not everything the model shows is stated as a property. The following are
consequences of the code that a maintainer may want to know; each was seen in
a run or follows from the lines given. What the runs that end in a violation show is in section 3.

* A goroutine may write back a flag it read before the reflector cleared it
  (`events.go:335`, `store.go:238-239`); the family then stays cut off until the next
  event of the store. `CutoffIffOver` is therefore about the tracker's decision, and
  `OvershootBounded` accounts for the flag's lag.
* The cardinality is reported once per event (`events.go:160`); objects that
  come and go later do not change the reported total until the next event.
* `emitDone` orders a goroutine after its own event (`events.go:155-159`), not
  before the next event's cycle. When its status update comes between a Get and an Update
  of the next event, that event is given up (`events.go:64`), and the edit it was about is
  served only after another edit, or the list of the next start. `EveryConfigurationHandled` is
  stated with this exception.
* The last `emitSuccess` reads the monitor afresh (`events.go:80`, `210`), so
  `Processed=True` can be recorded with the generation of an edit that has not been processed. When
  that edit's own event is then given up, the condition stays although the stores are the old ones:
  one worker is enough. `ProcessedMeansServed` leaves this out by asking for a build of the configuration.
* A delete event that is handled after the monitor has been created again finds
  the new one in the lister (`controller.go:406`) and takes its stores out
  of the map (`events.go:192`). When the new add event joined an add item that was waiting already
  (`controller.go:358`) and was handled before, they do not come back: this breaks `ProcessedMeansServed` with
  one worker, too.
* A goroutine finds the monitor by name (`events.go:414`): a report about one
  incarnation can be written to the status of the next, and stays when the next one's events are given up.
* `Replace` adds the objects of a list and removes nothing (`store.go:136-146`): an object deleted while
  the watch was down keeps its metrics and its cardinality until the monitor is edited, or for good.
* The families a status lists as cut off are read before the thresholds are checked
  (`events.go:333`, `335`): in a report on a store that changed meanwhile they may be those of
  the moment before. `types.go:310` calls them those "currently cut off";
  `QuietReportsExact` is about stores at rest.
* Of two goroutines of one monitor the one that read the stores first may write last: the
  status then has the older report until the next event.
* The gauges of cardinality are set before the status is written (`events.go:390`), whether
  or not that succeeds, and those of stores and families are never deleted (`events.go:191-205`).
* The Failed condition is never set: `emitFailure` is reached by an unknown event only, and
  the handlers enqueue three known ones.
* A script's int that does not fit an int64 becomes the label "0" (`starlark.go:455`), and
  `metric()` refuses an int as a value although a sample made by hand may have one
  (`starlark.go:185`, `474`).
* The name, help and kind a script gives a family are checked and then not used: samples are
  written under the configured family's name, with its kind (`family.go:248`, `271`).
* One malformed sample fails all families of a script (`starlark.go:391-394`), one that cannot be
  written leaves its name and labels in the text (`family.go:248`, `272-276`), and what comes next
  continues that line: the next sample, which is counted, or at the end the next object's text.
  `ScriptsAllOrNothing` has it in its place, without a value.
* Between `stores.Delete` and the store call of the build a scrape shows nothing of the
  monitor (`events.go:135`), and right after it shows stores that have not listed yet.
* A relist that finds another monitor of the same name and configuration comes
  as an update, which `updateHandler` skips: its stores are not built (`Replaced`, the second
  exception of `EveryConfigurationHandled`).
* A goroutine that aggregated before `DeleteResource` reports after it and puts the
  entry back.
* Of the limits above a store nothing is enforced: `cutoffResources` is read by
  nothing outside tests, a monitor's own `cardinalityLimit` is not passed on
  (`events.go:382`), and a mark set by the global limit stays on monitors that are
  not checked again after the total has dropped (`cardinality_manager.go:162`).
* A label that resolves to a map alone, or to an empty list, still has an entry
  among the expanding ones (`family.go:354`), so a metric with a scalar value has
  no samples at all (`family.go:561`, `611`).
* Two lists inside one resolved map share the indices that
  `collectIndexedResolvedValues` looks for (`family.go:417`): which of two elements
  is kept depends on the order of a map iteration. The instances have one list each.
* `perFamily` is keyed by the family's name (`store.go:212`): of two families of a
  store with one name only the last is counted.
* A gauge of duplicates is set for what a build has seen only: when the last store
  with a family or key goes, its gauge keeps its value (`config.go:156`, `163`).
* A scalar store label appears again in every sample after each object (`store.go:225`):
  the count is right (`ScalarLabelsKeepSamples`), the label set is not.

## 6. Not modelled

* The text format: headers, the spelling of samples, content negotiation, the OpenMetrics
  trailer; the other endpoints of both servers. Of the text of a family its samples are modelled,
  and which of them end their line.
* The `_created` line that ends a family (`family.go:130-147`).
* The expression languages themselves, the conversion of objects into their values
  (`goToStarlark`, `quantity_to_float`, CEL's own functions), and what a nested CEL result is
  flattened to: indices of nested lists collide, and a gap in them cuts a list short
  (`cel.go:418-446`, `family.go:455-458`). `Families` has the results of at most one list.
* The gauges and counters of the telemetry endpoint, other than the duplicates' and
  `resources_monitored_info`: nothing reads them.
* Flags, signals, health probes and external collectors: read once at start, or
  without state shared with the rest. Generated code is modelled from how it is used.
* Several keys in the queue: items of different keys share nothing but the
  global manager, which `GlobalCardinality` covers with several monitors, and the stores
  map, of which `Exposition` has several monitors as a parameter.

## 7. Plan

Done: `StoreCardinality` with `SoftLimits`, `Controller` with `WorkQueue`, `GlobalCardinality`, `Reports`,
`Configuration` over `Discovery`, `Families` and `Starlark`, `Exposition` over `Evaluation`,
their runs and theorems. What would come next, in order of importance:

1. `Controller` implementing `GlobalCardinality` (which needs the check step in it).
2. The flattening of nested results in `Families`, with the order of map iterations as a
   choice.
