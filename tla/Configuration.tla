----------------------------- MODULE Configuration -----------------------------
(***************************************************************************)
(* The stores of one ResourceMetricsMonitor: how a configuration becomes   *)
(* stores (configurer.build, internal/config.go), with what discovery      *)
(* answers for each of its entries, and what the stores then render for    *)
(* the objects their reflectors hand them (internal/store.go).             *)
(*                                                                         *)
(* An entry and a store are one record: the patterns of group, version,    *)
(* kind and resource, the resolver and labels its families inherit, and    *)
(* the families.  Cutoffs are StoreCardinality's.                          *)
(***************************************************************************)
EXTENDS Discovery, Families, Tables, TLC

CONSTANTS
    Configs,      \* the configurations a monitor is created or edited with
    Answers,      \* what discovery may answer when it is asked
    UIDs,         \* the objects a store may be handed
    Contents,     \* what each expression may evaluate to on an object
    MaxBuilds,    \* bound: events that build
    MaxRenders    \* bound: objects handed to the stores

ASSUME BoundsAssumption ==
    /\ MaxBuilds \in Nat
    /\ MaxRenders \in Nat
ASSUME ConfigsAssumption == \A c \in Configs :
    /\ c \in Seq(ToSet(c))
    /\ \A entry \in ToSet(c) :
        /\ DOMAIN entry = {"group", "version", "kind", "resource", "resolver", "labels",
                           "families"}
        /\ entry.families \in Seq(ToSet(entry.families))
        /\ \A family \in ToSet(entry.families) : DOMAIN family =
                {"name", "counter", "resolver", "script", "labels", "metrics"}
ASSUME AnswersAssumption ==
    /\ Failed \in Answers
    /\ \A a \in Answers \ {Failed} : a \in Seq(ToSet(a))
ASSUME ContentsAssumption ==
    \A c \in Configs : \A entry \in ToSet(c) :
        /\ entry.labels \in Seq(ToSet(entry.labels))
        /\ \A family \in ToSet(entry.families) :
            /\ family.labels \in Seq(ToSet(family.labels))
            /\ family.metrics \in Seq(ToSet(family.metrics))
            /\ \A metric \in ToSet(family.metrics) :
                LET labels == metric.labels \o family.labels \o entry.labels IN
                /\ metric.labels \in Seq(ToSet(metric.labels))
                /\ \A l \in ToSet(labels) : l.name \in Nat
                /\ \A x \in Contents :
                    \A e \in {metric.value} \cup {l.value : l \in ToSet(labels)} :
                        x[e].list \in Seq(Nat) /\ IsFiniteSet(DOMAIN x[e].map)
ASSUME ScriptsAssumption ==
    \A c \in Configs : \A entry \in ToSet(c) : \A family \in ToSet(entry.families) :
        family.script # "" => \A x \in Contents : HasListsOfItems(x[family.script])

VARIABLES
    config,            \* the configuration of the last build
    answers,           \* what discovery answered it, entry by entry
    built,             \* the stores in the map, and their families' state
    metrics,           \* StoreType.metrics of each store, as samples
    objects,           \* what each store was last handed, by object
    duplicateStores,   \* the gauge, by store key
    duplicateFamilies, \* the gauge, by family name
    builds, renders    \* the bounded counters

stores == <<built, metrics, objects>>
gauges == <<duplicateStores, duplicateFamilies>>
vars == <<config, answers, stores, gauges, builds, renders>>

Init ==
    /\ config = <<>>
    /\ answers = <<>>
    /\ built = <<>>
    /\ metrics = <<>>
    /\ objects = <<>>
    /\ duplicateStores = <<>>
    /\ duplicateFamilies = <<>>
    /\ builds = 0
    /\ renders = 0

----------------------------------------------------------------------------
(* Building.                                                               *)

\* The resource is no part of it.
StoreKey(store) == <<store.group.text, store.version.text, store.kind.text>>

\* First pass: the entries in order, each with the answer it got.
AllExpanded(c, a) == FlattenSeq([n \in DOMAIN c |-> ExpandWildcards(c[n], a[n])])

\* Mutant: a later store replaces the one that has its key.
LastWins(expanded) ==
    LET Later(i) == {j \in DOMAIN expanded :
                        j > i /\ StoreKey(expanded[j]) = StoreKey(expanded[i])}
    IN  FlattenSeq([i \in DOMAIN expanded |->
            IF Later(i) = {} THEN <<expanded[i]>> ELSE <<>>])

\* Second pass: of the stores with one key the first is kept.
Deduplicated(expanded) ==
    LET Earlier(i) == {j \in DOMAIN expanded :
                        j < i /\ StoreKey(expanded[j]) = StoreKey(expanded[i])}
    IN  FlattenSeq([i \in DOMAIN expanded |->
            IF Earlier(i) = {} THEN <<expanded[i]>> ELSE <<>>])

FamilyNames(deduplicated) ==
    FlattenSeq([n \in DOMAIN deduplicated |->
        [f \in DOMAIN deduplicated[n].families |-> deduplicated[n].families[f].name]])

Occurrences(x, s) == Cardinality({i \in DOMAIN s : s[i] = x})

\* Mutant: the gauge is only set for what is duplicated.
OnlyDuplicates(gauge, s) ==
    [x \in {y \in ToSet(s) : Occurrences(y, s) > 1} |-> Occurrences(x, s) - 1] @@ gauge

\* Mutant: the first occurrence is not counted.
FirstNotCounted(gauge, s) == [x \in ToSet(s) |-> Occurrences(x, s) - 2] @@ gauge

\* A gauge set for everything that was seen, and only for that.
GaugeSet(gauge, s) == [x \in ToSet(s) \cup DOMAIN gauge |->
    IF x \in ToSet(s) THEN Occurrences(x, s) - 1 ELSE gauge[x]]

\* Third pass: a family has a script only if it names the resolver itself.
BuildStoreFromConfig(store) ==
    [store EXCEPT !.families = [f \in DOMAIN store.families |->
        [store.families[f] EXCEPT
            !.script = IF store.families[f].resolver = "starlark" THEN @ ELSE ""]]]

StoresOf(c, a) ==
    LET deduplicated == Deduplicated(AllExpanded(c, a))
    IN  [n \in DOMAIN deduplicated |-> BuildStoreFromConfig(deduplicated[n])]

\* An add or update event: discovery is asked anew for every entry, so two
\* entries of one build may be answered differently.
Build(c, a) ==
    /\ builds < MaxBuilds
    /\ config' = c
    /\ answers' = a
    /\ LET expanded == AllExpanded(c, a)
           keys == [n \in DOMAIN expanded |-> StoreKey(expanded[n])]
       IN  /\ duplicateStores' = GaugeSet(duplicateStores, keys)
           /\ duplicateFamilies' =
                GaugeSet(duplicateFamilies, FamilyNames(Deduplicated(expanded)))
    /\ built' = StoresOf(c, a)
    /\ metrics' = [n \in DOMAIN built' |-> <<>>]
    /\ objects' = [n \in DOMAIN built' |-> <<>>]
    /\ builds' = builds + 1
    /\ UNCHANGED renders

----------------------------------------------------------------------------
(* Rendering.                                                              *)

\* What a family takes from its store before every object it renders: the
\* resolver once, the labels each time.
InheritFamilyConfiguration(family, store) ==
    [family EXCEPT !.resolver = IF @ = "" THEN store.resolver ELSE @,
                   !.labels = @ \o store.labels]

\* Add, or Update, of object u with contents x by the reflector of a store.
Add(n, u, x) ==
    /\ renders < MaxRenders
    /\ LET store == built[n]
           families == [f \in DOMAIN store.families |->
                           InheritFamilyConfiguration(store.families[f], store)]
       IN  /\ built' = [built EXCEPT ![n].families = families]
           /\ metrics' = [metrics EXCEPT ![n] =
                Put(@, u, [f \in DOMAIN families |-> FamilySamples(families[f], x)])]
    /\ objects' = [objects EXCEPT ![n] = Put(@, u, x)]
    /\ renders' = renders + 1
    /\ UNCHANGED <<config, answers, gauges, builds>>

Next ==
    \/ \E c \in Configs : \E a \in [DOMAIN c -> Answers] : Build(c, a)
    \/ \E n \in DOMAIN built, u \in UIDs, x \in Contents : Add(n, u, x)

Spec == Init /\ [][Next]_vars

----------------------------------------------------------------------------
(* Properties.                                                             *)

\* Every variable has the shape its Go counterpart has: the gauges count, every
\* store is of a concrete kind, and each object a store has rendered has a list
\* of samples per family (StoreType.metrics).
TypeOK ==
    /\ config \in Configs \cup {<<>>}
    /\ DOMAIN answers = DOMAIN config
    /\ \A k \in DOMAIN duplicateStores : duplicateStores[k] \in Nat
    /\ \A k \in DOMAIN duplicateFamilies : duplicateFamilies[k] \in Nat
    /\ DOMAIN metrics = DOMAIN built
    /\ \A n \in DOMAIN built :
        /\ ~HasWildcards(built[n])
        /\ DOMAIN metrics[n] \subseteq UIDs
        /\ DOMAIN objects[n] = DOMAIN metrics[n]
        /\ \A u \in DOMAIN metrics[n] :
            DOMAIN metrics[n][u] = DOMAIN built[n].families
    /\ builds \in 0 .. MaxBuilds
    /\ renders \in 0 .. MaxRenders

Covered(n) == {StoreKey(s) : s \in ToSet(ExpandWildcards(config[n], answers[n]))}

\* A kind that some entry covers has exactly one store, with the families of the
\* first entry that covers it; an entry whose discovery fails costs no other
\* entry its stores (configurer.build, config.go:96-184).
FirstWins ==
    /\ \A n \in DOMAIN built : \E e \in DOMAIN config : StoreKey(built[n]) \in Covered(e)
    /\ \A e \in DOMAIN config : \A key \in Covered(e) :
        (\A d \in 1 .. e - 1 : key \notin Covered(d)) =>
            \E n \in DOMAIN built :
                /\ StoreKey(built[n]) = key
                /\ \A m \in DOMAIN built \ {n} : StoreKey(built[m]) # key
                /\ FamilyNames(<<built[n]>>) = FamilyNames(<<config[e]>>)

\* A gauge that was never set reads as 0.
Reading(gauge, k) == IF k \in DOMAIN gauge THEN gauge[k] ELSE 0

\* After any sequence of builds the gauges say of every store and family of the
\* current one how many more there are of it, whatever earlier builds set them to
\* (config.go:154-177).  Of a store or a family that the current build has not,
\* the gauge keeps the value it was last set to, duplicates included.
GaugesOfBuildCurrent ==
    /\ \A n \in DOMAIN built : \A f \in DOMAIN built[n].families :
        LET name == built[n].families[f].name IN
        Reading(duplicateFamilies, name) + 1 =
            Cardinality(UNION {{m} \X {g \in DOMAIN built[m].families :
                                          built[m].families[g].name = name} :
                                  m \in DOMAIN built})
    /\ \A n \in DOMAIN built :
        Reading(duplicateStores, StoreKey(built[n])) + 1 =
            Cardinality(UNION {{e} \X {i \in DOMAIN ExpandWildcards(config[e], answers[e]) :
                              StoreKey(ExpandWildcards(config[e], answers[e])[i])
                                  = StoreKey(built[n])} :
                                  e \in DOMAIN config})

\* When every list of a metric's labels has as many elements as its values, the
\* samples are the elements put together index by index, whatever order the
\* lists are brought into (extractAndSortExpandedMetricValues, family.go:476-519).
LabelsStayWithValues ==
    \A n \in DOMAIN built : \A family \in ToSet(built[n].families) :
        \A metric \in ToSet(family.metrics), x \in Contents :
            LET labels == metric.labels \o family.labels
                lists == Expanding(labels, x)
                values == x[metric.value].list
                names == Sorted(DOMAIN lists)
                fixed == Len(Fixed(labels, x))
                samples == Expansion(labels, metric.value, x)
                Sample(i) == <<[k \in DOMAIN names |-> lists[names[k]][i]], values[i]>>
                Seen(i) == <<[k \in DOMAIN names |-> samples[i].labels[fixed + k][2]],
                             samples[i].value>>
            IN  (lists # <<>> /\ \A k \in DOMAIN lists : Len(lists[k]) = Len(values)) =>
                    /\ Len(samples) = Len(values)
                    /\ \A i \in DOMAIN values :
                        Cardinality({j \in DOMAIN values : Seen(j) = Sample(i)})
                            = Cardinality({j \in DOMAIN values : Sample(j) = Sample(i)})

\* A script's samples are those of all the families it gave, whatever their kind,
\* in their order, and those that cannot be written leave no value; when anything
\* in what it gave is no family or no sample, or it failed, there are none of them
\* at all (extractFamilies, starlark.go:312-402; buildMetricStringFromStarlark,
\* family.go:226-283).
ScriptsAllOrNothing ==
    \A n \in DOMAIN built : \A u \in DOMAIN metrics[n], f \in DOMAIN built[n].families :
        LET family == built[n].families[f]
            families == Get(objects[n][u][family.script], "families")
            given == families.items
            Given == UNION {{<<i, j>> : j \in DOMAIN Get(given[i], "samples").items} :
                               i \in DOMAIN given}
            Sample(g) == Get(given[g[1]], "samples").items[g[2]]
            Text(g) == Get(Sample(g), "value").text
            Position(g) == Cardinality({h \in Given :
                                h[1] < g[1] \/ (h[1] = g[1] /\ h[2] <= g[2])})
            IsFamily(v) ==
                /\ Is(v, {"dict"})
                /\ \A k \in {"name", "help", "kind"} : Is(Get(v, k), {"string"})
                /\ Is(Get(v, "samples"), {"list"})
            IsSample(v) ==
                /\ Is(v, {"dict"})
                /\ Is(Get(v, "value"), {"float", "int", "bigint"})
                /\ Is(Get(v, "labels"), {"dict"}) /\ StringKeys(Get(v, "labels"))
            rendered == metrics[n][u][f]
        IN  family.script # "" =>
                IF \/ objects[n][u][family.script] = Malformed
                   \/ ~Is(families, {"list"})
                   \/ \E i \in DOMAIN given : ~IsFamily(given[i])
                   \/ \E g \in Given : ~IsSample(Sample(g))
                THEN rendered = <<>>
                ELSE /\ Len(rendered) = Cardinality(Given)
                     /\ \A g \in Given : rendered[Position(g)].value =
                            IF CanWrite(family, Text(g)) THEN Text(g) ELSE Blank

\* The samples the object gives with the labels the configuration says: what a
\* store just built would render for it.
Fresh(n, f, x) ==
    LET store == StoresOf(config, answers)[n]
    IN  FamilySamples(InheritFamilyConfiguration(store.families[f], store), x)

\* What an object counts for is what its contents give with the labels the
\* configuration says, however often and after whatever else it is rendered
\* (buildMetricString, family.go:151-152; inheritFamilyConfiguration,
\* store.go:220-226).
TrueCardinality ==
    \A n \in DOMAIN built : \A u \in DOMAIN metrics[n] :
        \A f \in DOMAIN built[n].families :
            SampleCount(metrics[n][u][f]) = SampleCount(Fresh(n, f, objects[n][u]))

\* As long as the labels a store adds to its families are no lists, nor maps:
\* then edits and relists leave the values of every sample, in their order, and
\* so the cardinality, those of the object's current contents
\* (generateMetricsForObject, store.go:194-218).
ScalarLabelsKeepSamples ==
    \A n \in DOMAIN built : \A u \in DOMAIN metrics[n] :
        (\A l \in ToSet(built[n].labels) : objects[n][u][l.value].scalar) =>
        \A f \in DOMAIN built[n].families :
            LET Values(samples) == [i \in DOMAIN samples |-> samples[i].value]
            IN  Values(metrics[n][u][f]) = Values(Fresh(n, f, objects[n][u]))
================================================================================
