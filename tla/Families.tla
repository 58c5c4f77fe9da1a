------------------------------- MODULE Families --------------------------------
(***************************************************************************)
(* The samples one family generates from one custom resource               *)
(* (internal/family.go, internal/metric.go).                               *)
(*                                                                         *)
(* Strings are abstracted to numbers in their lexical order, Blank being   *)
(* the empty one.  An expression evaluated on an object is a scalar or a   *)
(* composite: the strings of a list, those of a map under their keys, or   *)
(* both when one is nested in the other.  A failed evaluation is a scalar  *)
(* of NotANumber.  A sample is its labels, pairs of a name and a value,    *)
(* and its value; the labels of the object itself (appendAutoLabels) are   *)
(* on every sample alike and left out.  What a script gives on an object   *)
(* are its globals (Starlark).                                             *)
(*                                                                         *)
(* The text of a family is its samples as they are written, one after the  *)
(* other.  One that was begun and could not be finished has a value that   *)
(* is Blank, which is no number: nothing ends its line.                    *)
(***************************************************************************)
EXTENDS Integers, Starlark, FiniteSetsExt

CONSTANTS
    NotANumber,   \* the strings strconv.ParseFloat refuses
    BelowZero     \* the strings that are numbers below zero, or not one (NaN)

Blank == 0

ASSUME StringsAssumption ==
    /\ NotANumber \subseteq Nat
    /\ BelowZero \subseteq Nat \ NotANumber
    /\ Blank \in NotANumber

Scalar(s) == [scalar |-> TRUE, text |-> s, list |-> <<>>, map |-> <<>>]
Composite(l, m) == [scalar |-> FALSE, text |-> Blank, list |-> l, map |-> m]

\* A metric without a resolver takes its family's. The unstructured resolver
\* formats a composite value as one string, which is not a number.
ResolverOf(family, metric) ==
    IF metric.resolver = "" THEN family.resolver ELSE metric.resolver
Resolve(resolver, expression, object) ==
    IF resolver = "unstructured" /\ ~object[expression].scalar
    THEN Scalar(Blank)
    ELSE object[expression]

----------------------------------------------------------------------------
(* Labels.                                                                 *)

\* The labels on every sample: scalars, and the entries of maps under names of
\* their own or, when the label's name starts with "_", under the map's.
Fixed(labels, resolved) ==
    LET Entries(l) ==
            LET r == resolved[l.value] IN
            IF r.scalar THEN << <<<<l.name>>, r.text>> >>
            ELSE LET keys == SetToSeq(DOMAIN r.map) IN
                 [k \in DOMAIN keys |->
                     <<IF l.spread THEN <<keys[k]>> ELSE <<l.name, keys[k]>>,
                       r.map[keys[k]]>>]
    IN  FlattenSeq([i \in DOMAIN labels |-> Entries(labels[i])])

\* Mutant: a scalar expands too, as a list of one.
ScalarExpands(labels, resolved) ==
    LET ListOf(l) == LET r == resolved[l.value] IN IF r.scalar THEN <<r.text>> ELSE r.list
        Named(l, n) == IF l.name = n THEN ListOf(l) ELSE <<>>
    IN  [n \in {l.name : l \in ToSet(labels)} |->
            FlattenSeq([i \in DOMAIN labels |-> Named(labels[i], n)])]

\* resolvedExpandedLabelSet: the lists, one after the other when several labels
\* have one name. A label that resolved to a map, or to an empty list, is in it
\* with nothing to expand.
Expanding(labels, resolved) ==
    LET Expands(l) == ~resolved[l.value].scalar
        ListOf(l, n) == IF Expands(l) /\ l.name = n THEN resolved[l.value].list ELSE <<>>
    IN  [n \in {l.name : l \in {k \in ToSet(labels) : Expands(k)}} |->
            FlattenSeq([i \in DOMAIN labels |-> ListOf(labels[i], n)])]

----------------------------------------------------------------------------
(* Lists of labels and of values are brought into the order of the list    *)
(* whose name comes first.                                                 *)

\* The indices of a list in the order of its elements: with i - 1 before the i-th.
SortedIndices(s) ==
    LET Before(b) == {a \in DOMAIN s : s[a] < s[b] \/ (s[a] = s[b] /\ a < b)}
    IN  [i \in DOMAIN s |-> CHOOSE b \in DOMAIN s : Cardinality(Before(b)) = i - 1]

\* slices.Sorted
Sorted(S) ==
    LET s == SetToSeq(S)
    IN  [i \in DOMAIN s |-> s[SortedIndices(s)[i]]]

\* Mutant: only the anchor is sorted, the lists that run beside it are not.
SortAnchor(lists, values) ==
    IF lists = <<>> THEN [lists |-> lists, values |-> values]
    ELSE LET anchor == lists[Min(DOMAIN lists)]
             order == SortedIndices(anchor)
         IN  IF Len(values) # Len(anchor) THEN [lists |-> lists, values |-> values]
             ELSE [lists |-> [lists EXCEPT ![Min(DOMAIN lists)] =
                                 [i \in DOMAIN anchor |-> anchor[order[i]]]],
                   values |-> values]

\* Only when there is a value for each element of the first list, and then
\* every list that is as long.
CoSorted(lists, values) ==
    IF lists = <<>> THEN [lists |-> lists, values |-> values]
    ELSE LET anchor == lists[Min(DOMAIN lists)]
             order == SortedIndices(anchor)
             Reorder(s) == IF Len(s) # Len(anchor) THEN s
                           ELSE [i \in DOMAIN s |-> s[order[i]]]
         IN  IF Len(values) # Len(anchor) THEN [lists |-> lists, values |-> values]
             ELSE [lists |-> [n \in DOMAIN lists |-> Reorder(lists[n])],
                   values |-> Reorder(values)]

----------------------------------------------------------------------------
(* Samples.                                                                *)

At(s, i, default) == IF i <= Len(s) THEN s[i] ELSE default

\* The samples of a metric before their values are parsed: one for a scalar,
\* one per value when there are no lists of labels, and otherwise one per
\* element of the longest of these, shorter ones padded with empty strings. The
\* value of a sample that has none is the scalar, empty when there is a list.
Expansion(labels, value, resolved) ==
    LET sorted == CoSorted(Expanding(labels, resolved), resolved[value].list)
        fixed == Fixed(labels, resolved)
        lists == sorted.lists
        names == Sorted(DOMAIN lists)
        size == IF lists = <<>> THEN Max({1, Len(sorted.values)})
                ELSE Max({Len(lists[n]) : n \in DOMAIN lists})
    IN  [i \in 1 .. size |->
            [labels |-> fixed \o [k \in DOMAIN names |->
                                     <<<<names[k]>>, At(lists[names[k]], i, Blank)>>],
             value |-> At(sorted.values, i, resolved[value].text)]]

\* writeValue and validateValue.
CanWrite(family, s) ==
    /\ s \notin NotANumber
    /\ family.counter => s \notin BelowZero

\* An empty list and a map are no value.
HasValue(r) == r.scalar \/ r.list # <<>>

\* A metric is written whole or not at all. No value and no
\* resolver are as good as an error.
MetricSamples(family, metric, object) ==
    LET resolver == ResolverOf(family, metric)
        labels == metric.labels \o family.labels
        expressions == {metric.value} \cup {l.value : l \in ToSet(labels)}
        Resolved == [e \in expressions |-> Resolve(resolver, e, object)]
        samples == Expansion(labels, metric.value, Resolved)
    IN  IF /\ resolver \in {"cel", "unstructured"}
           /\ HasValue(Resolved[metric.value])
           /\ \A i \in DOMAIN samples : CanWrite(family, samples[i].value)
        THEN samples
        ELSE <<>>

\* A Starlark script gives the samples itself, without the inherited labels: those
\* of all its families, or none after an error. The name and the labels of a sample
\* are written before its value is looked at, and stay when it cannot be written.
ScriptSamples(family, object) ==
    LET families == ResolveScript(object[family.script])
        samples == FlattenSeq(families[1])
    IN  IF families = <<>> THEN <<>>
        ELSE [i \in DOMAIN samples |->
                [labels |-> samples[i].labels,
                 value |-> IF CanWrite(family, samples[i].value) THEN samples[i].value
                           ELSE Blank]]

\* What buildMetricString writes ...
FamilySamples(family, object) ==
    IF family.script # "" THEN ScriptSamples(family, object)
    ELSE FlattenSeq([m \in DOMAIN family.metrics |->
                        MetricSamples(family, family.metrics[m], object)])

\* ... and what it counts.
SampleCount(samples) == Cardinality({i \in DOMAIN samples : samples[i].value # Blank})
================================================================================
