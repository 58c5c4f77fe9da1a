-------------------------------- MODULE Starlark -------------------------------
(***************************************************************************)
(* What becomes of the value of a Starlark script                          *)
(* (pkg/resolver/starlark.go): the builtins a script makes samples and     *)
(* families with, and the samples that are taken from its variable         *)
(* "families", which may have been made without them.                      *)
(*                                                                         *)
(* A value is its type and its text, a list or a dict its items.           *)
(* An int that does not fit an int64 has a type of its own.  What fails is *)
(* Malformed, and so is all that is made of it: the script ends there.     *)
(***************************************************************************)
EXTENDS Naturals, Sequences, SequencesExt

CONSTANTS
    Malformed,  \* an error
    Zero        \* the text of 0

Value(type, text) == [type |-> type, text |-> text]
Is(v, types) == v # Malformed /\ v.type \in types

Key(name) == [type |-> "string", name |-> name]
IntKey(name) == [type |-> "int", name |-> name]

\* Items of a list are values, those of a dict pairs of a key and a value, in the
\* order in which they were put in.
List(items) ==
    IF \E i \in DOMAIN items : items[i] = Malformed THEN Malformed
    ELSE [type |-> "list", items |-> items]
Dict(items) ==
    IF \E i \in DOMAIN items : items[i][2] = Malformed THEN Malformed
    ELSE [type |-> "dict", items |-> items]

\* dict.Get, of a key that is a string.
Get(dict, name) ==
    LET found == SelectSeq(dict.items, LAMBDA item : item[1] = Key(name))
    IN  IF found = <<>> THEN Malformed ELSE found[1][2]

StringKeys(dict) == \A i \in DOMAIN dict.items : dict.items[i][1].type = "string"

\* The list of families that globals have, if any, and the lists of their samples
\* have their items in sequences.
HasListsOfItems(globals) ==
    LET families == Get(globals, "families")
        samples(v) == Get(v, "samples")
    IN  globals # Malformed /\ Is(families, {"list"}) =>
            /\ families.items \in Seq(ToSet(families.items))
            /\ \A v \in ToSet(families.items) :
                Is(v, {"dict"}) /\ Is(samples(v), {"list"}) =>
                    samples(v).items \in Seq(ToSet(samples(v).items))

----------------------------------------------------------------------------
(* The builtins.                                                           *)

\* An int is no float here.
MetricBuiltin(labels, value) ==
    IF Is(labels, {"dict"}) /\ Is(value, {"float"})
    THEN Dict(<< <<Key("labels"), labels>>, <<Key("value"), value>> >>)
    ELSE Malformed

\* Nothing reads the name, help and kind of a family later on: its samples are
\* written under the name and kind of the configured family.
FamilyBuiltin(name, help, kind, samples) ==
    IF /\ Is(name, {"string"}) /\ Is(help, {"string"}) /\ Is(kind, {"string"})
       /\ Is(samples, {"list"})
       /\ kind.text \in {"gauge", "counter"}
    THEN Dict(<< <<Key("name"), name>>, <<Key("help"), help>>, <<Key("kind"), kind>>,
                 <<Key("samples"), samples>> >>)
    ELSE Malformed

\* "renamed" is each key sanitized and with the prefix. Of two keys that become
\* one the later one's value stays.
LabelPrefixBuiltin(labels, renamed) ==
    IF ~Is(labels, {"dict"}) \/ ~StringKeys(labels) THEN Malformed
    ELSE LET Name(i) == renamed[labels.items[i][1].name]
             Overwritten(i) == \E j \in DOMAIN labels.items : j > i /\ Name(j) = Name(i)
             kept == SetToSortSeq({i \in DOMAIN labels.items : ~Overwritten(i)}, <)
         IN  Dict([k \in DOMAIN kept |->
                       <<Key(Name(kept[k])), labels.items[kept[k]][2]>>])

----------------------------------------------------------------------------
(* The extraction of what the script gave: a sequence of the one result, or  *)
(* none after an error.                                                      *)

\* Every item, or an error.
Each(items, Extract(_)) ==
    LET extracted == [i \in DOMAIN items |-> Extract(items[i])]
    IN  IF \E i \in DOMAIN items : extracted[i] = <<>> THEN <<>>
        ELSE <<[i \in DOMAIN items |-> extracted[i][1]]>>

ExtractFloat(v) == IF Is(v, {"float", "int", "bigint"}) THEN <<v.text>> ELSE <<>>

\* Int64 answers 0 for what does not fit; a list is shown with its items.
LabelText(v) == CASE v.type = "bigint" -> Zero
                  [] v.type \in {"list", "dict"} -> v.items
                  [] OTHER -> v.text

ExtractLabels(v) ==
    IF ~Is(v, {"dict"}) \/ ~StringKeys(v) THEN <<>>
    ELSE <<[n \in {v.items[i][1].name : i \in DOMAIN v.items} |-> LabelText(Get(v, n))]>>

ExtractSample(v) ==
    IF ~Is(v, {"dict"}) THEN <<>>
    ELSE LET labels == ExtractLabels(Get(v, "labels"))
             value == ExtractFloat(Get(v, "value"))
         IN  IF labels = <<>> \/ value = <<>> THEN <<>>
             ELSE <<[labels |-> labels[1], value |-> value[1]]>>

\* Mutant: a sample that is malformed is left out.
SkipMalformed(v) ==
    IF ~Is(v, {"list"}) THEN <<>>
    ELSE LET good == SelectSeq(v.items, LAMBDA s : ExtractSample(s) # <<>>)
         IN  Each(good, ExtractSample)

ExtractSamples(v) == IF Is(v, {"list"}) THEN Each(v.items, ExtractSample) ELSE <<>>

\* A family is its samples.
ExtractFamily(v) ==
    IF Is(v, {"dict"}) /\ \A n \in {"name", "help", "kind"} : Is(Get(v, n), {"string"})
    THEN ExtractSamples(Get(v, "samples"))
    ELSE <<>>

ExtractFamilies(v) == IF Is(v, {"list"}) THEN Each(v.items, ExtractFamily) ELSE <<>>

\* The families of a script that ended with these globals: an error when it did
\* not end, or has no variable "families".
ResolveScript(globals) ==
    IF globals = Malformed THEN <<>> ELSE ExtractFamilies(Get(globals, "families"))
================================================================================
