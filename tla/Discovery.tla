------------------------------- MODULE Discovery -------------------------------
(***************************************************************************)
(* What a store entry of a configuration stands for                        *)
(* (internal/discovery.go): itself, or, when its group, version, kind or   *)
(* resource is a pattern, one store per API resource that discovery        *)
(* answers and the patterns match.                                         *)
(*                                                                         *)
(* A pattern is its text, whether it contains "*", and the names           *)
(* filepath.Match finds in it.  An empty text matches the empty name only, *)
(* which is how matchesGroupPattern reads it for a group, and no version,  *)
(* kind or resource is empty.                                              *)
(***************************************************************************)
EXTENDS SequencesExt

CONSTANT Failed    \* ServerGroupsAndResources answered nothing but an error

Pattern(text, names) == [text |-> text, wild |-> TRUE, names |-> names]
Literal(text) == [text |-> text, wild |-> FALSE, names |-> {text}]

HasWildcards(store) ==
    \/ store.group.wild
    \/ store.version.wild
    \/ store.kind.wild
    \/ store.resource.wild

WildcardMatchedResource(store) == store.kind.wild \/ store.resource.wild

\* Verbs that are not reported are not held against a resource.
SupportsListWatch(api) == api.verbs # {} => {"list", "watch"} \subseteq api.verbs

Matches(store, api) ==
    /\ api.group \in store.group.names
    /\ api.version \in store.version.names
    /\ ~api.subresource
    /\ api.kind \in store.kind.names
    /\ api.resource \in store.resource.names
    /\ WildcardMatchedResource(store) => SupportsListWatch(api)

Expanded(store, api) ==
    [store EXCEPT !.group = Literal(api.group), !.version = Literal(api.version),
                  !.kind = Literal(api.kind), !.resource = Literal(api.resource)]

\* The stores an entry adds to a build. An answer is the API resources of the
\* groups that could be discovered; when there is none, the entry adds nothing.
ExpandWildcards(store, answer) ==
    IF ~HasWildcards(store) THEN <<store>>
    ELSE IF answer = Failed THEN <<>>
    ELSE FlattenSeq([i \in DOMAIN answer |->
            IF Matches(store, answer[i]) THEN <<Expanded(store, answer[i])>> ELSE <<>>])
================================================================================
