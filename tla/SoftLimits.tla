------------------------------ MODULE SoftLimits ------------------------------
(***************************************************************************)
(* What the limits of a store promise (internal/store.go,                  *)
(* internal/cardinality.go): the objects are counted in full, and what is  *)
(* shown of an object is what it counts for, but for families that had     *)
(* been marked; a family is marked only at a moment when it, or the store, *)
(* was over its limit.  Enforcement is soft: when marks are made and       *)
(* dropped, and by whom, is left open, and what is shown already stays.    *)
(***************************************************************************)
EXTENDS Tables

CONSTANTS
    UIDs,             \* the objects
    Family,           \* the families of the store
    MaxSamples,       \* bound: samples of one family for one object
    Counts,           \* the numbers of samples an object may have, by family
    StoreThreshold,   \* the limit of the store, 0 when it has none
    FamilyThreshold   \* that of each family

VARIABLES
    tracked,   \* what each object counts for
    shown,     \* what is shown of each object
    marked     \* the families that may be left out

vars == <<tracked, shown, marked>>

\* The samples counted: of a family, and of the store.
InFamily(f) == SumOf([u \in DOMAIN tracked |-> tracked[u][f]], MaxSamples)
InStore ==
    Cardinality({s \in (DOMAIN tracked) \X (Family \X (1 .. MaxSamples)) :
                    s[2][2] <= tracked[s[1]][s[2][1]]})

Over(f) ==
    \/ FamilyThreshold[f] > 0 /\ InFamily(f) > FamilyThreshold[f]
    \/ StoreThreshold > 0 /\ InStore > StoreThreshold

Init ==
    /\ tracked = <<>>
    /\ shown = <<>>
    /\ marked = {}

Add(u, counts) ==
    /\ tracked' = Put(tracked, u, counts)
    /\ \E hidden \in SUBSET marked :
          shown' = Put(shown, u, [f \in Family |-> IF f \in hidden THEN 0 ELSE counts[f]])
    /\ marked' \in SUBSET marked

Remove(u) ==
    /\ tracked' = Without(tracked, u)
    /\ shown' = Without(shown, u)
    /\ UNCHANGED marked

Mark ==
    /\ marked' \in SUBSET (marked \cup {f \in Family : Over(f)})
    /\ UNCHANGED <<tracked, shown>>

Next ==
    \/ \E u \in UIDs, counts \in Counts : Add(u, counts)
    \/ \E u \in UIDs : Remove(u)
    \/ Mark

Spec == Init /\ [][Next]_vars
===============================================================================
