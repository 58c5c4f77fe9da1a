------------------------------- MODULE WorkQueue -------------------------------
(***************************************************************************)
(* What the controller relies on its workqueue for (client-go, used in     *)
(* internal/controller.go): an item that is added is handed to one of the  *)
(* workers, never to two at a time, and an item added while it is being    *)
(* processed is kept for afterwards.  Which worker and in which order is   *)
(* left open; what is waiting is lost with the process.                    *)
(***************************************************************************)
CONSTANTS Items, Workers, None

VARIABLES
    pending,   \* the items added and not yet handed out
    active     \* the item each worker processes, or None

Init ==
    /\ pending = {}
    /\ active = [w \in Workers |-> None]

Add(i) ==
    /\ pending' = pending \cup {i}
    /\ UNCHANGED active

Take(w) ==
    /\ active[w] = None
    /\ \E i \in pending :
          /\ \A v \in Workers : active[v] # i
          /\ active' = [active EXCEPT ![w] = i]
          /\ pending' = pending \ {i}

Done(w) ==
    /\ active' = [active EXCEPT ![w] = None]
    /\ UNCHANGED pending

Stop ==
    /\ pending' = {}
    /\ active' = [w \in Workers |-> None]

Next ==
    \/ \E i \in Items : Add(i)
    \/ \E w \in Workers : Take(w) \/ Done(w)
    \/ Stop

Spec == Init /\ [][Next]_<<pending, active>>
================================================================================
