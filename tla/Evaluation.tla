------------------------------ MODULE Evaluation -------------------------------
(***************************************************************************)
(* The evaluation of an expression or script on an object under a timeout  *)
(* (CELResolver.Resolve, StarlarkResolver.Resolve): a goroutine evaluates  *)
(* and sends its answer on a channel of its own with room for one, the     *)
(* caller waits for the answer or its timer, whichever the select takes,   *)
(* and the goroutine of a caller that went away goes on.                   *)
(*                                                                         *)
(* The languages are libraries: an evaluation answers with a value or an   *)
(* error, or goes on.  What is evaluated on which object is a question.    *)
(* The counter of evaluations by result is left out.                       *)
(***************************************************************************)
EXTENDS Integers

CONSTANTS
    Callers,       \* who evaluates: the reflectors of the stores
    Families,      \* what is evaluated: a CEL expression or a script
    Scripts,       \* those that are Starlark scripts
    Versions,      \* the contents of an object
    MaxGoroutines  \* bound: goroutines alive at once

ASSUME ScriptsAssumption == Scripts \subseteq Families
ASSUME GoroutinesAssumption == MaxGoroutines \in Nat

VARIABLE evals     \* the goroutines

Questions == [family : Families, version : Versions]
Ids == 1 .. MaxGoroutines
Gone == [pc |-> "gone"]
Goroutines == [pc : {"running", "sending"},  \* evaluating, or sending its answer
               by : Callers, question : Questions,
               awaited : BOOLEAN]            \* the caller is at its select

EvalInit == evals = [e \in Ids |-> Gone]

\* The goroutine is started, under the first free name; the caller is at its select.
Start(e, c, q) ==
    /\ evals[e] = Gone
    /\ \A d \in Ids : evals[d] = Gone => e <= d
    /\ evals' = [evals EXCEPT ![e] =
                   [pc |-> "running", by |-> c, question |-> q, awaited |-> TRUE]]

\* The goroutine has an answer: a value, or an error. Which one is left to its receiver.
Answer(e) ==
    /\ evals[e].pc = "running"
    /\ evals' = [evals EXCEPT ![e].pc = "sending"]

\* Mutant: one channel for all the evaluations of a caller.
SharedChannel(e) == {d \in Ids : evals[d] # Gone /\ evals[d].by = evals[e].by}

\* The goroutines that send where the caller of e receives.
Channel(e) == {e}

\* The select takes an answer: that of d.
Receive(e, d) ==
    /\ d \in Channel(e)
    /\ evals[d].pc = "sending"
    /\ evals' = [i \in Ids |-> IF i = d THEN Gone
                               ELSE IF i = e THEN [evals[e] EXCEPT !.awaited = FALSE]
                               ELSE evals[i]]

\* Mutant: a channel without room, for which the caller has to be there.
CallerWaits(e) == evals[e].awaited

HasRoom(e) == TRUE

\* The goroutine of a caller that went away sends its answer all the same, and ends.
Send(e) ==
    /\ evals[e].pc = "sending"
    /\ ~evals[e].awaited
    /\ HasRoom(e)
    /\ evals' = [evals EXCEPT ![e] = Gone]

\* Mutant: scripts have no timer.
OnlyExpressions(e) == evals[e].question.family \notin Scripts

HasTimer(e) == TRUE

\* The select takes the timer, though an answer may be there. A script is cancelled.
Timeout(e) ==
    /\ HasTimer(e)
    /\ evals' = [evals EXCEPT ![e].awaited = FALSE]

\* What is sure to answer: an expression, by its cost limit, and a cancelled script,
\* at its next step. The step limit of a script may be turned off.
Ends(e) == evals[e] # Gone =>
    \/ evals[e].question.family \notin Scripts
    \/ ~evals[e].awaited
================================================================================
