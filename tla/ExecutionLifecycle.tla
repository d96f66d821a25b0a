--------------------------- MODULE ExecutionLifecycle ---------------------------
(***************************************************************************)
(* What one execution of a response promises its requester, whatever       *)
(* carries it out: it is queued, may run, and ends exactly once; the text  *)
(* it shows only grows; its result entry and its bill appear together with *)
(* its end and never change again.  GenerationCoordinator implements it.   *)
(***************************************************************************)
EXTENDS Naturals, Sequences, GenerationEvents

CONSTANTS
    Executions,
    Pieces      \* the numbers the pieces of a text can have

VARIABLES
    status,  \* of each execution
    text,    \* the pieces of answer text shown so far, by sequence number
    result,  \* the thread entry the execution left: none, partial or whole
    billing  \* the reserved credits: held, released or charged

vars == <<status, text, result, billing>>

Results == {"none", "partial", "whole"}
Bills == {"held", "released", "charged"}

TypeOK ==
    /\ status \in [Executions -> Statuses]
    /\ text \in [Executions -> Seq(Pieces)]
    /\ result \in [Executions -> Results]
    /\ billing \in [Executions -> Bills]

Init ==
    /\ status = [e \in Executions |-> "queued"]
    /\ text = [e \in Executions |-> <<>>]
    /\ result = [e \in Executions |-> "none"]
    /\ billing = [e \in Executions |-> "held"]

End(e, s, r, b) ==
    /\ status' = [status EXCEPT ![e] = s]
    /\ result' = [result EXCEPT ![e] = r]
    /\ billing' = [billing EXCEPT ![e] = b]
    /\ UNCHANGED text

Begin(e) ==
    /\ status[e] = "queued"
    /\ status' = [status EXCEPT ![e] = "running"]
    /\ UNCHANGED <<text, result, billing>>

Grow(e, n) ==
    /\ status[e] = "running"
    /\ \A i \in DOMAIN text[e] : text[e][i] < n
    /\ text' = [text EXCEPT ![e] = Append(@, n)]
    /\ UNCHANGED <<status, result, billing>>

Complete(e) ==
    /\ status[e] = "running"
    /\ End(e, "completed", "whole", "charged")

\* Cancelling keeps the text shown so far; only an execution that began is charged.
Cancel(e) ==
    /\ status[e] \in ActiveStatuses
    /\ \/ End(e, "cancelled", "none", "released")
       \/ status[e] = "running" /\ End(e, "cancelled", "none", "charged")
       \/ text[e] # <<>> /\ End(e, "cancelled", "partial", "charged")

\* Several executions may expire in one transaction.
Fail(S) ==
    /\ \A e \in S : status[e] \in ActiveStatuses
    /\ status' = [e \in Executions |-> IF e \in S THEN "failed" ELSE status[e]]
    /\ billing' = [e \in Executions |-> IF e \in S THEN "released" ELSE billing[e]]
    /\ UNCHANGED <<text, result>>

Next ==
    \/ \E e \in Executions :
          Begin(e) \/ Complete(e) \/ Cancel(e) \/ (\E n \in Pieces : Grow(e, n))
    \/ \E S \in SUBSET Executions : Fail(S)

Spec == Init /\ [][Next]_vars

=============================================================================
