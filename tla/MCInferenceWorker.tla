---------------------------- MODULE MCInferenceWorker ----------------------------
(* Finite instances of InferenceWorker for TLC. *)
EXTENDS InferenceWorker

CONSTANTS w1, w2, a1, a2

\* One chunk to publish, cut short or resume; no chunk where only the order of runs matters.
MCWorkers == {w1, w2}
MCOneAttempt == {a1}
MCTwoAttempts == {a1, a2}
MCNoChunkScripts == [a \in {a1, a2} |-> <<>>]
MCOneChunkScript == [a \in {a1} |-> <<"delta">>]
=============================================================================
