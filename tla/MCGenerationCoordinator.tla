------------------------ MODULE MCGenerationCoordinator ------------------------
(* Instances of GenerationCoordinator for TLC. *)
EXTENDS GenerationCoordinator

CONSTANT e1

OneExecution == {e1}
\* Everything a worker may write.
AllEvents == Events

\* An answer in one piece.
ShortAnswer ==
    {Event("started", "answering", TRUE, TRUE), Event("completed", NoPhase, FALSE, TRUE)}

================================================================================
