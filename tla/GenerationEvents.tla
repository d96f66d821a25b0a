---------------------------- MODULE GenerationEvents ----------------------------
(***************************************************************************)
(* The contract of the generation event stream: the event types a worker   *)
(* publishes and the decision the API takes on each of them                *)
(* (classify_generation_event).  Pure operators, shared by the worker, the *)
(* coordinator and their composition.                                      *)
(***************************************************************************)
EXTENDS Integers

TerminalEvents == {"completed", "failed"}
DeltaEvents == {"thinking_delta", "delta"}
EventTypes == {"started", "phase_changed", "heartbeat"} \cup DeltaEvents \cup TerminalEvents

ActiveStatuses == {"queued", "running"}
TerminalStatuses == {"completed", "failed", "cancelled"}
Statuses == ActiveStatuses \cup TerminalStatuses

\* No phase: before the first event and after a terminal one.
NoPhase == "none"
Phases == {"thinking", "answering", NoPhase}

Dispositions == {"apply", "replay", "ignore", "defer"}

---------------------------------------------------------------------------
(***************************************************************************)
(* x is the execution row read under its lock: attempt, status, phase, and *)
(* the sequence, id and type of the last applied event (sequence -1 when   *)
(* there is none).  ev is the event: attempt, sequence, id and type.       *)
(***************************************************************************)

\* Types the projector accepts as the next event of an execution.
AllowedEvents(status) ==
    CASE status = "queued"  -> {"started", "failed"}
      [] status = "running" -> {"phase_changed", "heartbeat", "completed", "failed"}
                                 \cup DeltaEvents
      [] OTHER -> {}

\* Thinking and the end of thinking make sense only while the phase is thinking.
InPhase(x, ev) == ev.type \in {"thinking_delta", "phase_changed"} => x.phase = "thinking"

\* Faulty variant: nothing is a replay once the execution has ended.
IsReplayOnlyWhileActive(x, ev) ==
    /\ ev.attempt = x.attempt
    /\ ev.sequence = x.lastSequence
    /\ x.status \notin TerminalStatuses

\* A second delivery of the very event applied last; after the execution ended
\* only the event that ended it is shown again.
IsReplay(x, ev) ==
    /\ ev.attempt = x.attempt
    /\ ev.sequence = x.lastSequence
    /\ ev.id = x.lastId
    /\ ev.type = x.lastType
    /\ x.status \in TerminalStatuses => ev.type \in TerminalEvents

\* Faulty variant: any later event is applied.
IsNextAnyLater(x, ev) ==
    /\ ev.attempt = x.attempt
    /\ ev.sequence > x.lastSequence
    /\ x.status \notin TerminalStatuses
    /\ ev.type \in AllowedEvents(x.status)

IsNext(x, ev) ==
    /\ ev.attempt = x.attempt
    /\ ev.sequence = x.lastSequence + 1
    /\ x.status \notin TerminalStatuses
    /\ InPhase(x, ev)
    /\ ev.type \in AllowedEvents(x.status)

\* Faulty variant: off by one, an event one place ahead is not deferred.
IsAheadOffByOne(x, ev) ==
    /\ ev.attempt = x.attempt
    /\ ev.sequence > x.lastSequence + 2
    /\ x.status \notin TerminalStatuses

IsAhead(x, ev) ==
    /\ ev.attempt = x.attempt
    /\ ev.sequence > x.lastSequence + 1
    /\ x.status \notin TerminalStatuses

\* Faulty variant: an event that comes too late is shown again instead of ignored.
ClassifyShowsLate(x, ev) ==
    CASE IsNext(x, ev)  -> "apply"
      [] IsAhead(x, ev) -> "defer"
      [] OTHER          -> "replay"

Classify(x, ev) ==
    CASE IsReplay(x, ev) -> "replay"
      [] IsNext(x, ev)   -> "apply"
      [] IsAhead(x, ev)  -> "defer"
      [] OTHER           -> "ignore"

=============================================================================
