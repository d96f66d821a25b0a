--------------------- MODULE GenerationCoordinatorProofs ---------------------
(***************************************************************************)
(* What the coordinator does to an execution, for any executions, events   *)
(* and faults: the execution lives the life that ExecutionLifecycle        *)
(* promises, its text is what the worker wrote, no event it needed leaves   *)
(* the stream, clients are told of no other end than its own, and the      *)
(* outbox marks nothing that was not sent.                                 *)
(*                                                                         *)
(* Only the row of an execution matters for its life, so the lemmas are    *)
(* about rows: which rows can occur (RowOK), and what may happen to one     *)
(* (LivesOn).                                                               *)
(***************************************************************************)
EXTENDS GenerationCoordinator, FiniteSetTheorems, TLAPS

\* A row that can occur.  Its result and its bill come with its end; an execution that runs
\* has counted its input tokens and one that waits has shown nothing; the pieces of its text
\* come from events up to the last one applied, and that one is terminal only if it ended it.
RowOK(x) ==
    /\ x \in Rows
    /\ x.status \in ActiveStatuses => x.billing = "held" /\ x.entry = "none"
    /\ x.status \in TerminalStatuses => x.billing # "held"
    /\ x.status = "queued" => x.output = <<>> /\ ~x.metered
    /\ x.status = "running" => x.metered
    /\ \A i \in DOMAIN x.output : x.output[i] <= x.lastSequence
    /\ x.lastType = "completed" => x.status \in {"completed", "failed"}
    /\ x.lastType = "failed" => x.status = "failed"

\* The steps of ExecutionLifecycle, for one row.
Same(x, y) ==
    y.status = x.status /\ y.output = x.output /\ y.entry = x.entry /\ y.billing = x.billing

Begins(x, y) ==
    /\ x.status = "queued" /\ y.status = "running"
    /\ y.output = x.output /\ y.entry = x.entry /\ y.billing = x.billing

Grows(x, y) ==
    /\ x.status = "running" /\ y.status = "running"
    /\ \E n \in 0..(MaxEvents - 1) :
          (\A i \in DOMAIN x.output : x.output[i] < n) /\ y.output = Append(x.output, n)
    /\ y.entry = x.entry /\ y.billing = x.billing

Completes(x, y) ==
    /\ x.status = "running" /\ y.status = "completed"
    /\ y.output = x.output /\ y.entry = "whole" /\ y.billing = "charged"

IsCancelled(x, y) ==
    /\ x.status \in ActiveStatuses /\ y.status = "cancelled" /\ y.output = x.output
    /\ \/ y.entry = "none" /\ y.billing = "released"
       \/ x.status = "running" /\ y.entry = "none" /\ y.billing = "charged"
       \/ x.output # <<>> /\ y.entry = "partial" /\ y.billing = "charged"

Fails(x, y) ==
    /\ x.status \in ActiveStatuses /\ y.status = "failed"
    /\ y.output = x.output /\ y.entry = x.entry /\ y.billing = "released"

LivesOn(x, y) ==
    Same(x, y) \/ Begins(x, y) \/ Grows(x, y) \/ Completes(x, y) \/ Fails(x, y)

---------------------------------------------------------------------------
(* The event contract and the row an event leaves *)

LEMMA ClassifyCases ==
    ASSUME NEW x, NEW ev
    PROVE  /\ Classify(x, ev) \in Dispositions
           /\ Classify(x, ev) = "replay" => IsReplay(x, ev)
           /\ Classify(x, ev) = "apply" => IsNext(x, ev)
  <1>1. CASE IsReplay(x, ev)
    BY <1>1 DEF Classify, Dispositions, IsReplay, IsNext, IsAhead
  <1>2. CASE ~IsReplay(x, ev) /\ IsNext(x, ev)
    BY <1>2 DEF Classify, Dispositions
  <1>3. CASE ~IsReplay(x, ev) /\ ~IsNext(x, ev)
    BY <1>3 DEF Classify, Dispositions
  <1> QED
    BY <1>1, <1>2, <1>3

LEMMA AllowedCases ==
    ASSUME NEW st, NEW t \in AllowedEvents(st)
    PROVE  \/ st = "queued" /\ t \in {"started", "failed"}
           \/ st = "running" /\ t \in {"phase_changed", "heartbeat", "completed", "failed",
                                       "thinking_delta", "delta"}
  BY DEF AllowedEvents, DeltaEvents

\* The row after an event, with its bill if the event ended the execution.
FinalRow(y) == IF y.status \in {"completed", "failed"} THEN Finalize(y) ELSE y

\* What an event changes of a row, field by field.
Changed(x, ev, s, y) ==
    /\ y \in Rows /\ y.lastSequence = s /\ y.lastType = ev.type
    /\ y.billing = x.billing
    /\ y.status = IF ev.type = "started" THEN "running"
                  ELSE IF ev.type = "failed" \/ (ev.type = "completed" /\ ev.blank) THEN "failed"
                  ELSE IF ev.type = "completed" THEN "completed" ELSE x.status
    /\ y.metered = IF ev.type = "started" THEN TRUE ELSE x.metered
    /\ y.entry = IF ev.type = "completed" /\ ~ev.blank THEN "whole" ELSE x.entry
    /\ y.output = IF ev.type = "delta" THEN Append(x.output, s) ELSE x.output

LEMMA AppliedFields ==
    ASSUME NEW x \in Rows, NEW ev \in Events, NEW s \in 0..(MaxEvents - 1),
           NEW y, y = ApplyEvent(x, ev, s)
    PROVE  Changed(x, ev, s, y)
  <1> USE DEF Changed
  <1>1. PICK z : z = [x EXCEPT !.lastSequence = s, !.lastType = ev.type]
    OBVIOUS
  <1>3. /\ ev.type \in EventTypes /\ ev.phase \in Phases /\ ev.blank \in BOOLEAN
    BY DEF Events
  <1>4. s \in -1..(MaxEvents - 1)
    BY ConstantsAssumption
  <1>5. /\ z \in Rows /\ z.lastSequence = s /\ z.lastType = ev.type
        /\ z.billing = x.billing /\ z.status = x.status /\ z.metered = x.metered
        /\ z.entry = x.entry /\ z.output = x.output
    BY <1>1, <1>3, <1>4 DEF Rows
  <1>6. CASE ev.type = "started"
    <2>1. y = [z EXCEPT !.status = "running", !.phase = ev.phase, !.metered = TRUE]
      BY <1>1, <1>6 DEF ApplyEvent
    <2>2. y \in Rows
      BY <1>3, <1>5, <2>1 DEF Rows, Statuses, ActiveStatuses
    <2> QED
      BY <1>5, <1>6, <2>1, <2>2 DEF Rows
  <1>7. CASE ev.type = "delta"
    <2>1. y = [z EXCEPT !.phase = "answering", !.output = Append(@, s)]
      BY <1>1, <1>7 DEF ApplyEvent
    <2>2. Append(z.output, s) \in Seq(0..(MaxEvents - 1))
      BY <1>5 DEF Rows
    <2>3. y \in Rows
      BY <1>5, <2>1, <2>2 DEF Rows, Phases
    <2> QED
      BY <1>5, <1>7, <2>1, <2>3 DEF Rows
  <1>8. CASE ev.type = "phase_changed"
    <2>1. y = [z EXCEPT !.phase = ev.phase]
      BY <1>1, <1>8 DEF ApplyEvent
    <2> QED
      BY <1>3, <1>5, <1>8, <2>1 DEF Rows
  <1>9. CASE ev.type = "completed" /\ ~ev.blank
    <2>1. PICK w : w = Ended(z, "completed")
      OBVIOUS
    <2>2. y = [w EXCEPT !.entry = "whole"]
      BY <1>1, <1>9, <2>1 DEF ApplyEvent
    <2>3. /\ w \in Rows /\ w.lastSequence = s /\ w.lastType = ev.type
          /\ w.billing = x.billing /\ w.status = "completed" /\ w.metered = x.metered
          /\ w.output = x.output
      BY <1>5, <2>1 DEF Ended, Rows, Statuses, TerminalStatuses, Phases, NoPhase
    <2> QED
      BY <1>9, <2>2, <2>3 DEF Rows
  <1>10. CASE ev.type = "failed" \/ (ev.type = "completed" /\ ev.blank)
    <2>1. y = Ended(z, "failed")
      BY <1>1, <1>10 DEF ApplyEvent
    <2>2. y \in Rows
      BY <1>5, <2>1 DEF Ended, Rows, Statuses, TerminalStatuses, Phases, NoPhase
    <2>3. /\ y.lastSequence = z.lastSequence /\ y.lastType = z.lastType
          /\ y.billing = z.billing /\ y.status = "failed" /\ y.metered = z.metered
          /\ y.entry = z.entry /\ y.output = z.output
      BY <1>5, <2>1 DEF Ended, Rows
    <2> QED
      BY <1>5, <1>10, <2>2, <2>3
  <1>11. CASE ev.type \in {"heartbeat", "thinking_delta"}
    <2>1. y = z
      BY <1>1, <1>11 DEF ApplyEvent
    <2> QED
      BY <1>5, <1>11, <2>1
  <1> QED
    BY <1>3, <1>6, <1>7, <1>8, <1>9, <1>10, <1>11 DEF EventTypes, DeltaEvents, TerminalEvents

LEMMA ElementsOf ==
    ASSUME NEW T, NEW q \in Seq(T), NEW i \in DOMAIN q
    PROVE  q[i] \in T
  OBVIOUS

LEMMA AppendElements ==
    ASSUME NEW T, NEW q \in Seq(T), NEW n \in T
    PROVE  \A i \in DOMAIN Append(q, n) :
              (i \in DOMAIN q /\ Append(q, n)[i] = q[i]) \/ Append(q, n)[i] = n
  OBVIOUS

LEMMA FinalFields ==
    ASSUME NEW x \in Rows, NEW y, y = FinalRow(x)
    PROVE  /\ y \in Rows /\ y.status = x.status /\ y.output = x.output /\ y.entry = x.entry
           /\ y.lastSequence = x.lastSequence /\ y.lastType = x.lastType /\ y.metered = x.metered
           /\ x.status \in ActiveStatuses => y.billing = x.billing
           /\ x.status = "completed" /\ x.billing = "held" => y.billing = "charged"
           /\ x.status = "failed" /\ x.billing = "held" => y.billing = "released"
  BY DEF FinalRow, Finalize, Rows, ActiveStatuses

\* An event that is applied takes the row one step along its life.
LEMMA AppliedRow ==
    ASSUME NEW x, RowOK(x), NEW ev \in Events, NEW s \in 0..(MaxEvents - 1),
           s = x.lastSequence + 1, x.status \notin TerminalStatuses,
           ev.type \in AllowedEvents(x.status)
    PROVE  LET y == FinalRow(ApplyEvent(x, ev, s)) IN
           /\ RowOK(y) /\ LivesOn(x, y)
           /\ ev.type = "completed" => y.status \in {"completed", "failed"}
           /\ ev.type = "failed" => y.status = "failed"
  <1>1. PICK z : z = ApplyEvent(x, ev, s)
    OBVIOUS
  <1>2. PICK y : y = FinalRow(z)
    OBVIOUS
  <1>3. /\ x \in Rows /\ ev.type \in EventTypes /\ ev.blank \in BOOLEAN
        /\ x.lastSequence \in Int /\ x.output \in Seq(0..(MaxEvents - 1)) /\ x.status \in ActiveStatuses
        /\ x.billing = "held" /\ x.entry = "none"
        /\ \A i \in DOMAIN x.output : x.output[i] <= x.lastSequence
    BY DEF RowOK, Events, Rows, Statuses
  <1>10. \A i \in DOMAIN x.output : x.output[i] \in Int /\ x.output[i] <= x.lastSequence
    <2>1. \A i \in DOMAIN x.output : x.output[i] \in 0..(MaxEvents - 1)
      BY <1>3, ElementsOf
    <2> QED
      BY <1>3, <2>1
  <1>4. \/ x.status = "queued" /\ ev.type \in {"started", "failed"}
        \/ x.status = "running" /\ ev.type \in {"phase_changed", "heartbeat", "completed", "failed",
                                                "thinking_delta", "delta"}
    BY AllowedCases
  <1>5. Changed(x, ev, s, z)
    BY <1>1, <1>3, AppliedFields
  <1>6. /\ y \in Rows /\ y.status = z.status /\ y.output = z.output /\ y.entry = z.entry
        /\ y.lastSequence = z.lastSequence /\ y.lastType = z.lastType /\ y.metered = z.metered
        /\ z.status \in ActiveStatuses => y.billing = "held"
        /\ z.status = "completed" => y.billing = "charged"
        /\ z.status = "failed" => y.billing = "released"
    BY <1>2, <1>3, <1>5, FinalFields DEF Changed
  <1>7. \A i \in DOMAIN y.output : y.output[i] <= y.lastSequence
    <2>1. CASE ev.type = "delta"
      <3>1. y.output = Append(x.output, s)
        BY <1>5, <1>6, <2>1 DEF Changed
      <3> QED
        BY <1>3, <1>5, <1>6, <1>10, <3>1, AppendElements DEF Changed
    <2>2. CASE ev.type # "delta"
      BY <1>3, <1>5, <1>6, <1>10, <2>2 DEF Changed
    <2> QED
      BY <2>1, <2>2
  <1>8. RowOK(y)
    BY <1>3, <1>4, <1>5, <1>6, <1>7 DEF Changed, RowOK, ActiveStatuses, TerminalStatuses
  <1>9. LivesOn(x, y)
    <2>1. CASE ev.type = "delta"
      <3>1. y.output = Append(x.output, s) /\ \A i \in DOMAIN x.output : x.output[i] < s
        BY <1>3, <1>5, <1>6, <1>10, <2>1 DEF Changed
      <3> QED
        BY <1>3, <1>4, <1>5, <1>6, <2>1, <3>1 DEF Changed, LivesOn, Grows, RowOK, ActiveStatuses
    <2>2. CASE ev.type # "delta"
      BY <1>3, <1>4, <1>5, <1>6, <2>2
         DEF Changed, LivesOn, Same, Begins, Completes, Fails, RowOK, ActiveStatuses
    <2> QED
      BY <2>1, <2>2
  <1> QED
    BY <1>1, <1>2, <1>5, <1>6, <1>8, <1>9 DEF Changed

\* The row of an execution that the requester cancelled.
CancelledRowOf(x, kept) ==
    Finalize([Ended(x, "cancelled") EXCEPT !.entry = IF kept THEN "partial" ELSE "none"])

LEMMA CancelledRow ==
    ASSUME NEW x, RowOK(x), x.status \in ActiveStatuses, NEW kept \in BOOLEAN,
           kept => x.output # <<>>, NEW y, y = CancelledRowOf(x, kept)
    PROVE  RowOK(y) /\ IsCancelled(x, y)
  <1>1. PICK w : w = Ended(x, "cancelled")
    OBVIOUS
  <1>2. PICK z : z = [w EXCEPT !.entry = IF kept THEN "partial" ELSE "none"]
    OBVIOUS
  <1>3. y = Finalize(z)
    BY <1>1, <1>2 DEF CancelledRowOf
  <1>4. x \in Rows /\ x.billing = "held"
    BY DEF RowOK
  <1>5. /\ w \in Rows /\ w.status = "cancelled" /\ w.billing = "held" /\ w.output = x.output
        /\ w.lastType = x.lastType /\ w.lastSequence = x.lastSequence /\ w.metered = x.metered
    BY <1>1, <1>4 DEF Ended, Rows, Statuses, TerminalStatuses, Phases, NoPhase
  <1>6. /\ z \in Rows /\ z.status = "cancelled" /\ z.billing = "held" /\ z.output = x.output
        /\ z.lastType = x.lastType /\ z.lastSequence = x.lastSequence /\ z.metered = x.metered
        /\ z.entry = IF kept THEN "partial" ELSE "none"
    BY <1>2, <1>5 DEF Rows
  <1>7. y = [z EXCEPT !.billing = IF z.metered THEN "charged" ELSE "released"]
    BY <1>3, <1>6 DEF Finalize
  <1>8. /\ y \in Rows /\ y.status = "cancelled" /\ y.output = x.output /\ y.entry = z.entry
        /\ y.lastType = x.lastType /\ y.lastSequence = x.lastSequence
        /\ y.billing = IF x.metered THEN "charged" ELSE "released"
    BY <1>6, <1>7 DEF Rows
  <1>9. RowOK(y)
    BY <1>8 DEF RowOK, ActiveStatuses, TerminalStatuses
  <1>10. IsCancelled(x, y)
    BY <1>6, <1>8 DEF IsCancelled, RowOK, ActiveStatuses
  <1> QED
    BY <1>9, <1>10

LEMMA FailedRow ==
    ASSUME NEW x, RowOK(x), x.status \in ActiveStatuses,
           NEW y, y = Finalize(Ended(x, "failed"))
    PROVE  RowOK(y) /\ Fails(x, y)
  <1>1. PICK w : w = Ended(x, "failed")
    OBVIOUS
  <1>2. x \in Rows /\ x.billing = "held"
    BY DEF RowOK
  <1>3. /\ w \in Rows /\ w.status = "failed" /\ w.billing = "held" /\ w.output = x.output
        /\ w.lastType = x.lastType /\ w.lastSequence = x.lastSequence /\ w.entry = x.entry
    BY <1>1, <1>2 DEF Ended, Rows, Statuses, TerminalStatuses, Phases, NoPhase
  <1>4. y = [w EXCEPT !.billing = "released"]
    BY <1>1, <1>3 DEF Finalize
  <1>5. /\ y \in Rows /\ y.status = "failed" /\ y.output = x.output /\ y.entry = x.entry
        /\ y.lastType = x.lastType /\ y.lastSequence = x.lastSequence /\ y.billing = "released"
    BY <1>3, <1>4 DEF Rows
  <1>6. RowOK(y)
    BY <1>5 DEF RowOK, ActiveStatuses, TerminalStatuses
  <1> QED
    BY <1>5, <1>6 DEF Fails

---------------------------------------------------------------------------
(* The rows of all executions *)

AllRowsOK(rows) == rows \in [Executions -> Rows] /\ \A e \in Executions : RowOK(rows[e])

\* One step of ExecutionLifecycle.
Moves(rows, later) ==
    \/ \A e \in Executions : Same(rows[e], later[e])
    \/ \E e \in Executions :
          /\ \/ Begins(rows[e], later[e]) \/ Grows(rows[e], later[e])
             \/ Completes(rows[e], later[e]) \/ IsCancelled(rows[e], later[e])
          /\ \A f \in Executions \ {e} : Same(rows[f], later[f])
    \/ \E S \in SUBSET Executions :
          /\ \A e \in S : Fails(rows[e], later[e])
          /\ \A e \in Executions \ S : Same(rows[e], later[e])

\* An end is final.
LEMMA EndIsFinal ==
    ASSUME NEW rows, NEW later, Moves(rows, later), NEW e \in Executions,
           rows[e].status \in TerminalStatuses
    PROVE  later[e].status = rows[e].status
  BY DEF Moves, Same, Begins, Grows, Completes, IsCancelled, Fails, ActiveStatuses, TerminalStatuses

LEMMA OneRowLivesOn ==
    ASSUME NEW rows, AllRowsOK(rows), NEW later, NEW e \in Executions, NEW y,
           later = [rows EXCEPT ![e] = y], RowOK(y), LivesOn(rows[e], y) \/ IsCancelled(rows[e], y)
    PROVE  AllRowsOK(later) /\ Moves(rows, later)
  <1>1. y \in Rows /\ rows \in [Executions -> Rows]
    BY DEF RowOK, AllRowsOK
  <1>2. later \in [Executions -> Rows] /\ later[e] = y /\ \A f \in Executions \ {e} : later[f] = rows[f]
    BY <1>1
  <1>3. AllRowsOK(later)
    BY <1>2 DEF AllRowsOK
  <1>4. \A f \in Executions \ {e} : Same(rows[f], later[f])
    BY <1>2 DEF Same
  <1>5. CASE Same(rows[e], y)
    BY <1>2, <1>3, <1>4, <1>5 DEF Moves
  <1>6. CASE Begins(rows[e], y) \/ Grows(rows[e], y) \/ Completes(rows[e], y) \/ IsCancelled(rows[e], y)
    BY <1>2, <1>3, <1>4, <1>6 DEF Moves
  <1>7. CASE Fails(rows[e], y)
    <2>1. /\ {e} \in SUBSET Executions
          /\ \A f \in {e} : Fails(rows[f], later[f])
          /\ \A f \in Executions \ {e} : Same(rows[f], later[f])
      BY <1>2, <1>4, <1>7
    <2> QED
      BY <1>3, <2>1 DEF Moves
  <1> QED
    BY <1>3, <1>5, <1>6, <1>7 DEF LivesOn

LEMMA RowsUnchanged ==
    ASSUME NEW rows, AllRowsOK(rows)
    PROVE  Moves(rows, rows)
  BY DEF Moves, Same

LEMMA PublishedEvents ==
    ASSUME NEW id \in Published, log \in [Executions -> Seq(Events)]
    PROVE  /\ id[1] \in Executions /\ id[2] \in 1..MaxEvents
           /\ log[id[1]][id[2]] \in Events
           /\ id[2] - 1 \in 0..(MaxEvents - 1)
  <1>1. id[1] \in Executions /\ id[2] \in 1..MaxEvents /\ id[2] <= Len(log[id[1]])
    BY DEF Published, EventIds
  <1>2. log[id[1]] \in Seq(Events) /\ id[2] \in 1..Len(log[id[1]])
    BY <1>1, ConstantsAssumption
  <1>3. id[2] - 1 \in 0..(MaxEvents - 1)
    BY <1>1, ConstantsAssumption
  <1> QED
    BY <1>1, <1>2, <1>3, ElementsOf

\* The transaction of one event.
LEMMA ProjectedRows ==
    ASSUME AllRowsOK(execution), log \in [Executions -> Seq(Events)], NEW id \in Published,
           NEW d, d = "apply" => IsNext(Row(id[1]), Contents(id)), Projected(id, d)
    PROVE  /\ AllRowsOK(execution') /\ Moves(execution, execution')
           /\ d # "apply" => execution' = execution
           /\ d = "apply" =>
                 /\ log[id[1]][id[2]].type = "completed" => execution'[id[1]].status \in {"completed", "failed"}
                 /\ log[id[1]][id[2]].type = "failed" => execution'[id[1]].status = "failed"
  <1>1. CASE d # "apply"
    <2>1. execution' = execution
      BY <1>1 DEF Projected
    <2> QED
      BY <1>1, <2>1, RowsUnchanged
  <1>2. CASE d = "apply"
    <2>1. PICK e : e = id[1]
      OBVIOUS
    <2>2. PICK ev : ev = log[e][id[2]]
      OBVIOUS
    <2>3. PICK y : y = FinalRow(ApplyEvent(execution[e], ev, id[2] - 1))
      OBVIOUS
    <2>4. execution' = [execution EXCEPT ![e] = y]
      BY <1>2, <2>1, <2>2, <2>3 DEF Projected, Applied, FinalRow
    <2>5. e \in Executions /\ ev \in Events /\ id[2] - 1 \in 0..(MaxEvents - 1)
      BY <2>1, <2>2, PublishedEvents
    <2>6. /\ id[2] - 1 = execution[e].lastSequence + 1 /\ execution[e].status \notin TerminalStatuses
          /\ ev.type \in AllowedEvents(execution[e].status)
      BY <1>2, <2>1, <2>2 DEF IsNext, Row, Contents
    <2>7. RowOK(execution[e]) /\ execution \in [Executions -> Rows]
      BY <2>5 DEF AllRowsOK
    <2>8. /\ RowOK(y) /\ LivesOn(execution[e], y)
          /\ ev.type = "completed" => y.status \in {"completed", "failed"}
          /\ ev.type = "failed" => y.status = "failed"
      BY <2>3, <2>5, <2>6, <2>7, AppliedRow
    <2>9. AllRowsOK(execution') /\ Moves(execution, execution')
      BY <2>4, <2>5, <2>8, OneRowLivesOn
    <2>10. execution'[e] = y
      BY <2>4, <2>5, <2>7
    <2> QED
      BY <1>2, <2>1, <2>2, <2>8, <2>9, <2>10
  <1> QED
    BY <1>1, <1>2

LEMMA ExpiredRows ==
    ASSUME AllRowsOK(execution), NEW S \in SUBSET Executions, \A e \in S : Expirable(e), ExpireRows(S)
    PROVE  AllRowsOK(execution') /\ Moves(execution, execution')
           /\ \A e \in S : execution[e].status \in ActiveStatuses /\ execution'[e].status = "failed"
  <1>1. execution' = [e \in Executions |->
                         IF e \in S THEN Finalize(Ended(execution[e], "failed")) ELSE execution[e]]
    BY DEF ExpireRows
  <1>2. ASSUME NEW e \in S
        PROVE  RowOK(execution'[e]) /\ Fails(execution[e], execution'[e]) /\ execution[e].status \in ActiveStatuses
    <2>1. execution'[e] = Finalize(Ended(execution[e], "failed"))
      BY <1>1
    <2>2. RowOK(execution[e]) /\ execution[e].status \in ActiveStatuses
      BY DEF AllRowsOK, Expirable, Active
    <2> QED
      BY <2>1, <2>2, FailedRow
  <1>3. \A e \in Executions \ S : execution'[e] = execution[e]
    BY <1>1
  <1>4. \A e \in Executions : RowOK(execution'[e])
    BY <1>2, <1>3 DEF AllRowsOK
  <1>5. execution' \in [Executions -> Rows]
    BY <1>1, <1>4 DEF RowOK
  <1>6. \A e \in Executions \ S : Same(execution[e], execution'[e])
    BY <1>3 DEF Same
  <1>7. \A e \in S : Fails(execution[e], execution'[e])
    BY <1>2
  <1>8. Moves(execution, execution')
    BY <1>6, <1>7 DEF Moves
  <1> QED
    BY <1>2, <1>4, <1>5, <1>8 DEF AllRowsOK, Fails

LEMMA CancelRows ==
    ASSUME AllRowsOK(execution), NEW e \in Executions, Cancel(e)
    PROVE  AllRowsOK(execution') /\ Moves(execution, execution') /\ execution'[e].status = "cancelled"
  <1>1. PICK kept \in BOOLEAN : kept = \E i \in DOMAIN execution[e].output : ~log[e][execution[e].output[i] + 1].blank
    OBVIOUS
  <1>2. PICK y : y = CancelledRowOf(execution[e], kept)
    OBVIOUS
  <1>3. execution' = [execution EXCEPT ![e] = y] /\ execution[e].status \in ActiveStatuses
    BY <1>1, <1>2 DEF Cancel, CancelledRowOf, Active
  <1>4. kept => execution[e].output # <<>>
    <2>1. DOMAIN <<>> = {}
      OBVIOUS
    <2> QED
      BY <1>1, <2>1
  <1>5. RowOK(execution[e]) /\ execution \in [Executions -> Rows]
    BY DEF AllRowsOK
  <1>6. RowOK(y) /\ IsCancelled(execution[e], y)
    BY <1>2, <1>3, <1>4, <1>5, CancelledRow
  <1>7. AllRowsOK(execution') /\ Moves(execution, execution')
    BY <1>3, <1>6, OneRowLivesOn
  <1>8. execution'[e] = y
    BY <1>3, <1>5
  <1> QED
    BY <1>6, <1>7, <1>8 DEF IsCancelled

---------------------------------------------------------------------------
(* The rows occur, and every step is a step of ExecutionLifecycle or none of its *)

RowsInv == AllRowsOK(execution) /\ log \in [Executions -> Seq(Events)]

LEMMA InitRows ==
    ASSUME Init
    PROVE  RowsInv
  <1>1. PICK x : x = [status |-> "queued", phase |-> NoPhase, lastSequence |-> -1, lastType |-> "none",
                      output |-> <<>>, metered |-> FALSE, entry |-> "none", billing |-> "held"]
    OBVIOUS
  <1>2. x \in Rows
    BY <1>1, ConstantsAssumption DEF Rows, Statuses, ActiveStatuses, Phases, NoPhase
  <1>3. DOMAIN <<>> = {}
    OBVIOUS
  <1>4. RowOK(x)
    BY <1>1, <1>2, <1>3 DEF RowOK, TerminalStatuses
  <1>5. execution = [e \in Executions |-> x] /\ log = [e \in Executions |-> <<>>]
    BY <1>1 DEF Init
  <1>6. <<>> \in Seq(Events)
    OBVIOUS
  <1> QED
    BY <1>2, <1>4, <1>5, <1>6 DEF RowsInv, AllRowsOK

\* What a step may do to the rows and the events, action by action.
LEMMA RowsStep ==
    ASSUME RowsInv, [Next]_vars
    PROVE  RowsInv' /\ Moves(execution, execution')
  <1>1. ASSUME UNCHANGED <<execution, log>>
        PROVE  RowsInv' /\ Moves(execution, execution')
    BY <1>1, RowsUnchanged DEF RowsInv
  <1>2. CASE UNCHANGED vars
    BY <1>1, <1>2 DEF vars, database, redis
  <1>3. CASE Dispatcher
    BY <1>1, <1>3 DEF Dispatcher, BeginRound, SelectJobs, CommitRound, SendCancellation, SendJob,
                      database, redis
  <1>4. CASE Projector
    <2>1. ASSUME NEW id \in Published, Project(id)
          PROVE  RowsInv' /\ Moves(execution, execution')
      <3>1. PICK d : /\ d = (IF log[id[1]][id[2]].readable
                             THEN Classify(Row(id[1]), Contents(id)) ELSE "ignore")
                     /\ Projected(id, d) /\ UNCHANGED log
        BY <2>1 DEF Project, redis
      <3>2. d = "apply" => IsNext(Row(id[1]), Contents(id))
        BY <3>1, ClassifyCases
      <3> QED
        BY <3>1, <3>2, ProjectedRows DEF RowsInv
    <2>2. CASE ShowAndAcknowledge
      BY <1>1, <2>2 DEF ShowAndAcknowledge, database
    <2> QED
      BY <1>4, <2>1, <2>2 DEF Projector
  <1>5. CASE Receive
    BY <1>1, <1>5 DEF Receive, Read, database
  <1>6. CASE Backlog
    BY <1>1, <1>6 DEF Backlog, CountPending, ReadLag, NextPass, database, redis
  <1>7. CASE Expiry
    <2>1. PICK S \in SUBSET Executions : (\A e \in S : Expirable(e)) /\ ExpireRows(S) /\ UNCHANGED log
      BY <1>7 DEF Expiry, Expire, redis
    <2> QED
      BY <2>1, ExpiredRows DEF RowsInv
  <1>8. CASE Disturbance
    <2>1. CASE RedisStops \/ RedisReturns \/ ApiRestarts
      BY <1>1, <2>1 DEF RedisStops, RedisReturns, ApiRestarts, database, redis
    <2>2. ASSUME NEW id \in Published, ProjectionFails(id)
          PROVE  RowsInv' /\ Moves(execution, execution')
      <3>1. CASE UNCHANGED execution
        BY <1>1, <2>2, <3>1 DEF ProjectionFails, redis
      <3>2. CASE Projected(id, Classify(Row(id[1]), Contents(id)))
        BY <2>2, <3>2, ClassifyCases, ProjectedRows DEF RowsInv, ProjectionFails, redis
      <3> QED
        BY <2>2, <3>1, <3>2 DEF ProjectionFails
    <2>3. ASSUME NEW S \in SUBSET Executions, ExpiryFails(S)
          PROVE  RowsInv' /\ Moves(execution, execution')
      <3>1. (\A e \in S : Expirable(e)) /\ ExpireRows(S) /\ UNCHANGED log
        BY <2>3 DEF ExpiryFails, redis
      <3> QED
        BY <3>1, ExpiredRows DEF RowsInv
    <2> QED
      BY <1>8, <2>1, <2>2, <2>3 DEF Disturbance
  <1>9. CASE Environment
    <2>1. ASSUME NEW e \in Executions, Publish(e)
          PROVE  RowsInv' /\ Moves(execution, execution')
      <3>1. PICK ev \in Events : log' = [log EXCEPT ![e] = Append(@, ev)]
        <4>1. PICK w \in NextEvents(e) \cap Vocabulary :
                 \/ log' = [log EXCEPT ![e] = Append(@, w)]
                 \/ log' = [log EXCEPT ![e] = Append(@, [w EXCEPT !.readable = FALSE])]
          BY <2>1 DEF Publish
        <4>2. w \in Events /\ [w EXCEPT !.readable = FALSE] \in Events
          BY ConstantsAssumption DEF Events
        <4> QED
          BY <4>1, <4>2
      <3>2. log' \in [Executions -> Seq(Events)]
        <4>1. Append(log[e], ev) \in Seq(Events)
          BY DEF RowsInv
        <4> QED
          BY <3>1, <4>1 DEF RowsInv
      <3> QED
        BY <2>1, <3>2, RowsUnchanged DEF Publish, RowsInv, database
    <2>2. ASSUME NEW e \in Executions, TimeRunsOut(e)
          PROVE  RowsInv' /\ Moves(execution, execution')
      BY <1>1, <2>2 DEF TimeRunsOut, redis
    <2>3. ASSUME NEW e \in Executions, Cancel(e)
          PROVE  RowsInv' /\ Moves(execution, execution')
      BY <2>3, CancelRows DEF RowsInv, Cancel, redis
    <2> QED
      BY <1>9, <2>1, <2>2, <2>3 DEF Environment
  <1> QED
    BY <1>2, <1>3, <1>4, <1>5, <1>6, <1>7, <1>8, <1>9 DEF Next

LEMMA RowsInvHolds == Spec => []RowsInv
  <1>1. Init => RowsInv
    BY InitRows
  <1>2. RowsInv /\ [Next]_vars => RowsInv'
    BY RowsStep
  <1> QED
    BY <1>1, <1>2, PTL DEF Spec

---------------------------------------------------------------------------
(* What a step does to one row, and to the streams *)

\* One event more is in the stream.
Writes(e, ev) ==
    /\ Len(log[e]) < MaxEvents
    /\ \E w \in NextEvents(e) : ev.type = w.type /\ ev.phase = w.phase
    /\ log' = [log EXCEPT ![e] = Append(@, ev)]

LEMMA PublishWrites ==
    ASSUME NEW e \in Executions, Publish(e)
    PROVE  \E ev \in Events : Writes(e, ev)
  <1>1. PICK w \in NextEvents(e) \cap Vocabulary :
           \/ log' = [log EXCEPT ![e] = Append(@, w)]
           \/ log' = [log EXCEPT ![e] = Append(@, [w EXCEPT !.readable = FALSE])]
    BY DEF Publish
  <1>2. PICK v : v = [w EXCEPT !.readable = FALSE]
    OBVIOUS
  <1>3. w \in Events /\ v \in Events /\ v.type = w.type /\ v.phase = w.phase
    BY <1>2, ConstantsAssumption DEF Events
  <1>4. Writes(e, w) \/ Writes(e, v)
    BY <1>1, <1>2, <1>3 DEF Writes, Publish
  <1> QED
    BY <1>3, <1>4

LEMMA PublishedGrows ==
    ASSUME RowsInv, NEW e \in Executions, NEW ev \in Events, Writes(e, ev)
    PROVE  /\ Published \subseteq Published'
           /\ \A f \in Executions : Len(log[f]) <= MaxEvents => Len(log'[f]) <= MaxEvents
           /\ \A f \in Executions : \A n \in 1..Len(log[f]) : log'[f][n] = log[f][n]
           /\ \A f \in Executions : Len(log'[f]) >= Len(log[f])
  <1>1. ASSUME NEW f \in Executions
        PROVE  /\ Len(log[f]) \in Nat /\ Len(log'[f]) \in Nat
               /\ Len(log'[f]) >= Len(log[f])
               /\ Len(log[f]) <= MaxEvents => Len(log'[f]) <= MaxEvents
               /\ \A n \in 1..Len(log[f]) : log'[f][n] = log[f][n]
    <2>1. log[f] \in Seq(Events) /\ log \in [Executions -> Seq(Events)]
      BY DEF RowsInv
    <2>2. CASE f = e
      <3>1. log'[f] = Append(log[f], ev)
        BY <2>1, <2>2 DEF Writes
      <3>2. Len(Append(log[f], ev)) = Len(log[f]) + 1 /\ Len(log[f]) \in Nat
        BY <2>1
      <3>3. \A n \in 1..Len(log[f]) : Append(log[f], ev)[n] = log[f][n]
        BY <2>1
      <3> QED
        BY <2>2, <3>1, <3>2, <3>3, ConstantsAssumption DEF Writes
    <2>3. CASE f # e
      <3>1. log'[f] = log[f]
        BY <2>1, <2>3 DEF Writes
      <3> QED
        BY <2>1, <3>1, ConstantsAssumption
    <2> QED
      BY <2>2, <2>3
  <1>2. ASSUME NEW id \in Published
        PROVE  id \in Published'
    <2>1. id \in EventIds /\ id[1] \in Executions /\ id[2] \in Nat /\ id[2] <= Len(log[id[1]])
      BY ConstantsAssumption DEF Published, EventIds
    <2>2. id[2] <= Len(log'[id[1]])
      BY <1>1, <2>1
    <2> QED
      BY <2>1, <2>2 DEF Published
  <1> QED
    BY <1>1, <1>2

LEMMA LogOfStep ==
    ASSUME [Next]_vars
    PROVE  UNCHANGED log \/ \E e \in Executions, ev \in Events : Writes(e, ev)
  <1>1. CASE UNCHANGED vars
    BY <1>1 DEF vars, redis
  <1>2. CASE Dispatcher
    BY <1>2 DEF Dispatcher, BeginRound, SelectJobs, CommitRound, SendCancellation, SendJob, redis
  <1>3. CASE Projector \/ Receive \/ Backlog
    BY <1>3 DEF Projector, Project, ShowAndAcknowledge, Receive, Read, Backlog, CountPending,
                ReadLag, NextPass, redis
  <1>4. CASE Expiry \/ Disturbance
    BY <1>4 DEF Expiry, Expire, Disturbance, RedisStops, RedisReturns, ApiRestarts, ProjectionFails,
                ExpiryFails, redis
  <1>5. CASE Environment
    BY <1>5, PublishWrites DEF Environment, TimeRunsOut, Cancel, redis
  <1> QED
    BY <1>1, <1>2, <1>3, <1>4, <1>5 DEF Next

\* The requester or the clock ends an execution.
Ends(x, y) ==
    /\ y.lastSequence = x.lastSequence /\ y.output = x.output
    /\ x.status \in ActiveStatuses /\ y.status \in TerminalStatuses

\* The next event is applied.
Applies(x, y, l) ==
    LET s == x.lastSequence + 1 IN
    /\ s \in 0..(MaxEvents - 1) /\ s + 1 \in 1..Len(l)
    /\ x.status \in ActiveStatuses /\ l[s + 1].type \in AllowedEvents(x.status)
    /\ y = FinalRow(ApplyEvent(x, l[s + 1], s))

StepOf(x, y, l) == y = x \/ Ends(x, y) \/ Applies(x, y, l)

LEMMA AppliedSequence ==
    ASSUME NEW x \in Rows, NEW y, NEW l \in Seq(Events), Applies(x, y, l)
    PROVE  LET s == x.lastSequence + 1 IN
           /\ y.lastSequence = s
           /\ y.output = IF l[s + 1].type = "delta" THEN Append(x.output, s) ELSE x.output
  <1>1. PICK s \in 0..(MaxEvents - 1) :
           /\ s = x.lastSequence + 1 /\ s + 1 \in 1..Len(l)
           /\ y = FinalRow(ApplyEvent(x, l[s + 1], s))
    BY DEF Applies
  <1>2. PICK z : z = ApplyEvent(x, l[s + 1], s)
    OBVIOUS
  <1>3. l[s + 1] \in Events
    BY <1>1, ElementsOf
  <1>4. Changed(x, l[s + 1], s, z)
    BY <1>2, <1>3, AppliedFields
  <1>5. y.lastSequence = z.lastSequence /\ y.output = z.output
    BY <1>1, <1>2, <1>4, FinalFields DEF Changed
  <1> QED
    BY <1>1, <1>4, <1>5 DEF Changed

LEMMA ProjectedSteps ==
    ASSUME RowsInv, NEW id \in Published,
           NEW d, d = "apply" => IsNext(Row(id[1]), Contents(id)), Projected(id, d)
    PROVE  /\ \A e \in Executions : StepOf(execution[e], execution'[e], log[e])
           /\ d = "apply" => Applies(execution[id[1]], execution'[id[1]], log[id[1]])
                             /\ id[2] = execution[id[1]].lastSequence + 2
  <1>1. CASE d # "apply"
    BY <1>1 DEF Projected, StepOf
  <1>2. CASE d = "apply"
    <2>1. PICK e : e = id[1]
      OBVIOUS
    <2>2. PICK s : s = id[2] - 1
      OBVIOUS
    <2>3. /\ e \in Executions /\ id[2] \in 1..MaxEvents /\ id[2] <= Len(log[e])
          /\ s \in 0..(MaxEvents - 1)
      BY <2>1, <2>2, PublishedEvents DEF RowsInv, Published
    <2>4. s + 1 = id[2] /\ s + 1 \in 1..Len(log[e])
      BY <2>2, <2>3, ConstantsAssumption DEF RowsInv
    <2>5. PICK y : y = FinalRow(ApplyEvent(execution[e], log[e][s + 1], s))
      OBVIOUS
    <2>6. execution' = [execution EXCEPT ![e] = y]
      BY <1>2, <2>1, <2>2, <2>4, <2>5 DEF Projected, Applied, FinalRow
    <2>7. execution \in [Executions -> Rows] /\ execution[e].status \in Statuses
      BY <2>3 DEF RowsInv, AllRowsOK, Rows
    <2>8. /\ s = execution[e].lastSequence + 1 /\ execution[e].status \notin TerminalStatuses
          /\ log[e][s + 1].type \in AllowedEvents(execution[e].status)
      BY <1>2, <2>1, <2>2, <2>4 DEF IsNext, Row, Contents
    <2>9. execution'[e] = y
      BY <2>3, <2>6, <2>7
    <2>10. Applies(execution[e], execution'[e], log[e])
      BY <2>3, <2>4, <2>5, <2>7, <2>8, <2>9 DEF Applies, Statuses
    <2>11. \A f \in Executions \ {e} : execution'[f] = execution[f]
      BY <2>6, <2>7
    <2>12. execution[e].lastSequence \in Int
      BY <2>3, <2>7 DEF Rows
    <2> QED
      BY <2>1, <2>4, <2>8, <2>10, <2>11, <2>12 DEF StepOf
  <1> QED
    BY <1>1, <1>2

LEMMA EndedFields ==
    ASSUME NEW x \in Rows, NEW st \in TerminalStatuses, NEW n \in {"none", "partial"},
           x.status \in ActiveStatuses
    PROVE  /\ Ends(x, Finalize(Ended(x, st)))
           /\ Ends(x, Finalize([Ended(x, st) EXCEPT !.entry = n]))
  BY DEF Ends, Finalize, Ended, Rows

LEMMA ExpiredSteps ==
    ASSUME RowsInv, NEW S \in SUBSET Executions, \A e \in S : Expirable(e), ExpireRows(S)
    PROVE  \A e \in Executions : StepOf(execution[e], execution'[e], log[e])
  <1>1. ASSUME NEW e \in Executions, e \in S
        PROVE  Ends(execution[e], execution'[e])
    <2>1. execution[e] \in Rows /\ execution[e].status \in ActiveStatuses
      BY <1>1 DEF RowsInv, AllRowsOK, Expirable, Active
    <2>2. execution'[e] = Finalize(Ended(execution[e], "failed"))
      BY <1>1 DEF ExpireRows
    <2> QED
      BY <2>1, <2>2, EndedFields DEF TerminalStatuses
  <1>2. ASSUME NEW e \in Executions, e \notin S
        PROVE  execution'[e] = execution[e]
    BY <1>2 DEF ExpireRows
  <1> QED
    BY <1>1, <1>2 DEF StepOf

LEMMA CancelledSteps ==
    ASSUME RowsInv, NEW e \in Executions, Cancel(e)
    PROVE  \A f \in Executions : StepOf(execution[f], execution'[f], log[f])
  <1>1. PICK n \in {"none", "partial"} :
           execution' = [execution EXCEPT ![e] =
              Finalize([Ended(execution[e], "cancelled") EXCEPT !.entry = n])]
    BY DEF Cancel
  <1>2. PICK y : y = Finalize([Ended(execution[e], "cancelled") EXCEPT !.entry = n])
    OBVIOUS
  <1>3. /\ execution \in [Executions -> Rows] /\ execution[e] \in Rows
        /\ execution[e].status \in ActiveStatuses
    BY DEF RowsInv, AllRowsOK, Cancel, Active
  <1>4. Ends(execution[e], y)
    BY <1>2, <1>3, EndedFields DEF TerminalStatuses
  <1> QED
    BY <1>1, <1>2, <1>3, <1>4 DEF StepOf

\* Every step leaves a row alone, ends the execution or applies its next event.
LEMMA RowOfStep ==
    ASSUME RowsInv, [Next]_vars
    PROVE  \A e \in Executions : StepOf(execution[e], execution'[e], log[e])
  <1>1. ASSUME UNCHANGED execution
        PROVE  \A e \in Executions : StepOf(execution[e], execution'[e], log[e])
    BY <1>1 DEF StepOf
  <1>2. CASE UNCHANGED vars
    BY <1>1, <1>2 DEF vars, database
  <1>3. CASE Dispatcher
    BY <1>1, <1>3 DEF Dispatcher, BeginRound, SelectJobs, CommitRound, SendCancellation, SendJob,
                      database
  <1>4. CASE Projector
    <2>1. ASSUME NEW id \in Published, Project(id)
          PROVE  \A e \in Executions : StepOf(execution[e], execution'[e], log[e])
      <3>1. PICK d : /\ d = (IF log[id[1]][id[2]].readable
                             THEN Classify(Row(id[1]), Contents(id)) ELSE "ignore")
                     /\ Projected(id, d)
        BY <2>1 DEF Project
      <3>2. d = "apply" => IsNext(Row(id[1]), Contents(id))
        BY <3>1, ClassifyCases
      <3> QED
        BY <3>1, <3>2, ProjectedSteps
    <2>2. CASE ShowAndAcknowledge
      BY <1>1, <2>2 DEF ShowAndAcknowledge, database
    <2> QED
      BY <1>4, <2>1, <2>2 DEF Projector
  <1>5. CASE Receive \/ Backlog
    BY <1>1, <1>5 DEF Receive, Read, Backlog, CountPending, ReadLag, NextPass, database
  <1>6. CASE Expiry
    BY <1>6, ExpiredSteps DEF Expiry, Expire
  <1>7. CASE Disturbance
    <2>1. CASE RedisStops \/ RedisReturns \/ ApiRestarts
      BY <1>1, <2>1 DEF RedisStops, RedisReturns, ApiRestarts, database
    <2>2. ASSUME NEW id \in Published, ProjectionFails(id)
          PROVE  \A e \in Executions : StepOf(execution[e], execution'[e], log[e])
      <3>1. CASE UNCHANGED execution
        BY <1>1, <3>1
      <3>2. CASE Projected(id, Classify(Row(id[1]), Contents(id)))
        BY <3>2, ClassifyCases, ProjectedSteps
      <3> QED
        BY <2>2, <3>1, <3>2 DEF ProjectionFails
    <2>3. CASE \E S \in SUBSET Executions : ExpiryFails(S)
      BY <2>3, ExpiredSteps DEF ExpiryFails
    <2> QED
      BY <1>7, <2>1, <2>2, <2>3 DEF Disturbance
  <1>8. CASE Environment
    BY <1>1, <1>8, CancelledSteps DEF Environment, Publish, TimeRunsOut, database
  <1> QED
    BY <1>2, <1>3, <1>4, <1>5, <1>6, <1>7, <1>8 DEF Next

---------------------------------------------------------------------------
(* The text that is stored *)

\* The row x stores the deltas of the events l up to the last one applied, in their order.
Stores(x, l) ==
    /\ x.lastSequence + 1 <= Len(l)
    /\ \A i, j \in DOMAIN x.output : i < j => x.output[i] < x.output[j]
    /\ \A i \in DOMAIN x.output : x.output[i] \in 0..x.lastSequence
    /\ \A i \in DOMAIN x.output : l[x.output[i] + 1].type = "delta"
    /\ \A s \in 0..x.lastSequence :
          l[s + 1].type = "delta" => \E i \in DOMAIN x.output : x.output[i] = s

PrefixInv == \A e \in Executions : Stores(execution[e], log[e])

\* Nothing of the text changes.
SameText(x, y) == y.lastSequence = x.lastSequence /\ y.output = x.output

LEMMA TextStays ==
    ASSUME NEW x, NEW y, NEW l, Stores(x, l), SameText(x, y)
    PROVE  Stores(y, l)
  BY DEF Stores, SameText

LEMMA LogGrows ==
    ASSUME NEW x, x \in Rows, NEW l \in Seq(Events), NEW ev, Stores(x, l)
    PROVE  Stores(x, Append(l, ev))
  <1>1. x.lastSequence \in Int /\ x.lastSequence + 1 <= Len(l)
    BY DEF Rows, Stores
  <1>2. \A s \in 0..x.lastSequence : Append(l, ev)[s + 1] = l[s + 1]
    BY <1>1
  <1>3. x.lastSequence + 1 <= Len(Append(l, ev))
    BY <1>1
  <1> QED
    BY <1>2, <1>3 DEF Stores

LEMMA AppendPlaces ==
    ASSUME NEW T, NEW q \in Seq(T), NEW n \in T
    PROVE  /\ Append(q, n) \in Seq(T)
           /\ DOMAIN Append(q, n) = DOMAIN q \cup {Len(q) + 1}
           /\ \A i \in DOMAIN q : Append(q, n)[i] = q[i] /\ i \in Nat /\ i < Len(q) + 1
           /\ Append(q, n)[Len(q) + 1] = n
  OBVIOUS

\* The next event is applied: its text comes behind the rest.
LEMMA TextGrows ==
    ASSUME NEW x, x \in Rows, NEW y, NEW l \in Seq(Events), NEW s \in 0..(MaxEvents - 1),
           Stores(x, l), s = x.lastSequence + 1, s + 1 \in 1..Len(l), y.lastSequence = s,
           y.output = IF l[s + 1].type = "delta" THEN Append(x.output, s) ELSE x.output
    PROVE  Stores(y, l)
  <1>1. /\ x.lastSequence \in Int /\ x.output \in Seq(0..(MaxEvents - 1))
        /\ 0..s = 0..x.lastSequence \cup {s}
    BY DEF Rows
  <1>2. \A i \in DOMAIN x.output : x.output[i] \in 0..x.lastSequence /\ x.output[i] < s
    BY <1>1 DEF Stores
  <1>3. y.lastSequence + 1 <= Len(l)
    OBVIOUS
  <1>4. CASE l[s + 1].type = "delta"
    <2>1. PICK n : n = Len(x.output) + 1
      OBVIOUS
    <2>2. PICK q : q = Append(x.output, s)
      OBVIOUS
    <2>3. /\ y.output = q /\ DOMAIN q = DOMAIN x.output \cup {n} /\ q[n] = s
          /\ \A i \in DOMAIN x.output : q[i] = x.output[i] /\ i \in Nat /\ i < n
          /\ n \in Nat
      BY <1>1, <1>4, <2>1, <2>2, AppendPlaces
    <2>4. \A i, j \in DOMAIN q : i < j => q[i] < q[j]
      BY <1>2, <2>3 DEF Stores
    <2>5. \A i \in DOMAIN q : q[i] \in 0..s
      BY <1>1, <1>2, <2>3
    <2>6. \A i \in DOMAIN q : l[q[i] + 1].type = "delta"
      BY <1>4, <2>3 DEF Stores
    <2>7. \A t \in 0..s : l[t + 1].type = "delta" => \E i \in DOMAIN q : q[i] = t
      <3>1. ASSUME NEW t \in 0..x.lastSequence, l[t + 1].type = "delta"
            PROVE  \E i \in DOMAIN q : q[i] = t
        <4>1. PICK i \in DOMAIN x.output : x.output[i] = t
          BY <3>1 DEF Stores
        <4> QED
          BY <2>3, <4>1
      <3> QED
        BY <1>1, <2>3, <3>1
    <2> QED
      BY <1>3, <2>3, <2>4, <2>5, <2>6, <2>7 DEF Stores
  <1>5. CASE l[s + 1].type # "delta"
    <2>1. y.output = x.output
      BY <1>5
    <2>2. \A i \in DOMAIN x.output : x.output[i] \in 0..s
      BY <1>1, <1>2
    <2> QED
      BY <1>1, <1>3, <1>5, <2>1, <2>2 DEF Stores
  <1> QED
    BY <1>4, <1>5

LEMMA AppliedText ==
    ASSUME NEW x, x \in Rows, NEW y, NEW l \in Seq(Events), Stores(x, l), Applies(x, y, l)
    PROVE  Stores(y, l)
  <1>1. PICK s \in 0..(MaxEvents - 1) : s = x.lastSequence + 1 /\ s + 1 \in 1..Len(l)
    BY DEF Applies
  <1>2. /\ y.lastSequence = s
        /\ y.output = IF l[s + 1].type = "delta" THEN Append(x.output, s) ELSE x.output
    BY <1>1, AppliedSequence
  <1> QED
    BY <1>1, <1>2, TextGrows

LEMMA PrefixStep ==
    ASSUME RowsInv, PrefixInv, [Next]_vars
    PROVE  PrefixInv'
  <1>1. ASSUME NEW e \in Executions
        PROVE  Stores(execution'[e], log'[e])
    <2>1. /\ execution[e] \in Rows /\ log[e] \in Seq(Events) /\ log \in [Executions -> Seq(Events)]
          /\ Stores(execution[e], log[e]) /\ execution'[e] \in Rows
      BY RowsStep DEF RowsInv, AllRowsOK, PrefixInv
    <2>2. Stores(execution'[e], log[e])
      <3>1. CASE execution'[e] = execution[e] \/ Ends(execution[e], execution'[e])
        BY <2>1, <3>1, TextStays DEF Ends, SameText
      <3>2. CASE Applies(execution[e], execution'[e], log[e])
        BY <2>1, <3>2, AppliedText
      <3> QED
        BY <3>1, <3>2, RowOfStep DEF StepOf
    <2>3. CASE UNCHANGED log
      BY <2>2, <2>3
    <2>4. ASSUME NEW f \in Executions, NEW ev \in Events, Writes(f, ev)
          PROVE  Stores(execution'[e], log'[e])
      <3>1. log'[e] = IF e = f THEN Append(log[e], ev) ELSE log[e]
        BY <2>1, <2>4 DEF Writes
      <3> QED
        BY <2>1, <2>2, <3>1, LogGrows
    <2> QED
      BY <2>3, <2>4, LogOfStep
  <1> QED
    BY <1>1 DEF PrefixInv

\* What is stored of an answer is what the worker wrote of it, up to the last event
\* applied, whatever was delivered late, twice or not yet.
THEOREM OutputIsPrefixHolds == Spec => []OutputIsPrefix
  <1>1. Init => PrefixInv
    BY DEF Init, PrefixInv, Stores
  <1>2. RowsInv /\ PrefixInv /\ [Next]_vars => PrefixInv'
    BY PrefixStep
  <1>3. PrefixInv => OutputIsPrefix
    <2>1. SUFFICES ASSUME PrefixInv, NEW e \in Executions
                   PROVE  /\ \A i, j \in DOMAIN execution[e].output :
                                i < j => execution[e].output[i] < execution[e].output[j]
                          /\ {execution[e].output[i] : i \in DOMAIN execution[e].output} =
                                {s \in 0..execution[e].lastSequence : log[e][s + 1].type = "delta"}
      BY DEF OutputIsPrefix
    <2>2. Stores(execution[e], log[e])
      BY <2>1 DEF PrefixInv
    <2> QED
      BY <2>2 DEF Stores
  <1> QED
    BY <1>1, <1>2, <1>3, RowsInvHolds, PTL DEF Spec

---------------------------------------------------------------------------
(* What clients are told *)

\* What the projector is about to tell is the end the execution had.
HandTells ==
    inHand.tells # "nothing" =>
        /\ inHand.id[1] \in Executions
        /\ inHand.tells \in TerminalStatuses
        /\ execution[inHand.id[1]].status = inHand.tells

ToldInv ==
    /\ told \in [Executions -> SUBSET TerminalStatuses]
    /\ ToldIsTrue
    /\ HandTells

\* Ends are final, so what was told stays true, and what is in hand as well.
LEMMA ToldStays ==
    ASSUME ToldInv, Moves(execution, execution'), UNCHANGED <<told, inHand>>
    PROVE  ToldInv'
  <1>1. ASSUME NEW e \in Executions, NEW t \in told[e]
        PROVE  execution'[e].status = t
    <2>1. t \in TerminalStatuses /\ execution[e].status = t
      BY DEF ToldInv, ToldIsTrue
    <2> QED
      BY <2>1, EndIsFinal
  <1>2. HandTells'
    BY EndIsFinal DEF ToldInv, HandTells
  <1> QED
    BY <1>1, <1>2 DEF ToldInv, ToldIsTrue

\* Telling e's end.
LEMMA ToldGrows ==
    ASSUME ToldInv, Moves(execution, execution'), NEW e \in Executions,
           execution'[e].status \in TerminalStatuses,
           told' = [told EXCEPT ![e] = @ \cup {execution'[e].status}], HandTells'
    PROVE  ToldInv'
  <1>1. ASSUME NEW f \in Executions, NEW t \in told[f]
        PROVE  execution'[f].status = t
    <2>1. t \in TerminalStatuses /\ execution[f].status = t
      BY DEF ToldInv, ToldIsTrue
    <2> QED
      BY <2>1, EndIsFinal
  <1>2. told' \in [Executions -> SUBSET TerminalStatuses]
    BY DEF ToldInv
  <1>3. ToldIsTrue'
    BY <1>1 DEF ToldIsTrue, ToldInv
  <1> QED
    BY <1>2, <1>3 DEF ToldInv

\* What is in hand after a projection is the end the row records.
LEMMA ProjectTells ==
    ASSUME RowsInv, NEW id \in Published, Project(id)
    PROVE  HandTells'
  <1>1. PICK ev : ev = log[id[1]][id[2]]
    OBVIOUS
  <1>2. PICK d : /\ d = (IF ev.readable THEN Classify(Row(id[1]), Contents(id)) ELSE "ignore")
                 /\ Projected(id, d)
                 /\ inHand' = CASE d = "defer" -> NoHand
                                [] d = "ignore" -> [id |-> id, tells |-> "nothing"]
                                [] OTHER -> [id |-> id, tells |-> Tells(ev, execution'[id[1]].status)]
    BY <1>1 DEF Project
  <1>3. \/ inHand'.tells = "nothing"
        \/ /\ d \in {"apply", "replay"} /\ inHand'.id = id
           /\ inHand'.tells = Tells(ev, execution'[id[1]].status)
    <2>1. d \in Dispositions
      BY <1>2, ClassifyCases DEF Dispositions
    <2>2. CASE d = "defer"
      BY <1>2, <2>2 DEF NoHand
    <2>3. CASE d = "ignore"
      BY <1>2, <2>3
    <2>4. CASE d \in {"apply", "replay"}
      <3>1. inHand' = [id |-> id, tells |-> Tells(ev, execution'[id[1]].status)]
        BY <1>2, <2>4
      <3> QED
        BY <2>4, <3>1
    <2> QED
      BY <2>1, <2>2, <2>3, <2>4 DEF Dispositions
  <1>4. id[1] \in Executions
    BY PublishedEvents DEF RowsInv
  <1>5. d = "apply" => IsNext(Row(id[1]), Contents(id))
    BY <1>2, ClassifyCases
  <1>6. /\ d # "apply" => execution' = execution
        /\ d = "apply" =>
              /\ ev.type = "completed" => execution'[id[1]].status \in {"completed", "failed"}
              /\ ev.type = "failed" => execution'[id[1]].status = "failed"
    BY <1>1, <1>2, <1>5, ProjectedRows DEF RowsInv
  <1>7. d = "replay" =>
              /\ ev.type = "completed" => execution'[id[1]].status \in {"completed", "failed"}
              /\ ev.type = "failed" => execution'[id[1]].status = "failed"
    <2>1. SUFFICES ASSUME d = "replay"
                   PROVE  /\ ev.type = "completed" => execution[id[1]].status \in {"completed", "failed"}
                          /\ ev.type = "failed" => execution[id[1]].status = "failed"
      BY <1>6
    <2>2. IsReplay(Row(id[1]), Contents(id))
      BY <1>2, <2>1, ClassifyCases
    <2>3. ev.type = execution[id[1]].lastType
      BY <1>1, <2>2 DEF IsReplay, Row, Contents
    <2> QED
      BY <1>4, <2>3 DEF RowsInv, AllRowsOK, RowOK
  <1>8. Tells(ev, execution'[id[1]].status) # "nothing" /\ d \in {"apply", "replay"} =>
           /\ Tells(ev, execution'[id[1]].status) = execution'[id[1]].status
           /\ execution'[id[1]].status \in TerminalStatuses
    BY <1>6, <1>7 DEF Tells, TerminalEvents, TerminalStatuses
  <1> QED
    BY <1>3, <1>4, <1>8 DEF HandTells

LEMMA ToldStep ==
    ASSUME RowsInv, ToldInv, [Next]_vars
    PROVE  ToldInv'
  <1>1. Moves(execution, execution')
    BY RowsStep
  <1>2. ASSUME UNCHANGED <<told, inHand>>
        PROVE  ToldInv'
    BY <1>1, <1>2, ToldStays
  <1>3. CASE UNCHANGED vars
    BY <1>2, <1>3 DEF vars, projector
  <1>4. CASE Dispatcher
    BY <1>2, <1>4 DEF Dispatcher, BeginRound, SelectJobs, CommitRound, SendCancellation, SendJob, projector
  <1>5. CASE Projector
    <2>1. ASSUME NEW id \in Published, Project(id)
          PROVE  ToldInv'
      <3>1. HandTells' /\ UNCHANGED told
        BY <2>1, ProjectTells DEF Project
      <3>2. ASSUME NEW e \in Executions, NEW t \in told[e]
            PROVE  execution'[e].status = t
        <4>1. t \in TerminalStatuses /\ execution[e].status = t
          BY DEF ToldInv, ToldIsTrue
        <4> QED
          BY <1>1, <4>1, EndIsFinal
      <3> QED
        BY <3>1, <3>2 DEF ToldInv, ToldIsTrue
    <2>2. CASE ShowAndAcknowledge
      <3>1. HandTells' /\ UNCHANGED execution
        BY <2>2 DEF ShowAndAcknowledge, HandTells, NoHand, database
      <3>2. CASE inHand.tells = "nothing"
        BY <2>2, <3>1, <3>2 DEF ShowAndAcknowledge, ToldInv, ToldIsTrue
      <3>3. CASE inHand.tells # "nothing"
        <4>1. PICK e \in Executions : /\ e = inHand.id[1]
                                      /\ inHand.tells \in TerminalStatuses
                                      /\ execution[e].status = inHand.tells
          BY <3>3 DEF ToldInv, HandTells
        <4>2. told' = [told EXCEPT ![e] = @ \cup {execution'[e].status}]
          BY <2>2, <3>1, <3>3, <4>1 DEF ShowAndAcknowledge
        <4> QED
          BY <1>1, <3>1, <4>1, <4>2, ToldGrows
      <3> QED
        BY <3>2, <3>3
    <2> QED
      BY <1>5, <2>1, <2>2 DEF Projector
  <1>6. CASE Receive
    BY <1>2, <1>6 DEF Receive, Read
  <1>7. CASE Backlog
    BY <1>2, <1>7 DEF Backlog, CountPending, ReadLag, NextPass, projector
  <1>8. CASE Expiry
    <2>1. PICK S \in SUBSET Executions : Expire(S)
      BY <1>8 DEF Expiry
    <2>2. /\ told' = [e \in Executions |-> told[e] \cup (IF e \in S THEN {"failed"} ELSE {})]
          /\ UNCHANGED inHand
      BY <2>1 DEF Expire, projector
    <2>3. \A e \in S : execution[e].status \in ActiveStatuses /\ execution'[e].status = "failed"
      BY <2>1, ExpiredRows DEF Expire, RowsInv
    <2>4. ASSUME NEW e \in Executions, NEW t \in told[e]
          PROVE  execution'[e].status = t
      <3>1. t \in TerminalStatuses /\ execution[e].status = t
        BY DEF ToldInv, ToldIsTrue
      <3> QED
        BY <1>1, <3>1, EndIsFinal
    <2>5. HandTells'
      BY <1>1, <2>2, EndIsFinal DEF ToldInv, HandTells
    <2>6. told' \in [Executions -> SUBSET TerminalStatuses]
      BY <2>2 DEF ToldInv, TerminalStatuses
    <2>7. ToldIsTrue'
      BY <2>2, <2>3, <2>4 DEF ToldIsTrue
    <2> QED
      BY <2>5, <2>6, <2>7 DEF ToldInv
  <1>9. CASE Disturbance
    <2>1. CASE RedisStops \/ RedisReturns
      BY <1>2, <2>1 DEF RedisStops, RedisReturns, projector
    <2>2. CASE ApiRestarts
      <3>1. inHand' = NoHand /\ UNCHANGED <<execution, told>>
        BY <2>2 DEF ApiRestarts, database
      <3> QED
        BY <3>1 DEF ToldInv, ToldIsTrue, HandTells, NoHand
    <2>3. CASE \E id \in Published : ProjectionFails(id)
      BY <1>2, <2>3 DEF ProjectionFails
    <2>4. CASE \E S \in SUBSET Executions : ExpiryFails(S)
      BY <1>2, <2>4 DEF ExpiryFails, projector
    <2> QED
      BY <1>9, <2>1, <2>2, <2>3, <2>4 DEF Disturbance
  <1>10. CASE Environment
    <2>1. CASE \E e \in Executions : Publish(e) \/ TimeRunsOut(e)
      BY <1>2, <2>1 DEF Publish, TimeRunsOut, projector
    <2>2. ASSUME NEW e \in Executions, Cancel(e)
          PROVE  ToldInv'
      <3>1. execution'[e].status = "cancelled"
        BY <2>2, CancelRows DEF RowsInv
      <3>2. told' = [told EXCEPT ![e] = @ \cup {execution'[e].status}] /\ UNCHANGED inHand
        BY <2>2, <3>1 DEF Cancel, projector
      <3>3. HandTells'
        BY <1>1, <3>2, EndIsFinal DEF ToldInv, HandTells
      <3> QED
        BY <1>1, <3>1, <3>2, <3>3, ToldGrows DEF TerminalStatuses
    <2> QED
      BY <1>10, <2>1, <2>2 DEF Environment
  <1> QED
    BY <1>3, <1>4, <1>5, <1>6, <1>7, <1>8, <1>9, <1>10 DEF Next

\* No client is ever told of another end than the one the execution had, however the
\* projector, the requester and the clock race for it.
THEOREM ToldIsTrueHolds == Spec => []ToldIsTrue
  <1>1. Init => ToldInv
    BY DEF Init, ToldInv, ToldIsTrue, HandTells, NoHand
  <1>2. RowsInv /\ ToldInv /\ [Next]_vars => ToldInv'
    BY ToldStep
  <1>3. ToldInv => ToldIsTrue
    BY DEF ToldInv
  <1> QED
    BY <1>1, <1>2, <1>3, RowsInvHolds, PTL DEF Spec

---------------------------------------------------------------------------
(* What the outbox marks *)

Rounds ==
    [stage : {"idle", "cancelling", "sending"},
     cancels : SUBSET Executions, jobs : SUBSET Executions, discards : SUBSET Executions,
     cancelled : SUBSET Executions, dispatched : SUBSET Executions]

\* The round under way has sent what it is going to mark.
SentInv ==
    /\ outbox \in [Executions -> {"pending", "published", "discarded"}]
    /\ cancelOutbox \in [Executions -> {"none", "pending", "published"}]
    /\ sent \in [Executions -> BOOLEAN]
    /\ cancelKey \in [Executions -> BOOLEAN]
    /\ round \in Rounds
    /\ \A e \in round.dispatched : sent[e] = TRUE
    /\ \A e \in round.cancelled : cancelKey[e] = TRUE
    /\ MarkedIsSent

LEMMA NoRoundFacts == NoRound \in Rounds /\ NoRound.dispatched = {} /\ NoRound.cancelled = {}
  BY DEF NoRound, Rounds

\* A round marks what it has sent when it ends, whether it came to its end or a call broke it off.
LEMMA MarkedStep ==
    ASSUME SentInv, Marked(round), round' = NoRound,
           sent' \in [Executions -> BOOLEAN], cancelKey' \in [Executions -> BOOLEAN],
           \A e \in Executions : sent[e] = TRUE => sent'[e] = TRUE,
           \A e \in Executions : cancelKey[e] = TRUE => cancelKey'[e] = TRUE
    PROVE  SentInv'
  <1>1. round \in Rounds /\ round.dispatched \in SUBSET Executions /\ round.cancelled \in SUBSET Executions
    BY DEF SentInv, Rounds
  <1>2. /\ outbox' = [e \in Executions |->
                         IF e \in round.dispatched THEN "published"
                         ELSE IF e \in round.discards THEN "discarded" ELSE outbox[e]]
        /\ cancelOutbox' = [e \in Executions |->
                               IF e \in round.cancelled THEN "published" ELSE cancelOutbox[e]]
    BY DEF Marked
  <1>3. /\ outbox' \in [Executions -> {"pending", "published", "discarded"}]
        /\ cancelOutbox' \in [Executions -> {"none", "pending", "published"}]
    BY <1>2 DEF SentInv
  <1>4. ASSUME NEW e \in Executions
        PROVE  /\ outbox'[e] = "published" => sent'[e]
               /\ cancelOutbox'[e] = "published" => cancelKey'[e]
    <2>1. outbox'[e] = "published" => sent'[e] = TRUE
      BY <1>1, <1>2 DEF SentInv, MarkedIsSent
    <2>2. cancelOutbox'[e] = "published" => cancelKey'[e] = TRUE
      BY <1>1, <1>2 DEF SentInv, MarkedIsSent
    <2> QED
      BY <2>1, <2>2
  <1>5. round' \in Rounds /\ round'.dispatched = {} /\ round'.cancelled = {}
    BY NoRoundFacts
  <1> QED
    BY <1>3, <1>4, <1>5 DEF SentInv, MarkedIsSent

\* Steps that leave all of it alone, or only forget the round.
LEMMA QuietSent ==
    ASSUME SentInv, UNCHANGED <<outbox, cancelOutbox, sent, cancelKey>>,
           round' = round \/ round' = NoRound
    PROVE  SentInv'
  <1>1. CASE UNCHANGED round
    BY <1>1 DEF SentInv, MarkedIsSent
  <1>2. CASE round' = NoRound
    BY <1>2, NoRoundFacts DEF SentInv, MarkedIsSent
  <1> QED
    BY <1>1, <1>2

LEMMA DispatcherSent ==
    ASSUME SentInv, Dispatcher
    PROVE  SentInv'
  <1>1. CASE BeginRound
    <2>1. PICK discards \in SUBSET Executions, cancels \in SUBSET Executions :
             round' = [NoRound EXCEPT !.stage = "cancelling", !.discards = discards, !.cancels = cancels]
      BY <1>1 DEF BeginRound
    <2>2. round' \in Rounds /\ round'.dispatched = {} /\ round'.cancelled = {}
      BY <2>1 DEF NoRound, Rounds
    <2>3. UNCHANGED <<outbox, cancelOutbox, sent, cancelKey>>
      BY <1>1 DEF BeginRound, database, redis
    <2> QED
      BY <2>2, <2>3 DEF SentInv, MarkedIsSent
  <1>2. CASE SelectJobs
    <2>1. PICK jobs \in SUBSET Executions : round' = [round EXCEPT !.stage = "sending", !.jobs = jobs]
      BY <1>2 DEF SelectJobs
    <2>2. round' \in Rounds /\ round'.dispatched = round.dispatched /\ round'.cancelled = round.cancelled
      BY <2>1 DEF Rounds, SentInv
    <2>3. UNCHANGED <<outbox, cancelOutbox, sent, cancelKey>>
      BY <1>2 DEF SelectJobs, database, redis
    <2> QED
      BY <2>2, <2>3 DEF SentInv, MarkedIsSent
  <1>3. CASE CommitRound
    BY <1>3, MarkedStep DEF CommitRound, redis, SentInv
  <1>4. ASSUME NEW e \in Executions, SendCancellation(e)
        PROVE  SentInv'
    <2>1. UNCHANGED sent /\ (UNCHANGED cancelKey \/ cancelKey' = [cancelKey EXCEPT ![e] = TRUE])
      BY <1>4 DEF SendCancellation
    <2>2. /\ sent' \in [Executions -> BOOLEAN] /\ cancelKey' \in [Executions -> BOOLEAN]
          /\ \A f \in Executions : sent[f] = TRUE => sent'[f] = TRUE
          /\ \A f \in Executions : cancelKey[f] = TRUE => cancelKey'[f] = TRUE
      BY <2>1 DEF SentInv
    <2>3. CASE Marked(round) /\ round' = NoRound
      BY <2>2, <2>3, MarkedStep
    <2>4. CASE /\ cancelKey' = [cancelKey EXCEPT ![e] = TRUE]
               /\ round' = [round EXCEPT !.cancels = @ \ {e}, !.cancelled = @ \cup {e}]
               /\ UNCHANGED <<outbox, cancelOutbox>>
      <3>1. /\ round' \in Rounds /\ round'.dispatched = round.dispatched
            /\ round'.cancelled = round.cancelled \cup {e} /\ round.cancelled \in SUBSET Executions
            /\ round.dispatched \in SUBSET Executions
        BY <2>4 DEF Rounds, SentInv
      <3>2. cancelKey'[e] = TRUE
        BY <2>4 DEF SentInv
      <3>3. \A f \in round'.cancelled : cancelKey'[f] = TRUE
        BY <2>2, <3>1, <3>2 DEF SentInv
      <3>4. \A f \in round'.dispatched : sent'[f] = TRUE
        BY <2>2, <3>1 DEF SentInv
      <3>5. MarkedIsSent'
        BY <2>1, <2>2, <2>4 DEF SentInv, MarkedIsSent
      <3> QED
        BY <2>2, <2>4, <3>1, <3>3, <3>4, <3>5 DEF SentInv
    <2> QED
      BY <1>4, <2>3, <2>4 DEF SendCancellation
  <1>5. ASSUME NEW e \in Executions, SendJob(e)
        PROVE  SentInv'
    <2>1. UNCHANGED cancelKey /\ (UNCHANGED sent \/ sent' = [sent EXCEPT ![e] = TRUE])
      BY <1>5 DEF SendJob
    <2>2. /\ sent' \in [Executions -> BOOLEAN] /\ cancelKey' \in [Executions -> BOOLEAN]
          /\ \A f \in Executions : sent[f] = TRUE => sent'[f] = TRUE
          /\ \A f \in Executions : cancelKey[f] = TRUE => cancelKey'[f] = TRUE
      BY <2>1 DEF SentInv
    <2>3. CASE Marked(round) /\ round' = NoRound
      BY <2>2, <2>3, MarkedStep
    <2>4. CASE /\ sent' = [sent EXCEPT ![e] = TRUE]
               /\ round' = [round EXCEPT !.jobs = @ \ {e}, !.dispatched = @ \cup {e}]
               /\ UNCHANGED <<outbox, cancelOutbox>>
      <3>1. /\ round' \in Rounds /\ round'.cancelled = round.cancelled
            /\ round'.dispatched = round.dispatched \cup {e} /\ round.cancelled \in SUBSET Executions
            /\ round.dispatched \in SUBSET Executions
        BY <2>4 DEF Rounds, SentInv
      <3>2. sent'[e] = TRUE
        BY <2>4 DEF SentInv
      <3>3. \A f \in round'.dispatched : sent'[f] = TRUE
        BY <2>2, <3>1, <3>2 DEF SentInv
      <3>4. \A f \in round'.cancelled : cancelKey'[f] = TRUE
        BY <2>2, <3>1 DEF SentInv
      <3>5. MarkedIsSent'
        BY <2>1, <2>2, <2>4 DEF SentInv, MarkedIsSent
      <3> QED
        BY <2>2, <2>4, <3>1, <3>3, <3>4, <3>5 DEF SentInv
    <2> QED
      BY <1>5, <2>3, <2>4 DEF SendJob
  <1> QED
    BY <1>1, <1>2, <1>3, <1>4, <1>5 DEF Dispatcher

LEMMA SentStep ==
    ASSUME SentInv, [Next]_vars
    PROVE  SentInv'
  <1>1. CASE UNCHANGED vars
    BY <1>1, QuietSent DEF vars, database, redis
  <1>2. CASE Dispatcher
    BY <1>2, DispatcherSent
  <1>3. CASE Projector
    BY <1>3, QuietSent DEF Projector, Project, ShowAndAcknowledge, database, redis
  <1>4. CASE Receive
    BY <1>4, QuietSent DEF Receive, Read, database
  <1>5. CASE Backlog
    BY <1>5, QuietSent DEF Backlog, CountPending, ReadLag, NextPass, database, redis
  <1>6. CASE Expiry
    BY <1>6, QuietSent DEF Expiry, Expire, redis
  <1>7. CASE Disturbance
    <2>1. CASE RedisStops \/ RedisReturns \/ ApiRestarts
      BY <2>1, QuietSent DEF RedisStops, RedisReturns, ApiRestarts, database, redis
    <2>2. CASE \E id \in Published : ProjectionFails(id)
      BY <2>2, QuietSent DEF ProjectionFails, redis
    <2>3. CASE \E S \in SUBSET Executions : ExpiryFails(S)
      BY <2>3, QuietSent DEF ExpiryFails, redis
    <2> QED
      BY <1>7, <2>1, <2>2, <2>3 DEF Disturbance
  <1>8. CASE Environment
    <2>1. CASE \E e \in Executions : Publish(e) \/ TimeRunsOut(e)
      BY <2>1, QuietSent DEF Publish, TimeRunsOut, database, redis
    <2>2. ASSUME NEW e \in Executions, Cancel(e)
          PROVE  SentInv'
      <3>1. /\ cancelOutbox' = [cancelOutbox EXCEPT ![e] = "pending"]
            /\ UNCHANGED <<outbox, sent, cancelKey, round>>
        BY <2>2 DEF Cancel, redis
      <3> QED
        BY <3>1 DEF SentInv, MarkedIsSent
    <2> QED
      BY <1>8, <2>1, <2>2 DEF Environment
  <1> QED
    BY <1>1, <1>2, <1>3, <1>4, <1>5, <1>6, <1>7, <1>8 DEF Next

\* Whatever breaks and whenever, a row of the outbox is marked only when its message
\* reached Redis: no job and no cancellation is forgotten.
THEOREM MarkedIsSentHolds == Spec => []MarkedIsSent
  <1>1. Init => SentInv
    BY NoRoundFacts DEF Init, SentInv, MarkedIsSent
  <1>2. SentInv /\ [Next]_vars => SentInv'
    BY SentStep
  <1>3. SentInv => MarkedIsSent
    BY DEF SentInv
  <1> QED
    BY <1>1, <1>2, <1>3, PTL DEF Spec

---------------------------------------------------------------------------
(* Types *)

Hands == [id : Published, tells : TerminalEvents \cup {"nothing"}]

\* What TypeOK says beyond the rows, the outbox and what clients are told.
RestOK ==
    /\ timedOut \in [Executions -> BOOLEAN]
    /\ redisUp \in BOOLEAN
    /\ \A e \in Executions : Len(log[e]) <= MaxEvents
    /\ delivery \in [EventIds -> {"new", "pending", "gone"}]
    /\ batch \subseteq Published
    /\ inHand \in Hands \cup {NoHand}
    /\ deferred \subseteq Published
    /\ recovered \in BOOLEAN
    /\ check \in [stage : {"idle", "counted", "expiring"}, pending : Nat]
    /\ unexamined \subseteq Published
    /\ faults \in 0..MaxFaults

\* The bookkeeping of calls and faults.
CallOK == redisUp' \in BOOLEAN /\ faults' \in 0..MaxFaults

LEMMA CallTypes ==
    ASSUME RestOK
    PROVE  /\ UNCHANGED <<redisUp, faults>> => CallOK
           /\ CallSucceeds => CallOK
           /\ CallRaises => CallOK
           /\ ReplyIsLost => CallOK
           /\ Fault => faults' \in 0..MaxFaults
  <1>1. faults \in 0..MaxFaults /\ redisUp \in BOOLEAN /\ MaxFaults \in Nat
    BY ConstantsAssumption DEF RestOK
  <1>2. Fault => faults' \in 0..MaxFaults
    BY <1>1 DEF Fault
  <1> QED
    BY <1>1, <1>2 DEF CallOK, CallSucceeds, CallRaises, ReplyIsLost

LEMMA InterruptedTypes ==
    ASSUME NEW R, Interrupted(R)
    PROVE  recovered' \in BOOLEAN /\ unexamined' \subseteq Published
  BY DEF Interrupted, InState

LEMMA PendingCount == Cardinality(InState("pending")) \in Nat
  <1>1. IsFiniteSet(1..MaxEvents)
    BY FS_Interval, ConstantsAssumption
  <1>2. IsFiniteSet(EventIds)
    BY <1>1, FS_Product, ConstantsAssumption DEF EventIds
  <1>3. InState("pending") \in SUBSET EventIds
    BY DEF InState, Published
  <1> QED
    BY <1>2, <1>3, FS_Subset, FS_CardinalityType

LEMMA TypeStep ==
    ASSUME RowsInv, RestOK, [Next]_vars
    PROVE  RestOK'
  <1>1. ASSUME UNCHANGED <<timedOut, log, delivery, batch, inHand, deferred, recovered, check, unexamined>>,
               CallOK
        PROVE  RestOK'
    BY <1>1 DEF RestOK, CallOK, Published, Hands
  <1>2. CASE UNCHANGED vars
    BY <1>1, <1>2, CallTypes DEF vars, database, redis, projector
  <1>3. CASE Dispatcher
    BY <1>1, <1>3, CallTypes DEF Dispatcher, BeginRound, SelectJobs, CommitRound, SendCancellation,
                                 SendJob, database, redis, projector
  <1>4. ASSUME NEW id \in Published, Project(id)
        PROVE  RestOK'
    <2>1. PICK d : Projected(id, d) /\ id \in Published
      BY <1>4 DEF Project
    <2>2. timedOut' \in [Executions -> BOOLEAN]
      BY <2>1 DEF Projected, RestOK
    <2>3. inHand' \in Hands \cup {NoHand}
      <3>1. PICK ev : ev = log[id[1]][id[2]]
        OBVIOUS
      <3>2. PICK c : inHand' = CASE c = "defer" -> NoHand
                                 [] c = "ignore" -> [id |-> id, tells |-> "nothing"]
                                 [] OTHER -> [id |-> id, tells |-> Tells(ev, execution'[id[1]].status)]
        BY <1>4, <3>1 DEF Project
      <3>3. Tells(ev, execution'[id[1]].status) \in TerminalEvents \cup {"nothing"}
        BY DEF Tells, TerminalEvents
      <3>4. CASE c = "defer"
        BY <3>2, <3>4
      <3>5. CASE c = "ignore"
        <4>1. inHand' = [id |-> id, tells |-> "nothing"]
          BY <3>2, <3>5
        <4> QED
          BY <4>1 DEF Hands
      <3>6. CASE c \notin {"defer", "ignore"}
        <4>1. inHand' = [id |-> id, tells |-> Tells(ev, execution'[id[1]].status)]
          BY <3>2, <3>6
        <4> QED
          BY <3>3, <4>1 DEF Hands
      <3> QED
        BY <3>4, <3>5, <3>6
    <2>4. /\ UNCHANGED <<redisUp, log, delivery, recovered, check, faults>>
          /\ batch' \subseteq Published /\ deferred' \subseteq Published /\ unexamined' \subseteq Published
      BY <1>4 DEF Project, redis, RestOK
    <2> QED
      BY <2>2, <2>3, <2>4 DEF RestOK, Published, Hands
  <1>5. CASE ShowAndAcknowledge
    <2>1. CallOK
      BY <1>5, CallTypes DEF ShowAndAcknowledge
    <2>2. delivery' \in [EventIds -> {"new", "pending", "gone"}]
      BY <1>5 DEF ShowAndAcknowledge, RestOK
    <2>3. recovered' \in BOOLEAN /\ unexamined' \subseteq Published
      BY <1>5, InterruptedTypes DEF ShowAndAcknowledge, RestOK
    <2>4. /\ UNCHANGED <<timedOut, log, check>> /\ inHand' = NoHand
          /\ batch' \subseteq Published /\ deferred' \subseteq Published
      BY <1>5 DEF ShowAndAcknowledge, database, RestOK
    <2> QED
      BY <2>1, <2>2, <2>3, <2>4 DEF RestOK, CallOK, Published, Hands
  <1>6. ASSUME NEW claimed \in SUBSET InState("pending"), Read(claimed)
        PROVE  RestOK'
    <2>1. CallOK
      BY <1>6, CallTypes DEF Read
    <2>2. delivery' \in [EventIds -> {"new", "pending", "gone"}]
      BY <1>6 DEF Read, RestOK
    <2>3. recovered' \in BOOLEAN /\ unexamined' \subseteq Published
      BY <1>6, InterruptedTypes DEF Read, RestOK
    <2>4. UNCHANGED <<timedOut, log, check, inHand, deferred>> /\ batch' \subseteq Published
      BY <1>6 DEF Read, database, RestOK, InState
    <2> QED
      BY <2>1, <2>2, <2>3, <2>4 DEF RestOK, CallOK, Published, Hands
  <1>7. CASE Backlog
    <2>1. CallOK
      BY <1>7, CallTypes DEF Backlog, CountPending, ReadLag, NextPass, redis
    <2>2. check' \in [stage : {"idle", "counted", "expiring"}, pending : Nat]
      BY <1>7, PendingCount DEF Backlog, CountPending, ReadLag, NextPass, RestOK, Idle
    <2>3. recovered' \in BOOLEAN /\ unexamined' \subseteq Published
      BY <1>7, InterruptedTypes DEF Backlog, CountPending, ReadLag, NextPass, RestOK
    <2>4. UNCHANGED <<timedOut, log, delivery, batch, inHand, deferred>>
      BY <1>7 DEF Backlog, CountPending, ReadLag, NextPass, database, redis, projector
    <2> QED
      BY <2>1, <2>2, <2>3, <2>4 DEF RestOK, CallOK, Published, Hands
  <1>8. CASE Expiry \/ \E S \in SUBSET Executions : ExpiryFails(S)
    <2>1. timedOut' \in [Executions -> BOOLEAN]
      BY <1>8 DEF Expiry, Expire, ExpiryFails, ExpireRows, RestOK
    <2>2. recovered' \in BOOLEAN /\ unexamined' \subseteq Published
      BY <1>8, InterruptedTypes DEF Expiry, Expire, ExpiryFails, RestOK
    <2>3. /\ UNCHANGED <<redisUp, log, delivery, batch, inHand, deferred>> /\ check' = Idle
          /\ faults' \in 0..MaxFaults
      BY <1>8, CallTypes DEF Expiry, Expire, ExpiryFails, redis, projector, RestOK
    <2> QED
      BY <2>1, <2>2, <2>3 DEF RestOK, Published, Hands, Idle
  <1>9. CASE RedisStops \/ RedisReturns \/ ApiRestarts
    <2>1. CallOK
      BY <1>9, CallTypes DEF RedisStops, RedisReturns, ApiRestarts, CallOK, redis, RestOK
    <2>2. CASE RedisStops \/ RedisReturns
      BY <1>1, <2>1, <2>2 DEF RedisStops, RedisReturns, database, projector
    <2>3. CASE ApiRestarts
      <3>1. recovered' \in BOOLEAN /\ unexamined' \subseteq Published
        BY <2>3, InterruptedTypes DEF ApiRestarts
      <3> QED
        BY <2>1, <2>3, <3>1 DEF ApiRestarts, database, redis, RestOK, CallOK, Published, Hands, Idle
    <2> QED
      BY <1>9, <2>2, <2>3
  <1>10. ASSUME NEW id \in Published, ProjectionFails(id)
         PROVE  RestOK'
    <2>1. timedOut' \in [Executions -> BOOLEAN]
      BY <1>10 DEF ProjectionFails, Projected, RestOK
    <2>2. recovered' \in BOOLEAN /\ unexamined' \subseteq Published /\ faults' \in 0..MaxFaults
      BY <1>10, InterruptedTypes, CallTypes DEF ProjectionFails
    <2>3. UNCHANGED <<redisUp, log, delivery, inHand, deferred, check>> /\ batch' = {}
      BY <1>10 DEF ProjectionFails, redis
    <2> QED
      BY <2>1, <2>2, <2>3 DEF RestOK, Published, Hands
  <1>11. ASSUME NEW e \in Executions, Publish(e)
         PROVE  RestOK'
    <2>1. PICK ev \in Events : Writes(e, ev)
      BY <1>11, PublishWrites
    <2>2. /\ UNCHANGED <<timedOut, redisUp, delivery, batch, inHand, deferred, recovered, check, unexamined>>
          /\ faults' \in 0..MaxFaults
      BY <1>11, CallTypes DEF Publish, database, projector, RestOK
    <2>3. EventIds' = EventIds
      BY DEF EventIds
    <2> QED
      BY <2>1, <2>2, <2>3, PublishedGrows DEF RestOK, Hands
  <1>12. ASSUME NEW e \in Executions, TimeRunsOut(e) \/ Cancel(e)
         PROVE  RestOK'
    <2>1. timedOut' \in [Executions -> BOOLEAN]
      BY <1>12 DEF TimeRunsOut, Cancel, RestOK
    <2>2. UNCHANGED <<redisUp, log, delivery, batch, inHand, deferred, recovered, check, unexamined, faults>>
      BY <1>12 DEF TimeRunsOut, Cancel, redis, projector
    <2> QED
      BY <2>1, <2>2 DEF RestOK, Published, Hands
  <1> QED
    BY <1>2, <1>3, <1>4, <1>5, <1>6, <1>7, <1>8, <1>9, <1>10, <1>11, <1>12
       DEF Next, Projector, Receive, Disturbance, Environment

LEMMA RestOKHolds == Spec => []RestOK
  <1>1. Init => RestOK
    <2>1. \A e \in Executions : Len(<<>>) <= MaxEvents
      BY ConstantsAssumption
    <2>2. 0 \in 0..MaxFaults
      BY ConstantsAssumption
    <2>3. SUFFICES ASSUME Init PROVE RestOK
      OBVIOUS
    <2>4. \A e \in Executions : Len(log[e]) <= MaxEvents
      BY <2>1, <2>3 DEF Init
    <2>5. /\ timedOut \in [Executions -> BOOLEAN] /\ redisUp \in BOOLEAN
          /\ delivery \in [EventIds -> {"new", "pending", "gone"}]
      BY <2>3 DEF Init
    <2>6. /\ batch = {} /\ inHand = NoHand /\ deferred = {} /\ recovered = FALSE
          /\ check = [stage |-> "idle", pending |-> 0] /\ unexamined = {} /\ faults = 0
      BY <2>3 DEF Init, Idle
    <2> QED
      BY <2>2, <2>4, <2>5, <2>6 DEF RestOK
  <1>2. RowsInv /\ RestOK /\ [Next]_vars => RestOK'
    BY TypeStep
  <1> QED
    BY <1>1, <1>2, RowsInvHolds, PTL DEF Spec

\* Every variable keeps the type the code gives it, whatever fails or is restarted.
THEOREM TypeCorrect == Spec => []TypeOK
  <1>1. Init => ToldInv
    BY DEF Init, ToldInv, ToldIsTrue, HandTells, NoHand
  <1>2. RowsInv /\ ToldInv /\ [Next]_vars => ToldInv'
    BY ToldStep
  <1>3. Init => SentInv
    BY NoRoundFacts DEF Init, SentInv, MarkedIsSent
  <1>4. SentInv /\ [Next]_vars => SentInv'
    BY SentStep
  <1>5. RowsInv /\ ToldInv /\ SentInv /\ RestOK => TypeOK
    BY DEF RowsInv, AllRowsOK, ToldInv, SentInv, RestOK, Rounds, Hands, TypeOK
  <1> QED
    BY <1>1, <1>2, <1>3, <1>4, <1>5, RowsInvHolds, RestOKHolds, PTL DEF Spec

---------------------------------------------------------------------------
(* Nothing is lost *)

\* What a worker may have written, in short: it starts or fails first, nothing follows an end, and
\* it thinks only if it started thinking, up to the one change of phase that may follow.
Legal(l) ==
    /\ \A n \in 1..Len(l) :
          /\ n = 1 => l[n].type \in {"started", "failed"}
          /\ n > 1 => l[n].type \in {"failed", "completed", "thinking_delta", "phase_changed", "delta"}
          /\ n < Len(l) => l[n].type \notin TerminalEvents
          /\ l[n].type = "phase_changed" => l[n].phase = "answering"
          /\ l[n].type \in {"thinking_delta", "phase_changed"} => l[1].phase = "thinking"
          /\ l[n].type = "delta" /\ l[1].phase = "thinking" =>
                 \E k \in 1..(n - 1) : l[k].type = "phase_changed"
    /\ \A m, n \in 1..Len(l) :
          m < n /\ l[n].type \in {"thinking_delta", "phase_changed"} =>
              l[m].type \notin {"phase_changed", "delta"}

\* A row that runs is thinking unless the events applied to it say otherwise.
Follows(x, l) ==
    /\ x.status = "queued" => x.lastSequence = -1
    /\ x.status = "running" =>
          /\ x.lastSequence >= 0
          /\ l[1].phase = "thinking"
             /\ (\A n \in 1..(x.lastSequence + 1) : l[n].type \notin {"phase_changed", "delta"})
             => x.phase = "thinking"

\* An event that the stream may forget.
Settled(id) ==
    \/ id[2] <= execution[id[1]].lastSequence + 1
    \/ ~Active(id[1])
    \/ \E n \in 1..id[2] : ~log[id[1]][n].readable

LostInv ==
    /\ \A e \in Executions : Legal(log[e]) /\ Follows(execution[e], log[e])
    /\ \A id \in EventIds : delivery[id] = "gone" => id \in Published /\ Settled(id)
    /\ inHand # NoHand => Settled(inHand.id)

\* What WorkerPhase says of a legal stream that has begun.
LEMMA PhaseOfWorker ==
    ASSUME NEW e \in Executions, log[e] \in Seq(Events), Legal(log[e]),
           Len(log[e]) > 0, log[e][1].type = "started"
    PROVE  WorkerPhase(e) = "thinking" <=>
              /\ log[e][1].phase = "thinking"
              /\ \A n \in 1..Len(log[e]) : log[e][n].type # "phase_changed"
  <1>1. PICK changes : changes = {n \in DOMAIN log[e] : log[e][n].type \in {"started", "phase_changed"}}
    OBVIOUS
  <1>2. DOMAIN log[e] = 1..Len(log[e]) /\ 1 \in changes /\ Len(log[e]) \in Nat
    BY <1>1
  <1>3. WorkerPhase(e) = log[e][CHOOSE n \in changes : \A m \in changes : m <= n].phase
    BY <1>1, <1>2 DEF WorkerPhase
  <1>4. CASE \A n \in 1..Len(log[e]) : log[e][n].type # "phase_changed"
    <2>1. changes = {1}
      <3>1. ASSUME NEW n \in changes
            PROVE  n = 1
        <4>1. n \in 1..Len(log[e]) /\ log[e][n].type = "started"
          BY <1>1, <1>2, <1>4
        <4> QED
          BY <4>1 DEF Legal
      <3> QED
        BY <1>2, <3>1
    <2>2. (CHOOSE n \in changes : \A m \in changes : m <= n) = 1
      BY <2>1
    <2> QED
      BY <1>3, <1>4, <2>2
  <1>5. ASSUME NEW k \in 1..Len(log[e]), log[e][k].type = "phase_changed"
        PROVE  WorkerPhase(e) # "thinking"
    <2>1. k > 1 /\ k \in changes
      BY <1>1, <1>2, <1>5
    <2>2. ASSUME NEW n \in changes
          PROVE  n \in 1..k /\ (n = 1 \/ n = k)
      <3>1. n \in 1..Len(log[e]) /\ log[e][n].type \in {"started", "phase_changed"}
        BY <1>1, <1>2
      <3>2. CASE log[e][n].type = "started"
        BY <2>1, <3>1, <3>2 DEF Legal
      <3>3. CASE log[e][n].type = "phase_changed"
        <4>1. ~(n < k) /\ ~(k < n)
          BY <1>5, <3>1, <3>3 DEF Legal
        <4> QED
          BY <3>1, <4>1
      <3> QED
        BY <3>1, <3>2, <3>3
    <2>3. \A m \in changes : m <= k
      BY <2>2
    <2>4. PICK n : n = CHOOSE j \in changes : \A m \in changes : m <= j
      OBVIOUS
    <2>5. n \in changes /\ \A m \in changes : m <= n
      BY <2>1, <2>3, <2>4
    <2>6. n = k
      BY <2>1, <2>2, <2>5
    <2>7. log[e][k].phase = "answering"
      BY <1>5 DEF Legal
    <2> QED
      BY <1>3, <2>4, <2>6, <2>7
  <1> QED
    BY <1>4, <1>5

LEMMA LegalGrows ==
    ASSUME NEW e \in Executions, log[e] \in Seq(Events), Legal(log[e]),
           NEW ev, NEW w \in NextEvents(e), ev.type = w.type, ev.phase = w.phase
    PROVE  Legal(Append(log[e], ev))
  <1>1. PICK l : l = log[e]
    OBVIOUS
  <1>2. PICK q : q = Append(l, ev)
    OBVIOUS
  <1>3. /\ Len(l) \in Nat /\ Len(q) = Len(l) + 1 /\ q[Len(l) + 1] = ev
        /\ \A n \in 1..Len(l) : q[n] = l[n]
    BY <1>1, <1>2
  <1>4. CASE l = <<>>
    <2>1. Len(l) = 0
      BY <1>4
    <2>2. ev.type \in {"started", "failed"}
      BY <1>1, <1>4 DEF NextEvents, Event
    <2> QED
      BY <1>1, <1>2, <1>3, <2>1, <2>2 DEF Legal
  <1>5. CASE l # <<>>
    <2>1. Len(l) > 0 /\ l[Len(l)].type \notin TerminalEvents
      <3>1. Len(l) > 0
        BY <1>1, <1>5
      <3>2. CASE l[Len(l)].type \in TerminalEvents
        <4>1. NextEvents(e) = {}
          BY <1>1, <1>5, <3>2 DEF NextEvents
        <4> QED
          BY <4>1
      <3> QED
        BY <3>1, <3>2
    <2>2. \A n \in 1..Len(l) : l[n].type \notin TerminalEvents
      BY <1>1, <1>3, <2>1 DEF Legal
    <2>3. l[1].type = "started"
      BY <1>1, <1>3, <2>1, <2>2 DEF Legal, TerminalEvents
    <2>4. /\ ev.type \in {"failed", "completed", "thinking_delta", "phase_changed", "delta"}
          /\ ev.type = "phase_changed" => ev.phase = "answering"
          /\ ev.type \in {"thinking_delta", "phase_changed"} => WorkerPhase(e) = "thinking"
          /\ ev.type = "delta" => WorkerPhase(e) # "thinking"
      BY <1>1, <1>5, <2>1 DEF NextEvents, Event
    <2>5. ev.type \in {"thinking_delta", "phase_changed"} =>
             l[1].phase = "thinking" /\ \A m \in 1..Len(l) : l[m].type \notin {"phase_changed", "delta"}
      <3>1. SUFFICES ASSUME ev.type \in {"thinking_delta", "phase_changed"}
                     PROVE  /\ l[1].phase = "thinking"
                            /\ \A m \in 1..Len(l) : l[m].type \notin {"phase_changed", "delta"}
        OBVIOUS
      <3>2. /\ l[1].phase = "thinking"
            /\ \A n \in 1..Len(l) : l[n].type # "phase_changed"
        BY <1>1, <2>1, <2>3, <2>4, <3>1, PhaseOfWorker
      <3>3. \A m \in 1..Len(l) : l[m].type # "delta"
        BY <1>1, <1>3, <3>2 DEF Legal
      <3> QED
        BY <3>2, <3>3
    <2>6. ev.type = "delta" /\ l[1].phase = "thinking" =>
             \E k \in 1..Len(l) : l[k].type = "phase_changed"
      BY <1>1, <2>1, <2>3, <2>4, PhaseOfWorker
    <2>7. q[1] = l[1] /\ 1..Len(q) = 1..Len(l) \cup {Len(l) + 1}
      BY <1>3, <2>1
    <2>8. ASSUME NEW n \in 1..Len(l)
          PROVE  /\ n = 1 => q[n].type \in {"started", "failed"}
                 /\ n > 1 => q[n].type \in {"failed", "completed", "thinking_delta", "phase_changed", "delta"}
                 /\ q[n].type \notin TerminalEvents
                 /\ q[n].type = "phase_changed" => q[n].phase = "answering"
                 /\ q[n].type \in {"thinking_delta", "phase_changed"} => q[1].phase = "thinking"
                 /\ q[n].type = "delta" /\ q[1].phase = "thinking" =>
                        \E k \in 1..(n - 1) : q[k].type = "phase_changed"
      <3>1. q[n] = l[n] /\ \A k \in 1..(n - 1) : q[k] = l[k]
        BY <1>3
      <3> QED
        BY <1>1, <2>2, <2>7, <3>1 DEF Legal
    <2>9. ASSUME NEW m \in 1..Len(q), NEW n \in 1..Len(q), m < n,
                 q[n].type \in {"thinking_delta", "phase_changed"}
          PROVE  q[m].type \notin {"phase_changed", "delta"}
      <3>1. m \in 1..Len(l) /\ q[m] = l[m]
        BY <1>3, <2>9
      <3>2. CASE n \in 1..Len(l)
        <4>1. q[n] = l[n]
          BY <1>3, <3>2
        <4> QED
          BY <1>1, <2>9, <3>1, <3>2, <4>1 DEF Legal
      <3>3. CASE n = Len(l) + 1
        BY <1>3, <2>5, <2>9, <3>1, <3>3
      <3> QED
        BY <2>7, <3>2, <3>3
    <2>10. ASSUME NEW n \in 1..Len(q), n = Len(l) + 1
           PROVE  /\ n > 1 /\ ~(n < Len(q))
                  /\ q[n].type \in {"failed", "completed", "thinking_delta", "phase_changed", "delta"}
                  /\ q[n].type = "phase_changed" => q[n].phase = "answering"
                  /\ q[n].type \in {"thinking_delta", "phase_changed"} => q[1].phase = "thinking"
                  /\ q[n].type = "delta" /\ q[1].phase = "thinking" =>
                         \E k \in 1..(n - 1) : q[k].type = "phase_changed"
      <3>1. q[n] = ev /\ n - 1 = Len(l)
        BY <1>3, <2>10
      <3>2. ev.type = "delta" /\ q[1].phase = "thinking" =>
               \E k \in 1..Len(l) : q[k].type = "phase_changed"
        BY <1>3, <2>6, <2>7
      <3> QED
        BY <1>3, <2>1, <2>4, <2>5, <2>7, <2>10, <3>1, <3>2
    <2>11. Legal(q)
      BY <2>7, <2>8, <2>9, <2>10 DEF Legal
    <2> QED
      BY <1>1, <1>2, <2>11
  <1> QED
    BY <1>4, <1>5

LEMMA FollowsOwnPart ==
    ASSUME NEW x \in Rows, NEW l \in Seq(Events), NEW q \in Seq(Events), Follows(x, l),
           x.lastSequence + 1 <= Len(l), \A n \in 1..Len(l) : q[n] = l[n]
    PROVE  Follows(x, q)
  <1>1. x.lastSequence \in Int /\ Len(l) \in Nat
    BY DEF Rows
  <1>2. x.lastSequence >= 0 => \A n \in 1..(x.lastSequence + 1) : q[n] = l[n]
    BY <1>1
  <1>3. x.lastSequence >= 0 => q[1] = l[1]
    BY <1>1
  <1> QED
    BY <1>2, <1>3 DEF Follows

\* The phase of a row after an event.
LEMMA AppliedPhase ==
    ASSUME NEW x \in Rows, NEW ev \in Events, NEW s \in 0..(MaxEvents - 1),
           NEW y, y = FinalRow(ApplyEvent(x, ev, s))
    PROVE  /\ ev.type = "started" => y.phase = ev.phase
           /\ ev.type \in {"heartbeat", "thinking_delta"} => y.phase = x.phase
  <1>1. PICK z : z = [x EXCEPT !.lastSequence = s, !.lastType = ev.type]
    OBVIOUS
  <1>2. PICK w : w = ApplyEvent(x, ev, s)
    OBVIOUS
  <1>3. z.phase = x.phase
    BY <1>1 DEF Rows
  <1>4. Changed(x, ev, s, w)
    BY <1>2, AppliedFields
  <1>5. y.phase = w.phase
    BY <1>2, <1>4 DEF Changed, FinalRow, Finalize, Rows
  <1>6. CASE ev.type = "started"
    <2>1. w = [z EXCEPT !.status = "running", !.phase = ev.phase, !.metered = TRUE]
      BY <1>1, <1>2, <1>6 DEF ApplyEvent
    <2>2. z \in [status : Statuses, phase : Phases, lastSequence : {s}, lastType : {ev.type},
                 output : Seq(0..(MaxEvents - 1)), metered : BOOLEAN,
                 entry : {"none", "partial", "whole"}, billing : {"held", "released", "charged"}]
      BY <1>1 DEF Rows
    <2>3. w.phase = ev.phase
      BY <2>1, <2>2
    <2> QED
      BY <1>5, <1>6, <2>3
  <1>7. CASE ev.type \in {"heartbeat", "thinking_delta"}
    <2>1. w = z
      BY <1>1, <1>2, <1>7 DEF ApplyEvent, TerminalEvents
    <2> QED
      BY <1>3, <1>5, <1>7, <2>1
  <1> QED
    BY <1>6, <1>7

LEMMA FollowsStep ==
    ASSUME NEW x, RowOK(x), NEW y, RowOK(y), NEW l \in Seq(Events), Legal(l), Follows(x, l), StepOf(x, y, l)
    PROVE  Follows(y, l)
  <1>1. CASE y = x
    BY <1>1
  <1>2. CASE Ends(x, y)
    BY <1>2 DEF Ends, Follows, TerminalStatuses
  <1>3. CASE Applies(x, y, l)
    <2>1. PICK s \in 0..(MaxEvents - 1) :
             /\ s = x.lastSequence + 1 /\ s + 1 \in 1..Len(l) /\ x.status \in ActiveStatuses
             /\ l[s + 1].type \in AllowedEvents(x.status)
             /\ y = FinalRow(ApplyEvent(x, l[s + 1], s))
      BY <1>3 DEF Applies
    <2>2. PICK ev : ev = l[s + 1]
      OBVIOUS
    <2>3. PICK z : z = ApplyEvent(x, ev, s)
      OBVIOUS
    <2>4. ev \in Events /\ x \in Rows /\ x.lastSequence \in Int
      BY <2>1, <2>2, ElementsOf DEF RowOK, Rows
    <2>5. Changed(x, ev, s, z)
      BY <2>3, <2>4, AppliedFields
    <2>6. y.status = z.status /\ y.lastSequence = s
      BY <2>1, <2>2, <2>3, <2>5, FinalFields DEF Changed
    <2>7. /\ ev.type = "started" => y.phase = ev.phase
          /\ ev.type \in {"heartbeat", "thinking_delta"} => y.phase = x.phase
      BY <2>1, <2>2, <2>4, AppliedPhase
    <2>8. \/ x.status = "queued" /\ ev.type \in {"started", "failed"}
          \/ x.status = "running" /\ ev.type \in {"phase_changed", "heartbeat", "completed", "failed",
                                                  "thinking_delta", "delta"}
      BY <2>1, <2>2, AllowedCases
    <2>9. y.status # "queued"
      BY <2>5, <2>6, <2>8 DEF Changed
    <2>10. ASSUME y.status = "running", l[1].phase = "thinking",
                  \A n \in 1..(s + 1) : l[n].type \notin {"phase_changed", "delta"}
           PROVE  y.phase = "thinking"
      <3>1. ev.type \notin {"phase_changed", "delta", "completed", "failed"}
        <4>1. s + 1 \in 1..(s + 1)
          OBVIOUS
        <4> QED
          BY <2>2, <2>5, <2>6, <2>10, <4>1 DEF Changed
      <3>2. CASE x.status = "queued"
        <4>1. s = 0
          BY <2>1, <3>2 DEF Follows
        <4>2. ev.type = "started"
          BY <2>8, <3>1, <3>2
        <4> QED
          BY <2>2, <2>7, <2>10, <4>1, <4>2
      <3>3. CASE x.status = "running"
        <4>1. y.phase = x.phase
          BY <2>7, <2>8, <3>1, <3>3
        <4>2. \A n \in 1..(x.lastSequence + 1) : l[n].type \notin {"phase_changed", "delta"}
          BY <2>1, <2>4, <2>10
        <4> QED
          BY <2>10, <3>3, <4>1, <4>2 DEF Follows
      <3> QED
        BY <2>8, <3>2, <3>3
    <2> QED
      BY <2>6, <2>9, <2>10 DEF Follows
  <1> QED
    BY <1>1, <1>2, <1>3 DEF StepOf

\* The event behind the last one applied is always acceptable: it is never ignored.
LEMMA NextIsAccepted ==
    ASSUME RowsInv, LostInv, NEW id \in Published, Active(id[1]),
           id[2] - 1 = execution[id[1]].lastSequence + 1
    PROVE  IsNext(Row(id[1]), Contents(id))
  <1>1. PICK e : e = id[1]
    OBVIOUS
  <1>2. PICK l : l = log[e]
    OBVIOUS
  <1>3. PICK x : x = execution[e]
    OBVIOUS
  <1>4. PICK n : n = id[2]
    OBVIOUS
  <1>5. /\ e \in Executions /\ n \in 1..Len(l) /\ l \in Seq(Events) /\ l[n] \in Events
    BY <1>1, <1>2, <1>4, PublishedEvents, ConstantsAssumption DEF RowsInv, Published
  <1>6. /\ RowOK(x) /\ x.status \in ActiveStatuses /\ Legal(l) /\ Follows(x, l)
        /\ x.lastSequence \in Int /\ n - 1 = x.lastSequence + 1
    BY <1>1, <1>2, <1>3, <1>4, <1>5 DEF RowsInv, AllRowsOK, RowOK, Rows, LostInv, Active
  <1>7. CASE x.status = "queued"
    <2>1. n = 1
      BY <1>5, <1>6, <1>7 DEF Follows
    <2>2. l[n].type \in {"started", "failed"}
      BY <1>5, <1>6, <2>1 DEF Legal
    <2>3. l[n].type \in AllowedEvents("queued")
      BY <2>2 DEF AllowedEvents
    <2> QED
      BY <1>1, <1>2, <1>3, <1>4, <1>6, <1>7, <2>2, <2>3
         DEF IsNext, Row, Contents, InPhase, TerminalStatuses
  <1>8. CASE x.status = "running"
    <2>1. n > 1 /\ 1..(x.lastSequence + 1) = 1..(n - 1)
      BY <1>5, <1>6, <1>8 DEF Follows
    <2>2. l[n].type \in {"failed", "completed", "thinking_delta", "phase_changed", "delta"}
      BY <1>5, <1>6, <2>1 DEF Legal
    <2>3. l[n].type \in AllowedEvents("running")
      BY <2>2 DEF AllowedEvents, DeltaEvents
    <2>4. l[n].type \in {"thinking_delta", "phase_changed"} => x.phase = "thinking"
      <3>1. SUFFICES ASSUME l[n].type \in {"thinking_delta", "phase_changed"}
                     PROVE  x.phase = "thinking"
        OBVIOUS
      <3>2. l[1].phase = "thinking"
        BY <1>5, <1>6, <3>1 DEF Legal
      <3>3. \A m \in 1..(n - 1) : l[m].type \notin {"phase_changed", "delta"}
        <4>1. ASSUME NEW m \in 1..(n - 1)
              PROVE  l[m].type \notin {"phase_changed", "delta"}
          <5>1. m \in 1..Len(l) /\ m < n
            BY <1>5
          <5> QED
            BY <1>5, <1>6, <3>1, <5>1 DEF Legal
        <4> QED
          BY <4>1
      <3> QED
        BY <1>6, <1>8, <2>1, <3>2, <3>3 DEF Follows
    <2> QED
      BY <1>1, <1>2, <1>3, <1>4, <1>6, <1>8, <2>3, <2>4
         DEF IsNext, Row, Contents, InPhase, TerminalStatuses
  <1> QED
    BY <1>6, <1>7, <1>8 DEF ActiveStatuses

LEMMA StreamsKeep ==
    ASSUME RowsInv, [Next]_vars
    PROVE  /\ Published \subseteq Published'
           /\ \A f \in Executions : \A n \in 1..Len(log[f]) : log'[f][n] = log[f][n]
  <1>1. CASE UNCHANGED log
    BY <1>1 DEF Published, EventIds
  <1>2. ASSUME NEW e \in Executions, NEW ev \in Events, Writes(e, ev)
        PROVE  /\ Published \subseteq Published'
               /\ \A f \in Executions : \A n \in 1..Len(log[f]) : log'[f][n] = log[f][n]
    BY <1>2, PublishedGrows
  <1> QED
    BY <1>1, <1>2, LogOfStep

\* What the stream may forget it may forget for ever.
LEMMA SettledStays ==
    ASSUME RowsInv, [Next]_vars, NEW id \in Published, Settled(id)
    PROVE  Settled(id)'
  <1>1. PICK e : e = id[1]
    OBVIOUS
  <1>2. PICK x : x = execution[e]
    OBVIOUS
  <1>3. PICK y : y = execution'[e]
    OBVIOUS
  <1>4. /\ e \in Executions /\ id[2] \in Int /\ x \in Rows /\ x.lastSequence \in Int
        /\ log[e] \in Seq(Events) /\ id[2] \in 1..Len(log[e])
    BY <1>1, <1>2, PublishedEvents, ConstantsAssumption DEF RowsInv, AllRowsOK, Rows, Published
  <1>5. StepOf(x, y, log[e])
    BY <1>2, <1>3, <1>4, RowOfStep
  <1>6. CASE \E n \in 1..id[2] : ~log[e][n].readable
    <2>1. PICK n \in 1..id[2] : ~log[e][n].readable
      BY <1>6
    <2>2. log'[e][n] = log[e][n]
      BY <1>4, StreamsKeep
    <2> QED
      BY <1>1, <2>1, <2>2 DEF Settled
  <1>7. CASE x.status \notin ActiveStatuses
    <2>1. y = x
      BY <1>5, <1>7 DEF StepOf, Ends, Applies
    <2> QED
      BY <1>1, <1>2, <1>3, <1>7, <2>1 DEF Settled, Active
  <1>8. CASE id[2] <= x.lastSequence + 1
    <2>1. CASE Applies(x, y, log[e])
      <3>1. y.lastSequence = x.lastSequence + 1
        BY <1>4, <2>1, AppliedSequence
      <3> QED
        BY <1>1, <1>3, <1>4, <1>8, <3>1 DEF Settled
    <2>2. CASE y = x \/ Ends(x, y)
      BY <1>1, <1>3, <1>8, <2>2 DEF Settled, Ends
    <2> QED
      BY <1>5, <2>1, <2>2 DEF StepOf
  <1> QED
    BY <1>1, <1>2, <1>6, <1>7, <1>8 DEF Settled, Active

\* Only what is in hand is acknowledged.
LEMMA DeliveryOfStep ==
    ASSUME RestOK, [Next]_vars
    PROVE  \A id \in EventIds : delivery'[id] = "gone" =>
               delivery[id] = "gone" \/ (inHand # NoHand /\ id = inHand.id)
  <1>1. CASE UNCHANGED delivery
    BY <1>1
  <1>2. CASE ShowAndAcknowledge
    BY <1>2 DEF ShowAndAcknowledge, RestOK
  <1>3. CASE Receive
    BY <1>3 DEF Receive, Read, RestOK
  <1>4. CASE UNCHANGED vars
    BY <1>1, <1>4 DEF vars, redis
  <1>5. CASE Dispatcher
    BY <1>1, <1>5 DEF Dispatcher, BeginRound, SelectJobs, CommitRound, SendCancellation, SendJob, redis
  <1>6. CASE \E id \in Published : Project(id)
    BY <1>1, <1>6 DEF Project, redis
  <1>7. CASE Backlog \/ Expiry
    BY <1>1, <1>7 DEF Backlog, CountPending, ReadLag, NextPass, Expiry, Expire, redis
  <1>8. CASE Disturbance
    BY <1>1, <1>8 DEF Disturbance, RedisStops, RedisReturns, ApiRestarts, ProjectionFails, ExpiryFails,
                      redis
  <1>9. CASE Environment
    BY <1>1, <1>9 DEF Environment, Publish, TimeRunsOut, Cancel, redis
  <1> QED
    BY <1>2, <1>3, <1>4, <1>5, <1>6, <1>7, <1>8, <1>9 DEF Next, Projector

LEMMA HandOfStep ==
    ASSUME [Next]_vars
    PROVE  inHand' = inHand \/ inHand' = NoHand \/ \E id \in Published : Project(id)
  <1>1. CASE UNCHANGED vars
    BY <1>1 DEF vars, projector
  <1>2. CASE Dispatcher
    BY <1>2 DEF Dispatcher, BeginRound, SelectJobs, CommitRound, SendCancellation, SendJob, projector
  <1>3. CASE Projector \/ Receive \/ Backlog
    BY <1>3 DEF Projector, ShowAndAcknowledge, Receive, Read, Backlog, CountPending, ReadLag, NextPass,
                projector
  <1>4. CASE Expiry \/ Disturbance
    BY <1>4 DEF Expiry, Expire, Disturbance, RedisStops, RedisReturns, ApiRestarts, ProjectionFails,
                ExpiryFails, projector
  <1>5. CASE Environment
    BY <1>5 DEF Environment, Publish, TimeRunsOut, Cancel, projector
  <1> QED
    BY <1>1, <1>2, <1>3, <1>4, <1>5 DEF Next

LEMMA IgnoredCases ==
    ASSUME NEW x, NEW ev, Classify(x, ev) = "ignore"
    PROVE  ~IsNext(x, ev) /\ ~IsAhead(x, ev)
  <1>1. CASE IsReplay(x, ev)
    BY <1>1 DEF Classify, IsReplay, IsNext, IsAhead
  <1>2. CASE ~IsReplay(x, ev) /\ IsNext(x, ev)
    BY <1>2 DEF Classify
  <1>3. CASE ~IsReplay(x, ev) /\ ~IsNext(x, ev) /\ IsAhead(x, ev)
    BY <1>3 DEF Classify
  <1> QED
    BY <1>1, <1>2, <1>3

\* An event that is going to be acknowledged was applied, or never will be.
LEMMA HandIsSettled ==
    ASSUME RowsInv, LostInv, NEW id \in Published, Project(id), [Next]_vars, inHand' # NoHand
    PROVE  inHand'.id = id /\ Settled(id)'
  <1>1. PICK e : e = id[1]
    OBVIOUS
  <1>2. PICK x : x = execution[e]
    OBVIOUS
  <1>3. PICK ev : ev = log[e][id[2]]
    OBVIOUS
  <1>4. PICK d : /\ d = (IF ev.readable THEN Classify(Row(e), Contents(id)) ELSE "ignore")
                 /\ Projected(id, d)
                 /\ inHand' = CASE d = "defer" -> NoHand
                                [] d = "ignore" -> [id |-> id, tells |-> "nothing"]
                                [] OTHER -> [id |-> id, tells |-> Tells(ev, execution'[e].status)]
    BY <1>1, <1>3 DEF Project
  <1>5. d \in {"apply", "replay", "ignore"} /\ inHand'.id = id
    <2>1. d \in Dispositions
      BY <1>4, ClassifyCases DEF Dispositions
    <2>2. d # "defer"
      BY <1>4
    <2>3. CASE d = "ignore"
      BY <1>4, <2>3
    <2>4. CASE d \in {"apply", "replay"}
      <3>1. inHand' = [id |-> id, tells |-> Tells(ev, execution'[e].status)]
        BY <1>4, <2>4
      <3> QED
        BY <2>4, <3>1
    <2> QED
      BY <2>1, <2>2, <2>3, <2>4 DEF Dispositions
  <1>6. /\ e \in Executions /\ id[2] \in Int /\ x \in Rows /\ x.lastSequence \in Int
        /\ log[e] \in Seq(Events) /\ id[2] \in 1..Len(log[e])
    BY <1>1, <1>2, PublishedEvents, ConstantsAssumption DEF RowsInv, AllRowsOK, Rows, Published
  <1>7. CASE d = "apply"
    <2>1. IsNext(Row(e), Contents(id))
      BY <1>4, <1>7, ClassifyCases
    <2>2. Applies(x, execution'[e], log[e]) /\ id[2] = x.lastSequence + 2
      BY <1>1, <1>2, <1>4, <1>7, <2>1, ProjectedSteps
    <2>3. execution'[e].lastSequence = x.lastSequence + 1
      BY <1>6, <2>2, AppliedSequence
    <2> QED
      BY <1>1, <1>5, <1>6, <2>2, <2>3 DEF Settled
  <1>8. CASE d # "apply"
    <2>1. Settled(id)
      <3>1. CASE d = "replay"
        <4>1. IsReplay(Row(e), Contents(id))
          BY <1>4, <3>1, ClassifyCases
        <4>2. id[2] - 1 = x.lastSequence
          BY <1>1, <1>2, <4>1 DEF IsReplay, Row, Contents
        <4> QED
          BY <1>1, <1>2, <1>6, <4>2 DEF Settled
      <3>2. CASE d = "ignore" /\ ~ev.readable
        <4>1. id[2] \in 1..id[2]
          BY <1>6
        <4> QED
          BY <1>1, <1>3, <3>2, <4>1 DEF Settled
      <3>3. CASE d = "ignore" /\ ev.readable /\ Active(e)
        <4>1. ~IsNext(Row(e), Contents(id)) /\ ~IsAhead(Row(e), Contents(id))
          BY <1>4, <3>3, IgnoredCases
        <4>2. ~(id[2] - 1 > x.lastSequence + 1)
          BY <1>1, <1>2, <3>3, <4>1
             DEF IsAhead, Row, Contents, Active, ActiveStatuses, TerminalStatuses
        <4>3. id[2] - 1 # x.lastSequence + 1
          BY <1>1, <1>2, <3>3, <4>1, NextIsAccepted
        <4>4. id[2] <= x.lastSequence + 1
          BY <1>6, <4>2, <4>3
        <4> QED
          BY <1>1, <1>2, <4>4 DEF Settled
      <3>4. CASE ~Active(e)
        BY <1>1, <3>4 DEF Settled
      <3> QED
        BY <1>5, <1>8, <3>1, <3>2, <3>3, <3>4
    <2> QED
      BY <1>5, <2>1, SettledStays
  <1> QED
    BY <1>7, <1>8

LEMMA LostStep ==
    ASSUME RowsInv, PrefixInv, RestOK, LostInv, [Next]_vars
    PROVE  LostInv'
  <1>1. ASSUME NEW e \in Executions
        PROVE  Legal(log'[e]) /\ Follows(execution'[e], log'[e])
    <2>1. /\ log[e] \in Seq(Events) /\ log'[e] \in Seq(Events) /\ log \in [Executions -> Seq(Events)]
          /\ RowOK(execution[e]) /\ RowOK(execution'[e]) /\ execution'[e] \in Rows
          /\ Legal(log[e]) /\ Follows(execution[e], log[e])
      BY RowsStep DEF RowsInv, AllRowsOK, LostInv, RowOK
    <2>2. Follows(execution'[e], log[e])
      BY <2>1, RowOfStep, FollowsStep
    <2>3. execution'[e].lastSequence + 1 <= Len(log[e])
      <3>1. CASE execution'[e] = execution[e] \/ Ends(execution[e], execution'[e])
        BY <3>1 DEF Ends, PrefixInv, Stores
      <3>2. CASE Applies(execution[e], execution'[e], log[e])
        <4>1. execution[e] \in Rows
          BY <2>1 DEF RowOK
        <4>2. Stores(execution'[e], log[e])
          BY <2>1, <3>2, <4>1, AppliedText DEF PrefixInv
        <4> QED
          BY <4>2 DEF Stores
      <3> QED
        BY <3>1, <3>2, RowOfStep DEF StepOf
    <2>4. \A n \in 1..Len(log[e]) : log'[e][n] = log[e][n]
      BY StreamsKeep
    <2>5. Follows(execution'[e], log'[e])
      BY <2>1, <2>2, <2>3, <2>4, FollowsOwnPart
    <2>6. Legal(log'[e])
      <3>1. CASE UNCHANGED log
        BY <2>1, <3>1
      <3>2. ASSUME NEW f \in Executions, NEW ev \in Events, Writes(f, ev)
            PROVE  Legal(log'[e])
        <4>1. CASE e = f
          <5>1. log'[e] = Append(log[e], ev)
            BY <2>1, <3>2, <4>1 DEF Writes
          <5>2. PICK w \in NextEvents(e) : ev.type = w.type /\ ev.phase = w.phase
            BY <3>2, <4>1 DEF Writes
          <5> QED
            BY <2>1, <5>1, <5>2, LegalGrows
        <4>2. CASE e # f
          BY <2>1, <3>2, <4>2 DEF Writes
        <4> QED
          BY <4>1, <4>2
      <3> QED
        BY <3>1, <3>2, LogOfStep
    <2> QED
      BY <2>5, <2>6
  <1>2. inHand # NoHand => inHand.id \in Published /\ Settled(inHand.id)
    BY DEF RestOK, Hands, LostInv
  <1>3. ASSUME NEW id \in EventIds, delivery'[id] = "gone"
        PROVE  id \in Published' /\ Settled(id)'
    <2>1. id \in Published /\ Settled(id)
      BY <1>2, <1>3, DeliveryOfStep DEF LostInv
    <2> QED
      BY <2>1, StreamsKeep, SettledStays
  <1>4. ASSUME inHand' # NoHand
        PROVE  \E id \in Published : inHand'.id = id /\ Settled(id)'
    <2>1. CASE inHand' = inHand
      <3>1. PICK id \in Published : id = inHand.id /\ Settled(id)
        BY <1>2, <1>4, <2>1
      <3> QED
        BY <2>1, <3>1, SettledStays
    <2>2. ASSUME NEW id \in Published, Project(id)
          PROVE  inHand'.id = id /\ Settled(id)'
      BY <1>4, <2>2, HandIsSettled
    <2> QED
      BY <1>4, <2>1, <2>2, HandOfStep
  <1>5. (inHand # NoHand => Settled(inHand.id))'
    <2>1. SUFFICES ASSUME inHand' # NoHand
                   PROVE  Settled(inHand.id)'
      BY DEF NoHand
    <2>2. PICK id \in Published : inHand'.id = id /\ Settled(id)'
      BY <1>4, <2>1
    <2> QED
      BY <2>2 DEF Settled, Active
  <1>6. (\A id \in EventIds : delivery[id] = "gone" => id \in Published /\ Settled(id))'
    BY <1>3 DEF EventIds
  <1>7. (\A e \in Executions : Legal(log[e]) /\ Follows(execution[e], log[e]))'
    BY <1>1
  <1> QED
    BY <1>5, <1>6, <1>7 DEF LostInv

\* No event leaves the stream that an execution still needed: what is acknowledged was
\* applied, came after the end or lies behind an unreadable one.
THEOREM NothingLostHolds == Spec => []NothingLost
  <1>1. Init => PrefixInv
    BY DEF Init, PrefixInv, Stores
  <1>2. RowsInv /\ PrefixInv /\ [Next]_vars => PrefixInv'
    BY PrefixStep
  <1>3. Init => LostInv
    <2>1. SUFFICES ASSUME Init PROVE LostInv
      OBVIOUS
    <2>2. \A e \in Executions : Legal(log[e])
      <3>1. Len(<<>>) = 0
        OBVIOUS
      <3> QED
        BY <2>1, <3>1 DEF Init, Legal
    <2>3. \A e \in Executions : Follows(execution[e], log[e])
      BY <2>1 DEF Init, Follows
    <2>4. (\A id \in EventIds : delivery[id] # "gone") /\ inHand = NoHand
      BY <2>1 DEF Init
    <2> QED
      BY <2>2, <2>3, <2>4 DEF LostInv
  <1>4. RowsInv /\ PrefixInv /\ RestOK /\ LostInv /\ [Next]_vars => LostInv'
    BY LostStep
  <1>5. LostInv => NothingLost
    BY DEF LostInv, NothingLost, InState, Published, Settled
  <1> QED
    BY <1>1, <1>2, <1>3, <1>4, <1>5, RowsInvHolds, RestOKHolds, PTL DEF Spec

---------------------------------------------------------------------------
(* The refinement *)

LEMMA InitMaps ==
    ASSUME Init
    PROVE  Lifecycle!Init
  BY DEF Init, Lifecycle!Init

LEMMA StepMaps ==
    ASSUME RowsInv, RowsInv', Moves(execution, execution')
    PROVE  [Lifecycle!Next]_(Lifecycle!vars)
  <1>1. CASE \A e \in Executions : Same(execution[e], execution'[e])
    BY <1>1 DEF Same, Lifecycle!vars
  <1>2. ASSUME NEW e \in Executions, \A f \in Executions \ {e} : Same(execution[f], execution'[f]),
               Begins(execution[e], execution'[e])
        PROVE  Lifecycle!Begin(e)
    BY <1>2 DEF Same, Begins, Lifecycle!Begin
  <1>3. ASSUME NEW e \in Executions, \A f \in Executions \ {e} : Same(execution[f], execution'[f]),
               Grows(execution[e], execution'[e])
        PROVE  \E n \in 0..(MaxEvents - 1) : Lifecycle!Grow(e, n)
    BY <1>3 DEF Same, Grows, Lifecycle!Grow
  <1>4. ASSUME NEW e \in Executions, \A f \in Executions \ {e} : Same(execution[f], execution'[f]),
               Completes(execution[e], execution'[e])
        PROVE  Lifecycle!Complete(e)
    BY <1>4 DEF Same, Completes, Lifecycle!Complete, Lifecycle!End
  <1>5. ASSUME NEW e \in Executions, \A f \in Executions \ {e} : Same(execution[f], execution'[f]),
               IsCancelled(execution[e], execution'[e])
        PROVE  Lifecycle!Cancel(e)
    BY <1>5 DEF Same, IsCancelled, Lifecycle!Cancel, Lifecycle!End, Lifecycle!ActiveStatuses, ActiveStatuses
  <1>6. ASSUME NEW S \in SUBSET Executions, \A e \in S : Fails(execution[e], execution'[e]),
               \A e \in Executions \ S : Same(execution[e], execution'[e])
        PROVE  Lifecycle!Fail(S)
    BY <1>6 DEF Same, Fails, Lifecycle!Fail, Lifecycle!ActiveStatuses, ActiveStatuses
  <1> QED
    BY <1>1, <1>2, <1>3, <1>4, <1>5, <1>6 DEF Moves, Lifecycle!Next

\* Whatever arrives, fails or is restarted, every execution lives the life that
\* ExecutionLifecycle promises: it ends once, with its result and its bill.
THEOREM LivesOnceHolds == Spec => LivesOnce
  <1>1. Init => Lifecycle!Init
    BY InitMaps
  <1>2. RowsInv /\ RowsInv' /\ [Next]_vars => [Lifecycle!Next]_(Lifecycle!vars)
    BY RowsStep, StepMaps
  <1> QED
    BY <1>1, <1>2, RowsInvHolds, PTL DEF Spec, LivesOnce, Lifecycle!Spec
==============================================================================
