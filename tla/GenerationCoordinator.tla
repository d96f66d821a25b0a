-------------------------- MODULE GenerationCoordinator --------------------------
(***************************************************************************)
(* The API's side of generation: the coordinator's three tasks             *)
(* (services/inference/coordinator.py) and the cancellation handler, which *)
(* share the execution rows and outbox in PostgreSQL, the job and event    *)
(* streams in Redis, and a little memory that an API crash wipes.          *)
(*                                                                         *)
(*   dispatcher  sends the outbox: jobs and cancellation keys              *)
(*   projector   applies the events of the stream to the executions        *)
(*   reconciler  fails the executions whose deadline or lease ran out, but *)
(*               after an interruption only once the backlog is projected  *)
(*                                                                         *)
(* One step is one database transaction or one Redis round trip.  The      *)
(* workers are represented by what they write: the legal event streams     *)
(* (InferenceWorker!LogIsOneRun).                                          *)
(***************************************************************************)
EXTENDS Integers, Sequences, FiniteSets, GenerationEvents

CONSTANTS
    Executions, \* model executions; each is one attempt
    Vocabulary, \* the events the workers of an instance publish
    MaxEvents,  \* bound: events a worker publishes for one execution
    MaxFaults   \* bound: crashes, Redis outages, failed transactions, unreadable events

Event(type, phase, blank, readable) ==
    [type |-> type, phase |-> phase, blank |-> blank, readable |-> readable]
Events == [type : EventTypes, phase : Phases, blank : BOOLEAN, readable : BOOLEAN]

ASSUME ConstantsAssumption ==
    /\ IsFiniteSet(Executions)
    /\ Vocabulary \subseteq Events
    /\ MaxEvents \in Nat \ {0}
    /\ MaxFaults \in Nat

VARIABLES
    \* PostgreSQL
    execution,    \* the execution rows, with their result entry and bill
    timedOut,     \* whether the queue deadline or the running lease has passed
    outbox,       \* the job row: pending, published, discarded
    cancelOutbox, \* the cancellation row: none, pending, published
    \* Redis
    redisUp,
    sent,         \* whether a job message of the execution is in the job stream
    cancelKey,    \* whether the cancellation key is set
    log,          \* the events a worker published for the execution, in order
    delivery,     \* state of each in the consumer group: new, pending, gone
    \* memory of the API process
    batch,        \* projector: events read and still to be projected
    inHand,       \* projector: the event projected, still to be shown and acknowledged
    deferred,     \* events that came before their predecessor
    recovered,    \* whether the reconciler may expire executions
    check,        \* reconciler: what it is doing
    round,        \* dispatcher: the transaction under way
    \* observers
    told,         \* how clients were told that the execution ended
    unexamined,   \* events in the stream since the last interruption, not looked at yet
    faults        \* faults so far

database == <<execution, timedOut, outbox, cancelOutbox>>
redis == <<redisUp, sent, cancelKey, log, delivery>>
projector == <<batch, inHand, deferred>>
vars == <<database, redis, projector, recovered, check, round, told, unexamined, faults>>

\* <<e, n>> names the n-th event of e; its sequence number is n - 1.
EventIds == Executions \X (1..MaxEvents)
Published == {id \in EventIds : id[2] <= Len(log[id[1]])}
InState(d) == {id \in Published : delivery[id] = d}

Rows ==
    [status : Statuses, phase : Phases,
     lastSequence : -1..(MaxEvents - 1), lastType : EventTypes \cup {"none"},
     output : Seq(0..(MaxEvents - 1)),      \* partial_output: its deltas' sequences
     metered : BOOLEAN,                     \* input_tokens is known
     entry : {"none", "partial", "whole"},  \* result_entry_id and its text
     billing : {"held", "released", "charged"}]

NoHand == [id |-> <<>>, tells |-> "nothing"]
Idle == [stage |-> "idle", pending |-> 0]
NoRound == [stage |-> "idle", cancels |-> {}, jobs |-> {}, discards |-> {},
            cancelled |-> {}, dispatched |-> {}]

TypeOK ==
    /\ execution \in [Executions -> Rows]
    /\ timedOut \in [Executions -> BOOLEAN]
    /\ outbox \in [Executions -> {"pending", "published", "discarded"}]
    /\ cancelOutbox \in [Executions -> {"none", "pending", "published"}]
    /\ redisUp \in BOOLEAN
    /\ sent \in [Executions -> BOOLEAN]
    /\ cancelKey \in [Executions -> BOOLEAN]
    /\ log \in [Executions -> Seq(Events)]
    /\ \A e \in Executions : Len(log[e]) <= MaxEvents
    /\ delivery \in [EventIds -> {"new", "pending", "gone"}]
    /\ batch \subseteq Published
    /\ inHand \in [id : Published, tells : TerminalEvents \cup {"nothing"}] \cup {NoHand}
    /\ deferred \subseteq Published
    /\ recovered \in BOOLEAN
    /\ check \in [stage : {"idle", "counted", "expiring"}, pending : Nat]
    /\ round \in [stage : {"idle", "cancelling", "sending"},
                  cancels : SUBSET Executions, jobs : SUBSET Executions,
                  discards : SUBSET Executions, cancelled : SUBSET Executions,
                  dispatched : SUBSET Executions]
    /\ told \in [Executions -> SUBSET TerminalStatuses]
    /\ unexamined \subseteq Published
    /\ faults \in 0..MaxFaults

Init ==
    /\ execution = [e \in Executions |->
          [status |-> "queued", phase |-> NoPhase, lastSequence |-> -1, lastType |-> "none",
           output |-> <<>>, metered |-> FALSE, entry |-> "none", billing |-> "held"]]
    /\ timedOut = [e \in Executions |-> FALSE]
    /\ outbox = [e \in Executions |-> "pending"]
    /\ cancelOutbox = [e \in Executions |-> "none"]
    /\ redisUp = TRUE
    /\ sent = [e \in Executions |-> FALSE]
    /\ cancelKey = [e \in Executions |-> FALSE]
    /\ log = [e \in Executions |-> <<>>]
    /\ delivery = [id \in EventIds |-> "new"]
    /\ batch = {}
    /\ inHand = NoHand
    /\ deferred = {}
    /\ recovered = FALSE
    /\ check = Idle
    /\ round = NoRound
    /\ told = [e \in Executions |-> {}]
    /\ unexamined = {}
    /\ faults = 0

Fault == faults < MaxFaults /\ faults' = faults + 1

\* A Redis call raises when Redis is down; when it goes down during the call, the call
\* raises although it was executed.
CallSucceeds == redisUp /\ UNCHANGED <<redisUp, faults>>
CallRaises == ~redisUp /\ UNCHANGED <<redisUp, faults>>
ReplyIsLost == redisUp /\ redisUp' = FALSE /\ Fault

\* _recovery_complete = False: what is in the stream now is the backlog to project,
\* except for the events the projector remembers to have deferred.
Interrupted(remembered) ==
    /\ recovered' = FALSE
    /\ unexamined' = (InState("new") \cup InState("pending")) \ remembered

---------------------------------------------------------------------------
(* The workers and the passing of time *)

Active(e) == execution[e].status \in ActiveStatuses

\* The phase of the worker after the events it published.
WorkerPhase(e) ==
    LET changes == {n \in DOMAIN log[e] : log[e][n].type \in {"started", "phase_changed"}}
    IN  IF changes = {} THEN NoPhase
        ELSE log[e][CHOOSE n \in changes : \A m \in changes : m <= n].phase

\* The text of "completed" is the text of the deltas and a possible rest.
ShownText(e) == \E n \in DOMAIN log[e] : log[e][n].type = "delta" /\ ~log[e][n].blank

NextEvents(e) ==
    LET thinking == WorkerPhase(e) = "thinking" IN
    IF log[e] = <<>>
    THEN {Event("started", p, TRUE, TRUE) : p \in {"thinking", "answering"}}
           \cup {Event("failed", NoPhase, TRUE, TRUE)}
    ELSE IF log[e][Len(log[e])].type \in TerminalEvents THEN {}
    ELSE {Event("failed", NoPhase, TRUE, TRUE)}
           \cup {Event("completed", NoPhase, b, TRUE) : b \in {FALSE, ~ShownText(e)}}
           \cup (IF thinking
                 THEN {Event("thinking_delta", NoPhase, TRUE, TRUE),
                       Event("phase_changed", "answering", TRUE, TRUE)}
                 ELSE {Event("delta", NoPhase, b, TRUE) : b \in BOOLEAN})

\* A worker publishes the next event; one of another contract version is unreadable here.
Publish(e) ==
    /\ redisUp
    /\ sent[e]
    /\ Len(log[e]) < MaxEvents
    /\ \E ev \in NextEvents(e) \cap Vocabulary :
          \/ log' = [log EXCEPT ![e] = Append(@, ev)] /\ UNCHANGED faults
          \/ log' = [log EXCEPT ![e] = Append(@, [ev EXCEPT !.readable = FALSE])] /\ Fault
    /\ UNCHANGED <<database, redisUp, sent, cancelKey, delivery, projector, recovered,
                   check, round, told, unexamined>>

\* deadline_at or lease_expires_at passes.
TimeRunsOut(e) ==
    /\ Active(e) /\ ~timedOut[e]
    /\ timedOut' = [timedOut EXCEPT ![e] = TRUE]
    /\ UNCHANGED <<execution, outbox, cancelOutbox, redis, projector, recovered, check,
                   round, told, unexamined, faults>>

RedisStops ==
    /\ redisUp
    /\ redisUp' = FALSE
    /\ Fault
    /\ UNCHANGED <<database, sent, cancelKey, log, delivery, projector, recovered, check,
                   round, told, unexamined>>

RedisReturns ==
    /\ ~redisUp
    /\ redisUp' = TRUE
    /\ UNCHANGED <<database, sent, cancelKey, log, delivery, projector, recovered, check,
                   round, told, unexamined, faults>>

\* The API process dies and is started again.
ApiRestarts ==
    /\ batch' = {} /\ inHand' = NoHand /\ deferred' = {}
    /\ check' = Idle /\ round' = NoRound
    /\ Interrupted({})
    /\ Fault
    /\ UNCHANGED <<database, redis, told>>

---------------------------------------------------------------------------
(* Projecting events: read_events, _project, project_generation_event *)

\* Faulty variant: what another consumer or an interrupted pass left pending is not claimed.
ReadWithoutClaiming(claimed) ==
    /\ batch = {} /\ inHand = NoHand
    /\ claimed \subseteq InState("pending")
    /\ InState("new") # {}
    /\ CallSucceeds
    /\ batch' = InState("new")
    /\ delivery' = [id \in EventIds |-> IF id \in InState("new") THEN "pending" ELSE delivery[id]]
    /\ UNCHANGED <<database, sent, cancelKey, log, inHand, deferred, recovered, check, round,
                   told, unexamined>>

\* XREADGROUP of the new events, and XAUTOCLAIM of those pending for a while.
Read(claimed) ==
    /\ batch = {} /\ inHand = NoHand
    /\ claimed \subseteq InState("pending")
    /\ InState("new") \cup claimed # {}
    /\ \/ /\ CallSucceeds
          /\ batch' = InState("new") \cup claimed
          /\ UNCHANGED <<recovered, unexamined>>
       \/ (CallRaises \/ ReplyIsLost) /\ Interrupted(deferred) /\ UNCHANGED batch
    /\ delivery' = IF redisUp
                   THEN [id \in EventIds |-> IF id \in InState("new") THEN "pending" ELSE delivery[id]]
                   ELSE delivery
    /\ UNCHANGED <<database, sent, cancelKey, log, inHand, deferred, check, round, told>>

\* The event of the stream, as the contract package parses it.  An event id is used once,
\* so the sequence number can stand for it.
Contents(id) ==
    [attempt |-> id[1], sequence |-> id[2] - 1, id |-> id[2] - 1,
     type |-> log[id[1]][id[2]].type]

Row(e) ==
    [attempt |-> e, status |-> execution[e].status, phase |-> execution[e].phase,
     lastSequence |-> execution[e].lastSequence, lastId |-> execution[e].lastSequence,
     lastType |-> execution[e].lastType]

\* Faulty variant: what an execution is charged depends on its tokens only.
FinalizeByTokens(x) ==
    IF x.billing # "held" THEN x
    ELSE [x EXCEPT !.billing = IF x.metered THEN "charged" ELSE "released"]

\* InferenceBillingService.finalize, for a tariff that is not free.
Finalize(x) ==
    IF x.billing # "held" THEN x
    ELSE [x EXCEPT !.billing =
             IF x.status = "completed" \/ (x.status = "cancelled" /\ x.metered)
             THEN "charged" ELSE "released"]

Ended(x, status) == [x EXCEPT !.status = status, !.phase = NoPhase]

\* Faulty variant: the recorded position is the one expected next.
ApplyEventOneAhead(x, ev, s) ==
    LET y == [x EXCEPT !.lastSequence = s + 1, !.lastType = ev.type] IN
    CASE ev.type = "started" ->
             [y EXCEPT !.status = "running", !.phase = ev.phase, !.metered = TRUE]
      [] ev.type \in TerminalEvents -> Ended(y, "failed")
      [] OTHER -> y

\* _apply_event and the recording of its position; s is the sequence number of ev.  A
\* completion without text is a failure.  The content of any other replaces partial_output
\* too; here it is the entry, "whole", and the output stays that of the deltas.
ApplyEvent(x, ev, s) ==
    LET y == [x EXCEPT !.lastSequence = s, !.lastType = ev.type] IN
    CASE ev.type = "started" ->
             [y EXCEPT !.status = "running", !.phase = ev.phase, !.metered = TRUE]
      [] ev.type = "phase_changed" -> [y EXCEPT !.phase = ev.phase]
      [] ev.type = "delta" -> [y EXCEPT !.phase = "answering", !.output = Append(@, s)]
      [] ev.type = "completed" /\ ~ev.blank -> [Ended(y, "completed") EXCEPT !.entry = "whole"]
      [] ev.type = "failed" \/ (ev.type = "completed" /\ ev.blank) -> Ended(y, "failed")
      [] OTHER -> y

\* The row an event that is applied leaves, with its bill when the execution ended.
Applied(id) ==
    LET y == ApplyEvent(execution[id[1]], log[id[1]][id[2]], id[2] - 1)
    IN  IF y.status \in {"completed", "failed"} THEN Finalize(y) ELSE y

\* _publish_realtime: the end of the execution that the event announces, if any.
Tells(ev, status) ==
    IF status = "failed" THEN "failed"
    ELSE IF ev.type \in TerminalEvents THEN ev.type ELSE "nothing"

\* The transaction of one event: commits the row x, and what remains to be done with it.
Projected(id, disposition) ==
    LET e == id[1] IN
    /\ execution' = IF disposition = "apply"
                    THEN [execution EXCEPT ![e] = Applied(id)] ELSE execution
    /\ timedOut' = [timedOut EXCEPT ![e] = @ /\ disposition # "apply"]

\* Events are taken in stream order.
Project(id) ==
    LET e == id[1]
        ev == log[e][id[2]]
        disposition == IF ev.readable THEN Classify(Row(e), Contents(id)) ELSE "ignore"
    IN
    /\ id \in batch /\ inHand = NoHand
    /\ \A n \in 1..(id[2] - 1) : <<e, n>> \notin batch
    /\ batch' = batch \ {id}
    /\ unexamined' = unexamined \ {id}
    /\ Projected(id, disposition)
    /\ deferred' = IF disposition = "defer" THEN deferred \cup {id} ELSE deferred
    /\ inHand' = CASE disposition = "defer" -> NoHand
                   [] disposition = "ignore" -> [id |-> id, tells |-> "nothing"]
                   [] OTHER -> [id |-> id, tells |-> Tells(ev, execution'[e].status)]
    /\ UNCHANGED <<outbox, cancelOutbox, redis, recovered, check, round, told, faults>>

\* The transaction fails, or its commit is not confirmed: the rest of the batch is dropped.
ProjectionFails(id) ==
    /\ id \in batch /\ inHand = NoHand
    /\ \A n \in 1..(id[2] - 1) : <<id[1], n>> \notin batch
    /\ log[id[1]][id[2]].readable
    /\ \/ UNCHANGED <<execution, timedOut>>
       \/ Projected(id, Classify(Row(id[1]), Contents(id)))
    /\ batch' = {}
    /\ Interrupted(deferred)
    /\ Fault
    /\ UNCHANGED <<outbox, cancelOutbox, redis, inHand, deferred, check, round, told>>

\* Show the projection to the clients, then XACK and XDEL the event.
ShowAndAcknowledge ==
    LET id == inHand.id IN
    /\ inHand # NoHand
    /\ told' = IF inHand.tells = "nothing" THEN told
               ELSE [told EXCEPT ![id[1]] = @ \cup {inHand.tells}]
    /\ inHand' = NoHand
    /\ \/ /\ CallSucceeds
          /\ delivery' = [delivery EXCEPT ![id] = "gone"]
          /\ deferred' = deferred \ {id}
          /\ UNCHANGED <<batch, recovered, unexamined>>
       \/ /\ (CallRaises /\ UNCHANGED delivery)
             \/ (ReplyIsLost /\ delivery' = [delivery EXCEPT ![id] = "gone"])
          /\ batch' = {}
          /\ Interrupted(deferred)
          /\ UNCHANGED deferred
    /\ UNCHANGED <<database, sent, cancelKey, log, check, round>>

---------------------------------------------------------------------------
(* Failing the executions whose time ran out: _reconcile_loop *)

\* event_backlog asks twice: XPENDING, then XINFO GROUPS.
CountPending ==
    /\ check.stage = "idle" /\ ~recovered
    /\ \/ /\ CallSucceeds
          /\ check' = [stage |-> "counted", pending |-> Cardinality(InState("pending"))]
          /\ UNCHANGED <<recovered, unexamined>>
       \/ (CallRaises \/ ReplyIsLost) /\ Interrupted(deferred) /\ UNCHANGED check
    /\ UNCHANGED <<database, sent, cancelKey, log, delivery, projector, round, told>>

\* reconciliation_is_safe
ReadLag ==
    LET safe == InState("new") = {} /\ check.pending <= Cardinality(deferred) IN
    /\ check.stage = "counted"
    /\ \/ /\ CallSucceeds
          /\ check' = IF safe THEN [stage |-> "expiring", pending |-> 0] ELSE Idle
          /\ recovered' = (recovered \/ safe)
          /\ UNCHANGED unexamined
       \/ (CallRaises \/ ReplyIsLost) /\ Interrupted(deferred) /\ check' = Idle
    /\ UNCHANGED <<database, sent, cancelKey, log, delivery, projector, round, told>>

NextPass ==
    /\ check.stage = "idle" /\ recovered
    /\ check' = [stage |-> "expiring", pending |-> 0]
    /\ UNCHANGED <<database, redis, projector, recovered, round, told, unexamined, faults>>

\* Faulty variant: only the lease of running executions is watched.
ExpirableRunning(e) == execution[e].status = "running" /\ timedOut[e]

Expirable(e) == Active(e) /\ timedOut[e]

ExpireRows(S) ==
    /\ execution' = [e \in Executions |->
          IF e \in S THEN Finalize(Ended(execution[e], "failed")) ELSE execution[e]]
    /\ timedOut' = [e \in Executions |-> timedOut[e] /\ e \notin S]

\* expire_executions fails those it can lock; they are told after the commit.
Expire(S) ==
    /\ check.stage = "expiring"
    /\ \A e \in S : Expirable(e)
    /\ ExpireRows(S)
    /\ told' = [e \in Executions |-> told[e] \cup (IF e \in S THEN {"failed"} ELSE {})]
    /\ check' = Idle
    /\ UNCHANGED <<outbox, cancelOutbox, redis, projector, recovered, round, unexamined, faults>>

ExpiryFails(S) ==
    /\ check.stage = "expiring"
    /\ \A e \in S : Expirable(e)
    /\ ExpireRows(S)
    /\ check' = Idle
    /\ Interrupted(deferred)
    /\ Fault
    /\ UNCHANGED <<outbox, cancelOutbox, redis, projector, round, told>>

---------------------------------------------------------------------------
(* Sending the outbox: _dispatch_pending, one transaction *)

\* Faulty variant: the cancellation rows of executions that still run are looked for.
BeginRoundForActive ==
    LET discards == {e \in Executions : outbox[e] = "pending" /\ ~Active(e)}
        cancels == {e \in Executions : cancelOutbox[e] = "pending" /\ Active(e)}
    IN
    /\ round = NoRound
    /\ discards \cup cancels \cup {e \in Executions : outbox[e] = "pending"} # {}
    /\ round' = [NoRound EXCEPT !.stage = "cancelling", !.discards = discards,
                                !.cancels = cancels]
    /\ UNCHANGED <<database, redis, projector, recovered, check, told, unexamined, faults>>

\* discard_terminal_outbox and pending_cancellation_outbox; a round with nothing to do
\* is left out.
BeginRound ==
    LET discards == {e \in Executions : outbox[e] = "pending" /\ ~Active(e)}
        cancels == {e \in Executions :
                       cancelOutbox[e] = "pending" /\ execution[e].status = "cancelled"}
    IN
    /\ round = NoRound
    /\ discards \cup cancels \cup {e \in Executions : outbox[e] = "pending"} # {}
    /\ round' = [NoRound EXCEPT !.stage = "cancelling", !.discards = discards,
                                !.cancels = cancels]
    /\ UNCHANGED <<database, redis, projector, recovered, check, told, unexamined, faults>>

\* pending_outbox, once the cancellations are sent; the jobs of executions that still run.
SelectJobs ==
    /\ round.stage = "cancelling" /\ round.cancels = {}
    /\ round' = [round EXCEPT !.stage = "sending",
                    !.jobs = {e \in Executions : outbox[e] = "pending" /\ Active(e)}]
    /\ UNCHANGED <<database, redis, projector, recovered, check, told, unexamined, faults>>

\* The rows a round r marks when it commits.
Marked(r) ==
    /\ outbox' = [e \in Executions |->
                     IF e \in r.dispatched THEN "published"
                     ELSE IF e \in r.discards THEN "discarded" ELSE outbox[e]]
    /\ cancelOutbox' = [e \in Executions |->
                           IF e \in r.cancelled THEN "published" ELSE cancelOutbox[e]]

\* Faulty variant: the row whose message could not be sent is marked with the others.
SendCancellationMarksAll(e) ==
    /\ e \in round.cancels
    /\ \/ /\ CallSucceeds
          /\ cancelKey' = [cancelKey EXCEPT ![e] = TRUE]
          /\ round' = [round EXCEPT !.cancels = @ \ {e}, !.cancelled = @ \cup {e}]
          /\ UNCHANGED <<outbox, cancelOutbox>>
       \/ /\ CallRaises /\ UNCHANGED cancelKey
          /\ Marked([round EXCEPT !.cancelled = @ \cup {e}]) /\ round' = NoRound
    /\ UNCHANGED <<execution, timedOut, sent, log, delivery, projector, recovered, check, told,
                   unexamined>>

\* publish_cancellation.  A call that raises ends the round; what it sent so far is
\* marked and committed.
SendCancellation(e) ==
    /\ e \in round.cancels
    /\ \/ /\ CallSucceeds
          /\ cancelKey' = [cancelKey EXCEPT ![e] = TRUE]
          /\ round' = [round EXCEPT !.cancels = @ \ {e}, !.cancelled = @ \cup {e}]
          /\ UNCHANGED <<outbox, cancelOutbox>>
       \/ /\ (CallRaises /\ UNCHANGED cancelKey)
             \/ (ReplyIsLost /\ cancelKey' = [cancelKey EXCEPT ![e] = TRUE])
          /\ Marked(round) /\ round' = NoRound
    /\ UNCHANGED <<execution, timedOut, sent, log, delivery, projector, recovered, check, told,
                   unexamined>>

\* publish_job, likewise.
SendJob(e) ==
    /\ e \in round.jobs
    /\ \/ /\ CallSucceeds
          /\ sent' = [sent EXCEPT ![e] = TRUE]
          /\ round' = [round EXCEPT !.jobs = @ \ {e}, !.dispatched = @ \cup {e}]
          /\ UNCHANGED <<outbox, cancelOutbox>>
       \/ /\ (CallRaises /\ UNCHANGED sent)
             \/ (ReplyIsLost /\ sent' = [sent EXCEPT ![e] = TRUE])
          /\ Marked(round) /\ round' = NoRound
    /\ UNCHANGED <<execution, timedOut, cancelKey, log, delivery, projector, recovered, check,
                   told, unexamined>>

CommitRound ==
    /\ round.stage = "sending" /\ round.jobs = {}
    /\ Marked(round)
    /\ round' = NoRound
    /\ UNCHANGED <<execution, timedOut, redis, projector, recovered, check, told, unexamined,
                   faults>>

---------------------------------------------------------------------------
(* The requester cancels: cancel_execution, finalize and the announcement *)

\* Text shown so far is kept as the result unless it is blank.
Cancel(e) ==
    LET x == execution[e]
        kept == \E i \in DOMAIN x.output : ~log[e][x.output[i] + 1].blank
    IN
    /\ Active(e)
    /\ execution' = [execution EXCEPT ![e] =
          Finalize([Ended(x, "cancelled") EXCEPT !.entry = IF kept THEN "partial" ELSE "none"])]
    /\ timedOut' = [timedOut EXCEPT ![e] = FALSE]
    /\ cancelOutbox' = [cancelOutbox EXCEPT ![e] = "pending"]
    /\ told' = [told EXCEPT ![e] = @ \cup {"cancelled"}]
    /\ UNCHANGED <<outbox, redis, projector, recovered, check, round, unexamined, faults>>

---------------------------------------------------------------------------

Dispatcher ==
    \/ BeginRound \/ SelectJobs \/ CommitRound
    \/ \E e \in Executions : SendCancellation(e) \/ SendJob(e)
Projector == (\E id \in Published : Project(id)) \/ ShowAndAcknowledge
Receive == \E claimed \in SUBSET InState("pending") : Read(claimed)
Backlog == CountPending \/ ReadLag \/ NextPass
Expiry == \E S \in SUBSET Executions : Expire(S)
Disturbance ==
    \/ RedisStops \/ RedisReturns \/ ApiRestarts
    \/ \E id \in Published : ProjectionFails(id)
    \/ \E S \in SUBSET Executions : ExpiryFails(S)
Environment == \E e \in Executions : Publish(e) \/ TimeRunsOut(e) \/ Cancel(e)

Next == Dispatcher \/ Projector \/ Receive \/ Backlog \/ Expiry \/ Disturbance \/ Environment

Spec == Init /\ [][Next]_vars

(***************************************************************************)
(* Fairness.  The three tasks loop for ever and catch what they raise;     *)
(* time passes; XAUTOCLAIM walks the pending list with a cursor, so no     *)
(* event is passed over for ever, and no row stays locked for ever.        *)
(***************************************************************************)
TasksRun ==
    /\ WF_vars(Dispatcher) /\ WF_vars(Projector) /\ WF_vars(Backlog)
    /\ WF_vars(Receive)
    /\ \A id \in EventIds :
          SF_vars(\E claimed \in SUBSET InState("pending") : id \in claimed /\ Read(claimed))
    /\ WF_vars(Expire({}))
    /\ \A e \in Executions :
          /\ SF_vars(\E S \in SUBSET Executions : e \in S /\ Expire(S))
          /\ WF_vars(TimeRunsOut(e))

\* Redis is restarted when it stops.
FairSpec == Spec /\ TasksRun /\ WF_vars(RedisReturns)

\* Nothing is assumed of Redis.
OutageSpec == Spec /\ TasksRun

---------------------------------------------------------------------------
(* Properties *)

\* The stored text of an execution is what the worker wrote, up to the last event applied:
\* no delta is missing, repeated or out of order, whatever was delivered when
\* (classify_generation_event and _apply_event).
OutputIsPrefix ==
    \A e \in Executions :
        LET x == execution[e] IN
        /\ \A i, j \in DOMAIN x.output : i < j => x.output[i] < x.output[j]
        /\ {x.output[i] : i \in DOMAIN x.output} =
              {s \in 0..x.lastSequence : log[e][s + 1].type = "delta"}

\* An event leaves the stream only when it was applied or the execution has ended: neither
\* a failed transaction, a lost reply nor an early arrival loses one (_project).
NothingLost ==
    \A id \in InState("gone") :
        \/ id[2] <= execution[id[1]].lastSequence + 1
        \/ ~Active(id[1])
        \/ \E n \in 1..id[2] : ~log[id[1]][n].readable

\* Clients are told only of the end an execution really had, although the announcement
\* follows the commit and cancellation and expiry race with it (_publish_realtime).
ToldIsTrue ==
    \A e \in Executions : told[e] \subseteq {execution[e].status}

\* A row of the outbox is marked only when its message reached Redis: no job and no
\* cancellation is forgotten when a call breaks or the API dies (_dispatch_pending).
MarkedIsSent ==
    \A e \in Executions :
        /\ outbox[e] = "published" => sent[e]
        /\ cancelOutbox[e] = "published" => cancelKey[e]

Lifecycle == INSTANCE ExecutionLifecycle WITH
    Pieces <- 0..(MaxEvents - 1),
    status <- [e \in Executions |-> execution[e].status],
    text <- [e \in Executions |-> execution[e].output],
    result <- [e \in Executions |-> execution[e].entry],
    billing <- [e \in Executions |-> execution[e].billing]

\* Whatever arrives and fails, an execution lives the life ExecutionLifecycle promises: it
\* ends once, with its result and its bill, and nothing about it changes afterwards.
LivesOnce == Lifecycle!Spec

\* Every execution ends, even when no worker ever answers (expire_executions).
EveryExecutionEnds == \A e \in Executions : <>(execution[e].status \in TerminalStatuses)

\* The clients of a completed answer are told, even when the API died between the commit
\* and the announcement (a replayed terminal event is shown again).
CompletedIsTold ==
    \A e \in Executions :
        (execution[e].status = "completed") ~> ("completed" \in told[e])

\* A cancellation reaches the workers in the end.
CancellationIsSent ==
    \A e \in Executions : (execution[e].status = "cancelled") ~> cancelKey[e]

\* The stream drains: no event stays undelivered or pending for ever.
StreamDrains ==
    \A id \in EventIds : (id \in Published) ~> (delivery[id] = "gone")

---------------------------------------------------------------------------
(* Claims of the documentation that the code does not keep *)

\* docs/architecture/inference.md:99 - after an interruption the projector goes through the
\* events not yet looked at first, so expiry never competes with a regular terminal
\* event of that backlog.
BacklogBeforeExpiry ==
    [][\A e \in Executions :
          (recovered /\ Active(e) /\ execution'[e].status = "failed"
             /\ execution'[e].lastSequence = execution[e].lastSequence) =>
          ~ \E id \in unexamined : id[1] = e /\ log[e][id[2]].type = "completed"]_vars

=============================================================================
