----------------------------- MODULE InferenceWorker -----------------------------
(***************************************************************************)
(* The inference workers of one model and artifact                         *)
(* (inference/src/sodai_inference/worker.py): job messages read from one   *)
(* Redis consumer group, an attempt lock with a time to live, the recorded *)
(* position of the attempt, the lease on the shared GPU pool, and the      *)
(* event stream they write.  One step of the model is one Redis round      *)
(* trip: everything else (other workers, lapsing keys, cancellations, the  *)
(* passing deadline, crashes) may happen between two of them.              *)
(***************************************************************************)
EXTENDS Integers, Sequences, FiniteSets, GenerationEvents

CONSTANTS
    Workers,      \* consumer names of the worker processes
    Attempts,     \* attempts the dispatcher sends to this job stream
    Script,       \* Script[a]: what the engine yields for a after "started" and
                  \* before "completed"; deterministic, the sampling seed and the
                  \* chunk boundaries are fixed by the job
    MaxCopies,    \* bound: job messages the dispatcher may write for one attempt
    MaxFaults,    \* bound: crashes, lapsed keys and broken Redis calls
    LeaseMayLapse \* whether the time to live of the GPU lease may run out

ASSUME ConstantsAssumption ==
    /\ Workers \cap {"free", "done"} = {}
    /\ Script \in [Attempts -> Seq({"thinking_delta", "phase_changed", "delta"})]
    /\ MaxCopies \in Nat
    /\ MaxFaults \in Nat
    /\ LeaseMayLapse \in BOOLEAN

VARIABLES
    message,    \* job messages: absent, new (undelivered), pending (delivered), acked
    lock,       \* attempt lock key: free, done, or the consumer that owns it
    progress,   \* recorded position of the attempt: last sequence, and terminal or not
    log,        \* the events of the attempt in the event stream, in stream order
    cancelKey,  \* cancellation key of the attempt: unset, set, lapsed
    overdue,    \* whether the deadline of the job has passed
    pool,       \* owner of the GPU lease: <<worker, attempt>>, or NoOwner
    pc, job,    \* what each worker does, and the message it does it for
    resume,     \* sequence after which this run publishes (_generate's argument)
    sequence,   \* sequence of the event produced last by this run
    leased,     \* whether this run was granted the GPU lease
    faults      \* faults so far

redisVars == <<message, lock, progress, log, cancelKey, pool>>
runVars == <<resume, sequence, leased>>
vars == <<redisVars, overdue, pc, job, runVars, faults>>

Messages == Attempts \X (1..MaxCopies)
NoOwner == <<>>
NoMessage == <<>>

\* Attempt of the message in hand.
AttemptOf(w) == job[w][1]

\* A run that has taken the lock and not yet decided how it ends.
Generating == {"start", "prompt", "stepping", "failing"}
Busy == {"claimed", "locked", "acquire", "release", "unwind", "finish", "ack", "abort"}
          \cup Generating
ProgramCounters == {"down", "idle"} \cup Busy

Event(s, type, short) == [sequence |-> s, type |-> type, short |-> short]
Events == [sequence : Nat, type : EventTypes, short : BOOLEAN]

\* What an undisturbed run publishes with sequence s.
ScriptedType(a, s) ==
    CASE s = 0 -> "started"
      [] s \in 1..Len(Script[a]) -> Script[a][s]
      [] OTHER -> "completed"

TypeOK ==
    /\ message \in [Messages -> {"absent", "new", "pending", "acked"}]
    /\ lock \in [Attempts -> Workers \cup {"free", "done"}]
    /\ progress \in [Attempts -> [sequence : Nat \cup {-1}, terminal : BOOLEAN]]
    /\ log \in [Attempts -> Seq(Events)]
    /\ cancelKey \in [Attempts -> {"unset", "set", "lapsed"}]
    /\ overdue \in [Attempts -> BOOLEAN]
    /\ pool \in (Workers \X Attempts) \cup {NoOwner}
    /\ pc \in [Workers -> ProgramCounters]
    /\ job \in [Workers -> Messages \cup {NoMessage}]
    /\ resume \in [Workers -> Nat \cup {-1}]
    /\ sequence \in [Workers -> Nat]
    /\ leased \in [Workers -> BOOLEAN]
    /\ faults \in 0..MaxFaults

Init ==
    /\ message = [m \in Messages |-> "absent"]
    /\ lock = [a \in Attempts |-> "free"]
    /\ progress = [a \in Attempts |-> [sequence |-> -1, terminal |-> FALSE]]
    /\ log = [a \in Attempts |-> <<>>]
    /\ cancelKey = [a \in Attempts |-> "unset"]
    /\ overdue = [a \in Attempts |-> FALSE]
    /\ pool = NoOwner
    /\ pc = [w \in Workers |-> "idle"]
    /\ job = [w \in Workers |-> NoMessage]
    /\ resume = [w \in Workers |-> -1]
    /\ sequence = [w \in Workers |-> 0]
    /\ leased = [w \in Workers |-> FALSE]
    /\ faults = 0

Goto(w, label) == pc' = [pc EXCEPT ![w] = label]

\* The call of _process is over: its local variables are gone.
Leave(w, label) ==
    /\ Goto(w, label)
    /\ job' = [job EXCEPT ![w] = NoMessage]
    /\ resume' = [resume EXCEPT ![w] = -1]
    /\ sequence' = [sequence EXCEPT ![w] = 0]
    /\ leased' = [leased EXCEPT ![w] = FALSE]

Fault == faults < MaxFaults /\ faults' = faults + 1

---------------------------------------------------------------------------
(* The API's side of the job stream (modelled in GenerationCoordinator). *)

\* The dispatcher adds a job message; a crash between XADD and the commit of the
\* outbox row makes it add another one for the same attempt.
Dispatch(m) ==
    /\ message[m] = "absent"
    /\ message' = [message EXCEPT ![m] = "new"]
    /\ UNCHANGED <<lock, progress, log, cancelKey, pool, overdue, pc, job, runVars, faults>>

RequestCancel(a) ==
    /\ cancelKey[a] = "unset"
    /\ cancelKey' = [cancelKey EXCEPT ![a] = "set"]
    /\ UNCHANGED <<message, lock, progress, log, pool, overdue, pc, job, runVars, faults>>

---------------------------------------------------------------------------
(* Reading jobs: _next_jobs *)

ReadNew(w, m) ==
    /\ pc[w] = "idle"
    /\ message[m] = "new"
    /\ message' = [message EXCEPT ![m] = "pending"]
    /\ job' = [job EXCEPT ![w] = m]
    /\ Goto(w, "claimed")
    /\ UNCHANGED <<lock, progress, log, cancelKey, pool, overdue, runVars, faults>>

\* XAUTOCLAIM of a message that has been pending for job_claim_idle_ms, possibly
\* while the consumer it was delivered to still works on it.
ClaimIdle(w, m) ==
    /\ pc[w] = "idle"
    /\ message[m] = "pending"
    /\ job' = [job EXCEPT ![w] = m]
    /\ Goto(w, "claimed")
    /\ UNCHANGED <<redisVars, overdue, runVars, faults>>

---------------------------------------------------------------------------
(* Processing one job: _process *)

TakeLock(w) ==
    /\ pc[w] = "claimed"
    /\ lock[AttemptOf(w)] = "free"
    /\ lock' = [lock EXCEPT ![AttemptOf(w)] = w]
    /\ Goto(w, "locked")
    /\ UNCHANGED <<message, progress, log, cancelKey, pool, overdue, job, runVars, faults>>

\* Faulty variants: a busy attempt's job is acknowledged; a finished one's never is.
LockUnavailableAcksBusy(w) ==
    /\ pc[w] = "claimed"
    /\ lock[AttemptOf(w)] # "free"
    /\ message' = [message EXCEPT ![job[w]] = "acked"]
    /\ Leave(w, "idle")
    /\ UNCHANGED <<lock, progress, log, cancelKey, pool, overdue, faults>>

LockUnavailableNeverAcks(w) ==
    /\ pc[w] = "claimed"
    /\ lock[AttemptOf(w)] # "free"
    /\ Leave(w, "idle")
    /\ UNCHANGED <<redisVars, overdue, faults>>

\* The attempt is finished or somebody works on it: only the former is acknowledged.
LockUnavailable(w) ==
    /\ pc[w] = "claimed"
    /\ lock[AttemptOf(w)] # "free"
    /\ message' = IF lock[AttemptOf(w)] = "done"
                  THEN [message EXCEPT ![job[w]] = "acked"] ELSE message
    /\ Leave(w, "idle")
    /\ UNCHANGED <<lock, progress, log, cancelKey, pool, overdue, faults>>

\* Faulty variants: resume one event early, or do not see that the attempt ended.
ReadProgressOneEarly(w) ==
    LET a == AttemptOf(w) IN
    /\ pc[w] = "locked"
    /\ resume' = [resume EXCEPT ![w] = progress[a].sequence - 1]
    /\ Goto(w, IF progress[a].terminal \/ cancelKey[a] = "set" THEN "finish" ELSE "acquire")
    /\ UNCHANGED <<redisVars, overdue, job, sequence, leased, faults>>

ReadProgressForgetsEnd(w) ==
    LET a == AttemptOf(w) IN
    /\ pc[w] = "locked"
    /\ resume' = [resume EXCEPT ![w] = progress[a].sequence]
    /\ Goto(w, IF cancelKey[a] = "set" THEN "finish" ELSE "acquire")
    /\ UNCHANGED <<redisVars, overdue, job, sequence, leased, faults>>

\* Read the recorded position; an attempt that ended or is cancelled is not run.
ReadProgress(w) ==
    LET a == AttemptOf(w) IN
    /\ pc[w] = "locked"
    /\ resume' = [resume EXCEPT ![w] = progress[a].sequence]
    /\ Goto(w, IF progress[a].terminal \/ cancelKey[a] = "set" THEN "finish" ELSE "acquire")
    /\ UNCHANGED <<redisVars, overdue, job, sequence, leased, faults>>

\* _acquire_resource got the lease.
AcquireLease(w) ==
    /\ pc[w] = "acquire"
    /\ ~overdue[AttemptOf(w)]
    /\ pool = NoOwner
    /\ pool' = <<w, AttemptOf(w)>>
    /\ leased' = [leased EXCEPT ![w] = TRUE]
    /\ Goto(w, "start")
    /\ UNCHANGED <<message, lock, progress, log, cancelKey, overdue, job, resume, sequence, faults>>

\* _acquire_resource returned None: cancelled while waiting, or the deadline passed.
ProceedWithoutLease(w) ==
    LET a == AttemptOf(w) IN
    /\ pc[w] = "acquire"
    /\ overdue[a] \/ (pool # NoOwner /\ cancelKey[a] = "set")
    /\ leased' = [leased EXCEPT ![w] = FALSE]
    /\ Goto(w, "start")
    /\ UNCHANGED <<redisVars, overdue, job, resume, sequence, faults>>

\* While waiting, the attempt lock is refreshed; finding it lost ends the run.
LockLostWaiting(w) ==
    LET a == AttemptOf(w) IN
    /\ pc[w] = "acquire"
    /\ ~overdue[a] /\ pool # NoOwner /\ cancelKey[a] # "set"
    /\ lock[a] # w
    /\ Goto(w, "abort")
    /\ UNCHANGED <<redisVars, overdue, job, runVars, faults>>

---------------------------------------------------------------------------
(* Generating: _generate *)

\* Faulty variant: XADD and SET without the check of the lock.
PublishUnchecked(w, ev) ==
    LET a == AttemptOf(w) IN
    /\ log' = [log EXCEPT ![a] = Append(@, ev)]
    /\ progress' = [progress EXCEPT ![a] =
                      [sequence |-> ev.sequence, terminal |-> ev.type \in TerminalEvents]]

\* PUBLISH_EVENT_SCRIPT: checks the lock, adds the event, records the position.
Publish(w, ev) ==
    LET a == AttemptOf(w) IN
    /\ lock[a] = w
    /\ log' = [log EXCEPT ![a] = Append(@, ev)]
    /\ progress' = [progress EXCEPT ![a] =
                      [sequence |-> ev.sequence, terminal |-> ev.type \in TerminalEvents]]

(***************************************************************************)
(* emit: skip what an earlier run published, else publish.  A lost lock    *)
(* raises; so does a broken connection, and then the script may have been  *)
(* executed or not.                                                        *)
(***************************************************************************)
Emit(w, ev, label) ==
    \/ /\ ev.sequence <= resume[w]
       /\ Goto(w, label)
       /\ UNCHANGED <<log, progress, faults>>
    \/ /\ ev.sequence > resume[w]
       /\ Publish(w, ev)
       /\ Goto(w, label)
       /\ UNCHANGED faults
    \/ /\ ev.sequence > resume[w]
       /\ Publish(w, ev)
       /\ Goto(w, "unwind")
       /\ Fault
    \/ /\ ev.sequence > resume[w]
       /\ lock[AttemptOf(w)] # w
       /\ Goto(w, "unwind")
       /\ UNCHANGED <<log, progress, faults>>
    \/ /\ ev.sequence > resume[w]
       /\ Goto(w, "unwind")
       /\ Fault
       /\ UNCHANGED <<log, progress>>

\* The deadline is checked only by a run that starts from nothing.
TooLate(w) == resume[w] < 0 /\ overdue[AttemptOf(w)]

FailTooLate(w) ==
    /\ pc[w] = "start"
    /\ TooLate(w)
    /\ Emit(w, Event(0, "failed", FALSE), "release")
    /\ UNCHANGED <<message, lock, cancelKey, pool, overdue, job, runVars>>

CheckCancelled(w) ==
    /\ pc[w] = "start"
    /\ ~TooLate(w)
    /\ Goto(w, IF cancelKey[AttemptOf(w)] = "set" THEN "release" ELSE "prompt")
    /\ UNCHANGED <<redisVars, overdue, job, runVars, faults>>

\* The engine refuses to build the prompt.
FailPrompt(w) ==
    /\ pc[w] = "prompt"
    /\ Emit(w, Event(0, "failed", FALSE), "release")
    /\ UNCHANGED <<message, lock, cancelKey, pool, overdue, job, runVars>>

Start(w) ==
    /\ pc[w] = "prompt"
    /\ Emit(w, Event(0, "started", FALSE), "stepping")
    /\ sequence' = [sequence EXCEPT ![w] = 0]
    /\ UNCHANGED <<message, lock, cancelKey, pool, overdue, job, resume, leased>>

\* The buffer holds the beginning of the next chunk only when the next event is a chunk.
HasBufferedText(w) == ScriptedType(AttemptOf(w), sequence[w] + 1) \in DeltaEvents

\* flush_delta of an incomplete chunk.
FlushShort(w, label) ==
    /\ HasBufferedText(w)
    /\ Emit(w, Event(sequence[w] + 1, ScriptedType(AttemptOf(w), sequence[w] + 1), TRUE), label)
    /\ sequence' = [sequence EXCEPT ![w] = @ + 1]

NothingToFlush(w, label) ==
    /\ Goto(w, label)
    /\ UNCHANGED <<log, progress, sequence, faults>>

StopOnCancel(w) ==
    /\ pc[w] = "stepping"
    /\ cancelKey[AttemptOf(w)] = "set"
    /\ FlushShort(w, "release") \/ NothingToFlush(w, "release")
    /\ UNCHANGED <<message, lock, cancelKey, pool, overdue, job, resume, leased>>

\* The engine yields up to the next event of the script.
Step(w) ==
    LET s == sequence[w] + 1
        type == ScriptedType(AttemptOf(w), s)
    IN
    /\ pc[w] = "stepping"
    /\ cancelKey[AttemptOf(w)] # "set"
    /\ Emit(w, Event(s, type, FALSE), IF type = "completed" THEN "release" ELSE "stepping")
    /\ sequence' = [sequence EXCEPT ![w] = s]
    /\ UNCHANGED <<message, lock, cancelKey, pool, overdue, job, resume, leased>>

\* The engine raises or ends without a finish reason: flush, then report the failure.
EngineFails(w) ==
    /\ pc[w] = "stepping"
    /\ cancelKey[AttemptOf(w)] # "set"
    /\ FlushShort(w, "failing") \/ NothingToFlush(w, "failing")
    /\ UNCHANGED <<message, lock, cancelKey, pool, overdue, job, resume, leased>>

FailEngine(w) ==
    /\ pc[w] = "failing"
    /\ Emit(w, Event(sequence[w] + 1, "failed", FALSE), "release")
    /\ UNCHANGED <<message, lock, cancelKey, pool, overdue, job, runVars>>

---------------------------------------------------------------------------
(* Ending a run: the finally and except blocks of _process *)

\* _release_resource deletes the lease only if it is still this run's.
ReleaseLease(w) ==
    /\ pc[w] \in {"release", "unwind"}
    /\ pool' = IF leased[w] /\ pool = <<w, AttemptOf(w)>> THEN NoOwner ELSE pool
    /\ leased' = [leased EXCEPT ![w] = FALSE]
    /\ Goto(w, IF pc[w] = "release" THEN "finish" ELSE "abort")
    /\ UNCHANGED <<message, lock, progress, log, cancelKey, overdue, job, resume, sequence, faults>>

MarkDone(w) ==
    /\ pc[w] = "finish"
    /\ lock[AttemptOf(w)] = w
    /\ lock' = [lock EXCEPT ![AttemptOf(w)] = "done"]
    /\ Goto(w, "ack")
    /\ UNCHANGED <<message, progress, log, cancelKey, pool, overdue, job, runVars, faults>>

LockLostFinishing(w) ==
    /\ pc[w] = "finish"
    /\ lock[AttemptOf(w)] # w
    /\ Goto(w, "abort")
    /\ UNCHANGED <<redisVars, overdue, job, runVars, faults>>

Acknowledge(w) ==
    /\ pc[w] = "ack"
    /\ message' = [message EXCEPT ![job[w]] = "acked"]
    /\ Leave(w, "idle")
    /\ UNCHANGED <<lock, progress, log, cancelKey, pool, overdue, faults>>

\* Any other Redis call of _process may raise too; the run then ends in the except block.
\* The request for the GPU lease may have been granted all the same.
CallBreaks(w) ==
    /\ pc[w] \in {"locked", "acquire", "start", "stepping", "release", "unwind", "finish", "ack"}
    /\ Goto(w, IF pc[w] \in {"start", "stepping"} THEN "unwind" ELSE "abort")
    /\ \/ UNCHANGED pool
       \/ /\ pc[w] = "acquire" /\ ~overdue[AttemptOf(w)] /\ pool = NoOwner
          /\ pool' = <<w, AttemptOf(w)>>
    /\ Fault
    /\ UNCHANGED <<message, lock, progress, log, cancelKey, overdue, job, runVars>>

\* Faulty variant: the lock is deleted whoever owns it.
GiveBackUnchecked(w) ==
    LET a == AttemptOf(w) IN
    /\ pc[w] = "abort"
    /\ lock' = IF lock[a] \in Workers THEN [lock EXCEPT ![a] = "free"] ELSE lock
    /\ Leave(w, "idle")
    /\ UNCHANGED <<message, progress, log, cancelKey, pool, overdue, faults>>

\* The except block gives the attempt back, unless the lock is no longer this run's;
\* the job stays pending.
GiveBack(w) ==
    LET a == AttemptOf(w) IN
    /\ pc[w] = "abort"
    /\ lock' = IF lock[a] = w THEN [lock EXCEPT ![a] = "free"] ELSE lock
    /\ Leave(w, "idle")
    /\ UNCHANGED <<message, progress, log, cancelKey, pool, overdue, faults>>

---------------------------------------------------------------------------
(* What happens around the workers *)

Crash(w) ==
    /\ pc[w] # "down"
    /\ Leave(w, "down")
    /\ Fault
    /\ UNCHANGED <<redisVars, overdue>>

Restart(w) ==
    /\ pc[w] = "down"
    /\ Goto(w, "idle")
    /\ UNCHANGED <<redisVars, overdue, job, runVars, faults>>

\* The worker runs the attempt it has the lock of.
Holds(w, a) ==
    /\ lock[a] = w
    /\ pc[w] \in Busy \ {"claimed"}
    /\ AttemptOf(w) = a

\* run_lock_seconds went by without a publication or a refresh: always, in the end,
\* when the owner of the lock crashed; a fault when it is only slow.
LockLapses(a) ==
    /\ lock[a] \in Workers
    /\ lock' = [lock EXCEPT ![a] = "free"]
    /\ IF Holds(lock[a], a) THEN Fault ELSE UNCHANGED faults
    /\ UNCHANGED <<message, progress, log, cancelKey, pool, overdue, pc, job, runVars>>

\* resource_lock_seconds after it was taken the GPU lease is gone; it is never renewed.
LeaseLapses ==
    /\ pool # NoOwner
    /\ LeaseMayLapse \/ ~leased[pool[1]]
    /\ pool' = NoOwner
    /\ UNCHANGED <<message, lock, progress, log, cancelKey, overdue, pc, job, runVars, faults>>

DeadlinePasses(a) ==
    /\ ~overdue[a]
    /\ overdue' = [overdue EXCEPT ![a] = TRUE]
    /\ UNCHANGED <<redisVars, pc, job, runVars, faults>>

\* The cancellation key outlives the deadline of the job, not more.
CancelLapses(a) ==
    /\ overdue[a]
    /\ cancelKey[a] = "set"
    /\ cancelKey' = [cancelKey EXCEPT ![a] = "lapsed"]
    /\ UNCHANGED <<message, lock, progress, log, pool, overdue, pc, job, runVars, faults>>

---------------------------------------------------------------------------

Receive(w) == \E m \in Messages : ReadNew(w, m) \/ ClaimIdle(w, m)
Generate(w) ==
    \/ FailTooLate(w) \/ CheckCancelled(w) \/ FailPrompt(w) \/ Start(w)
    \/ StopOnCancel(w) \/ Step(w) \/ EngineFails(w) \/ FailEngine(w)
Process(w) ==
    \/ TakeLock(w) \/ LockUnavailable(w) \/ ReadProgress(w)
    \/ AcquireLease(w) \/ ProceedWithoutLease(w) \/ LockLostWaiting(w)
    \/ ReleaseLease(w) \/ MarkDone(w) \/ LockLostFinishing(w) \/ Acknowledge(w)
    \/ GiveBack(w)
WorkerNext(w) == Receive(w) \/ Process(w) \/ Generate(w)
Disturbance ==
    \/ \E w \in Workers : CallBreaks(w) \/ Crash(w) \/ Restart(w)
    \/ \E a \in Attempts : LockLapses(a) \/ DeadlinePasses(a) \/ CancelLapses(a)
    \/ LeaseLapses
ApiNext == (\E m \in Messages : Dispatch(m)) \/ (\E a \in Attempts : RequestCancel(a))

Next == (\E w \in Workers : WorkerNext(w)) \/ Disturbance \/ ApiNext

Spec == Init /\ [][Next]_vars

(***************************************************************************)
(* Fairness.  A process that runs keeps running, and one that died is      *)
(* restarted by its supervisor; XAUTOCLAIM walks the pending list with a   *)
(* cursor, so no message is passed over forever; keys with a time to live  *)
(* that nobody refreshes disappear, and deadlines pass.  The engine always *)
(* yields: it is the one assumption made about the model runtime.          *)
(***************************************************************************)
AbandonedLockLapses(a) == lock[a] \in Workers /\ ~Holds(lock[a], a) /\ LockLapses(a)
AbandonedLeaseLapses == pool # NoOwner /\ ~leased[pool[1]] /\ LeaseLapses

Fairness ==
    /\ \A w \in Workers : WF_vars(Process(w) \/ Generate(w)) /\ WF_vars(Restart(w))
    /\ \A m \in Messages : SF_vars(\E w \in Workers : ReadNew(w, m) \/ ClaimIdle(w, m))
    /\ \A a \in Attempts : WF_vars(AbandonedLockLapses(a)) /\ WF_vars(DeadlinePasses(a))
    /\ WF_vars(AbandonedLeaseLapses)

FairSpec == Spec /\ Fairness


---------------------------------------------------------------------------
(* Properties *)

\* The stream of an attempt is one run of its script: the sequences are consecutive from
\* zero, whichever workers wrote it and wherever they took over (_publish, emit and
\* _read_progress), every event is the scripted one or the report of a failure, and
\* nothing follows a terminal event.
LogIsOneRun ==
    \A a \in Attempts : \A i \in DOMAIN log[a] :
        /\ log[a][i].sequence = i - 1
        /\ log[a][i].type \in {ScriptedType(a, i - 1), "failed"}
        /\ log[a][i].type \in TerminalEvents => i = Len(log[a])

\* Only a job whose attempt is marked done is acknowledged: an acknowledged job is never
\* the last trace of an unfinished attempt (_process).
AcknowledgedIsDone ==
    \A m \in Messages : message[m] = "acked" => lock[m[1]] = "done"

\* Once an attempt is marked done, it stays so, and nothing more is published for it,
\* however late a worker that lost the lock wakes up (COMPARE_AND_SET_SCRIPT and
\* PUBLISH_EVENT_SCRIPT).
DoneIsFinal ==
    [][\A a \in Attempts :
          lock[a] = "done" => lock'[a] = "done" /\ log'[a] = log[a]]_vars

\* A worker never takes away the lock or the GPU lease of another one that still works
\* under it: they end by their owner's own step or by their time to live
\* (COMPARE_AND_DELETE_SCRIPT).
KeysEndByOwner ==
    [][/\ \A a \in Attempts, w \in Workers :
             (Holds(w, a) /\ lock'[a] # w) => pc'[w] # pc[w] \/ faults' # faults
       /\ \A w \in Workers :
             (leased[w] /\ pool = <<w, AttemptOf(w)>> /\ pool' # pool) =>
                 pc'[w] # pc[w] \/ pc' = pc]_vars

\* Every job that reaches the stream is acknowledged in the end: a crashed worker's
\* job is claimed by another, a busy attempt is retried, a full GPU pool is waited
\* for until the deadline at most.
JobsSettle ==
    \A m \in Messages : (message[m] = "new") ~> (message[m] = "acked")

---------------------------------------------------------------------------
(* Claims of the documentation that the code does not keep *)

\* docs/architecture/inference.md:80 - a worker acknowledges a job only after it wrote
\* the terminal event of the attempt (cancelled attempts are left aside).
AcknowledgedAfterTerminal ==
    \A m \in Messages :
        (message[m] = "acked" /\ cancelKey[m[1]] = "unset") => progress[m[1]].terminal

\* docs/architecture/inference.md:75 - the Redis lease serialises generation on a shared
\* GPU: never two attempts in the engine at once.
OneGenerationAtATime ==
    \A v, w \in Workers :
        (pc[v] = "stepping" /\ pc[w] = "stepping") => AttemptOf(v) = AttemptOf(w)

\* docs/architecture/inference.md:88 - chunk boundaries are deterministic, so a resumed run
\* continues the text an earlier run published: a chunk cut short ends the output.
ShortChunkIsLast ==
    \A a \in Attempts : \A i \in DOMAIN log[a] :
        log[a][i].short => i = Len(log[a]) \/ log[a][i + 1].type = "failed"

=============================================================================
