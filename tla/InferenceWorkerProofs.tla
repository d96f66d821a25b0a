-------------------------- MODULE InferenceWorkerProofs --------------------------
(***************************************************************************)
(* Safety of the inference workers for every set of workers and attempts,  *)
(* every script and every number of copies and faults.                     *)
(***************************************************************************)
EXTENDS InferenceWorker, TLAPS

---------------------------------------------------------------------------
(* Type correctness *)

\* A script yields types of the contract only.
LEMMA ScriptedTypeIsType ==
    ASSUME NEW a \in Attempts, NEW s \in Nat
    PROVE  ScriptedType(a, s) \in EventTypes
  BY ConstantsAssumption DEF ScriptedType, EventTypes, DeltaEvents, TerminalEvents

\* A busy worker has a job message in hand.
JobInHand == \A w \in Workers : pc[w] \in Busy => job[w] \in Messages

TypeInv == TypeOK /\ JobInHand

LEMMA AttemptOfBusy ==
    ASSUME JobInHand, NEW w \in Workers, pc[w] \in Busy
    PROVE  AttemptOf(w) \in Attempts
  BY DEF JobInHand, AttemptOf, Messages

\* Publishing keeps the types of the stream and of the recorded positions.
LEMMA PublishTypes ==
    ASSUME TypeOK, NEW w \in Workers, NEW ev \in Events,
           AttemptOf(w) \in Attempts, Publish(w, ev)
    PROVE  /\ log' \in [Attempts -> Seq(Events)]
           /\ progress' \in [Attempts -> [sequence : Nat \cup {-1}, terminal : BOOLEAN]]
  <1>1. Append(log[AttemptOf(w)], ev) \in Seq(Events)
    BY DEF TypeOK
  <1>2. [sequence |-> ev.sequence, terminal |-> ev.type \in TerminalEvents]
          \in [sequence : Nat \cup {-1}, terminal : BOOLEAN]
    BY DEF Events
  <1>3. QED
    BY <1>1, <1>2 DEF TypeOK, Publish

\* Emitting keeps the types of the stream, the positions, the program counter and faults.
LEMMA EmitTypes ==
    ASSUME TypeOK, ConstantsAssumption, NEW w \in Workers, NEW ev \in Events,
           NEW label \in ProgramCounters, AttemptOf(w) \in Attempts, Emit(w, ev, label)
    PROVE  /\ log' \in [Attempts -> Seq(Events)]
           /\ progress' \in [Attempts -> [sequence : Nat \cup {-1}, terminal : BOOLEAN]]
           /\ Goto(w, label) \/ Goto(w, "unwind")
           /\ pc' \in [Workers -> ProgramCounters]
           /\ faults' \in 0..MaxFaults
  <1>0. Goto(w, label) \/ Goto(w, "unwind")
    BY DEF Emit
  <1>1. pc' \in [Workers -> ProgramCounters]
    <2>1. "unwind" \in ProgramCounters
      BY DEF ProgramCounters, Busy
    <2>2. QED
      BY <1>0, <2>1 DEF Goto, TypeOK
  <1>2. faults' \in 0..MaxFaults
    BY DEF Emit, Fault, TypeOK, ConstantsAssumption
  <1>3. CASE Publish(w, ev)
    BY <1>0, <1>1, <1>2, <1>3, PublishTypes
  <1>4. CASE UNCHANGED <<log, progress>>
    BY <1>0, <1>1, <1>2, <1>4 DEF TypeOK
  <1>5. QED
    BY <1>3, <1>4 DEF Emit

\* What a worker publishes is an event of the contract.
LEMMA EventIsEvent ==
    ASSUME NEW s \in Nat, NEW type \in EventTypes, NEW short \in BOOLEAN
    PROVE  Event(s, type, short) \in Events
  BY DEF Event, Events

\* So an action that emits and otherwise changes the sequence only keeps the type invariant.
LEMMA EmitKeepsTypes ==
    ASSUME TypeInv, NEW w \in Workers, pc[w] \in Busy, NEW ev \in Events,
           NEW label \in Busy, Emit(w, ev, label), sequence' \in [Workers -> Nat],
           UNCHANGED <<message, lock, cancelKey, pool, overdue, job, resume, leased>>
    PROVE  TypeInv'
  <1>1. AttemptOf(w) \in Attempts
    BY AttemptOfBusy DEF TypeInv
  <1>2. label \in ProgramCounters
    BY DEF ProgramCounters
  <1>3. /\ log' \in [Attempts -> Seq(Events)]
        /\ progress' \in [Attempts -> [sequence : Nat \cup {-1}, terminal : BOOLEAN]]
        /\ Goto(w, label) \/ Goto(w, "unwind")
        /\ pc' \in [Workers -> ProgramCounters]
        /\ faults' \in 0..MaxFaults
    BY <1>1, <1>2, EmitTypes, ConstantsAssumption DEF TypeInv
  <1>4. TypeOK'
    BY <1>3 DEF TypeInv, TypeOK
  <1>5. JobInHand'
    BY <1>3 DEF TypeInv, TypeOK, JobInHand, Goto, Busy
  <1>6. QED
    BY <1>4, <1>5 DEF TypeInv

\* The next event of a run is an event.
LEMMA NextEventIsEvent ==
    ASSUME TypeInv, NEW w \in Workers, pc[w] \in Busy
    PROVE  /\ sequence[w] + 1 \in Nat
           /\ ScriptedType(AttemptOf(w), sequence[w] + 1) \in EventTypes
           /\ [sequence EXCEPT ![w] = sequence[w] + 1] \in [Workers -> Nat]
  BY AttemptOfBusy, ScriptedTypeIsType DEF TypeInv, TypeOK

\* flush_delta keeps the types, whether it has something to flush or not.
LEMMA FlushKeepsTypes ==
    ASSUME TypeInv, NEW w \in Workers, pc[w] \in Busy, NEW label \in Busy,
           FlushShort(w, label) \/ NothingToFlush(w, label),
           UNCHANGED <<message, lock, cancelKey, pool, overdue, job, resume, leased>>
    PROVE  TypeInv'
  <1> DEFINE ev == Event(sequence[w] + 1, ScriptedType(AttemptOf(w), sequence[w] + 1), TRUE)
  <1>1. CASE FlushShort(w, label)
    <2>1. ev \in Events
      BY NextEventIsEvent, EventIsEvent
    <2>2. Emit(w, ev, label) /\ sequence' \in [Workers -> Nat]
      BY <1>1, NextEventIsEvent DEF FlushShort
    <2>3. QED
      BY <2>1, <2>2, EmitKeepsTypes
  <1>2. CASE NothingToFlush(w, label)
    BY <1>2 DEF NothingToFlush, Goto, TypeInv, TypeOK, JobInHand, ProgramCounters, Busy
  <1>3. QED
    BY <1>1, <1>2

\* Everything starts free, idle and at position 0.
LEMMA TypeInit == Init => TypeInv
  BY ConstantsAssumption DEF Init, TypeInv, TypeOK, JobInHand, Busy, Generating, ProgramCounters,
                             NoOwner, NoMessage

\* One step per action; the actions that emit go through EmitTypes.
LEMMA TypeStep ==
    ASSUME TypeInv, [Next]_vars
    PROVE  TypeInv'
  <1> USE ConstantsAssumption DEF TypeInv, JobInHand, Busy, Generating, ProgramCounters
  <1>1. ASSUME NEW w \in Workers, NEW m \in Messages, ReadNew(w, m) PROVE TypeInv'
    BY <1>1, AttemptOfBusy DEF ReadNew, TypeOK, Goto, redisVars, runVars, NoMessage
  <1>2. ASSUME NEW w \in Workers, NEW m \in Messages, ClaimIdle(w, m) PROVE TypeInv'
    BY <1>2, AttemptOfBusy DEF ClaimIdle, TypeOK, Goto, redisVars, runVars, NoMessage
  <1>3. ASSUME NEW w \in Workers, TakeLock(w) PROVE TypeInv'
    BY <1>3, AttemptOfBusy DEF TakeLock, TypeOK, Goto, redisVars, runVars, NoMessage
  <1>4. ASSUME NEW w \in Workers, LockUnavailable(w) PROVE TypeInv'
    BY <1>4, AttemptOfBusy DEF LockUnavailable, TypeOK, Goto, Leave, redisVars, runVars, NoMessage
  <1>5. ASSUME NEW w \in Workers, ReadProgress(w) PROVE TypeInv'
    BY <1>5, AttemptOfBusy DEF ReadProgress, TypeOK, Goto, redisVars, runVars, NoMessage
  <1>6. ASSUME NEW w \in Workers, AcquireLease(w) PROVE TypeInv'
    BY <1>6, AttemptOfBusy DEF AcquireLease, TypeOK, Goto, NoOwner, redisVars, runVars, NoMessage
  <1>7. ASSUME NEW w \in Workers, ProceedWithoutLease(w) PROVE TypeInv'
    BY <1>7, AttemptOfBusy DEF ProceedWithoutLease, TypeOK, Goto, redisVars, runVars, NoMessage
  <1>8. ASSUME NEW w \in Workers, LockLostWaiting(w) PROVE TypeInv'
    BY <1>8, AttemptOfBusy DEF LockLostWaiting, TypeOK, Goto, redisVars, runVars, NoMessage
  <1>9. ASSUME NEW w \in Workers, CheckCancelled(w) PROVE TypeInv'
    BY <1>9, AttemptOfBusy DEF CheckCancelled, TypeOK, Goto, redisVars, runVars, NoMessage
  <1>10. ASSUME NEW w \in Workers, ReleaseLease(w) PROVE TypeInv'
    BY <1>10, AttemptOfBusy DEF ReleaseLease, TypeOK, Goto, NoOwner, redisVars, runVars, NoMessage
  <1>11. ASSUME NEW w \in Workers, MarkDone(w) PROVE TypeInv'
    BY <1>11, AttemptOfBusy DEF MarkDone, TypeOK, Goto, redisVars, runVars, NoMessage
  <1>12. ASSUME NEW w \in Workers, LockLostFinishing(w) PROVE TypeInv'
    BY <1>12, AttemptOfBusy DEF LockLostFinishing, TypeOK, Goto, redisVars, runVars, NoMessage
  <1>13. ASSUME NEW w \in Workers, Acknowledge(w) PROVE TypeInv'
    BY <1>13, AttemptOfBusy DEF Acknowledge, TypeOK, Goto, Leave, redisVars, runVars, NoMessage
  <1>14. ASSUME NEW w \in Workers, GiveBack(w) PROVE TypeInv'
    BY <1>14, AttemptOfBusy DEF GiveBack, TypeOK, Goto, Leave, redisVars, runVars, NoMessage
  <1>15. ASSUME NEW w \in Workers, CallBreaks(w) PROVE TypeInv'
    BY <1>15, AttemptOfBusy DEF CallBreaks, TypeOK, Goto, Fault, NoOwner, redisVars, runVars, NoMessage
  <1>16. ASSUME NEW w \in Workers, Crash(w) PROVE TypeInv'
    BY <1>16, AttemptOfBusy DEF Crash, TypeOK, Goto, Leave, Fault, redisVars, runVars, NoMessage
  <1>17. ASSUME NEW w \in Workers, Restart(w) PROVE TypeInv'
    BY <1>17, AttemptOfBusy DEF Restart, TypeOK, Goto, redisVars, runVars, NoMessage
  <1>18. ASSUME NEW w \in Workers, FailTooLate(w) PROVE TypeInv'
    <2>1. Event(0, "failed", FALSE) \in Events
      BY EventIsEvent DEF EventTypes, TerminalEvents
    <2>2. QED
      BY <1>18, <2>1, EmitKeepsTypes DEF FailTooLate, TypeOK, runVars
  <1>19. ASSUME NEW w \in Workers, FailPrompt(w) PROVE TypeInv'
    <2>1. Event(0, "failed", FALSE) \in Events
      BY EventIsEvent DEF EventTypes, TerminalEvents
    <2>2. QED
      BY <1>19, <2>1, EmitKeepsTypes DEF FailPrompt, TypeOK, runVars
  <1>20. ASSUME NEW w \in Workers, Start(w) PROVE TypeInv'
    <2>1. Event(0, "started", FALSE) \in Events
      BY EventIsEvent DEF EventTypes
    <2>2. sequence' \in [Workers -> Nat]
      BY <1>20 DEF Start, TypeOK
    <2>3. QED
      BY <1>20, <2>1, <2>2, EmitKeepsTypes DEF Start
  <1>21. ASSUME NEW w \in Workers, StopOnCancel(w) PROVE TypeInv'
    BY <1>21, FlushKeepsTypes DEF StopOnCancel
  <1>22. ASSUME NEW w \in Workers, Step(w) PROVE TypeInv'
    <2> DEFINE type == ScriptedType(AttemptOf(w), sequence[w] + 1)
    <2>1. pc[w] \in Busy
      BY <1>22 DEF Step
    <2>2. Event(sequence[w] + 1, type, FALSE) \in Events
      BY <2>1, NextEventIsEvent, EventIsEvent
    <2>3. sequence' \in [Workers -> Nat]
      BY <1>22, <2>1, NextEventIsEvent DEF Step
    <2>4. (IF type = "completed" THEN "release" ELSE "stepping") \in Busy
      OBVIOUS
    <2>5. QED
      BY <1>22, <2>1, <2>2, <2>3, <2>4, EmitKeepsTypes DEF Step
  <1>23. ASSUME NEW w \in Workers, EngineFails(w) PROVE TypeInv'
    BY <1>23, FlushKeepsTypes DEF EngineFails
  <1>24. ASSUME NEW w \in Workers, FailEngine(w) PROVE TypeInv'
    <2>1. pc[w] \in Busy
      BY <1>24 DEF FailEngine
    <2>2. Event(sequence[w] + 1, "failed", FALSE) \in Events
      BY <2>1, NextEventIsEvent, EventIsEvent DEF EventTypes, TerminalEvents
    <2>3. QED
      BY <1>24, <2>2, EmitKeepsTypes DEF FailEngine, TypeOK, runVars
  <1>25. ASSUME NEW m \in Messages, Dispatch(m) PROVE TypeInv'
    BY <1>25 DEF Dispatch, TypeOK, redisVars, runVars
  <1>26. ASSUME NEW a \in Attempts, RequestCancel(a) PROVE TypeInv'
    BY <1>26 DEF RequestCancel, TypeOK, redisVars, runVars
  <1>27. ASSUME NEW a \in Attempts, LockLapses(a) PROVE TypeInv'
    BY <1>27 DEF LockLapses, TypeOK, Fault, redisVars, runVars
  <1>28. ASSUME NEW a \in Attempts, DeadlinePasses(a) PROVE TypeInv'
    BY <1>28 DEF DeadlinePasses, TypeOK, redisVars, runVars
  <1>29. ASSUME NEW a \in Attempts, CancelLapses(a) PROVE TypeInv'
    BY <1>29 DEF CancelLapses, TypeOK, redisVars, runVars
  <1>30. CASE LeaseLapses
    BY <1>30 DEF LeaseLapses, TypeOK, NoOwner, runVars
  <1>31. CASE UNCHANGED vars
    BY <1>31 DEF vars, TypeOK, redisVars, runVars
  <1> QED
    BY <1>1, <1>2, <1>3, <1>4, <1>5, <1>6, <1>7, <1>8, <1>9, <1>10, <1>11, <1>12, <1>13, <1>14, <1>15, <1>16, <1>17, <1>18, <1>19, <1>20, <1>21, <1>22, <1>23, <1>24, <1>25, <1>26, <1>27, <1>28, <1>29, <1>30, <1>31 DEF Next, WorkerNext, Receive, Process, Generate, Disturbance, ApiNext

\* Every reachable state is well typed.
THEOREM TypeCorrect == Spec => []TypeOK
  <1>1. TypeInv /\ [Next]_vars => TypeInv'
    BY TypeStep
  <1>2. TypeInv => TypeOK
    BY DEF TypeInv
  <1>3. QED
    BY TypeInit, <1>1, <1>2, PTL DEF Spec

\* The types, with the job every busy worker has in hand.
LEMMA TypeInvariant == Spec => []TypeInv
  <1>1. TypeInv /\ [Next]_vars => TypeInv'
    BY TypeStep
  <1>2. QED
    BY TypeInit, <1>1, PTL DEF Spec

---------------------------------------------------------------------------
(***************************************************************************)
(* The stream of an attempt is one run of its script.  LogIsOneRun is not  *)
(* inductive: it must be known that the recorded position describes the    *)
(* stream, and that a run which still holds the lock stands exactly at     *)
(* that position: at the later of the point it resumed from and the event  *)
(* it produced last.                                                       *)
(***************************************************************************)

PositionOfLog(a) ==
    /\ progress[a].sequence = Len(log[a]) - 1
    /\ progress[a].terminal <=> (log[a] # <<>> /\ log[a][Len(log[a])].type \in TerminalEvents)

PositionOfRun(w, a) ==
    /\ pc[w] \in {"acquire", "start", "prompt"} =>
          ~progress[a].terminal /\ progress[a].sequence = resume[w]
    /\ pc[w] \in {"stepping", "failing"} =>
          /\ ~progress[a].terminal
          /\ progress[a].sequence = IF resume[w] < sequence[w] THEN sequence[w] ELSE resume[w]

RunInv ==
    /\ LogIsOneRun
    /\ \A a \in Attempts : PositionOfLog(a)
    /\ \A w \in Workers, a \in Attempts : Holds(w, a) => PositionOfRun(w, a)

\* A script starts with the started event and never fails.
LEMMA ScriptedTypes ==
    ASSUME NEW a \in Attempts, NEW s \in Nat
    PROVE  /\ ScriptedType(a, 0) = "started"
           /\ ScriptedType(a, s) # "failed"
  BY ConstantsAssumption DEF ScriptedType

\* Publishing records whether the event was terminal.
LEMMA PublishRecordsEnd ==
    ASSUME TypeInv, NEW w \in Workers, NEW ev \in Events, AttemptOf(w) \in Attempts,
           Publish(w, ev)
    PROVE  progress'[AttemptOf(w)].terminal = (ev.type \in TerminalEvents)
  <1>1. ASSUME NEW s, NEW t \in BOOLEAN
        PROVE  [sequence |-> s, terminal |-> t].terminal = t
    OBVIOUS
  <1>2. (ev.type \in TerminalEvents) \in BOOLEAN
    OBVIOUS
  <1>3. progress'[AttemptOf(w)]
          = [sequence |-> ev.sequence, terminal |-> ev.type \in TerminalEvents]
    BY DEF Publish, TypeInv, TypeOK
  <1>4. [sequence |-> ev.sequence, terminal |-> ev.type \in TerminalEvents].terminal
          = (ev.type \in TerminalEvents)
    BY <1>1, <1>2
  <1>5. QED
    BY <1>3, <1>4

\* What publishing the event next to the recorded position does to the stream.
LEMMA PublishExtendsRun ==
    ASSUME TypeInv, RunInv, NEW w \in Workers, NEW ev \in Events,
           NEW a \in Attempts, a = AttemptOf(w), Publish(w, ev),
           ~progress[a].terminal,
           ev.sequence = progress[a].sequence + 1,
           ev.type \in {ScriptedType(a, ev.sequence), "failed"}
    PROVE  LogIsOneRun' /\ \A b \in Attempts : PositionOfLog(b)'
  <1>1. log[a] \in Seq(Events) /\ Len(log[a]) \in Nat
    BY DEF TypeInv, TypeOK
  <1>2. ev.sequence = Len(log[a])
    BY <1>1 DEF RunInv, PositionOfLog
  <1>3. log'[a] = Append(log[a], ev) /\ \A b \in Attempts \ {a} : log'[b] = log[b]
    BY DEF Publish, TypeInv, TypeOK
  <1>4. /\ progress'[a] = [sequence |-> ev.sequence, terminal |-> ev.type \in TerminalEvents]
        /\ \A b \in Attempts \ {a} : progress'[b] = progress[b]
    BY DEF Publish, TypeInv, TypeOK
  <1>5. /\ DOMAIN log'[a] = 1..(Len(log[a]) + 1)
        /\ Len(log'[a]) = Len(log[a]) + 1
        /\ log'[a][Len(log[a]) + 1] = ev
        /\ \A i \in DOMAIN log[a] : log'[a][i] = log[a][i]
    BY <1>1, <1>3
  <1>6. \A i \in DOMAIN log[a] : log[a][i].type \notin TerminalEvents
    <2> SUFFICES ASSUME NEW i \in DOMAIN log[a], log[a][i].type \in TerminalEvents
                 PROVE  FALSE
      OBVIOUS
    <2>1. i = Len(log[a]) /\ log[a] # <<>>
      BY <1>1 DEF RunInv, LogIsOneRun
    <2>2. QED
      BY <2>1 DEF RunInv, PositionOfLog
  <1>7. LogIsOneRun'
    <2> SUFFICES ASSUME NEW b \in Attempts, NEW i \in DOMAIN log'[b]
                 PROVE  /\ log'[b][i].sequence = i - 1
                        /\ log'[b][i].type \in {ScriptedType(b, i - 1), "failed"}
                        /\ log'[b][i].type \in TerminalEvents => i = Len(log'[b])
      BY DEF LogIsOneRun
    <2>1. CASE b # a
      BY <2>1, <1>3 DEF RunInv, LogIsOneRun
    <2>2. CASE b = a /\ i \in DOMAIN log[a]
      BY <2>2, <1>5, <1>6 DEF RunInv, LogIsOneRun
    <2>3. CASE b = a /\ i = Len(log[a]) + 1
      <3>1. i - 1 = ev.sequence
        BY <2>3, <1>1, <1>2
      <3>2. QED
        BY <2>3, <3>1, <1>5
    <2>4. QED
      BY <2>1, <2>2, <2>3, <1>1, <1>5
  <1>8. ASSUME NEW b \in Attempts PROVE PositionOfLog(b)'
    <2>1. CASE b # a
      BY <2>1, <1>3, <1>4 DEF RunInv, PositionOfLog
    <2>2. CASE b = a
      <3>1. progress'[a].sequence = Len(log'[a]) - 1
        BY <1>1, <1>2, <1>4, <1>5
      <3>2. log'[a] # <<>>
        BY <1>1, <1>5
      <3>3. progress'[a].terminal <=> log'[a][Len(log'[a])].type \in TerminalEvents
        <4>1. log'[a][Len(log'[a])] = ev
          BY <1>5
        <4>2. progress'[a].terminal = (ev.type \in TerminalEvents)
          BY PublishRecordsEnd
        <4>3. QED
          BY <4>1, <4>2, Zenon
      <3>4. QED
        BY <2>2, <3>1, <3>2, <3>3 DEF PositionOfLog
    <2>3. QED
      BY <2>1, <2>2
  <1>9. QED
    BY <1>7, <1>8

\* ev continues the run of w on a, if w still holds the lock.
Continues(w, a, ev) ==
    lock[a] = w =>
        /\ ~progress[a].terminal
        /\ ev.type \in {ScriptedType(a, ev.sequence), "failed"}
        /\ ev.sequence <= resume[w] => progress[a].sequence = resume[w]
        /\ ev.sequence > resume[w] => ev.sequence = progress[a].sequence + 1

\* Emitting such an event keeps the invariant: whether it is skipped, published or lost.
LEMMA EmitKeepsRun ==
    ASSUME TypeInv, RunInv, NEW w \in Workers, pc[w] \in Generating, NEW ev \in Events,
           NEW label \in {"release", "stepping", "failing"},
           Emit(w, ev, label), Continues(w, AttemptOf(w), ev),
           label # "release" => sequence'[w] = ev.sequence /\ ev.type \notin TerminalEvents,
           \A v \in Workers \ {w} : sequence'[v] = sequence[v],
           UNCHANGED <<lock, job, resume>>
    PROVE  RunInv'
  <1> DEFINE a == AttemptOf(w)
  <1>1. a \in Attempts /\ AttemptOf(w)' = a
    BY AttemptOfBusy DEF TypeInv, AttemptOf, Busy
  <1>2. /\ ev.sequence \in Nat
        /\ resume[w] \in Nat \cup {-1}
        /\ progress[a] \in [sequence : Nat \cup {-1}, terminal : BOOLEAN]
    BY <1>1 DEF TypeInv, TypeOK, Events
  <1>3. \/ Publish(w, ev) /\ ev.sequence > resume[w]
        \/ UNCHANGED <<log, progress>> /\ pc'[w] = "unwind"
        \/ UNCHANGED <<log, progress>> /\ ev.sequence <= resume[w] /\ Goto(w, label)
    BY DEF Emit, Goto, TypeInv, TypeOK
  <1>4. Goto(w, label) \/ Goto(w, "unwind")
    BY DEF Emit
  <1>5. /\ pc'[w] \in {label, "unwind"}
        /\ \A v \in Workers \ {w} : pc'[v] = pc[v]
    BY <1>4 DEF Goto, TypeInv, TypeOK
  <1>6. LogIsOneRun' /\ \A b \in Attempts : PositionOfLog(b)'
    <2>1. CASE Publish(w, ev) /\ ev.sequence > resume[w]
      <3>1. /\ ~progress[a].terminal
            /\ ev.type \in {ScriptedType(a, ev.sequence), "failed"}
            /\ ev.sequence = progress[a].sequence + 1
        BY <2>1 DEF Publish, Continues
      <3>2. QED
        BY <2>1, <3>1, <1>1, PublishExtendsRun
    <2>2. CASE UNCHANGED <<log, progress>>
      BY <2>2 DEF RunInv, LogIsOneRun, PositionOfLog
    <2>3. QED
      BY <2>1, <2>2, <1>3
  <1>7. ASSUME NEW v \in Workers, NEW b \in Attempts, Holds(v, b)'
        PROVE  PositionOfRun(v, b)'
    <2>1. CASE v = w
      <3>1. b = a /\ lock[a] = w
        BY <1>7, <2>1, <1>1 DEF Holds
      <3>2. CASE pc'[w] = "unwind" \/ pc'[w] = "release"
        BY <2>1, <3>2 DEF PositionOfRun
      <3>3. CASE pc'[w] = label /\ label # "release"
        <4>1. sequence'[w] = ev.sequence /\ ev.type \notin TerminalEvents
          BY <3>3
        <4>2. CASE Publish(w, ev) /\ ev.sequence > resume[w]
          <5>1. progress'[a].sequence = ev.sequence /\ ~progress'[a].terminal
            <6>1. progress'[a].sequence = ev.sequence
              BY <4>2, <1>1 DEF Publish, TypeInv, TypeOK
            <6>2. progress'[a].terminal = (ev.type \in TerminalEvents)
              BY <4>2, <1>1, PublishRecordsEnd
            <6>3. ~progress'[a].terminal
              BY <4>1, <6>2, Zenon
            <6>4. QED
              BY <6>1, <6>3
          <5>2. resume'[w] < sequence'[w]
            BY <4>1, <4>2, <1>2
          <5>3. QED
            BY <2>1, <3>1, <3>3, <4>1, <5>1, <5>2 DEF PositionOfRun
        <4>3. CASE UNCHANGED <<log, progress>> /\ ev.sequence <= resume[w]
          <5>1. ~progress[a].terminal /\ progress[a].sequence = resume[w]
            BY <3>1, <4>3 DEF Continues
          <5>2. ~(resume'[w] < sequence'[w])
            BY <4>1, <4>3, <1>2
          <5>3. QED
            BY <2>1, <3>1, <3>3, <4>3, <5>1, <5>2 DEF PositionOfRun
        <4>4. QED
          BY <4>2, <4>3, <3>3, <1>3
      <3>4. QED
        BY <3>2, <3>3, <1>5
    <2>2. CASE v # w
      <3>1. Holds(v, b) /\ lock[b] = v
        BY <1>7, <2>2, <1>5 DEF Holds, AttemptOf
      <3>2. progress'[b] = progress[b]
        BY <2>2, <3>1, <1>1, <1>3 DEF Publish, TypeInv, TypeOK
      <3>3. QED
        BY <2>2, <3>1, <3>2, <1>5 DEF RunInv, PositionOfRun
    <2>3. QED
      BY <2>1, <2>2
  <1>8. QED
    BY <1>6, <1>7 DEF RunInv

\* A step that publishes nothing keeps the invariant if every run that holds its lock
\* afterwards stands at the recorded position.
LEMMA SilentKeepsRun ==
    ASSUME RunInv, UNCHANGED <<log, progress>>,
           \A v \in Workers, b \in Attempts : Holds(v, b)' => PositionOfRun(v, b)'
    PROVE  RunInv'
  BY DEF RunInv, LogIsOneRun, PositionOfLog

\* A silent step of one worker concerns the runs of the others only through the locks.
LEMMA OwnStepKeepsRun ==
    ASSUME RunInv, NEW w \in Workers, UNCHANGED <<log, progress>>,
           \A v \in Workers \ {w} : /\ pc'[v] = pc[v] /\ job'[v] = job[v]
                                    /\ resume'[v] = resume[v] /\ sequence'[v] = sequence[v],
           \A b \in Attempts : lock'[b] \in Workers \ {w} => lock[b] = lock'[b],
           \A b \in Attempts : Holds(w, b)' => PositionOfRun(w, b)'
    PROVE  RunInv'
  <1>1. ASSUME NEW v \in Workers, NEW b \in Attempts, Holds(v, b)', v # w
        PROVE  PositionOfRun(v, b)'
    <2>1. Holds(v, b)
      BY <1>1 DEF Holds, AttemptOf
    <2>2. PositionOfRun(v, b)
      BY <2>1 DEF RunInv
    <2>3. QED
      BY <1>1, <2>2 DEF PositionOfRun
  <1>2. QED
    BY <1>1, SilentKeepsRun

\* The events a run emits continue it: the first one, and the one after the last.
LEMMA FirstContinues ==
    ASSUME TypeInv, NEW w \in Workers, NEW a \in Attempts, NEW ev, pc[w] \in {"start", "prompt"},
           lock[a] = w => PositionOfRun(w, a),
           ev.sequence = 0, ev.type \in {"started", "failed"}
    PROVE  Continues(w, a, ev)
  <1>1. resume[w] \in Int /\ (0 > resume[w] => resume[w] = -1)
    BY DEF TypeInv, TypeOK
  <1>2. ev.type \in {ScriptedType(a, ev.sequence), "failed"}
    BY ScriptedTypes
  <1>3. lock[a] = w => ~progress[a].terminal /\ progress[a].sequence = resume[w]
    BY DEF PositionOfRun
  <1>4. QED
    BY <1>1, <1>2, <1>3 DEF Continues

\* The next event of a script goes on where the run stands.
LEMMA NextContinues ==
    ASSUME TypeInv, NEW w \in Workers, NEW a \in Attempts, NEW ev,
           pc[w] \in {"stepping", "failing"},
           lock[a] = w => PositionOfRun(w, a),
           ev.sequence = sequence[w] + 1,
           ev.type \in {ScriptedType(a, sequence[w] + 1), "failed"}
    PROVE  Continues(w, a, ev)
  <1>1. resume[w] \in Int /\ sequence[w] \in Int
    BY DEF TypeInv, TypeOK
  <1>2. lock[a] = w =>
          /\ ~progress[a].terminal
          /\ progress[a].sequence = IF resume[w] < sequence[w] THEN sequence[w] ELSE resume[w]
    BY DEF PositionOfRun
  <1>3. QED
    BY <1>1, <1>2 DEF Continues

\* At first nothing is published and nothing recorded.
LEMMA RunInit == Init => RunInv
  <1> SUFFICES ASSUME Init PROVE RunInv
    OBVIOUS
  <1>1. LogIsOneRun /\ \A a \in Attempts : PositionOfLog(a)
    BY DEF Init, LogIsOneRun, PositionOfLog
  <1>2. \A w \in Workers, a \in Attempts : ~Holds(w, a)
    BY DEF Init, Holds, Busy, Generating
  <1>3. QED
    BY <1>1, <1>2 DEF RunInv

\* flush_delta before a stop or a failure continues the run.
LEMMA FlushKeepsRun ==
    ASSUME TypeInv, RunInv, NEW w \in Workers, pc[w] = "stepping",
           NEW label \in {"release", "failing"},
           FlushShort(w, label) \/ NothingToFlush(w, label),
           UNCHANGED <<lock, job, resume>>
    PROVE  RunInv'
  <1> DEFINE a == AttemptOf(w)
             ev == Event(sequence[w] + 1, ScriptedType(a, sequence[w] + 1), TRUE)
  <1>0. pc[w] \in Busy /\ pc[w] \in Generating /\ a \in Attempts
    BY AttemptOfBusy DEF Busy, Generating, TypeInv
  <1>1. CASE FlushShort(w, label)
    <2>1. ev \in Events /\ ev.sequence = sequence[w] + 1 /\ sequence[w] \in Nat
      BY <1>0, NextEventIsEvent, EventIsEvent DEF Event, TypeInv, TypeOK
    <2>2. ev.type \notin TerminalEvents
      BY <1>1 DEF FlushShort, HasBufferedText, Event, DeltaEvents, TerminalEvents
    <2>3. Continues(w, a, ev)
      <3>1. lock[a] = w => PositionOfRun(w, a)
        BY <1>0 DEF RunInv, Holds
      <3>2. QED
        BY <3>1, <2>1, <1>0, NextContinues DEF Event
    <2>4. QED
      BY <1>0, <1>1, <2>1, <2>2, <2>3, EmitKeepsRun DEF FlushShort, TypeInv, TypeOK
  <1>2. CASE NothingToFlush(w, label)
    <2>1. ASSUME NEW v \in Workers, NEW b \in Attempts, Holds(v, b)'
          PROVE  PositionOfRun(v, b)'
      <3>1. Holds(v, b)
        BY <1>0, <1>2, <2>1 DEF Holds, NothingToFlush, Goto, AttemptOf, TypeInv, TypeOK, Busy
      <3>2. QED
        BY <1>2, <3>1 DEF RunInv, PositionOfRun, NothingToFlush, Goto, TypeInv, TypeOK
    <2>2. QED
      BY <1>2, <2>1, SilentKeepsRun DEF NothingToFlush
  <1>3. QED
    BY <1>1, <1>2

\* One case per action.
LEMMA RunStep ==
    ASSUME TypeInv, RunInv, [Next]_vars
    PROVE  RunInv'
  <1>1. ASSUME NEW w \in Workers, NEW m \in Messages, ReadNew(w, m) PROVE RunInv'
    <2>1. \A b \in Attempts : Holds(w, b)' => PositionOfRun(w, b)'
      BY <1>1 DEF ReadNew, Goto, Holds, AttemptOf, RunInv,
                      PositionOfRun, TypeInv, TypeOK, Busy, Generating, redisVars, runVars
    <2>2. QED
      BY <1>1, <2>1, OwnStepKeepsRun, ConstantsAssumption
      DEF ReadNew, Goto, TypeInv, TypeOK, redisVars, runVars
  <1>2. ASSUME NEW w \in Workers, NEW m \in Messages, ClaimIdle(w, m) PROVE RunInv'
    <2>1. \A b \in Attempts : Holds(w, b)' => PositionOfRun(w, b)'
      BY <1>2 DEF ClaimIdle, Goto, Holds, AttemptOf, RunInv,
                      PositionOfRun, TypeInv, TypeOK, Busy, Generating, redisVars, runVars
    <2>2. QED
      BY <1>2, <2>1, OwnStepKeepsRun, ConstantsAssumption
      DEF ClaimIdle, Goto, TypeInv, TypeOK, redisVars, runVars
  <1>3. ASSUME NEW w \in Workers, TakeLock(w) PROVE RunInv'
    <2>1. \A b \in Attempts : Holds(w, b)' => PositionOfRun(w, b)'
      BY <1>3 DEF TakeLock, Goto, Holds, AttemptOf, RunInv,
                      PositionOfRun, TypeInv, TypeOK, Busy, Generating, redisVars, runVars
    <2>2. QED
      BY <1>3, <2>1, OwnStepKeepsRun, ConstantsAssumption
      DEF TakeLock, Goto, TypeInv, TypeOK, redisVars, runVars
  <1>4. ASSUME NEW w \in Workers, LockUnavailable(w) PROVE RunInv'
    <2>1. \A b \in Attempts : Holds(w, b)' => PositionOfRun(w, b)'
      BY <1>4 DEF LockUnavailable, Leave, Goto, Holds, AttemptOf, RunInv,
                      PositionOfRun, TypeInv, TypeOK, Busy, Generating, redisVars, runVars
    <2>2. QED
      BY <1>4, <2>1, OwnStepKeepsRun, ConstantsAssumption
      DEF LockUnavailable, Leave, Goto, TypeInv, TypeOK, redisVars, runVars
  <1>5. ASSUME NEW w \in Workers, ReadProgress(w) PROVE RunInv'
    <2>1. \A b \in Attempts : Holds(w, b)' => PositionOfRun(w, b)'
      BY <1>5 DEF ReadProgress, Goto, Holds, AttemptOf, RunInv,
                      PositionOfRun, TypeInv, TypeOK, Busy, Generating, redisVars, runVars
    <2>2. QED
      BY <1>5, <2>1, OwnStepKeepsRun, ConstantsAssumption
      DEF ReadProgress, Goto, TypeInv, TypeOK, redisVars, runVars
  <1>6. ASSUME NEW w \in Workers, AcquireLease(w) PROVE RunInv'
    <2>1. \A b \in Attempts : Holds(w, b)' => PositionOfRun(w, b)'
      BY <1>6 DEF AcquireLease, Goto, Holds, AttemptOf, RunInv,
                      PositionOfRun, TypeInv, TypeOK, Busy, Generating, redisVars, runVars
    <2>2. QED
      BY <1>6, <2>1, OwnStepKeepsRun, ConstantsAssumption
      DEF AcquireLease, Goto, TypeInv, TypeOK, redisVars, runVars
  <1>7. ASSUME NEW w \in Workers, ProceedWithoutLease(w) PROVE RunInv'
    <2>1. \A b \in Attempts : Holds(w, b)' => PositionOfRun(w, b)'
      BY <1>7 DEF ProceedWithoutLease, Goto, Holds, AttemptOf, RunInv,
                      PositionOfRun, TypeInv, TypeOK, Busy, Generating, redisVars, runVars
    <2>2. QED
      BY <1>7, <2>1, OwnStepKeepsRun, ConstantsAssumption
      DEF ProceedWithoutLease, Goto, TypeInv, TypeOK, redisVars, runVars
  <1>8. ASSUME NEW w \in Workers, LockLostWaiting(w) PROVE RunInv'
    <2>1. \A b \in Attempts : Holds(w, b)' => PositionOfRun(w, b)'
      BY <1>8 DEF LockLostWaiting, Goto, Holds, AttemptOf, RunInv,
                      PositionOfRun, TypeInv, TypeOK, Busy, Generating, redisVars, runVars
    <2>2. QED
      BY <1>8, <2>1, OwnStepKeepsRun, ConstantsAssumption
      DEF LockLostWaiting, Goto, TypeInv, TypeOK, redisVars, runVars
  <1>9. ASSUME NEW w \in Workers, CheckCancelled(w) PROVE RunInv'
    <2>1. \A b \in Attempts : Holds(w, b)' => PositionOfRun(w, b)'
      BY <1>9 DEF CheckCancelled, Goto, Holds, AttemptOf, RunInv,
                      PositionOfRun, TypeInv, TypeOK, Busy, Generating, redisVars, runVars
    <2>2. QED
      BY <1>9, <2>1, OwnStepKeepsRun, ConstantsAssumption
      DEF CheckCancelled, Goto, TypeInv, TypeOK, redisVars, runVars
  <1>10. ASSUME NEW w \in Workers, ReleaseLease(w) PROVE RunInv'
    <2>1. \A b \in Attempts : Holds(w, b)' => PositionOfRun(w, b)'
      BY <1>10 DEF ReleaseLease, Goto, Holds, AttemptOf, RunInv,
                      PositionOfRun, TypeInv, TypeOK, Busy, Generating, redisVars, runVars
    <2>2. QED
      BY <1>10, <2>1, OwnStepKeepsRun, ConstantsAssumption
      DEF ReleaseLease, Goto, TypeInv, TypeOK, redisVars, runVars
  <1>11. ASSUME NEW w \in Workers, MarkDone(w) PROVE RunInv'
    <2>1. \A b \in Attempts : Holds(w, b)' => PositionOfRun(w, b)'
      BY <1>11 DEF MarkDone, Goto, Holds, AttemptOf, RunInv,
                      PositionOfRun, TypeInv, TypeOK, Busy, Generating, redisVars, runVars
    <2>2. QED
      BY <1>11, <2>1, OwnStepKeepsRun, ConstantsAssumption
      DEF MarkDone, Goto, TypeInv, TypeOK, redisVars, runVars
  <1>12. ASSUME NEW w \in Workers, LockLostFinishing(w) PROVE RunInv'
    <2>1. \A b \in Attempts : Holds(w, b)' => PositionOfRun(w, b)'
      BY <1>12 DEF LockLostFinishing, Goto, Holds, AttemptOf, RunInv,
                      PositionOfRun, TypeInv, TypeOK, Busy, Generating, redisVars, runVars
    <2>2. QED
      BY <1>12, <2>1, OwnStepKeepsRun, ConstantsAssumption
      DEF LockLostFinishing, Goto, TypeInv, TypeOK, redisVars, runVars
  <1>13. ASSUME NEW w \in Workers, Acknowledge(w) PROVE RunInv'
    <2>1. \A b \in Attempts : Holds(w, b)' => PositionOfRun(w, b)'
      BY <1>13 DEF Acknowledge, Leave, Goto, Holds, AttemptOf, RunInv,
                      PositionOfRun, TypeInv, TypeOK, Busy, Generating, redisVars, runVars
    <2>2. QED
      BY <1>13, <2>1, OwnStepKeepsRun, ConstantsAssumption
      DEF Acknowledge, Leave, Goto, TypeInv, TypeOK, redisVars, runVars
  <1>14. ASSUME NEW w \in Workers, GiveBack(w) PROVE RunInv'
    <2>1. \A b \in Attempts : Holds(w, b)' => PositionOfRun(w, b)'
      BY <1>14 DEF GiveBack, Leave, Goto, Holds, AttemptOf, RunInv,
                      PositionOfRun, TypeInv, TypeOK, Busy, Generating, redisVars, runVars
    <2>2. QED
      BY <1>14, <2>1, OwnStepKeepsRun, ConstantsAssumption
      DEF GiveBack, Leave, Goto, TypeInv, TypeOK, redisVars, runVars
  <1>15. ASSUME NEW w \in Workers, CallBreaks(w) PROVE RunInv'
    <2>1. \A b \in Attempts : Holds(w, b)' => PositionOfRun(w, b)'
      BY <1>15 DEF CallBreaks, Goto, Holds, AttemptOf, RunInv,
                      PositionOfRun, TypeInv, TypeOK, Busy, Generating, redisVars, runVars
    <2>2. QED
      BY <1>15, <2>1, OwnStepKeepsRun, ConstantsAssumption
      DEF CallBreaks, Goto, TypeInv, TypeOK, redisVars, runVars
  <1>16. ASSUME NEW w \in Workers, Crash(w) PROVE RunInv'
    <2>1. \A b \in Attempts : Holds(w, b)' => PositionOfRun(w, b)'
      BY <1>16 DEF Crash, Leave, Goto, Holds, AttemptOf, RunInv,
                      PositionOfRun, TypeInv, TypeOK, Busy, Generating, redisVars, runVars
    <2>2. QED
      BY <1>16, <2>1, OwnStepKeepsRun, ConstantsAssumption
      DEF Crash, Leave, Goto, TypeInv, TypeOK, redisVars, runVars
  <1>17. ASSUME NEW w \in Workers, Restart(w) PROVE RunInv'
    <2>1. \A b \in Attempts : Holds(w, b)' => PositionOfRun(w, b)'
      BY <1>17 DEF Restart, Goto, Holds, AttemptOf, RunInv,
                      PositionOfRun, TypeInv, TypeOK, Busy, Generating, redisVars, runVars
    <2>2. QED
      BY <1>17, <2>1, OwnStepKeepsRun, ConstantsAssumption
      DEF Restart, Goto, TypeInv, TypeOK, redisVars, runVars
  <1>18. ASSUME NEW w \in Workers, FailTooLate(w) PROVE RunInv'
    <2> DEFINE a == AttemptOf(w)
               ev == Event(0, "failed", FALSE)
    <2>1. pc[w] = "start" /\ pc[w] \in Generating /\ pc[w] \in Busy /\ a \in Attempts
      BY <1>18, AttemptOfBusy DEF FailTooLate, Generating, Busy, TypeInv
    <2>2. ev \in Events /\ ev.sequence = 0 /\ ev.type = "failed"
      BY EventIsEvent DEF Event, EventTypes, TerminalEvents
    <2>3. Continues(w, a, ev)
      <3>1. lock[a] = w => PositionOfRun(w, a)
        BY <2>1 DEF RunInv, Holds
      <3>2. QED
        BY <2>1, <2>2, <3>1, FirstContinues DEF Event
    <2>4. QED
      BY <1>18, <2>1, <2>2, <2>3, EmitKeepsRun DEF FailTooLate, TerminalEvents, TypeInv, TypeOK, runVars
  <1>19. ASSUME NEW w \in Workers, FailPrompt(w) PROVE RunInv'
    <2> DEFINE a == AttemptOf(w)
               ev == Event(0, "failed", FALSE)
    <2>1. pc[w] = "prompt" /\ pc[w] \in Generating /\ pc[w] \in Busy /\ a \in Attempts
      BY <1>19, AttemptOfBusy DEF FailPrompt, Generating, Busy, TypeInv
    <2>2. ev \in Events /\ ev.sequence = 0 /\ ev.type = "failed"
      BY EventIsEvent DEF Event, EventTypes, TerminalEvents
    <2>3. Continues(w, a, ev)
      <3>1. lock[a] = w => PositionOfRun(w, a)
        BY <2>1 DEF RunInv, Holds
      <3>2. QED
        BY <2>1, <2>2, <3>1, FirstContinues DEF Event
    <2>4. QED
      BY <1>19, <2>1, <2>2, <2>3, EmitKeepsRun DEF FailPrompt, TerminalEvents, TypeInv, TypeOK, runVars
  <1>20. ASSUME NEW w \in Workers, Start(w) PROVE RunInv'
    <2> DEFINE a == AttemptOf(w)
               ev == Event(0, "started", FALSE)
    <2>1. pc[w] = "prompt" /\ pc[w] \in Generating /\ pc[w] \in Busy /\ a \in Attempts
      BY <1>20, AttemptOfBusy DEF Start, Generating, Busy, TypeInv
    <2>2. ev \in Events /\ ev.sequence = 0 /\ ev.type = "started"
      BY EventIsEvent DEF Event, EventTypes, TerminalEvents
    <2>3. Continues(w, a, ev)
      <3>1. lock[a] = w => PositionOfRun(w, a)
        BY <2>1 DEF RunInv, Holds
      <3>2. QED
        BY <2>1, <2>2, <3>1, FirstContinues DEF Event
    <2>4. QED
      BY <1>20, <2>1, <2>2, <2>3, EmitKeepsRun DEF Start, TerminalEvents, TypeInv, TypeOK, runVars
  <1>21. ASSUME NEW w \in Workers, StopOnCancel(w) PROVE RunInv'
    BY <1>21, FlushKeepsRun DEF StopOnCancel
  <1>22. ASSUME NEW w \in Workers, EngineFails(w) PROVE RunInv'
    BY <1>22, FlushKeepsRun DEF EngineFails
  <1>23. ASSUME NEW w \in Workers, Step(w) PROVE RunInv'
    <2> DEFINE a == AttemptOf(w)
               ev == Event(sequence[w] + 1, ScriptedType(a, sequence[w] + 1), FALSE)
    <2>1. pc[w] = "stepping" /\ pc[w] \in Generating /\ pc[w] \in Busy /\ a \in Attempts
      BY <1>23, AttemptOfBusy DEF Step, Generating, Busy, TypeInv
    <2>2. ev \in Events /\ ev.sequence = sequence[w] + 1 /\ ev.type = ScriptedType(a, sequence[w] + 1) /\ sequence[w] \in Nat
      BY <2>1, NextEventIsEvent, EventIsEvent DEF Event, EventTypes, TerminalEvents, TypeInv, TypeOK
    <2>3. Continues(w, a, ev)
      <3>1. lock[a] = w => PositionOfRun(w, a)
        BY <2>1 DEF RunInv, Holds
      <3>2. QED
        BY <2>1, <2>2, <3>1, NextContinues DEF Event
    <2>4. DEFINE label == IF ev.type = "completed" THEN "release" ELSE "stepping"
    <2>5. label # "release" => ev.type \notin TerminalEvents
      BY <2>1, <2>2, NextEventIsEvent, ScriptedTypes DEF TerminalEvents
    <2>6. /\ Emit(w, ev, label)
          /\ sequence'[w] = ev.sequence
          /\ \A v \in Workers \ {w} : sequence'[v] = sequence[v]
          /\ UNCHANGED <<lock, job, resume>>
      BY <1>23, <2>2 DEF Step, TypeInv, TypeOK
    <2>7. label \in {"release", "stepping", "failing"}
      OBVIOUS
    <2>8. QED
      BY <2>1, <2>2, <2>3, <2>5, <2>6, <2>7, EmitKeepsRun
  <1>24. ASSUME NEW w \in Workers, FailEngine(w) PROVE RunInv'
    <2> DEFINE a == AttemptOf(w)
               ev == Event(sequence[w] + 1, "failed", FALSE)
    <2>1. pc[w] = "failing" /\ pc[w] \in Generating /\ pc[w] \in Busy /\ a \in Attempts
      BY <1>24, AttemptOfBusy DEF FailEngine, Generating, Busy, TypeInv
    <2>2. ev \in Events /\ ev.sequence = sequence[w] + 1 /\ ev.type = "failed" /\ sequence[w] \in Nat
      BY <2>1, NextEventIsEvent, EventIsEvent DEF Event, EventTypes, TerminalEvents, TypeInv, TypeOK
    <2>3. Continues(w, a, ev)
      <3>1. lock[a] = w => PositionOfRun(w, a)
        BY <2>1 DEF RunInv, Holds
      <3>2. QED
        BY <2>1, <2>2, <3>1, NextContinues DEF Event
    <2>4. QED
      BY <1>24, <2>1, <2>2, <2>3, EmitKeepsRun DEF FailEngine, TypeInv, TypeOK, runVars
  <1>25. ASSUME NEW m \in Messages, Dispatch(m) PROVE RunInv'
    <2>1. ASSUME NEW v \in Workers, NEW b \in Attempts, Holds(v, b)' PROVE PositionOfRun(v, b)'
      BY <1>25, <2>1, ConstantsAssumption DEF Dispatch, Holds, AttemptOf, RunInv, PositionOfRun, TypeInv, TypeOK,
                      redisVars, runVars
    <2>2. QED
      BY <1>25, <2>1, SilentKeepsRun DEF Dispatch, redisVars
  <1>26. ASSUME NEW a \in Attempts, RequestCancel(a) PROVE RunInv'
    <2>1. ASSUME NEW v \in Workers, NEW b \in Attempts, Holds(v, b)' PROVE PositionOfRun(v, b)'
      BY <1>26, <2>1, ConstantsAssumption DEF RequestCancel, Holds, AttemptOf, RunInv, PositionOfRun, TypeInv, TypeOK,
                      redisVars, runVars
    <2>2. QED
      BY <1>26, <2>1, SilentKeepsRun DEF RequestCancel, redisVars
  <1>27. ASSUME NEW a \in Attempts, LockLapses(a) PROVE RunInv'
    <2>1. ASSUME NEW v \in Workers, NEW b \in Attempts, Holds(v, b)' PROVE PositionOfRun(v, b)'
      BY <1>27, <2>1, ConstantsAssumption DEF LockLapses, Holds, AttemptOf, RunInv, PositionOfRun, TypeInv, TypeOK,
                      redisVars, runVars
    <2>2. QED
      BY <1>27, <2>1, SilentKeepsRun DEF LockLapses, redisVars
  <1>28. ASSUME NEW a \in Attempts, DeadlinePasses(a) PROVE RunInv'
    <2>1. ASSUME NEW v \in Workers, NEW b \in Attempts, Holds(v, b)' PROVE PositionOfRun(v, b)'
      BY <1>28, <2>1, ConstantsAssumption DEF DeadlinePasses, Holds, AttemptOf, RunInv, PositionOfRun, TypeInv, TypeOK,
                      redisVars, runVars
    <2>2. QED
      BY <1>28, <2>1, SilentKeepsRun DEF DeadlinePasses, redisVars
  <1>29. ASSUME NEW a \in Attempts, CancelLapses(a) PROVE RunInv'
    <2>1. UNCHANGED <<log, progress, lock, pc, job, resume, sequence>>
      BY <1>29 DEF CancelLapses, runVars
    <2>2. QED
      BY <2>1, SilentKeepsRun DEF Holds, AttemptOf, RunInv, PositionOfRun
  <1>30. CASE LeaseLapses
    <2>1. ASSUME NEW v \in Workers, NEW b \in Attempts, Holds(v, b)' PROVE PositionOfRun(v, b)'
      BY <1>30, <2>1, ConstantsAssumption DEF LeaseLapses, Holds, AttemptOf, RunInv, PositionOfRun, TypeInv, TypeOK,
                      redisVars, runVars
    <2>2. QED
      BY <1>30, <2>1, SilentKeepsRun DEF LeaseLapses, redisVars
  <1>31. CASE UNCHANGED vars
    BY <1>31 DEF vars, redisVars, runVars, RunInv, LogIsOneRun, PositionOfLog, PositionOfRun, Holds, AttemptOf
  <1> QED
    BY <1>1, <1>2, <1>3, <1>4, <1>5, <1>6, <1>7, <1>8, <1>9, <1>10, <1>11, <1>12, <1>13, <1>14,
       <1>15, <1>16, <1>17, <1>18, <1>19, <1>20, <1>21, <1>22, <1>23, <1>24, <1>25, <1>26, <1>27, <1>28, <1>29, <1>30, <1>31
    DEF Next, WorkerNext, Receive, Process, Generate, Disturbance, ApiNext

\* The events of an attempt form one run of its script, whoever published them and however
\* often the work was taken over.
THEOREM StreamIsOneRun == Spec => []LogIsOneRun
  <1>1. TypeInv /\ RunInv /\ [Next]_vars => RunInv'
    BY RunStep
  <1>2. RunInv => LogIsOneRun
    BY DEF RunInv
  <1>3. QED
    BY TypeInvariant, RunInit, <1>1, <1>2, PTL DEF Spec

---------------------------------------------------------------------------
(***************************************************************************)
(* A finished attempt stays finished.  The step is proved once for every   *)
(* attempt: its lock keeps its value and its stream does not grow.         *)
(***************************************************************************)

DoneStays == \A a \in Attempts : lock[a] = "done" => lock'[a] = "done" /\ log'[a] = log[a]

\* An event is published under the lock of its worker only, which is not "done".
LEMMA EmitKeepsDone ==
    ASSUME TypeInv, NEW w \in Workers, NEW ev, NEW label, Emit(w, ev, label), UNCHANGED lock
    PROVE  DoneStays
  BY ConstantsAssumption DEF Emit, Publish, DoneStays, TypeInv, TypeOK

\* No step turns a done mark into anything else.
LEMMA DoneStep ==
    ASSUME TypeInv, [Next]_vars
    PROVE  DoneStays
  <1>1. ASSUME NEW w \in Workers, Receive(w) PROVE DoneStays
    BY <1>1 DEF Receive, ReadNew, ClaimIdle, DoneStays, redisVars
  <1>2. ASSUME NEW w \in Workers, TakeLock(w) \/ MarkDone(w) \/ GiveBack(w) PROVE DoneStays
    BY <1>2, ConstantsAssumption DEF TakeLock, MarkDone, GiveBack, DoneStays, TypeInv, TypeOK
  <1>3. ASSUME NEW w \in Workers, Process(w), ~(TakeLock(w) \/ MarkDone(w) \/ GiveBack(w))
        PROVE  DoneStays
    BY <1>3 DEF Process, LockUnavailable, ReadProgress, AcquireLease, ProceedWithoutLease,
                LockLostWaiting, ReleaseLease, LockLostFinishing, Acknowledge, DoneStays, redisVars
  <1>4. ASSUME NEW w \in Workers, Generate(w) PROVE DoneStays
    <2>1. CASE CheckCancelled(w)
      BY <2>1 DEF CheckCancelled, DoneStays, redisVars
    <2>2. CASE FailTooLate(w) \/ FailPrompt(w) \/ Start(w) \/ Step(w) \/ FailEngine(w)
      BY <2>2, EmitKeepsDone DEF FailTooLate, FailPrompt, Start, Step, FailEngine
    <2>3. CASE StopOnCancel(w) \/ EngineFails(w)
      BY <2>3, EmitKeepsDone DEF StopOnCancel, EngineFails, FlushShort, NothingToFlush, DoneStays
    <2>4. QED
      BY <1>4, <2>1, <2>2, <2>3 DEF Generate
  <1>5. ASSUME NEW a \in Attempts, LockLapses(a) PROVE DoneStays
    BY <1>5, ConstantsAssumption DEF LockLapses, DoneStays, TypeInv, TypeOK
  <1>6. ASSUME Disturbance, \A a \in Attempts : ~LockLapses(a) PROVE DoneStays
    BY <1>6 DEF Disturbance, CallBreaks, Crash, Restart, DeadlinePasses, CancelLapses, LeaseLapses,
                DoneStays, redisVars
  <1>7. CASE ApiNext
    BY <1>7 DEF ApiNext, Dispatch, RequestCancel, DoneStays
  <1>8. CASE UNCHANGED vars
    BY <1>8 DEF vars, redisVars, DoneStays
  <1>9. QED
    BY <1>1, <1>2, <1>3, <1>4, <1>5, <1>6, <1>7, <1>8 DEF Next, WorkerNext

\* Once an attempt is marked done it stays so and nothing more is published for it.
THEOREM DoneIsFinalHolds == Spec => DoneIsFinal
  <1>1. TypeInv /\ [Next]_vars => [DoneStays]_vars
    BY DoneStep
  <1>2. [DoneStays]_vars =>
          [\A a \in Attempts : lock[a] = "done" => lock'[a] = "done" /\ log'[a] = log[a]]_vars
    BY DEF DoneStays
  <1>3. QED
    BY TypeInvariant, <1>1, <1>2, PTL DEF Spec, DoneIsFinal

---------------------------------------------------------------------------
(***************************************************************************)
(* Only the jobs of finished attempts are acknowledged.  Strengthened by   *)
(* what a worker that is about to acknowledge knows.                       *)
(***************************************************************************)

AckInv ==
    /\ AcknowledgedIsDone
    /\ \A w \in Workers : pc[w] = "ack" => lock[AttemptOf(w)] = "done"

\* A step keeps the invariant if it acknowledges, or makes ready to acknowledge, only jobs
\* of attempts that are done afterwards.
LEMMA QuietKeepsAck ==
    ASSUME TypeInv, AckInv, DoneStays,
           \A m \in Messages : message'[m] = "acked" => message[m] = "acked" \/ lock'[m[1]] = "done",
           \A w \in Workers : pc'[w] = "ack" =>
               (pc[w] = "ack" /\ job'[w] = job[w]) \/ lock'[AttemptOf(w)'] = "done"
    PROVE  AckInv'
  <1>1. \A m \in Messages : m[1] \in Attempts
    BY DEF Messages
  <1>2. \A w \in Workers : pc[w] = "ack" => AttemptOf(w) \in Attempts
    BY AttemptOfBusy DEF TypeInv, Busy
  <1>3. AcknowledgedIsDone'
    BY <1>1 DEF AckInv, AcknowledgedIsDone, DoneStays
  <1>4. ASSUME NEW w \in Workers, pc'[w] = "ack" PROVE lock'[AttemptOf(w)'] = "done"
    BY <1>2, <1>4 DEF AckInv, DoneStays, AttemptOf
  <1>5. QED
    BY <1>3, <1>4 DEF AckInv

\* An emitting worker is not about to acknowledge.
LEMMA EmitKeepsAck ==
    ASSUME TypeInv, NEW w \in Workers, NEW ev, NEW label, label # "ack",
           Emit(w, ev, label) \/ Goto(w, label)
    PROVE  \A v \in Workers : pc'[v] = "ack" => pc[v] = "ack"
  BY DEF Emit, Goto, TypeInv, TypeOK

\* One case per action: who is about to acknowledge has marked the attempt done.
LEMMA AckStep ==
    ASSUME TypeInv, AckInv, [Next]_vars
    PROVE  AckInv'
  <1>0. DoneStays
    BY DoneStep
  <1> USE <1>0, QuietKeepsAck DEF TypeInv, TypeOK
  <1>1. ASSUME NEW w \in Workers, Receive(w) PROVE AckInv'
    BY <1>1 DEF Receive, ReadNew, ClaimIdle, Goto, redisVars
  <1>2. ASSUME NEW w \in Workers, LockUnavailable(w) PROVE AckInv'
    BY <1>2 DEF LockUnavailable, Leave, Goto, AttemptOf
  <1>3. ASSUME NEW w \in Workers, Acknowledge(w) PROVE AckInv'
    BY <1>3 DEF Acknowledge, Leave, Goto, AckInv, AttemptOf
  <1>4. ASSUME NEW w \in Workers, MarkDone(w) PROVE AckInv'
    <2>1. AttemptOf(w) \in Attempts
      BY <1>4, AttemptOfBusy DEF MarkDone, Busy
    <2>2. QED
      BY <1>4, <2>1 DEF MarkDone, Goto, AttemptOf
  <1>5. ASSUME NEW w \in Workers,
               TakeLock(w) \/ ReadProgress(w) \/ AcquireLease(w) \/ ProceedWithoutLease(w)
        PROVE  AckInv'
    BY <1>5 DEF TakeLock, ReadProgress, AcquireLease, ProceedWithoutLease, Goto, redisVars
  <1>6. ASSUME NEW w \in Workers,
               LockLostWaiting(w) \/ ReleaseLease(w) \/ LockLostFinishing(w) \/ GiveBack(w)
        PROVE  AckInv'
    BY <1>6 DEF LockLostWaiting, ReleaseLease, LockLostFinishing, GiveBack, Leave, Goto, redisVars
  <1>7. ASSUME NEW w \in Workers, Generate(w) PROVE AckInv'
    <2>1. \A v \in Workers : pc'[v] = "ack" => pc[v] = "ack"
      BY <1>7, EmitKeepsAck DEF Generate, FailTooLate, CheckCancelled, FailPrompt, Start,
             StopOnCancel, Step, EngineFails, FailEngine, FlushShort, NothingToFlush
    <2>2. UNCHANGED <<message, job>>
      BY <1>7 DEF Generate, FailTooLate, CheckCancelled, FailPrompt, Start, StopOnCancel, Step,
             EngineFails, FailEngine, redisVars
    <2>3. QED
      BY <2>1, <2>2
  <1>8. CASE Disturbance
    BY <1>8 DEF Disturbance, CallBreaks, Crash, Restart, LockLapses, DeadlinePasses, CancelLapses,
                LeaseLapses, Leave, Goto, redisVars
  <1>9. CASE ApiNext
    BY <1>9 DEF ApiNext, Dispatch, RequestCancel
  <1>10. CASE UNCHANGED vars
    BY <1>10 DEF vars, redisVars
  <1>11. QED
    BY <1>1, <1>2, <1>3, <1>4, <1>5, <1>6, <1>7, <1>8, <1>9, <1>10
    DEF Next, WorkerNext, Process

\* An acknowledged job belongs to an attempt that is marked done.
THEOREM AcknowledgedIsDoneHolds == Spec => []AcknowledgedIsDone
  <1>1. Init => AckInv
    BY DEF Init, AckInv, AcknowledgedIsDone
  <1>2. TypeInv /\ AckInv /\ [Next]_vars => AckInv'
    BY AckStep
  <1>3. AckInv => AcknowledgedIsDone
    BY DEF AckInv
  <1>4. QED
    BY TypeInvariant, <1>1, <1>2, <1>3, PTL DEF Spec

---------------------------------------------------------------------------
(***************************************************************************)
(* The keys of a worker that works under them end by its own step or by    *)
(* their time to live: no step of another one removes them.                *)
(***************************************************************************)

LockEndsByOwner ==
    \A a \in Attempts, w \in Workers :
        (Holds(w, a) /\ lock'[a] # w) => pc'[w] # pc[w] \/ faults' # faults

LeaseEndsByOwner ==
    \A w \in Workers :
        (leased[w] /\ pool = <<w, AttemptOf(w)>> /\ pool' # pool) =>
            pc'[w] # pc[w] \/ pc' = pc

\* A step that touches no lock ends none.
LEMMA SameLockKept == ASSUME UNCHANGED lock PROVE LockEndsByOwner
  BY DEF LockEndsByOwner, Holds

\* Nor one that leaves the lease alone.
LEMMA SameLeaseKept == ASSUME UNCHANGED pool PROVE LeaseEndsByOwner
  BY DEF LeaseEndsByOwner

\* Generating events changes neither key.
LEMMA GenerateKeepsKeys ==
    ASSUME NEW w \in Workers, Generate(w)
    PROVE  UNCHANGED <<lock, pool>>
  BY DEF Generate, FailTooLate, CheckCancelled, FailPrompt, Start, StopOnCancel, Step,
         EngineFails, FailEngine, redisVars

\* The lock: taken when it is free, marked done and given back by the one that holds it.
LEMMA LockStep ==
    ASSUME TypeInv, [Next]_vars
    PROVE  LockEndsByOwner
  <1>1. ASSUME NEW w \in Workers, Receive(w) PROVE UNCHANGED lock
    BY <1>1 DEF Receive, ReadNew, ClaimIdle, redisVars
  <1>2. ASSUME NEW w \in Workers, TakeLock(w) PROVE LockEndsByOwner
    BY <1>2, ConstantsAssumption DEF TakeLock, LockEndsByOwner, Holds, TypeInv, TypeOK
  <1>3. ASSUME NEW w \in Workers, MarkDone(w) PROVE LockEndsByOwner
    BY <1>3 DEF MarkDone, Goto, LockEndsByOwner, Holds, TypeInv, TypeOK
  <1>4. ASSUME NEW w \in Workers, GiveBack(w) PROVE LockEndsByOwner
    BY <1>4 DEF GiveBack, Leave, Goto, LockEndsByOwner, Holds, TypeInv, TypeOK
  <1>5. ASSUME NEW w \in Workers, Process(w), ~(TakeLock(w) \/ MarkDone(w) \/ GiveBack(w))
        PROVE  UNCHANGED lock
    BY <1>5 DEF Process, LockUnavailable, ReadProgress, AcquireLease, ProceedWithoutLease,
                LockLostWaiting, ReleaseLease, LockLostFinishing, Acknowledge, redisVars
  <1>6. ASSUME NEW a \in Attempts, LockLapses(a) PROVE LockEndsByOwner
    BY <1>6 DEF LockLapses, Fault, LockEndsByOwner, Holds, TypeInv, TypeOK
  <1>7. ASSUME Disturbance, \A a \in Attempts : ~LockLapses(a) PROVE UNCHANGED lock
    BY <1>7 DEF Disturbance, CallBreaks, Crash, Restart, DeadlinePasses, CancelLapses, LeaseLapses,
                redisVars
  <1>8. CASE ApiNext
    BY <1>8, SameLockKept DEF ApiNext, Dispatch, RequestCancel
  <1>9. CASE UNCHANGED vars
    BY <1>9, SameLockKept DEF vars, redisVars
  <1>10. QED
    BY <1>1, <1>2, <1>3, <1>4, <1>5, <1>6, <1>7, <1>8, <1>9, SameLockKept, GenerateKeepsKeys
    DEF Next, WorkerNext

\* The lease: taken when nobody has it, released by the one that has it; it lapses while
\* no worker moves.
LEMMA LeaseStep ==
    ASSUME TypeInv, [Next]_vars
    PROVE  LeaseEndsByOwner
  <1>1. ASSUME NEW w \in Workers, Receive(w) PROVE UNCHANGED pool
    BY <1>1 DEF Receive, ReadNew, ClaimIdle, redisVars
  <1>2. ASSUME pool = NoOwner PROVE LeaseEndsByOwner
    BY <1>2 DEF NoOwner, LeaseEndsByOwner
  <1>3. ASSUME NEW w \in Workers, AcquireLease(w) \/ CallBreaks(w) PROVE LeaseEndsByOwner
    BY <1>2, <1>3, SameLeaseKept DEF AcquireLease, CallBreaks
  <1>4. ASSUME NEW w \in Workers, ReleaseLease(w) PROVE LeaseEndsByOwner
    <2>1. pc'[w] # pc[w]
      BY <1>4 DEF ReleaseLease, Goto, TypeInv, TypeOK
    <2>2. CASE pool = <<w, AttemptOf(w)>>
      BY <2>1, <2>2 DEF LeaseEndsByOwner
    <2>3. CASE pool # <<w, AttemptOf(w)>>
      BY <1>4, <2>3, SameLeaseKept DEF ReleaseLease
    <2>4. QED
      BY <2>2, <2>3
  <1>5. ASSUME NEW w \in Workers, Process(w), ~(AcquireLease(w) \/ ReleaseLease(w))
        PROVE  UNCHANGED pool
    BY <1>5 DEF Process, TakeLock, LockUnavailable, ReadProgress, ProceedWithoutLease,
                LockLostWaiting, MarkDone, LockLostFinishing, Acknowledge, GiveBack, redisVars
  <1>6. CASE LeaseLapses
    BY <1>6 DEF LeaseLapses, LeaseEndsByOwner
  <1>7. ASSUME Disturbance, ~LeaseLapses, \A w \in Workers : ~CallBreaks(w) PROVE UNCHANGED pool
    BY <1>7 DEF Disturbance, Crash, Restart, LockLapses, DeadlinePasses, CancelLapses, redisVars
  <1>8. CASE ApiNext
    BY <1>8, SameLeaseKept DEF ApiNext, Dispatch, RequestCancel
  <1>9. CASE UNCHANGED vars
    BY <1>9, SameLeaseKept DEF vars, redisVars
  <1>10. QED
    BY <1>1, <1>3, <1>4, <1>5, <1>6, <1>7, <1>8, <1>9, SameLeaseKept, GenerateKeepsKeys
    DEF Next, WorkerNext

\* No worker takes away the lock or the GPU lease of another one that still works under it.
THEOREM KeysEndByOwnerHolds == Spec => KeysEndByOwner
  <1>1. TypeInv /\ [Next]_vars => [LockEndsByOwner /\ LeaseEndsByOwner]_vars
    BY LockStep, LeaseStep
  <1>2. [LockEndsByOwner /\ LeaseEndsByOwner]_vars =>
          [/\ \A a \in Attempts, w \in Workers :
                (Holds(w, a) /\ lock'[a] # w) => pc'[w] # pc[w] \/ faults' # faults
           /\ \A w \in Workers :
                (leased[w] /\ pool = <<w, AttemptOf(w)>> /\ pool' # pool) =>
                    pc'[w] # pc[w] \/ pc' = pc]_vars
    BY DEF LockEndsByOwner, LeaseEndsByOwner
  <1>3. QED
    BY TypeInvariant, <1>1, <1>2, PTL DEF Spec, KeysEndByOwner
=============================================================================
