---------------------------- MODULE ThreadStoreProofs ----------------------------
(***************************************************************************)
(* Admission, the unique indexes and the conversation of ThreadStore, for  *)
(* any number of callers, principals, threads and executions and any       *)
(* limits.                                                                 *)
(*                                                                         *)
(* Admission counts rows that are there before the row it admits is; the   *)
(* indexes are about rows a call looked at some time before it writes.     *)
(* Both hold because of what the locks keep still in between.  What runs,  *)
(* and what its answerer is given, follows from what may then be added to  *)
(* a thread, in whatever order the calls began.                            *)
(***************************************************************************)
EXTENDS ThreadStore, DataInduction, FiniteSetTheorems, SequenceTheorems, TLAPS

\* Rows, without the bounds of ThreadStore. What is in a context matters for the last part only.
RequestRows(contexts) ==
    [thread : Nat, kind : Kinds, input : Nat, from : Nat, context : contexts, seen : Nat,
     status : Statuses]
ExecutionRows == [request : Nat, key : Keys \cup {NoKey}, result : Nat, status : Statuses]
EntryRows == [thread : Nat, author : {"requester", "answerer"}, request : Nat]
CallRows ==
    [phase : {"idle", "begun", "locked", "admitted"},
     op : {"none", "create", "append", "regenerate", "retry"},
     thread : Nat, request : Nat, kind : Kinds, key : Keys \cup {NoKey}, seen : Nat]

RowInv ==
    /\ threads \in Seq(ThreadModel) /\ entries \in Seq(EntryRows)
    /\ \E contexts : requests \in Seq(RequestRows(contexts))
    /\ executions \in Seq(ExecutionRows)
    /\ \A r \in DOMAIN requests : requests[r].thread \in DOMAIN threads
    /\ \A e \in DOMAIN executions : executions[e].request \in DOMAIN requests

\* A call is about a thread of its principal, and about a request of that thread, which was
\* there when its transaction began.
WellAimed(k, principal) ==
    /\ k.op \in {"create", "append", "regenerate", "retry"}
    /\ k.op = "create" => k.thread = None
    /\ k.op # "create" => k.thread \in DOMAIN threads /\ threads[k.thread].owner = principal
    /\ k.op \in {"regenerate", "retry"} =>
          /\ k.request \in DOMAIN requests
          /\ requests[k.request].thread = k.thread /\ requests[k.request].kind = k.kind
    /\ k.op = "regenerate" => k.request <= k.seen

CallInv ==
    /\ call \in [Callers -> CallRows]
    /\ \A c \in Callers : call[c].phase # "idle" => WellAimed(call[c], PrincipalOf[c])

ShapeInv == RowInv /\ CallInv


---------------------------------------------------------------------------
(* What a step does to the rows *)

LEMMA RowFacts ==
    ASSUME RowInv
    PROVE  /\ Len(threads) \in Nat /\ DOMAIN threads = 1..Len(threads)
           /\ Len(entries) \in Nat
           /\ Len(requests) \in Nat /\ DOMAIN requests = 1..Len(requests)
           /\ Len(executions) \in Nat /\ DOMAIN executions = 1..Len(executions)
           /\ \A r \in DOMAIN requests :
                 /\ requests[r].thread \in Nat /\ requests[r].kind \in Kinds
                 /\ requests[r].from \in Nat /\ requests[r].seen \in Nat
                 /\ requests[r].input \in Nat /\ requests[r].status \in Statuses
           /\ \A e \in DOMAIN executions :
                 executions[e] \in ExecutionRows
  <1>1. PICK contexts : requests \in Seq(RequestRows(contexts))
    BY DEF RowInv
  <1>2. \A r \in DOMAIN requests : requests[r] \in RequestRows(contexts)
    BY <1>1
  <1>3. \A e \in DOMAIN executions : executions[e] \in ExecutionRows
    BY DEF RowInv
  <1>4. threads \in Seq(ThreadModel) /\ entries \in Seq(EntryRows)
        /\ executions \in Seq(ExecutionRows)
    BY DEF RowInv
  <1> QED
    BY <1>1, <1>2, <1>3, <1>4 DEF RequestRows

\* One request and its first execution are added, and nothing else of them changes.
Adds(th, kind, from) ==
    LET n == Len(requests) + 1 IN
    /\ DOMAIN requests' = DOMAIN requests \cup {n}
    /\ \A r \in DOMAIN requests : requests'[r] = requests[r]
    /\ requests'[n].thread = th /\ requests'[n].kind = kind /\ requests'[n].from = from
    /\ requests'[n].status = "queued"
    /\ DOMAIN executions' = DOMAIN executions \cup {Len(executions) + 1}
    /\ \A e \in DOMAIN executions : executions'[e] = executions[e]
    /\ executions'[Len(executions) + 1].request = n
    /\ executions'[Len(executions) + 1].status = "queued"
    /\ executions'[Len(executions) + 1].key = NoKey

LEMMA AddedRows ==
    ASSUME ShapeInv, NEW c \in Callers, NEW th \in DOMAIN threads', NEW input \in Nat,
           NEW from \in Nat, NEW context,
           AddRequest(c, th, input, from, context),
           threads' \in Seq(ThreadModel), DOMAIN threads \subseteq DOMAIN threads',
           entries' \in Seq(EntryRows)
    PROVE  RowInv' /\ Adds(th, call[c].kind, from)
  <1> DEFINE row == [thread |-> th, kind |-> call[c].kind, input |-> input, from |-> from,
                     context |-> context, seen |-> call[c].seen, status |-> "queued"]
             execution == [request |-> Len(requests) + 1, key |-> NoKey, result |-> None,
                           status |-> "queued"]
  <1>1. PICK contexts : requests \in Seq(RequestRows(contexts))
    BY DEF ShapeInv, RowInv
  <1>2. DOMAIN threads' \subseteq Nat
    BY DEF ThreadModel
  <1>3. requests \in Seq(RequestRows(contexts \cup {context}))
    <2>1. RequestRows(contexts) \subseteq RequestRows(contexts \cup {context})
      BY DEF RequestRows
    <2> QED
      BY <1>1, <2>1, SeqMonotonic
  <1>4. row \in RequestRows(contexts \cup {context})
    BY <1>2 DEF RequestRows, ShapeInv, CallInv, CallRows, Statuses, ActiveStatuses
  <1>5. execution \in ExecutionRows /\ executions \in Seq(ExecutionRows)
    BY <1>1 DEF ShapeInv, RowInv, ExecutionRows, None, Statuses, ActiveStatuses
  <1>6. requests' = Append(requests, row) /\ executions' = Append(executions, execution)
    BY DEF AddRequest
  <1> HIDE DEF row, execution
  <1>7. /\ requests' \in Seq(RequestRows(contexts \cup {context}))
        /\ Len(requests) \in Nat
        /\ DOMAIN requests = 1..Len(requests) /\ DOMAIN requests' = 1..(Len(requests) + 1)
        /\ \A r \in 1..Len(requests) : requests'[r] = requests[r]
        /\ requests'[Len(requests) + 1] = row
    BY <1>3, <1>4, <1>6
  <1>8. /\ executions' \in Seq(ExecutionRows)
        /\ Len(executions) \in Nat
        /\ DOMAIN executions = 1..Len(executions)
        /\ DOMAIN executions' = 1..(Len(executions) + 1)
        /\ \A e \in 1..Len(executions) : executions'[e] = executions[e]
        /\ executions'[Len(executions) + 1] = execution
    BY <1>5, <1>6
  <1>9. Adds(th, call[c].kind, from)
    BY <1>7, <1>8 DEF Adds, row, execution
  <1>10. \A r \in DOMAIN requests' : requests'[r].thread \in DOMAIN threads'
    BY <1>7 DEF row, ShapeInv, RowInv
  <1>11. \A e \in DOMAIN executions' : executions'[e].request \in DOMAIN requests'
    <2>1. \A e \in 1..Len(executions) : executions'[e].request \in 1..Len(requests)
      BY <1>7, <1>8 DEF ShapeInv, RowInv
    <2>2. executions'[Len(executions) + 1].request = Len(requests) + 1
      BY <1>8 DEF execution
    <2> QED
      BY <2>1, <2>2, <1>7, <1>8
  <1> QED
    BY <1>7, <1>8, <1>9, <1>10, <1>11 DEF RowInv

\* Execution e moves, and its request with it.
Moves(e, to) ==
    /\ DOMAIN requests' = DOMAIN requests
    /\ \A r \in DOMAIN requests :
          /\ requests'[r].thread = requests[r].thread /\ requests'[r].kind = requests[r].kind
          /\ requests'[r].from = requests[r].from
          /\ requests'[r].status = IF r = executions[e].request THEN to ELSE requests[r].status
    /\ DOMAIN executions' = DOMAIN executions
    /\ \A x \in DOMAIN executions :
          /\ executions'[x].request = executions[x].request
          /\ executions'[x].key = executions[x].key
          /\ executions'[x].status = IF x = e THEN to ELSE executions[x].status

LEMMA MovedRows ==
    ASSUME ShapeInv, NEW e \in DOMAIN executions, NEW from, NEW to \in Statuses,
           Move(e, from, to), LeaveNothing(e, to) \/ LeaveAnswer(e, to)
    PROVE  RowInv' /\ Moves(e, to)
  <1>1. PICK contexts : requests \in Seq(RequestRows(contexts))
    BY DEF ShapeInv, RowInv
  <1>2. executions[e].request \in DOMAIN requests
    BY DEF ShapeInv, RowInv
  <1>3. /\ requests' \in Seq(RequestRows(contexts)) /\ DOMAIN requests' = DOMAIN requests
        /\ \A r \in DOMAIN requests :
              requests'[r] = IF r = executions[e].request THEN [requests[r] EXCEPT !.status = to]
                             ELSE requests[r]
    <2>1. requests' = [requests EXCEPT ![executions[e].request].status = to]
      BY DEF Move
    <2>2. [requests[executions[e].request] EXCEPT !.status = to] \in RequestRows(contexts)
      <3>1. requests[executions[e].request] \in RequestRows(contexts)
        BY <1>1, <1>2
      <3> QED
        BY <3>1 DEF RequestRows
    <2> QED
      BY <1>1, <1>2, <2>1, <2>2
  <1>4. \A r \in DOMAIN requests :
           /\ requests'[r].thread = requests[r].thread /\ requests'[r].kind = requests[r].kind
           /\ requests'[r].from = requests[r].from
           /\ requests'[r].status = IF r = executions[e].request THEN to ELSE requests[r].status
    <2>1. \A r \in DOMAIN requests : requests[r] \in RequestRows(contexts)
      BY <1>1
    <2> QED
      BY <1>3, <2>1 DEF RequestRows
  <1>5. /\ executions \in Seq(ExecutionRows) /\ Len(entries) \in Nat
        /\ \A x \in DOMAIN executions : executions[x] \in ExecutionRows
    BY DEF ShapeInv, RowInv
  <1>6. PICK result \in Nat :
           executions' = [executions EXCEPT ![e] =
                             [executions[e] EXCEPT !.status = to, !.result = result]]
    <2>1. CASE LeaveNothing(e, to)
      <3>1. executions[e].result \in Nat
        BY <1>5 DEF ExecutionRows
      <3>2. [executions[e] EXCEPT !.status = to]
              = [executions[e] EXCEPT !.status = to, !.result = executions[e].result]
        BY <1>5 DEF ExecutionRows
      <3>3. executions' = [executions EXCEPT ![e] = [executions[e] EXCEPT !.status = to]]
        BY <2>1 DEF LeaveNothing
      <3> QED
        BY <3>1, <3>2, <3>3
    <2>2. CASE LeaveAnswer(e, to)
      <3>1. executions' = [executions EXCEPT ![e] = [executions[e] EXCEPT !.status = to,
                                                             !.result = Len(entries) + 1]]
        BY <2>2 DEF LeaveAnswer
      <3>2. Len(entries) + 1 \in Nat
        BY <1>5
      <3> QED
        BY <3>1, <3>2, Zenon
    <2> QED
      BY <2>1, <2>2
  <1>7. /\ executions' \in Seq(ExecutionRows) /\ DOMAIN executions' = DOMAIN executions
        /\ \A x \in DOMAIN executions :
              /\ executions'[x].request = executions[x].request
              /\ executions'[x].key = executions[x].key
              /\ executions'[x].status = IF x = e THEN to ELSE executions[x].status
    <2>1. [executions[e] EXCEPT !.status = to, !.result = result] \in ExecutionRows
      BY <1>5 DEF ExecutionRows
    <2>2. /\ executions' \in Seq(ExecutionRows) /\ DOMAIN executions' = DOMAIN executions
          /\ \A x \in DOMAIN executions :
                executions'[x] = IF x = e
                                 THEN [executions[e] EXCEPT !.status = to, !.result = result]
                                 ELSE executions[x]
      BY <1>5, <1>6, <2>1
    <2> QED
      BY <1>5, <2>2 DEF ExecutionRows
  <1>8. entries' \in Seq(EntryRows)
    <2>1. CASE LeaveNothing(e, to)
      BY <2>1 DEF LeaveNothing, ShapeInv, RowInv
    <2>2. CASE LeaveAnswer(e, to)
      <3>0. ThreadOf(e) \in Nat /\ executions[e].request \in Nat
        BY <1>1, <1>2, <1>5, RowFacts DEF ThreadOf, ShapeInv
      <3>1. [thread |-> ThreadOf(e), author |-> "answerer", request |-> executions[e].request]
              \in EntryRows
        BY <3>0 DEF EntryRows
      <3> QED
        BY <2>2, <3>1 DEF LeaveAnswer, ShapeInv, RowInv
    <2> QED
      BY <2>1, <2>2
  <1>9. threads' = threads
    BY DEF Move
  <1>10. RowInv'
    BY <1>3, <1>4, <1>7, <1>8, <1>9 DEF RowInv, ShapeInv
  <1> QED
    BY <1>3, <1>4, <1>7, <1>10 DEF Moves

\* A request is queued again, with one more execution.
Repeats(r, key) ==
    LET n == Len(executions) + 1 IN
    /\ DOMAIN requests' = DOMAIN requests
    /\ \A o \in DOMAIN requests :
          /\ requests'[o].thread = requests[o].thread /\ requests'[o].kind = requests[o].kind
          /\ requests'[o].from = requests[o].from
          /\ requests'[o].status = IF o = r THEN "queued" ELSE requests[o].status
    /\ DOMAIN executions' = DOMAIN executions \cup {n}
    /\ \A e \in DOMAIN executions : executions'[e] = executions[e]
    /\ executions'[n].request = r /\ executions'[n].status = "queued"
    /\ executions'[n].key = key

LEMMA RepeatedRows ==
    ASSUME ShapeInv, NEW c \in Callers, CommitRetry(c)
    PROVE  RowInv' /\ Repeats(call[c].request, call[c].key)
  <1> DEFINE r == call[c].request
             execution == [request |-> r, key |-> call[c].key, result |-> None,
                           status |-> "queued"]
  <1>1. PICK contexts : requests \in Seq(RequestRows(contexts))
    BY DEF ShapeInv, RowInv
  <1>2. call[c] \in CallRows /\ r \in DOMAIN requests
    BY DEF ShapeInv, CallInv, CommitRetry, Done, Ready, WellAimed
  <1>3. "queued" \in Statuses
    BY DEF Statuses, ActiveStatuses
  <1>4. \A o \in DOMAIN requests : requests[o] \in RequestRows(contexts)
    BY <1>1
  <1>5. /\ requests' \in Seq(RequestRows(contexts)) /\ DOMAIN requests' = DOMAIN requests
        /\ \A o \in DOMAIN requests :
              requests'[o] = IF o = r THEN [requests[o] EXCEPT !.status = "queued"]
                             ELSE requests[o]
    <2>1. requests' = [requests EXCEPT ![r].status = "queued"]
      BY DEF CommitRetry
    <2>2. requests[r] \in RequestRows(contexts)
      BY <1>2, <1>4
    <2>3. [requests[r] EXCEPT !.status = "queued"] \in RequestRows(contexts)
      BY <1>3, <2>2 DEF RequestRows
    <2> QED
      BY <1>1, <1>2, <2>1, <2>3
  <1>6. \A o \in DOMAIN requests :
           /\ requests'[o].thread = requests[o].thread /\ requests'[o].kind = requests[o].kind
           /\ requests'[o].from = requests[o].from
           /\ requests'[o].status = IF o = r THEN "queued" ELSE requests[o].status
    BY <1>4, <1>5 DEF RequestRows
  <1>7. executions \in Seq(ExecutionRows) /\ execution \in ExecutionRows
    BY <1>1, <1>2, <1>3 DEF ShapeInv, RowInv, ExecutionRows, CallRows, None
  <1>8. executions' = Append(executions, execution)
    BY DEF CommitRetry
  <1> HIDE DEF execution
  <1>9. /\ executions' \in Seq(ExecutionRows)
        /\ DOMAIN executions = 1..Len(executions) /\ Len(executions) \in Nat
        /\ DOMAIN executions' = 1..(Len(executions) + 1)
        /\ \A e \in 1..Len(executions) : executions'[e] = executions[e]
        /\ executions'[Len(executions) + 1] = execution
    BY <1>7, <1>8
  <1>10. DOMAIN executions' = DOMAIN executions \cup {Len(executions) + 1}
    BY <1>9
  <1>11. Repeats(r, call[c].key)
    BY <1>5, <1>6, <1>9, <1>10 DEF Repeats, execution
  <1>12. \A e \in DOMAIN executions' : executions'[e].request \in DOMAIN requests'
    <2>1. \A e \in 1..Len(executions) : executions'[e].request \in DOMAIN requests
      BY <1>9 DEF ShapeInv, RowInv
    <2>2. executions'[Len(executions) + 1].request = r
      BY <1>9 DEF execution
    <2> QED
      BY <2>1, <2>2, <1>2, <1>5, <1>9
  <1>13. threads' = threads /\ entries' = entries
    BY DEF CommitRetry
  <1> QED
    BY <1>5, <1>6, <1>9, <1>11, <1>12, <1>13 DEF RowInv, ShapeInv

---------------------------------------------------------------------------
(* Calls *)

LEMMA CallsAreAimed ==
    ASSUME ShapeInv, NEW c \in Callers, NEW k \in Calls(c)
    PROVE  k \in CallRows /\ k.phase = "begun" /\ WellAimed(k, PrincipalOf[c])
  <1> DEFINE mine == {th \in DOMAIN threads : Owned(c, th)}
             asked == {r \in DOMAIN requests : requests[r].thread \in mine}
  <1>1. Len(requests) \in Nat /\ DOMAIN requests \subseteq Nat /\ DOMAIN threads \subseteq Nat
        /\ \A r \in DOMAIN requests : r <= Len(requests) /\ requests[r].kind \in Kinds /\ requests[r].thread \in Nat
    BY RowFacts DEF ShapeInv
  <1>2. CASE \E kind \in Kinds : k = ACall("create", None, None, kind, NoKey)
    BY <1>1, <1>2 DEF ACall, CallRows, WellAimed, None
  <1>3. CASE \E th \in mine, kind \in Kinds : k = ACall("append", th, None, kind, NoKey)
    BY <1>1, <1>3 DEF ACall, CallRows, WellAimed, None, Owned
  <1>4. CASE \E r \in asked :
              k = ACall("regenerate", requests[r].thread, r, requests[r].kind, NoKey)
    BY <1>1, <1>4 DEF ACall, CallRows, WellAimed, Owned
  <1>5. CASE \E r \in asked, key \in Keys :
              k = ACall("retry", requests[r].thread, r, requests[r].kind, key)
    BY <1>1, <1>5 DEF ACall, CallRows, WellAimed, Owned
  <1>6. \/ k \in {ACall("create", None, None, kind, NoKey) : kind \in {x \in Kinds : MayAsk(c, x)}}
        \/ k \in {ACall("append", th, None, kind, NoKey) :
                       th \in mine, kind \in {x \in Kinds : MayAsk(c, x)}}
        \/ k \in {ACall("regenerate", requests[r].thread, r, requests[r].kind, NoKey) : r \in asked}
        \/ k \in {ACall("retry", requests[r].thread, r, requests[r].kind, key) :
                       r \in asked, key \in Keys}
    BY DEF Calls
  <1>7. CASE k \in {ACall("create", None, None, kind, NoKey) : kind \in {x \in Kinds : MayAsk(c, x)}}
    BY <1>7, <1>2
  <1>8. CASE k \in {ACall("append", th, None, kind, NoKey) :
                        th \in mine, kind \in {x \in Kinds : MayAsk(c, x)}}
    BY <1>8, <1>3
  <1>9. CASE k \in {ACall("regenerate", requests[r].thread, r, requests[r].kind, NoKey) : r \in asked}
    BY <1>9, <1>4
  <1>10. CASE k \in {ACall("retry", requests[r].thread, r, requests[r].kind, key) :
                         r \in asked, key \in Keys}
    BY <1>10, <1>5
  <1> QED
    BY <1>6, <1>7, <1>8, <1>9, <1>10

\* What was said of the rows a call is about stays true: threads keep their owners, and
\* requests their threads and kinds.
RowsKept ==
    /\ DOMAIN threads \subseteq DOMAIN threads'
    /\ \A th \in DOMAIN threads : threads'[th].owner = threads[th].owner
    /\ DOMAIN requests \subseteq DOMAIN requests'
    /\ \A r \in DOMAIN requests :
          requests'[r].thread = requests[r].thread /\ requests'[r].kind = requests[r].kind

LEMMA CallsKept ==
    ASSUME ShapeInv, RowsKept, call' \in [Callers -> CallRows],
           \A c \in Callers : \/ call'[c].phase = "idle"
                              \/ WellAimed(call'[c], PrincipalOf[c])
    PROVE  CallInv'
  BY DEF ShapeInv, RowInv, RowsKept, CallInv, WellAimed

\* Beginning, locking, admission and giving up touch no row.
CallSteps(c) == Begin(c) \/ LockThread(c) \/ Admit(c) \/ GiveUp(c)

LEMMA CallStepShape ==
    ASSUME ShapeInv, NEW c \in Callers, CallSteps(c)
    PROVE  ShapeInv' /\ RowsKept
  <1>1. UNCHANGED <<threads, entries, requests, executions>>
    BY DEF CallSteps, Begin, LockThread, Admit, GiveUp
  <1>2. RowInv' /\ RowsKept
    BY <1>1 DEF ShapeInv, RowInv, RowsKept
  <1>3. PICK k \in CallRows :
           /\ call' = [call EXCEPT ![c] = k]
           /\ k.phase = "idle" \/ WellAimed(k, PrincipalOf[c])
    <2>1. CASE Begin(c)
      <3>1. PICK k \in Calls(c) : call' = [call EXCEPT ![c] = k]
        BY <2>1 DEF Begin
      <3> QED
        BY <3>1, CallsAreAimed
    <2>2. CASE LockThread(c)
      <3>1. call' = [call EXCEPT ![c] = [call[c] EXCEPT !.phase = "locked"]]
        BY <2>2 DEF LockThread
      <3>2. call[c] \in CallRows /\ WellAimed(call[c], PrincipalOf[c])
        BY <2>2 DEF LockThread, ShapeInv, CallInv
      <3>3. [call[c] EXCEPT !.phase = "locked"] \in CallRows
        BY <3>2 DEF CallRows
      <3>4. WellAimed([call[c] EXCEPT !.phase = "locked"], PrincipalOf[c])
        BY <3>2 DEF WellAimed, CallRows
      <3> QED
        BY <3>1, <3>3, <3>4
    <2>3. CASE Admit(c)
      <3>1. call' = [call EXCEPT ![c] = [call[c] EXCEPT !.phase = "admitted"]]
        BY <2>3 DEF Admit
      <3>2. call[c] \in CallRows /\ WellAimed(call[c], PrincipalOf[c])
        BY <2>3 DEF Admit, ShapeInv, CallInv
      <3>3. [call[c] EXCEPT !.phase = "admitted"] \in CallRows
        BY <3>2 DEF CallRows
      <3>4. WellAimed([call[c] EXCEPT !.phase = "admitted"], PrincipalOf[c])
        BY <3>2 DEF WellAimed, CallRows
      <3> QED
        BY <3>1, <3>3, <3>4
    <2>4. CASE GiveUp(c)
      <3>1. Idle \in CallRows /\ Idle.phase = "idle"
        BY DEF Idle, CallRows, Kinds, None
      <3> QED
        BY <2>4, <3>1 DEF GiveUp
    <2> QED
      BY <2>1, <2>2, <2>3, <2>4 DEF CallSteps
  <1>4. call' \in [Callers -> CallRows]
    BY <1>3 DEF ShapeInv, CallInv
  <1>5. \A o \in Callers : call'[o].phase = "idle" \/ WellAimed(call'[o], PrincipalOf[o])
    BY <1>3 DEF ShapeInv, CallInv
  <1> QED
    BY <1>2, <1>4, <1>5, CallsKept DEF ShapeInv

\* A call that has ended leaves the others as they were.
LEMMA DoneCalls ==
    ASSUME ShapeInv, NEW c \in Callers, Done(c)
    PROVE  /\ call' \in [Callers -> CallRows]
           /\ call'[c].phase = "idle"
           /\ \A o \in Callers \ {c} : call'[o] = call[o]
           /\ \A o \in Callers : call'[o].phase = "idle" \/ WellAimed(call'[o], PrincipalOf[o])
           /\ call[c] \in CallRows /\ WellAimed(call[c], PrincipalOf[c])
           /\ IndexesAllow(call[c])
           /\ call[c].phase = "admitted" \/ (call[c].phase = "locked" /\ call[c].kind = "human")
  <1>1. Idle \in CallRows
    BY DEF Idle, CallRows, Kinds, None
  <1>2. call[c].phase # "idle"
    BY DEF Done, Ready
  <1> QED
    BY <1>1, <1>2 DEF Done, Ready, ShapeInv, CallInv, Idle

\* The three ways to add a request, and what they add.
Commits(c) == CommitCreate(c) \/ CommitAppend(c) \/ CommitRegenerate(c)

ItsThread(c) == IF call[c].op = "create" THEN Len(threads) + 1 ELSE call[c].thread
ItsSource(c) == IF call[c].op = "regenerate" THEN call[c].request ELSE None

LEMMA CommitShape ==
    ASSUME ShapeInv, NEW c \in Callers, Commits(c)
    PROVE  /\ ShapeInv' /\ RowsKept /\ Done(c)
           /\ Adds(ItsThread(c), call[c].kind, ItsSource(c))
           /\ threads'[ItsThread(c)].owner = PrincipalOf[c]
           /\ call[c].op # "create" => threads' = threads
           /\ DOMAIN threads' = DOMAIN threads \cup {ItsThread(c)}
           /\ \E input, context : AddRequest(c, ItsThread(c), input, ItsSource(c), context)
  <1>1. Done(c)
    BY DEF Commits, CommitCreate, CommitAppend, CommitRegenerate
  <1>2. /\ Len(threads) \in Nat /\ DOMAIN threads = 1..Len(threads) /\ Len(requests) \in Nat
        /\ Len(entries) \in Nat /\ entries \in Seq(EntryRows) /\ threads \in Seq(ThreadModel)
    BY RowFacts DEF ShapeInv, RowInv
  <1>3. call[c] \in CallRows /\ WellAimed(call[c], PrincipalOf[c])
    BY <1>1, DoneCalls
  <1> DEFINE asked(th) == [thread |-> th, author |-> "requester", request |-> Len(requests) + 1]
  <1>4. \A th \in Nat : /\ Append(entries, asked(th)) \in Seq(EntryRows)
                        /\ Len(Append(entries, asked(th))) \in Nat
    <2> SUFFICES ASSUME NEW th \in Nat
                 PROVE  /\ Append(entries, asked(th)) \in Seq(EntryRows)
                        /\ Len(Append(entries, asked(th))) \in Nat
      OBVIOUS
    <2>1. asked(th) \in EntryRows
      BY <1>2 DEF EntryRows
    <2> HIDE DEF asked
    <2> QED
      BY <1>2, <2>1
  <1>5. CASE CommitCreate(c)
    <2> DEFINE th == Len(threads) + 1
    <2>1. ItsThread(c) = th /\ ItsSource(c) = None
      BY <1>5 DEF CommitCreate, ItsThread, ItsSource
    <2>2. [owner |-> PrincipalOf[c], status |-> "active"] \in ThreadModel
      BY DEF ThreadModel, Principals
    <2>3. threads' = Append(threads, [owner |-> PrincipalOf[c], status |-> "active"])
      BY <1>5 DEF CommitCreate
    <2>4. /\ threads' \in Seq(ThreadModel) /\ DOMAIN threads' = 1..th
          /\ \A x \in 1..Len(threads) : threads'[x] = threads[x]
          /\ threads'[th] = [owner |-> PrincipalOf[c], status |-> "active"]
      BY <1>2, <2>2, <2>3
    <2>5. /\ entries' = Append(entries, asked(th))
          /\ AddRequest(c, th, Len(Append(entries, asked(th))), None,
                        Snapshot(Append(entries, asked(th)), th, call[c].kind))
      BY <1>5 DEF CommitCreate, Ask
    <2>6. entries' \in Seq(EntryRows) /\ Len(Append(entries, asked(th))) \in Nat
      BY <1>2, <1>4, <2>5
    <2>7. RowInv' /\ Adds(th, call[c].kind, None)
      <3>1. th \in DOMAIN threads' /\ DOMAIN threads \subseteq DOMAIN threads' /\ None \in Nat
        BY <1>2, <2>4 DEF None
      <3> QED
        BY <2>4, <2>5, <2>6, <3>1, AddedRows
    <2>8. RowsKept
      BY <1>2, <2>4, <2>7 DEF RowsKept, Adds
    <2>9. ShapeInv'
      BY <1>1, <2>7, <2>8, DoneCalls, CallsKept DEF ShapeInv
    <2>10. DOMAIN threads' = DOMAIN threads \cup {th} /\ call[c].op = "create"
      BY <1>2, <1>5, <2>4 DEF CommitCreate
    <2> QED
      BY <1>1, <2>1, <2>4, <2>5, <2>7, <2>8, <2>9, <2>10
  <1>6. CASE CommitAppend(c)
    <2> DEFINE th == call[c].thread
    <2>1. ItsThread(c) = th /\ ItsSource(c) = None /\ call[c].op = "append"
      BY <1>6 DEF CommitAppend, ItsThread, ItsSource
    <2>2. th \in DOMAIN threads /\ threads[th].owner = PrincipalOf[c] /\ threads' = threads
      BY <1>3, <1>6, <2>1 DEF WellAimed, CommitAppend
    <2>3. th \in Nat
      BY <1>2, <2>2
    <2>5. /\ entries' = Append(entries, asked(th))
          /\ AddRequest(c, th, Len(Append(entries, asked(th))), None,
                        Snapshot(Append(entries, asked(th)), th, call[c].kind))
      BY <1>6 DEF CommitAppend, Ask
    <2>6. entries' \in Seq(EntryRows) /\ Len(Append(entries, asked(th))) \in Nat
      BY <1>4, <2>3, <2>5
    <2>7. RowInv' /\ Adds(th, call[c].kind, None)
      BY <1>2, <2>2, <2>5, <2>6, AddedRows DEF None
    <2>8. RowsKept
      BY <1>2, <2>2, <2>7 DEF RowsKept, Adds
    <2>9. ShapeInv'
      BY <1>1, <2>7, <2>8, DoneCalls, CallsKept DEF ShapeInv
    <2> QED
      BY <1>1, <2>1, <2>2, <2>5, <2>7, <2>8, <2>9
  <1>7. CASE CommitRegenerate(c)
    <2> DEFINE th == call[c].thread
               r == call[c].request
    <2>1. ItsThread(c) = th /\ ItsSource(c) = r /\ call[c].op = "regenerate"
      BY <1>7 DEF CommitRegenerate, ItsThread, ItsSource
    <2>2. /\ th \in DOMAIN threads /\ threads[th].owner = PrincipalOf[c] /\ r \in DOMAIN requests
          /\ threads' = threads /\ entries' = entries
      BY <1>3, <1>7, <2>1 DEF WellAimed, CommitRegenerate
    <2>3. requests[r].input \in Nat /\ r \in Nat
      BY <2>2, RowFacts DEF ShapeInv
    <2>4. AddRequest(c, th, requests[r].input, r, requests[r].context)
      BY <1>7 DEF CommitRegenerate
    <2>7. RowInv' /\ Adds(th, call[c].kind, r)
      BY <1>2, <2>2, <2>3, <2>4, AddedRows
    <2>8. RowsKept
      BY <1>2, <2>2, <2>7 DEF RowsKept, Adds
    <2>9. ShapeInv'
      BY <1>1, <2>7, <2>8, DoneCalls, CallsKept DEF ShapeInv
    <2> QED
      BY <1>1, <2>1, <2>2, <2>4, <2>7, <2>8, <2>9
  <1> QED
    BY <1>5, <1>6, <1>7 DEF Commits

\* Everything that becomes of an execution moves it and its request from one status to
\* another, and never to an active one from one that is not.
MoveSteps(e) ==
    \/ Start(e) \/ Requeue(e) \/ Complete(e) \/ Fail(e)
    \/ \E c \in Callers : Cancel(c, e)

LEMMA MoveShape ==
    ASSUME ShapeInv, NEW e \in DOMAIN executions, MoveSteps(e)
    PROVE  /\ ShapeInv' /\ RowsKept
           /\ \E to \in Statuses : Moves(e, to)
           /\ executions[e].status \in ActiveStatuses
           /\ Unlocked(ThreadOf(e))
           /\ UNCHANGED <<threads, byTime, call>>
  <1>1. PICK from \in SUBSET ActiveStatuses, to \in Statuses :
           Move(e, from, to) /\ (LeaveNothing(e, to) \/ LeaveAnswer(e, to))
    <2>1. /\ {"queued"} \in SUBSET ActiveStatuses /\ {"running"} \in SUBSET ActiveStatuses
          /\ {"queued", "running", "completed", "failed", "cancelled"} = Statuses
      BY DEF Statuses, ActiveStatuses
    <2>2. CASE Start(e)
      BY <2>1, <2>2 DEF Start
    <2>3. CASE Requeue(e)
      BY <2>1, <2>3 DEF Requeue
    <2>4. CASE Complete(e)
      BY <2>1, <2>4 DEF Complete
    <2>5. CASE Fail(e)
      BY <2>1, <2>5 DEF Fail
    <2>6. CASE \E c \in Callers : Cancel(c, e)
      BY <2>1, <2>6 DEF Cancel
    <2> QED
      BY <2>2, <2>3, <2>4, <2>5, <2>6 DEF MoveSteps
  <1>2. RowInv' /\ Moves(e, to)
    BY <1>1, MovedRows
  <1>3. UNCHANGED <<threads, byTime, call>> /\ executions[e].status \in from
        /\ Unlocked(ThreadOf(e))
    BY <1>1 DEF Move
  <1>4. RowsKept
    BY <1>2, <1>3 DEF RowsKept, Moves
  <1>5. ShapeInv'
    BY <1>2, <1>3, <1>4, CallsKept DEF ShapeInv, CallInv
  <1> QED
    BY <1>1, <1>2, <1>3, <1>4, <1>5

LEMMA RepeatShape ==
    ASSUME ShapeInv, NEW c \in Callers, CommitRetry(c)
    PROVE  /\ ShapeInv' /\ RowsKept /\ Done(c)
           /\ Repeats(call[c].request, call[c].key)
           /\ UNCHANGED <<threads, byTime>>
  <1>1. Done(c) /\ UNCHANGED <<threads, byTime>>
    BY DEF CommitRetry
  <1>2. RowInv' /\ Repeats(call[c].request, call[c].key)
    BY RepeatedRows
  <1>3. RowsKept
    BY <1>1, <1>2 DEF RowsKept, Repeats
  <1>4. ShapeInv'
    BY <1>1, <1>2, <1>3, DoneCalls, CallsKept DEF ShapeInv
  <1> QED
    BY <1>1, <1>2, <1>3, <1>4

LEMMA ArchiveShape ==
    ASSUME ShapeInv, NEW c \in Callers, NEW th \in DOMAIN threads, Archive(c, th)
    PROVE  ShapeInv' /\ RowsKept /\ UNCHANGED <<entries, requests, executions, byTime, call>>
  <1>1. UNCHANGED <<entries, requests, executions, byTime, call>>
    BY DEF Archive
  <1>2. threads \in Seq(ThreadModel) /\ threads[th] \in ThreadModel
    BY DEF ShapeInv, RowInv
  <1>3. [threads[th] EXCEPT !.status = "archived"] \in ThreadModel
    BY <1>2 DEF ThreadModel
  <1>4. threads' = [threads EXCEPT ![th] = [threads[th] EXCEPT !.status = "archived"]]
    BY DEF Archive
  <1>5. /\ threads' \in Seq(ThreadModel) /\ DOMAIN threads' = DOMAIN threads
        /\ \A x \in DOMAIN threads :
              threads'[x] = IF x = th THEN [threads[th] EXCEPT !.status = "archived"]
                            ELSE threads[x]
    BY <1>2, <1>3, <1>4
  <1>6. \A x \in DOMAIN threads : threads'[x].owner = threads[x].owner
    BY <1>2, <1>5 DEF ThreadModel
  <1>7. RowInv' /\ RowsKept
    BY <1>1, <1>5, <1>6 DEF RowInv, ShapeInv, RowsKept
  <1>8. ShapeInv'
    BY <1>1, <1>7, CallsKept DEF ShapeInv, CallInv
  <1> QED
    BY <1>1, <1>7, <1>8

\* Every step is one of these.
LEMMA EveryStep ==
    ASSUME [Next]_vars
    PROVE  \/ UNCHANGED vars
           \/ \E c \in Callers : CallSteps(c)
           \/ \E c \in Callers : Commits(c)
           \/ \E c \in Callers : CommitRetry(c)
           \/ \E e \in DOMAIN executions : MoveSteps(e)
           \/ \E c \in Callers, th \in DOMAIN threads : Archive(c, th)
  BY DEF Next, CallSteps, Commits, MoveSteps

LEMMA ShapeStep ==
    ASSUME ShapeInv, [Next]_vars
    PROVE  ShapeInv' /\ RowsKept
  <1>1. CASE UNCHANGED vars
    BY <1>1 DEF vars, ShapeInv, RowInv, CallInv, WellAimed, RowsKept
  <1>2. CASE \E c \in Callers : CallSteps(c)
    BY <1>2, CallStepShape
  <1>3. CASE \E c \in Callers : Commits(c)
    BY <1>3, CommitShape
  <1>4. CASE \E c \in Callers : CommitRetry(c)
    BY <1>4, RepeatShape
  <1>5. CASE \E e \in DOMAIN executions : MoveSteps(e)
    BY <1>5, MoveShape
  <1>6. CASE \E c \in Callers, th \in DOMAIN threads : Archive(c, th)
    BY <1>6, ArchiveShape
  <1> QED
    BY <1>1, <1>2, <1>3, <1>4, <1>5, <1>6, EveryStep

LEMMA ShapeInit == Init => ShapeInv
  <1> SUFFICES ASSUME Init PROVE ShapeInv
    OBVIOUS
  <1>1. Idle \in CallRows
    BY DEF Idle, CallRows, Kinds, None
  <1>2. RowInv
    BY DEF Init, RowInv
  <1> QED
    BY <1>1, <1>2 DEF Init, ShapeInv, CallInv, Idle

---------------------------------------------------------------------------
(* Admission *)

\* There is room for what was admitted and not written yet: one row at most, since
\* admission is under a lock that is held until the commit.
CapacityInv ==
    /\ \A c \in Callers : call[c].phase = "admitted" => call[c].kind = "model"
    /\ \A c, o \in Callers : call[c].phase = "admitted" /\ call[o].phase = "admitted" => c = o
    /\ \A c \in Callers : call[c].phase = "admitted" =>
          /\ Cardinality(ActiveModels) < ModelLimit
          /\ PrincipalOf[c] \in Guests =>
                Cardinality(ActiveModels \cap OfPrincipal(PrincipalOf[c])) < GuestLimit
    /\ CapacityKept

LEMMA ActiveModelsFinite ==
    ASSUME ShapeInv
    PROVE  /\ IsFiniteSet(ActiveModels) /\ Cardinality(ActiveModels) \in Nat
           /\ \A p : /\ IsFiniteSet(ActiveModels \cap OfPrincipal(p))
                     /\ Cardinality(ActiveModels \cap OfPrincipal(p)) \in Nat
  <1>1. DOMAIN executions = 1..Len(executions) /\ Len(executions) \in Nat
    BY RowFacts DEF ShapeInv
  <1>2. IsFiniteSet(1..Len(executions))
    BY <1>1, FS_Interval
  <1>3. ActiveModels \subseteq 1..Len(executions)
    BY <1>1 DEF ActiveModels
  <1>4. IsFiniteSet(ActiveModels)
    BY <1>2, <1>3, FS_Subset
  <1>5. \A p : IsFiniteSet(ActiveModels \cap OfPrincipal(p))
    <2> SUFFICES ASSUME NEW p PROVE IsFiniteSet(ActiveModels \cap OfPrincipal(p))
      OBVIOUS
    <2>1. (ActiveModels \cap OfPrincipal(p)) \in SUBSET ActiveModels
      OBVIOUS
    <2> QED
      BY <1>4, <2>1, FS_Subset
  <1> QED
    BY <1>4, <1>5, FS_CardinalityType

\* Where no execution becomes active, and nothing is admitted, nothing grows.
LEMMA NothingGrows ==
    ASSUME ShapeInv, CapacityInv,
           ActiveModels' \subseteq ActiveModels,
           \A p : ActiveModels' \cap OfPrincipal(p)' \subseteq ActiveModels \cap OfPrincipal(p),
           \A c \in Callers : call'[c].phase = "admitted" => call'[c] = call[c]
    PROVE  CapacityInv'
  <1> DEFINE of(p) == ActiveModels \cap OfPrincipal(p)
             ofAfter(p) == ActiveModels' \cap OfPrincipal(p)'
  <1>1. /\ Cardinality(ActiveModels) \in Nat /\ Cardinality(ActiveModels') \in Nat
        /\ Cardinality(ActiveModels') <= Cardinality(ActiveModels)
    BY ActiveModelsFinite, FS_Subset, FS_CardinalityType
  <1>2. \A p : /\ Cardinality(of(p)) \in Nat /\ Cardinality(ofAfter(p)) \in Nat
               /\ Cardinality(ofAfter(p)) <= Cardinality(of(p))
    BY ActiveModelsFinite, FS_Subset, FS_CardinalityType
  <1>3. ModelLimit \in Nat /\ GuestLimit \in Nat
    BY StoreAssumption
  <1>4. CapacityKept'
    <2>1. \A p \in Guests : Cardinality(of(p)) <= GuestLimit
      BY DEF CapacityInv, CapacityKept
    <2>2. \A p \in Guests : Cardinality(ofAfter(p)) <= GuestLimit
      <3> HIDE DEF of, ofAfter
      <3> QED
        BY <1>2, <1>3, <2>1
    <2>3. Cardinality(ActiveModels') <= ModelLimit
      BY <1>1, <1>3 DEF CapacityInv, CapacityKept
    <2> QED
      BY <2>2, <2>3 DEF CapacityKept
  <1>5. ASSUME NEW c \in Callers, call'[c].phase = "admitted"
        PROVE  /\ Cardinality(ActiveModels') < ModelLimit
               /\ PrincipalOf[c] \in Guests => Cardinality(ofAfter(PrincipalOf[c])) < GuestLimit
    <2>1. call[c].phase = "admitted"
      BY <1>5
    <2>2. /\ Cardinality(ActiveModels) < ModelLimit
          /\ PrincipalOf[c] \in Guests => Cardinality(of(PrincipalOf[c])) < GuestLimit
      BY <2>1 DEF CapacityInv
    <2> HIDE DEF of, ofAfter
    <2> QED
      BY <1>1, <1>2, <1>3, <2>2
  <1>6. /\ \A c \in Callers : call'[c].phase = "admitted" => call'[c].kind = "model"
        /\ \A c, o \in Callers :
              call'[c].phase = "admitted" /\ call'[o].phase = "admitted" => c = o
    BY DEF CapacityInv
  <1> QED
    BY <1>4, <1>5, <1>6 DEF CapacityInv

\* A row for c, which was admitted: the room for it is used up.
LEMMA OneGrows ==
    ASSUME ShapeInv, CapacityInv, NEW c \in Callers, call[c].phase = "admitted", NEW x,
           ActiveModels' \subseteq ActiveModels \cup {x},
           \A p : ActiveModels' \cap OfPrincipal(p)'
                    \subseteq (ActiveModels \cap OfPrincipal(p))
                              \cup (IF p = PrincipalOf[c] THEN {x} ELSE {}),
           call'[c].phase = "idle", \A o \in Callers \ {c} : call'[o] = call[o]
    PROVE  CapacityInv'
  <1> DEFINE of(p) == ActiveModels \cap OfPrincipal(p)
             ofAfter(p) == ActiveModels' \cap OfPrincipal(p)'
  <1>0. ModelLimit \in Nat /\ GuestLimit \in Nat
    BY StoreAssumption
  <1>1. /\ IsFiniteSet(ActiveModels) /\ Cardinality(ActiveModels) \in Nat
        /\ \A p : IsFiniteSet(of(p)) /\ Cardinality(of(p)) \in Nat
    BY ActiveModelsFinite
  <1>2. \A p : ofAfter(p) \subseteq of(p) \cup (IF p = PrincipalOf[c] THEN {x} ELSE {})
    OBVIOUS
  <1> HIDE DEF of, ofAfter
  <1>3. \A o \in Callers : call'[o].phase # "admitted"
    BY DEF CapacityInv
  <1>4. Cardinality(ActiveModels') <= ModelLimit
    <2>1. /\ IsFiniteSet(ActiveModels \cup {x})
          /\ Cardinality(ActiveModels \cup {x}) \in Nat
          /\ Cardinality(ActiveModels \cup {x}) <= Cardinality(ActiveModels) + 1
      BY <1>1, FS_AddElement
    <2>2. Cardinality(ActiveModels') \in Nat
          /\ Cardinality(ActiveModels') <= Cardinality(ActiveModels \cup {x})
      BY <2>1, FS_Subset, FS_CardinalityType
    <2>3. Cardinality(ActiveModels) < ModelLimit
      BY DEF CapacityInv
    <2> QED
      BY <1>0, <1>1, <2>1, <2>2, <2>3
  <1>5. ASSUME NEW p \in Guests PROVE Cardinality(ofAfter(p)) <= GuestLimit
    <2>1. Cardinality(of(p)) <= GuestLimit
      BY DEF CapacityInv, CapacityKept, of
    <2>2. CASE p # PrincipalOf[c]
      <3>1. ofAfter(p) \in SUBSET of(p)
        BY <1>2, <2>2
      <3>2. Cardinality(ofAfter(p)) \in Nat /\ Cardinality(ofAfter(p)) <= Cardinality(of(p))
        BY <1>1, <3>1, FS_Subset, FS_CardinalityType
      <3> QED
        BY <1>0, <1>1, <2>1, <3>2
    <2>3. CASE p = PrincipalOf[c]
      <3>1. ofAfter(p) \in SUBSET (of(p) \cup {x})
        BY <1>2, <2>3
      <3>2. /\ IsFiniteSet(of(p) \cup {x}) /\ Cardinality(of(p) \cup {x}) \in Nat
            /\ Cardinality(of(p) \cup {x}) <= Cardinality(of(p)) + 1
        <4>1. IsFiniteSet(of(p)) /\ Cardinality(of(p)) \in Nat
          BY <1>1
        <4>2. IsFiniteSet(of(p) \cup {x})
          BY <4>1, FS_AddElement
        <4>3. Cardinality(of(p) \cup {x}) = Cardinality(of(p))
              \/ Cardinality(of(p) \cup {x}) = Cardinality(of(p)) + 1
          BY <4>1, FS_AddElement
        <4> QED
          BY <4>1, <4>2, <4>3
      <3>3. Cardinality(ofAfter(p)) \in Nat /\ Cardinality(ofAfter(p)) <= Cardinality(of(p) \cup {x})
        BY <3>1, <3>2, FS_Subset, FS_CardinalityType
      <3>4. Cardinality(of(p)) < GuestLimit
        BY <2>3 DEF CapacityInv, of
      <3> QED
        BY <1>0, <1>1, <3>2, <3>3, <3>4
    <2> QED
      BY <2>2, <2>3
  <1>6. CapacityKept'
    BY <1>4, <1>5 DEF CapacityKept, ofAfter
  <1> QED
    BY <1>3, <1>6 DEF CapacityInv

LEMMA CapacityStep ==
    ASSUME ShapeInv, CapacityInv, [Next]_vars
    PROVE  CapacityInv'
  <1>0. ShapeInv' /\ RowsKept
    BY ShapeStep
  <1>1. /\ Len(executions) + 1 \notin DOMAIN executions
        /\ \A e \in DOMAIN executions : executions[e].request \in DOMAIN requests
        /\ \A r \in DOMAIN requests : requests[r].thread \in DOMAIN threads
        /\ DOMAIN requests = 1..Len(requests) /\ Len(requests) \in Nat
    BY RowFacts DEF ShapeInv, RowInv
  <1>2. CASE UNCHANGED vars
    BY <1>2 DEF vars, CapacityInv, CapacityKept, ActiveModels, OfPrincipal, IsActive
  <1>3. ASSUME NEW c \in Callers, CallSteps(c) PROVE CapacityInv'
    <2>1. UNCHANGED <<threads, requests, executions>>
      BY <1>3 DEF CallSteps, Begin, LockThread, Admit, GiveUp
    <2>2. ActiveModels' = ActiveModels /\ \A p : OfPrincipal(p)' = OfPrincipal(p)
      BY <2>1 DEF ActiveModels, OfPrincipal
    <2>3. CASE Admit(c)
      <3>1. /\ call' = [call EXCEPT ![c] = [call[c] EXCEPT !.phase = "admitted"]]
            /\ call[c].kind = "model" /\ \A o \in Callers : call[o].phase # "admitted"
            /\ Cardinality(ActiveModels) < ModelLimit
            /\ PrincipalOf[c] \in Guests =>
                  Cardinality(ActiveModels \cap OfPrincipal(PrincipalOf[c])) < GuestLimit
        BY <2>3 DEF Admit
      <3>2. call \in [Callers -> CallRows]
        BY DEF ShapeInv, CallInv
      <3>3. /\ call'[c].phase = "admitted" /\ call'[c].kind = "model"
            /\ \A o \in Callers \ {c} : call'[o] = call[o]
        BY <3>1, <3>2 DEF CallRows
      <3>4. \A o \in Callers : call'[o].phase = "admitted" => o = c
        BY <3>1, <3>3
      <3>5. CapacityKept'
        BY <2>2 DEF CapacityInv, CapacityKept
      <3>6. \A o \in Callers : call'[o].phase = "admitted" =>
               /\ Cardinality(ActiveModels') < ModelLimit
               /\ PrincipalOf[o] \in Guests =>
                     Cardinality(ActiveModels' \cap OfPrincipal(PrincipalOf[o])') < GuestLimit
        BY <2>2, <3>1, <3>4
      <3> QED
        BY <3>3, <3>4, <3>5, <3>6 DEF CapacityInv
    <2>4. CASE ~Admit(c)
      <3>1. \A o \in Callers : call'[o].phase = "admitted" => call'[o] = call[o]
        <4>1. CASE Begin(c)
          <5>1. PICK k \in Calls(c) : call' = [call EXCEPT ![c] = k]
            BY <4>1 DEF Begin
          <5> QED
            BY <5>1, CallsAreAimed DEF ShapeInv, CallInv
        <4>2. CASE LockThread(c)
          <5>1. call' = [call EXCEPT ![c] = [call[c] EXCEPT !.phase = "locked"]]
            BY <4>2 DEF LockThread
          <5>2. [call[c] EXCEPT !.phase = "locked"].phase = "locked"
            BY DEF ShapeInv, CallInv, CallRows
          <5> QED
            BY <5>1, <5>2 DEF ShapeInv, CallInv
        <4>3. CASE GiveUp(c)
          BY <4>3 DEF GiveUp, Idle, ShapeInv, CallInv
        <4> QED
          BY <1>3, <2>4, <4>1, <4>2, <4>3 DEF CallSteps
      <3> QED
        BY <2>2, <3>1, NothingGrows
    <2> QED
      BY <2>3, <2>4
  <1>4. ASSUME NEW c \in Callers, NEW kind, NEW n, n \notin DOMAIN executions, Done(c),
               DOMAIN executions' = DOMAIN executions \cup {n},
               \A e \in DOMAIN executions : executions'[e] = executions[e],
               requests'[executions'[n].request].kind = call[c].kind,
               threads'[requests'[executions'[n].request].thread].owner = PrincipalOf[c],
               \A r \in DOMAIN requests : requests'[r].thread = requests[r].thread
        PROVE  CapacityInv'
    <2>1. \A e \in DOMAIN executions :
             (e \in ActiveModels') => (e \in ActiveModels)
      BY <1>0, <1>1, <1>4 DEF ActiveModels, IsActive, RowsKept
    <2>2. \A p : \A e \in DOMAIN executions : (e \in OfPrincipal(p)') => (e \in OfPrincipal(p))
      BY <1>0, <1>1, <1>4 DEF OfPrincipal, RowsKept
    <2>3. ActiveModels' \subseteq DOMAIN executions \cup {n}
      BY <1>4 DEF ActiveModels
    <2>4. \A p : n \in OfPrincipal(p)' => p = PrincipalOf[c]
      BY <1>4 DEF OfPrincipal
    <2>5. call'[c].phase = "idle" /\ \A o \in Callers \ {c} : call'[o] = call[o]
      BY <1>4, DoneCalls
    <2>6. CASE call[c].phase = "admitted"
      <3>1. ActiveModels' \subseteq ActiveModels \cup {n}
        BY <2>1, <2>3
      <3>2. \A p : ActiveModels' \cap OfPrincipal(p)'
                     \subseteq (ActiveModels \cap OfPrincipal(p))
                               \cup (IF p = PrincipalOf[c] THEN {n} ELSE {})
        BY <2>1, <2>2, <2>3, <2>4
      <3> QED
        BY <2>5, <2>6, <3>1, <3>2, OneGrows
    <2>7. CASE call[c].phase # "admitted"
      <3>1. call[c].kind = "human"
        BY <1>4, <2>7, DoneCalls
      <3>2. n \notin ActiveModels'
        BY <1>4, <3>1 DEF ActiveModels
      <3>3. ActiveModels' \subseteq ActiveModels
        BY <2>1, <2>3, <3>2
      <3>4. \A p : ActiveModels' \cap OfPrincipal(p)' \subseteq ActiveModels \cap OfPrincipal(p)
        BY <2>1, <2>2, <2>3, <3>2
      <3>5. \A o \in Callers : call'[o].phase = "admitted" => call'[o] = call[o]
        BY <2>5
      <3> QED
        BY <3>3, <3>4, <3>5, NothingGrows
    <2> QED
      BY <2>6, <2>7
  <1>5. ASSUME NEW c \in Callers, Commits(c) PROVE CapacityInv'
    <2>1. Done(c) /\ Adds(ItsThread(c), call[c].kind, ItsSource(c))
          /\ threads'[ItsThread(c)].owner = PrincipalOf[c]
      BY <1>5, CommitShape
    <2> QED
      BY <1>1, <1>4, <2>1 DEF Adds
  <1>6. ASSUME NEW c \in Callers, CommitRetry(c) PROVE CapacityInv'
    <2>1. Done(c) /\ Repeats(call[c].request, call[c].key) /\ threads' = threads
      BY <1>6, RepeatShape
    <2>2. /\ call[c].request \in DOMAIN requests
          /\ requests[call[c].request].thread = call[c].thread
          /\ requests[call[c].request].kind = call[c].kind
          /\ threads[call[c].thread].owner = PrincipalOf[c]
      BY <1>6, <2>1, DoneCalls DEF WellAimed, CommitRetry
    <2> QED
      BY <1>1, <1>4, <2>1, <2>2 DEF Repeats
  <1>7. ASSUME NEW e \in DOMAIN executions, MoveSteps(e) PROVE CapacityInv'
    <2>1. PICK to \in Statuses : Moves(e, to)
      BY <1>7, MoveShape
    <2>2. executions[e].status \in ActiveStatuses /\ threads' = threads /\ call' = call
      BY <1>7, MoveShape
    <2>3. ActiveModels' \subseteq ActiveModels
      BY <1>1, <2>1, <2>2 DEF Moves, ActiveModels, IsActive
    <2>4. \A p : OfPrincipal(p)' \subseteq OfPrincipal(p)
      BY <1>1, <2>1, <2>2 DEF Moves, OfPrincipal
    <2> QED
      BY <2>2, <2>3, <2>4, NothingGrows
  <1>8. ASSUME NEW c \in Callers, NEW th \in DOMAIN threads, Archive(c, th) PROVE CapacityInv'
    <2>1. UNCHANGED <<requests, executions, call>>
      BY <1>8, ArchiveShape
    <2>2. ActiveModels' = ActiveModels
      BY <2>1 DEF ActiveModels
    <2>3. \A p : OfPrincipal(p)' \subseteq OfPrincipal(p)
      BY <1>0, <1>1, <2>1 DEF OfPrincipal, RowsKept
    <2> QED
      BY <2>1, <2>2, <2>3, NothingGrows
  <1> QED
    BY <1>2, <1>3, <1>5, <1>6, <1>7, <1>8, EveryStep

LEMMA CapacityInit == Init => CapacityInv
  <1> SUFFICES ASSUME Init PROVE CapacityInv
    OBVIOUS
  <1>1. ActiveModels = {}
    BY DEF Init, ActiveModels
  <1>2. \A p : ActiveModels \cap OfPrincipal(p) = {}
    BY <1>1
  <1>3. ModelLimit \in Nat /\ GuestLimit \in Nat
    BY StoreAssumption
  <1>4. \A c \in Callers : call[c].phase = "idle"
    BY DEF Init, Idle
  <1> QED
    BY <1>1, <1>2, <1>3, <1>4, FS_EmptySet DEF CapacityInv, CapacityKept

\* However many calls run at once, and in whatever order they begin, lock and commit, there are never more active executions of models than the limit, nor of one guest than
\* the limit of guests (reserve_generation_capacity).
THEOREM CapacityHolds == Spec => []CapacityKept
  <1>1. Init => ShapeInv /\ CapacityInv
    BY ShapeInit, CapacityInit
  <1>2. ShapeInv /\ CapacityInv /\ [Next]_vars => (ShapeInv /\ CapacityInv)'
    BY ShapeStep, CapacityStep
  <1>3. CapacityInv => CapacityKept
    BY DEF CapacityInv
  <1> QED
    BY <1>1, <1>2, <1>3, PTL DEF Spec

---------------------------------------------------------------------------
(* The unique indexes *)

\* o was created before r.
Before(o, r) == \E i, j \in DOMAIN byTime : i < j /\ byTime[i] = o /\ byTime[j] = r

\* The latest of a thread by created_at, and by the order of the commits.
IsLatest(r, th) == r \in RequestsOf(th) /\ \A o \in RequestsOf(th) \ {r} : Before(o, r)
IsLast(r, th) == r \in RequestsOf(th) /\ \A o \in RequestsOf(th) : o <= r

\* What a call found under the lock of its thread is still so. A retry found the latest
\* request by time; that nothing in the thread is active follows if it is also the last.
Held(k) ==
    /\ k.op # "retry" => IndexesAllow(k)
    /\ k.op = "retry" =>
          /\ \A e \in ExecutionsOf(k.request) : executions[e].key # k.key
          /\ IsLatest(k.request, k.thread)
          /\ IsLast(k.request, k.thread) => ~Busy(k.thread)

LocksInv ==
    \A c, o \in Callers : HasLock(c) /\ HasLock(o) /\ call[c].thread = call[o].thread => c = o

HeldInv == \A c \in Callers : call[c].phase \in {"locked", "admitted"} => Held(call[c])

\* m is the last execution of r, r has its status, and the others have ended.
Leads(m, r) ==
    /\ m \in ExecutionsOf(r) /\ executions[m].status = requests[r].status
    /\ \A e \in ExecutionsOf(r) : e <= m /\ (e # m => ~IsActive(executions[e]))

StatusInv == \A r \in DOMAIN requests : \E m \in DOMAIN executions : Leads(m, r)

\* What is active was the last of its thread when it was asked, or the latest by time when
\* it was tried again; a thread with requests has a last one and a latest one.
LatestInv ==
    /\ \A r \in DOMAIN requests : IsActive(requests[r]) =>
          \/ IsLast(r, requests[r].thread)
          \/ IsLatest(r, requests[r].thread) /\ \E d, e \in ExecutionsOf(r) : d # e
    /\ \A r \in DOMAIN requests : \E m \in DOMAIN requests : IsLast(m, requests[r].thread)
    /\ \A r \in DOMAIN requests : \E m \in DOMAIN requests : IsLatest(m, requests[r].thread)

\* Every request has one place in the order of created_at.
TimeInv ==
    /\ byTime \in Seq(Nat)
    /\ \A i \in DOMAIN byTime : byTime[i] \in DOMAIN requests
    /\ \A r \in DOMAIN requests : \E i \in DOMAIN byTime : byTime[i] = r
    /\ \A i, j \in DOMAIN byTime : byTime[i] = byTime[j] => i = j

IndexInv == LocksInv /\ HeldInv /\ StatusInv /\ LatestInv /\ TimeInv

---------------------------------------------------------------------------
(* The order of created_at *)

\* t is s with x in place i: what was there and after it has moved by one.
Inserted(s, i, x, t) ==
    /\ t \in Seq(Nat) /\ DOMAIN t = 1..(Len(s) + 1) /\ t[i] = x
    /\ \A j \in DOMAIN s : j < i => t[j] = s[j]
    /\ \A j \in DOMAIN s : j >= i => t[j + 1] = s[j]

LEMMA InsertedPlaces ==
    ASSUME NEW s \in Seq(Nat), NEW i \in 1..(Len(s) + 1), NEW x \in Nat,
           NEW t, t = InsertAt(s, i, x)
    PROVE  Inserted(s, i, x, t)
  <1>0. i \in Nat /\ Len(s) \in Nat /\ i >= 1 /\ i <= Len(s) + 1
    OBVIOUS
  <1>1. PICK a, b : a = SubSeq(s, 1, i - 1) /\ b = SubSeq(s, i, Len(s))
    OBVIOUS
  <1>2. /\ a \in Seq(Nat) /\ Len(a) = i - 1 /\ \A j \in 1..(i - 1) : a[j] = s[j]
    BY <1>1
  <1>3. /\ b \in Seq(Nat) /\ Len(b) = Len(s) - i + 1
        /\ \A j \in 1..(Len(s) - i + 1) : b[j] = s[j + i - 1]
    BY <1>1
  <1>4. t = (a \o <<x>>) \o b
    BY <1>1 DEF InsertAt
  <1>5. PICK c : c = a \o <<x>>
    OBVIOUS
  <1>6. c \in Seq(Nat) /\ Len(c) = i /\ c[i] = x /\ \A j \in 1..(i - 1) : c[j] = s[j]
    <2>1. <<x>> \in Seq(Nat) /\ Len(<<x>>) = 1 /\ <<x>>[1] = x
      OBVIOUS
    <2>2. /\ c \in Seq(Nat) /\ Len(c) = Len(a) + Len(<<x>>)
          /\ \A j \in 1..(Len(a) + Len(<<x>>)) :
                c[j] = IF j <= Len(a) THEN a[j] ELSE <<x>>[j - Len(a)]
      BY <1>2, <1>5, <2>1, ConcatProperties
    <2>3. Len(c) = i /\ c[i] = x
      BY <1>0, <1>2, <2>1, <2>2
    <2>4. ASSUME NEW j \in 1..(i - 1) PROVE c[j] = s[j]
      BY <1>0, <1>2, <2>1, <2>2
    <2> QED
      BY <2>2, <2>3, <2>4
  <1>7. /\ t \in Seq(Nat) /\ Len(t) = Len(s) + 1
        /\ \A j \in 1..i : t[j] = c[j]
        /\ \A j \in (i + 1)..(Len(s) + 1) : t[j] = b[j - i]
    <2>1. t = c \o b
      BY <1>4, <1>5
    <2>2. c \in Seq(Nat) /\ b \in Seq(Nat)
      BY <1>3, <1>6
    <2>3. /\ t \in Seq(Nat) /\ Len(t) = Len(c) + Len(b)
          /\ \A j \in 1..(Len(c) + Len(b)) :
                t[j] = IF j <= Len(c) THEN c[j] ELSE b[j - Len(c)]
      BY <2>1, <2>2, ConcatProperties
    <2>4. Len(c) = i /\ Len(b) = Len(s) - i + 1
      BY <1>3, <1>6
    <2>5. Len(t) = Len(s) + 1
      BY <1>0, <2>3, <2>4
    <2>6. ASSUME NEW j \in 1..i PROVE t[j] = c[j]
      BY <1>0, <2>3, <2>4
    <2>7. ASSUME NEW j \in (i + 1)..(Len(s) + 1) PROVE t[j] = b[j - i]
      <3>1. j \in 1..(Len(c) + Len(b)) /\ ~(j <= Len(c)) /\ j - Len(c) = j - i
        BY <1>0, <2>4
      <3> QED
        BY <2>3, <3>1, Zenon
    <2> QED
      BY <2>3, <2>5, <2>6, <2>7
  <1>8. \A j \in DOMAIN s : j < i => t[j] = s[j]
    BY <1>6, <1>7
  <1>9. ASSUME NEW j \in DOMAIN s, j >= i PROVE t[j + 1] = s[j]
    <2>1. /\ j + 1 \in (i + 1)..(Len(s) + 1) /\ (j + 1) - i \in 1..(Len(s) - i + 1)
          /\ ((j + 1) - i) + i - 1 = j
      BY <1>9
    <2>2. t[j + 1] = b[(j + 1) - i]
      BY <1>7, <2>1
    <2>3. b[(j + 1) - i] = s[((j + 1) - i) + i - 1]
      BY <1>3, <2>1
    <2> QED
      BY <2>1, <2>2, <2>3
  <1> QED
    BY <1>6, <1>7, <1>8, <1>9 DEF Inserted

LEMMA BeforeIsOrder ==
    ASSUME TimeInv, NEW o \in DOMAIN requests, NEW r \in DOMAIN requests
    PROVE  /\ o # r => Before(o, r) \/ Before(r, o)
           /\ ~(Before(o, r) /\ Before(r, o))
           /\ \A x : Before(o, r) /\ Before(r, x) => Before(o, x)
  <1>1. DOMAIN byTime \subseteq Nat
    BY DEF TimeInv
  <1>2. o # r => Before(o, r) \/ Before(r, o)
    BY <1>1 DEF TimeInv, Before
  <1>3. ~(Before(o, r) /\ Before(r, o))
    BY <1>1 DEF TimeInv, Before
  <1>4. ASSUME NEW x, Before(o, r), Before(r, x) PROVE Before(o, x)
    BY <1>1, <1>4 DEF TimeInv, Before
  <1> QED
    BY <1>2, <1>3, <1>4

\* A request gets a place of its own; the others keep their order, and those that were
\* there when its transaction began come before it.
LEMMA ByTimeGrows ==
    ASSUME ShapeInv, TimeInv, NEW seen \in Nat, NEW n, n = Len(requests) + 1,
           InsertByTime(n, seen), DOMAIN requests' = DOMAIN requests \cup {n}
    PROVE  /\ TimeInv'
           /\ \A o, r \in DOMAIN requests : Before(o, r)' <=> Before(o, r)
           /\ \A o \in DOMAIN requests : o <= seen => Before(o, n)'
  <1>1. /\ Len(requests) \in Nat /\ DOMAIN requests = 1..Len(requests) /\ n \in Nat
        /\ n \notin DOMAIN requests /\ byTime \in Seq(Nat)
    BY RowFacts DEF ShapeInv, TimeInv
  <1>2. PICK k \in 1..(Len(byTime) + 1) :
           /\ \A j \in DOMAIN byTime : j >= k => byTime[j] > seen
           /\ byTime' = InsertAt(byTime, k, n)
    BY DEF InsertByTime
  <1>3. PICK t : t = byTime'
    OBVIOUS
  <1>4. /\ t \in Seq(Nat) /\ DOMAIN t = 1..(Len(byTime) + 1) /\ t[k] = n
        /\ \A j \in DOMAIN byTime : j < k => t[j] = byTime[j]
        /\ \A j \in DOMAIN byTime : j >= k => t[j + 1] = byTime[j]
    <2>1. n \in Nat /\ byTime \in Seq(Nat) /\ t = InsertAt(byTime, k, n)
      BY <1>1, <1>2, <1>3
    <2>2. Inserted(byTime, k, n, t)
      BY <2>1, InsertedPlaces
    <2> QED
      BY <2>2 DEF Inserted
  <1>5. DOMAIN byTime = 1..Len(byTime) /\ Len(byTime) \in Nat /\ k \in Nat
    BY <1>1
  <1> DEFINE moved(j) == IF j < k THEN j ELSE j + 1
  <1>6. \A j \in DOMAIN byTime : moved(j) \in DOMAIN t /\ t[moved(j)] = byTime[j] /\ moved(j) # k
    BY <1>4, <1>5
  <1>7. \A i \in DOMAIN t : i # k => \E j \in DOMAIN byTime : moved(j) = i
    <2> SUFFICES ASSUME NEW i \in DOMAIN t, i # k PROVE \E j \in DOMAIN byTime : moved(j) = i
      OBVIOUS
    <2>1. CASE i < k
      <3>1. i \in DOMAIN byTime /\ moved(i) = i
        BY <1>4, <1>5, <2>1
      <3> QED
        BY <3>1
    <2>2. CASE i > k
      <3>1. i - 1 \in DOMAIN byTime /\ moved(i - 1) = i
        BY <1>4, <1>5, <2>2
      <3> QED
        BY <3>1
    <2> QED
      BY <1>4, <1>5, <2>1, <2>2
  <1>8. \A i, j \in DOMAIN byTime : i < j <=> moved(i) < moved(j)
    BY <1>5
  <1>9. \A i \in DOMAIN byTime : byTime[i] # n
    BY <1>1 DEF TimeInv
  <1>10. TimeInv'
    <2>1. byTime' \in Seq(Nat)
      BY <1>3, <1>4
    <2>2. ASSUME NEW i \in DOMAIN t PROVE t[i] \in DOMAIN requests'
      <3>1. CASE i = k
        BY <1>4, <3>1
      <3>2. CASE i # k
        <4>1. PICK j \in DOMAIN byTime : moved(j) = i
          BY <1>7, <3>2
        <4>2. t[i] = byTime[j]
          BY <1>6, <4>1
        <4> QED
          BY <4>1, <4>2 DEF TimeInv
      <3> QED
        BY <3>1, <3>2
    <2>3. \A r \in DOMAIN requests' : \E i \in DOMAIN t : t[i] = r
      <3> SUFFICES ASSUME NEW r \in DOMAIN requests' PROVE \E i \in DOMAIN t : t[i] = r
        OBVIOUS
      <3>1. CASE r = n
        BY <1>4, <1>5, <3>1
      <3>2. CASE r # n
        <4>1. PICK j \in DOMAIN byTime : byTime[j] = r
          BY <3>2 DEF TimeInv
        <4> QED
          BY <1>6, <4>1
      <3> QED
        BY <3>1, <3>2
    <2>4. ASSUME NEW i \in DOMAIN t, NEW j \in DOMAIN t, t[i] = t[j] PROVE i = j
      <3>1. CASE i # k /\ j # k
        <4>1. PICK x \in DOMAIN byTime, y \in DOMAIN byTime : moved(x) = i /\ moved(y) = j
          BY <1>7, <3>1
        <4>2. byTime[x] = byTime[y]
          BY <1>6, <2>4, <4>1
        <4> QED
          BY <4>1, <4>2 DEF TimeInv
      <3>2. CASE i = k /\ j # k
        <4>1. PICK y \in DOMAIN byTime : moved(y) = j
          BY <1>7, <3>2
        <4> QED
          BY <1>4, <1>6, <1>9, <2>4, <3>2, <4>1
      <3>3. CASE i # k /\ j = k
        <4>1. PICK x \in DOMAIN byTime : moved(x) = i
          BY <1>7, <3>3
        <4> QED
          BY <1>4, <1>6, <1>9, <2>4, <3>3, <4>1
      <3> QED
        BY <3>1, <3>2, <3>3
    <2> QED
      BY <1>3, <2>1, <2>2, <2>3, <2>4 DEF TimeInv
  <1>11. ASSUME NEW o \in DOMAIN requests, NEW r \in DOMAIN requests
         PROVE  Before(o, r)' <=> Before(o, r)
    <2>1. PICK i \in DOMAIN byTime, j \in DOMAIN byTime : byTime[i] = o /\ byTime[j] = r
      BY DEF TimeInv
    <2>2. Before(o, r) <=> i < j
      BY <2>1 DEF TimeInv, Before
    <2>3. t[moved(i)] = o /\ t[moved(j)] = r /\ moved(i) \in DOMAIN t /\ moved(j) \in DOMAIN t
      BY <1>6, <2>1
    <2>4. Before(o, r)' <=> moved(i) < moved(j)
      <3> HIDE DEF moved
      <3> QED
        BY <1>3, <1>10, <2>3 DEF TimeInv, Before
    <2> QED
      BY <1>8, <2>2, <2>4
  <1>12. ASSUME NEW o \in DOMAIN requests, o <= seen PROVE Before(o, n)'
    <2>1. PICK j \in DOMAIN byTime : byTime[j] = o
      BY DEF TimeInv
    <2>2. o \in Nat
      BY <1>1
    <2>3. j < k
      BY <1>2, <1>5, <1>12, <2>1, <2>2
    <2>4. t[j] = o /\ j \in DOMAIN t /\ k \in DOMAIN t
      BY <1>4, <1>5, <2>1, <2>3
    <2> QED
      BY <1>3, <1>4, <2>3, <2>4 DEF Before
  <1> QED
    BY <1>10, <1>11, <1>12

\* The latest by time is what retry_execution finds.
LEMMA LatestByTimeFound ==
    ASSUME TimeInv, NEW th, NEW m, IsLatest(m, th)
    PROVE  LatestByTime(th) = m
  <1> DEFINE times == {i \in DOMAIN byTime : requests[byTime[i]].thread = th}
  <1>1. DOMAIN byTime \subseteq Nat
    BY DEF TimeInv
  <1>2. m \in DOMAIN requests /\ requests[m].thread = th
    BY DEF IsLatest, RequestsOf
  <1>3. PICK p \in DOMAIN byTime : byTime[p] = m
    BY <1>2 DEF TimeInv
  <1>4. p \in times
    BY <1>2, <1>3
  <1>5. ASSUME NEW i \in times PROVE i <= p
    <2>1. byTime[i] \in RequestsOf(th)
      BY DEF TimeInv, RequestsOf
    <2>2. CASE byTime[i] = m
      BY <1>1, <1>3, <2>2 DEF TimeInv
    <2>3. CASE byTime[i] # m
      <3>1. Before(byTime[i], m)
        BY <2>1, <2>3 DEF IsLatest
      <3>2. PICK x \in DOMAIN byTime, y \in DOMAIN byTime :
               x < y /\ byTime[x] = byTime[i] /\ byTime[y] = m
        BY <3>1 DEF Before
      <3>3. x = i /\ y = p
        BY <1>3, <3>2 DEF TimeInv
      <3> QED
        BY <1>1, <1>3, <3>2, <3>3
    <2> QED
      BY <2>2, <2>3
  <1>6. Newest(times) = p
    BY <1>1, <1>4, <1>5 DEF Newest
  <1> QED
    BY <1>3, <1>6 DEF LatestByTime

\* A lock keeps what was found: nothing is added to the thread, nothing in it becomes
\* active, and what is added elsewhere names neither its requests nor their executions.
LEMMA HeldKept ==
    ASSUME ShapeInv, NEW o \in Callers, call[o].phase \in {"locked", "admitted"},
           Held(call[o]), call'[o] = call[o], DOMAIN requests \subseteq DOMAIN requests',
           \A r \in DOMAIN requests : requests'[r].thread = requests[r].thread,
           \A r \in DOMAIN requests' : requests'[r].thread = call[o].thread =>
              /\ r \in DOMAIN requests /\ requests[r].thread = call[o].thread
              /\ IsActive(requests'[r]) => IsActive(requests[r]),
           \A r, x \in DOMAIN requests : Before(r, x)' <=> Before(r, x),
           call[o].op \in {"regenerate", "retry"} =>
              /\ \A r \in DOMAIN requests' : requests'[r].from = call[o].request =>
                    r \in DOMAIN requests /\ requests[r].from = call[o].request
              /\ \A e \in DOMAIN executions' : executions'[e].request = call[o].request =>
                    /\ e \in DOMAIN executions /\ executions[e].request = call[o].request
                    /\ executions'[e].key = executions[e].key
    PROVE  Held(call[o])'
  <1>1. RequestsOf(call[o].thread)' = RequestsOf(call[o].thread)
    BY DEF RequestsOf
  <1>2. Busy(call[o].thread)' => Busy(call[o].thread)
    BY DEF Busy, RequestsOf
  <1>3. ASSUME call[o].op # "retry" PROVE IndexesAllow(call[o])'
    <2>1. IndexesAllow(call[o])
      BY <1>3 DEF Held
    <2>2. call[o].op = "regenerate" => ReplacementOf(call[o].request)' = {}
      BY <2>1 DEF IndexesAllow, ReplacementOf
    <2> QED
      BY <1>2, <1>3, <2>1, <2>2 DEF IndexesAllow
  <1>4. ASSUME call[o].op = "retry"
        PROVE  /\ \A e \in ExecutionsOf(call[o].request)' : executions'[e].key # call[o].key
               /\ IsLatest(call[o].request, call[o].thread)'
               /\ IsLast(call[o].request, call[o].thread)' => ~Busy(call[o].thread)'
    <2>1. /\ \A e \in ExecutionsOf(call[o].request) : executions[e].key # call[o].key
          /\ IsLatest(call[o].request, call[o].thread)
          /\ IsLast(call[o].request, call[o].thread) => ~Busy(call[o].thread)
      BY <1>4 DEF Held
    <2>2. \A e \in ExecutionsOf(call[o].request)' : executions'[e].key # call[o].key
      BY <1>4, <2>1 DEF ExecutionsOf
    <2>3. IsLatest(call[o].request, call[o].thread)'
      <3>1. RequestsOf(call[o].thread) \subseteq DOMAIN requests
        BY DEF RequestsOf
      <3> QED
        BY <1>1, <2>1, <3>1 DEF IsLatest
    <2>4. IsLast(call[o].request, call[o].thread)' => IsLast(call[o].request, call[o].thread)
      BY <1>1 DEF IsLast
    <2> QED
      BY <1>2, <2>1, <2>2, <2>3, <2>4
  <1>5. Held(call[o])' <=>
           /\ call[o].op # "retry" => IndexesAllow(call[o])'
           /\ call[o].op = "retry" =>
                 /\ \A e \in ExecutionsOf(call[o].request)' : executions'[e].key # call[o].key
                 /\ IsLatest(call[o].request, call[o].thread)'
                 /\ IsLast(call[o].request, call[o].thread)' => ~Busy(call[o].thread)'
    BY DEF Held, IndexesAllow, Busy, IsActive, RequestsOf, IsLatest, IsLast, Before, ExecutionsOf,
           ReplacementOf
  <1> QED
    BY <1>3, <1>4, <1>5

\* A step that changes no request and no execution.
LEMMA NothingMoves ==
    ASSUME ShapeInv, IndexInv, UNCHANGED <<requests, executions, byTime>>,
           LocksInv', HeldInv'
    PROVE  IndexInv'
  <1>1. StatusInv'
    BY DEF IndexInv, StatusInv, Leads, ExecutionsOf, IsActive
  <1>2. LatestInv'
    BY DEF IndexInv, LatestInv, IsLast, IsLatest, Before, RequestsOf, ExecutionsOf, IsActive
  <1>3. TimeInv'
    BY DEF IndexInv, TimeInv
  <1> QED
    BY <1>1, <1>2, <1>3 DEF IndexInv

LEMMA LatestIsOne ==
    ASSUME TimeInv, NEW th, NEW a, NEW b, IsLatest(a, th), IsLatest(b, th)
    PROVE  a = b
  <1>1. a \in DOMAIN requests /\ b \in DOMAIN requests
    BY DEF IsLatest, RequestsOf
  <1>2. a # b => Before(a, b) /\ Before(b, a)
    BY DEF IsLatest
  <1> QED
    BY <1>1, <1>2, BeforeIsOrder

\* What the checks under the lock find. A failed request that is the latest by time is not
\* active, so what is active was never tried again, and is the last of the thread.
LEMMA AllowedHolds ==
    ASSUME ShapeInv, IndexInv, NEW c \in Callers, call[c].phase = "begun", Allowed(call[c])
    PROVE  Held(call[c])
  <1>0. PICK k : k = call[c]
    OBVIOUS
  <1>1. k \in CallRows /\ WellAimed(k, PrincipalOf[c])
    BY <1>0 DEF ShapeInv, CallInv
  <1>2. CASE k.op = "create"
    BY <1>0, <1>1, <1>2 DEF Held, IndexesAllow, WellAimed
  <1>3. CASE k.op = "append"
    BY <1>0, <1>3 DEF Held, IndexesAllow, Allowed
  <1>4. CASE k.op = "regenerate"
    BY <1>0, <1>1, <1>4 DEF Held, IndexesAllow, Allowed, MayRegenerate, WellAimed
  <1>5. CASE k.op = "retry"
    <2>1. MayRetry(k.request, k.key)
      BY <1>0, <1>5 DEF Allowed
    <2>2. k.request \in DOMAIN requests /\ requests[k.request].thread = k.thread
      BY <1>1, <1>5 DEF WellAimed
    <2>3. LatestByTime(k.thread) = k.request /\ requests[k.request].status = "failed"
          /\ \A e \in ExecutionsOf(k.request) : executions[e].key # k.key
      BY <2>1, <2>2 DEF MayRetry
    <2>4. PICK m \in DOMAIN requests : IsLatest(m, k.thread)
      BY <2>2 DEF IndexInv, LatestInv
    <2>5. IsLatest(k.request, k.thread)
      BY <2>3, <2>4, LatestByTimeFound DEF IndexInv
    <2>6. ASSUME IsLast(k.request, k.thread) PROVE ~Busy(k.thread)
      <3> SUFFICES ASSUME NEW r \in RequestsOf(k.thread), IsActive(requests[r]) PROVE FALSE
        BY DEF Busy
      <3>1. r \in DOMAIN requests /\ requests[r].thread = k.thread /\ r # k.request
        BY <2>3 DEF RequestsOf, IsActive, ActiveStatuses
      <3>2. ~IsLast(r, k.thread)
        <4>1. r \in Nat /\ k.request \in Nat
          BY <1>1, <3>1, RowFacts DEF ShapeInv, CallRows
        <4> QED
          BY <2>6, <3>1, <4>1 DEF IsLast
      <3>3. ~IsLatest(r, k.thread)
        BY <2>5, <3>1, LatestIsOne DEF IndexInv
      <3> QED
        BY <3>1, <3>2, <3>3 DEF IndexInv, LatestInv
    <2> QED
      BY <1>0, <1>5, <2>3, <2>5, <2>6 DEF Held
  <1> QED
    BY <1>1, <1>2, <1>3, <1>4, <1>5 DEF WellAimed

LEMMA CallStepIndex ==
    ASSUME ShapeInv, IndexInv, NEW c \in Callers, CallSteps(c)
    PROVE  IndexInv'
  <1>1. UNCHANGED <<requests, executions, byTime>>
    BY DEF CallSteps, Begin, LockThread, Admit, GiveUp
  <1>2. call \in [Callers -> CallRows]
    BY DEF ShapeInv, CallInv
  <1>3. \A o \in Callers \ {c} : call'[o] = call[o]
    BY <1>2 DEF CallSteps, Begin, LockThread, Admit, GiveUp
  <1>4. \A o \in Callers : /\ call'[o].thread = call[o].thread /\ call'[o].op = call[o].op
                           /\ call'[o].request = call[o].request /\ call'[o].key = call[o].key
           => (Held(call[o])' <=> Held(call[o]))
    BY <1>1 DEF Held, IndexesAllow, Busy, RequestsOf, ReplacementOf, ExecutionsOf, IsLatest,
                IsLast, Before, IsActive
  <1>5. CASE call'[c].phase \notin {"locked", "admitted"}
    <2>1. LocksInv'
      BY <1>3, <1>5 DEF IndexInv, LocksInv, HasLock
    <2>2. HeldInv'
      BY <1>3, <1>4, <1>5 DEF IndexInv, HeldInv
    <2> QED
      BY <1>1, <2>1, <2>2, NothingMoves
  <1>6. CASE LockThread(c)
    <2>1. /\ call[c].phase = "begun" /\ Allowed(call[c])
          /\ call[c].thread # None => Unlocked(call[c].thread)
          /\ call' = [call EXCEPT ![c] = [call[c] EXCEPT !.phase = "locked"]]
      BY <1>6 DEF LockThread
    <2>3. call'[c].thread = call[c].thread /\ call'[c].op = call[c].op
          /\ call'[c].request = call[c].request /\ call'[c].key = call[c].key
      BY <1>2, <2>1 DEF CallRows
    <2>4. Held(call[c])
      BY <2>1, AllowedHolds
    <2>5. Held(call[c])'
      BY <1>4, <2>3, <2>4
    <2>6. LocksInv'
      BY <1>3, <2>1, <2>3 DEF IndexInv, LocksInv, HasLock, Unlocked
    <2>7. HeldInv'
      BY <1>3, <1>4, <2>5 DEF IndexInv, HeldInv
    <2> QED
      BY <1>1, <2>6, <2>7, NothingMoves
  <1>7. CASE Admit(c)
    <2>1. call'[c].thread = call[c].thread /\ call'[c].op = call[c].op
          /\ call'[c].request = call[c].request /\ call'[c].key = call[c].key
      BY <1>2, <1>7 DEF Admit, CallRows
    <2>2. call[c].phase = "locked"
      BY <1>7 DEF Admit
    <2>3. LocksInv'
      BY <1>3, <2>1, <2>2 DEF IndexInv, LocksInv, HasLock
    <2>4. HeldInv'
      BY <1>3, <1>4, <2>1, <2>2 DEF IndexInv, HeldInv
    <2> QED
      BY <1>1, <2>3, <2>4, NothingMoves
  <1>8. CASE Begin(c)
    <2>1. call'[c].phase = "begun"
      <3>1. PICK k \in Calls(c) : call' = [call EXCEPT ![c] = k]
        BY <1>8 DEF Begin
      <3>2. k.phase = "begun"
        BY CallsAreAimed
      <3> QED
        BY <1>2, <3>1, <3>2
    <2> QED
      BY <1>5, <2>1
  <1>9. CASE GiveUp(c)
    <2>1. call'[c].phase = "idle"
      BY <1>2, <1>9 DEF GiveUp, Idle
    <2> QED
      BY <1>5, <2>1
  <1> QED
    BY <1>6, <1>7, <1>8, <1>9 DEF CallSteps

\* Whoever commits gives up its lock, and the others keep theirs.
LEMMA DoneLocks ==
    ASSUME ShapeInv, IndexInv, NEW c \in Callers, Done(c)
    PROVE  /\ LocksInv' /\ Held(call[c])
           /\ \A o \in Callers : call'[o].phase \in {"locked", "admitted"} =>
                 /\ o # c /\ call'[o] = call[o] /\ call[o].phase \in {"locked", "admitted"}
                 /\ call[o].op # "create" => call[o].thread # call[c].thread
  <1>1. /\ call'[c].phase = "idle" /\ \A o \in Callers \ {c} : call'[o] = call[o]
        /\ call[c].phase \in {"locked", "admitted"}
        /\ \A o \in Callers : call'[o].phase = "idle" \/ WellAimed(call'[o], PrincipalOf[o])
    BY DoneCalls
  <1>2. LocksInv'
    BY <1>1 DEF IndexInv, LocksInv, HasLock
  <1>3. Held(call[c])
    BY <1>1 DEF IndexInv, HeldInv
  <1>4. ASSUME NEW o \in Callers \ {c}, call[o].phase \in {"locked", "admitted"},
               call[o].op # "create"
        PROVE  call[o].thread # call[c].thread
    <2>1. call[o].thread \in DOMAIN threads
      BY <1>1, <1>4 DEF WellAimed
    <2>2. call[o].thread # None
      BY <2>1, RowFacts DEF ShapeInv, None
    <2> QED
      BY <1>1, <1>4, <2>2 DEF IndexInv, LocksInv, HasLock
  <1> QED
    BY <1>1, <1>2, <1>3, <1>4

LEMMA BeforeLater ==
    ASSUME TimeInv', NEW o \in DOMAIN requests', NEW r \in DOMAIN requests', NEW x,
           Before(o, r)', Before(r, x)'
    PROVE  Before(o, x)'
  <1>1. DOMAIN byTime' \subseteq Nat
    BY DEF TimeInv
  <1> QED
    BY <1>1 DEF TimeInv, Before

LEMMA CommitIndex ==
    ASSUME ShapeInv, IndexInv, NEW c \in Callers, Commits(c)
    PROVE  /\ IndexInv'
           /\ \A o, r \in DOMAIN requests : Before(o, r)' <=> Before(o, r)
           /\ \A n : n = Len(requests) + 1 =>
                 \A o \in DOMAIN requests : o <= call[c].seen => Before(o, n)'
  <1>0. PICK n, m, th : n = Len(requests) + 1 /\ m = Len(executions) + 1 /\ th = ItsThread(c)
    OBVIOUS
  <1>1. /\ ShapeInv' /\ RowsKept /\ Done(c) /\ Adds(th, call[c].kind, ItsSource(c))
        /\ \E input, context : AddRequest(c, th, input, ItsSource(c), context)
    BY <1>0, CommitShape
  <1>2. /\ Len(requests) \in Nat /\ DOMAIN requests = 1..Len(requests)
        /\ Len(requests') \in Nat /\ DOMAIN requests' = 1..Len(requests')
        /\ Len(executions) \in Nat /\ DOMAIN executions = 1..Len(executions)
        /\ \A e \in DOMAIN executions : executions[e].request \in DOMAIN requests
        /\ Len(threads) \in Nat /\ DOMAIN threads = 1..Len(threads)
        /\ \A r \in DOMAIN requests : requests[r].thread \in DOMAIN threads
    BY <1>1, RowFacts DEF ShapeInv, RowInv
  <1>3. /\ DOMAIN requests' = DOMAIN requests \cup {n}
        /\ \A r \in DOMAIN requests : requests'[r] = requests[r]
        /\ requests'[n].thread = th /\ requests'[n].from = ItsSource(c)
        /\ requests'[n].status = "queued"
        /\ DOMAIN executions' = DOMAIN executions \cup {m}
        /\ \A e \in DOMAIN executions : executions'[e] = executions[e]
        /\ executions'[m].request = n /\ executions'[m].status = "queued"
    BY <1>0, <1>1 DEF Adds
  <1>4. /\ LocksInv' /\ Held(call[c])
        /\ \A o \in Callers : call'[o].phase \in {"locked", "admitted"} =>
              /\ o # c /\ call'[o] = call[o] /\ call[o].phase \in {"locked", "admitted"}
              /\ call[o].op # "create" => call[o].thread # call[c].thread
    BY <1>1, DoneLocks
  <1>5. WellAimed(call[c], PrincipalOf[c])
    BY <1>1, DoneCalls
  <1>6. ~Busy(th)
    <2>1. CASE call[c].op = "create"
      <3>1. RequestsOf(th) = {}
        BY <1>0, <1>2, <2>1 DEF RequestsOf, ItsThread
      <3> QED
        BY <3>1 DEF Busy
    <2>2. CASE call[c].op # "create"
      <3>1. th = call[c].thread /\ th # None
        BY <1>0, <1>2, <1>5, <2>2 DEF ItsThread, WellAimed, None
      <3> QED
        BY <1>1, <1>4, <3>1 DEF Done, IndexesAllow
    <2> QED
      BY <2>1, <2>2
  <1>7. n \notin DOMAIN requests /\ m \notin DOMAIN executions
        /\ (\A r \in DOMAIN requests : r <= n) /\ (\A e \in DOMAIN executions : e <= m)
        /\ n \in Nat /\ m \in Nat
    BY <1>0, <1>2
  <1>20. /\ TimeInv'
         /\ \A o, r \in DOMAIN requests : Before(o, r)' <=> Before(o, r)
         /\ \A o \in DOMAIN requests : o <= call[c].seen => Before(o, n)'
    <2>1. InsertByTime(n, call[c].seen)
      BY <1>0, <1>1 DEF AddRequest
    <2>2. call[c].seen \in Nat
      BY <1>1, DoneCalls DEF CallRows
    <2> QED
      BY <1>0, <1>3, <2>1, <2>2, ByTimeGrows DEF IndexInv
  <1>8. HeldInv'
    <2> SUFFICES ASSUME NEW o \in Callers, call'[o].phase \in {"locked", "admitted"}
                 PROVE  Held(call[o])'
      BY DEF HeldInv
    <2>1. /\ o # c /\ call'[o] = call[o] /\ call[o].phase \in {"locked", "admitted"}
          /\ call[o].op # "create" => call[o].thread # call[c].thread
      BY <1>4
    <2>2. Held(call[o]) /\ WellAimed(call[o], PrincipalOf[o])
      BY <2>1 DEF IndexInv, HeldInv, ShapeInv, CallInv
    <2>3. call[o].op # "create" => call[o].thread # th
      BY <1>0, <1>2, <2>1, <2>2 DEF ItsThread, WellAimed
    <2>4. th # None
      BY <1>0, <1>2, <1>5 DEF ItsThread, WellAimed, None
    <2>5. \A r \in DOMAIN requests' : requests'[r].thread = call[o].thread =>
              /\ r \in DOMAIN requests /\ requests[r].thread = call[o].thread
              /\ IsActive(requests'[r]) => IsActive(requests[r])
      BY <1>3, <2>2, <2>3, <2>4 DEF WellAimed
    <2>6. call[o].op \in {"regenerate", "retry"} => call[o].request # ItsSource(c)
      <3>1. call[o].op \in {"regenerate", "retry"} =>
               call[o].request \in DOMAIN requests
               /\ requests[call[o].request].thread = call[o].thread
        BY <2>2 DEF WellAimed
      <3>2. CASE call[c].op = "regenerate"
        BY <1>5, <2>1, <3>1, <3>2 DEF ItsSource, WellAimed
      <3>3. CASE call[c].op # "regenerate"
        BY <1>2, <3>1, <3>3 DEF ItsSource, None
      <3> QED
        BY <3>2, <3>3
    <2>7. call[o].op \in {"regenerate", "retry"} =>
              /\ \A r \in DOMAIN requests' : requests'[r].from = call[o].request =>
                    r \in DOMAIN requests /\ requests[r].from = call[o].request
              /\ \A e \in DOMAIN executions' : executions'[e].request = call[o].request =>
                    /\ e \in DOMAIN executions /\ executions[e].request = call[o].request
                    /\ executions'[e].key = executions[e].key
      BY <1>3, <1>7, <2>2, <2>6 DEF WellAimed
    <2> QED
      BY <1>3, <1>20, <2>1, <2>2, <2>5, <2>7, HeldKept
  <1>9. StatusInv'
    <2>1. ASSUME NEW r \in DOMAIN requests PROVE \E x \in DOMAIN executions' : Leads(x, r)'
      <3>1. PICK x \in DOMAIN executions : Leads(x, r)
        BY DEF IndexInv, StatusInv
      <3>2. ExecutionsOf(r)' = ExecutionsOf(r)
        BY <1>3, <1>7 DEF ExecutionsOf
      <3>3. Leads(x, r)'
        BY <1>3, <3>1, <3>2 DEF Leads, ExecutionsOf, IsActive
      <3> QED
        BY <1>3, <3>3
    <2>2. Leads(m, n)'
      <3>1. ExecutionsOf(n)' = {m}
        BY <1>2, <1>3, <1>7 DEF ExecutionsOf
      <3> QED
        BY <1>3, <1>7, <3>1 DEF Leads
    <2> QED
      BY <1>3, <2>1, <2>2 DEF StatusInv
  <1>10. IsLast(n, th)'
    BY <1>3, <1>7 DEF IsLast, RequestsOf
  <1>11. ASSUME NEW r \in DOMAIN requests, requests[r].thread # th
         PROVE  /\ requests'[r].thread = requests[r].thread
                /\ RequestsOf(requests[r].thread)' = RequestsOf(requests[r].thread)
    BY <1>3, <1>11 DEF RequestsOf
  <1>12. \E x \in DOMAIN requests' : IsLatest(x, th)'
    <2>1. RequestsOf(th)' = RequestsOf(th) \cup {n}
      BY <1>3 DEF RequestsOf
    <2>2. RequestsOf(th) \subseteq DOMAIN requests
      BY DEF RequestsOf
    <2>3. CASE RequestsOf(th) = {}
      <3>1. RequestsOf(th)' = {n}
        BY <2>1, <2>3
      <3>2. IsLatest(n, th)'
        BY <3>1 DEF IsLatest
      <3> QED
        BY <1>3, <3>2
    <2>4. CASE RequestsOf(th) # {}
      <3>1. PICK m0 \in DOMAIN requests : IsLatest(m0, th)
        <4>1. PICK r \in DOMAIN requests : requests[r].thread = th
          BY <2>4 DEF RequestsOf
        <4> QED
          BY <4>1 DEF IndexInv, LatestInv
      <3>2. m0 \in RequestsOf(th) /\ \A o \in RequestsOf(th) \ {m0} : Before(o, m0)'
        BY <1>20, <2>2, <3>1 DEF IsLatest
      <3>3. Before(m0, n)' \/ Before(n, m0)'
        <4>1. m0 \in DOMAIN requests' /\ n \in DOMAIN requests' /\ m0 # n
          BY <1>3, <1>7
        <4>2. DOMAIN byTime' \subseteq Nat
          BY <1>20 DEF TimeInv
        <4> QED
          BY <1>20, <4>1, <4>2 DEF TimeInv, Before
      <3>4. CASE Before(n, m0)'
        <4>1. IsLatest(m0, th)'
          BY <2>1, <3>2, <3>4 DEF IsLatest
        <4> QED
          BY <1>3, <4>1
      <3>5. CASE Before(m0, n)'
        <4>1. ASSUME NEW o \in RequestsOf(th) PROVE Before(o, n)'
          <5>1. o = m0 \/ Before(o, m0)'
            BY <3>2
          <5>2. o \in DOMAIN requests' /\ m0 \in DOMAIN requests'
            BY <1>3, <2>2
          <5> QED
            BY <1>20, <3>5, <5>1, <5>2, BeforeLater
        <4>2. IsLatest(n, th)'
          BY <2>1, <4>1 DEF IsLatest
        <4> QED
          BY <1>3, <4>2
      <3> QED
        BY <3>3, <3>4, <3>5
    <2> QED
      BY <2>3, <2>4
  <1>13. ASSUME NEW r \in DOMAIN requests, requests[r].thread # th, NEW x
         PROVE  /\ IsLast(x, requests[r].thread) => IsLast(x, requests[r].thread)'
                /\ IsLatest(x, requests[r].thread) => IsLatest(x, requests[r].thread)'
    <2>1. RequestsOf(requests[r].thread) \subseteq DOMAIN requests
      BY DEF RequestsOf
    <2> QED
      BY <1>11, <1>13, <1>20, <2>1 DEF IsLast, IsLatest
  <1>14. LatestInv'
    <2>1. ASSUME NEW r \in DOMAIN requests', IsActive(requests'[r])
          PROVE  \/ IsLast(r, requests[r].thread)'
                 \/ IsLatest(r, requests[r].thread)' /\ \E d, e \in ExecutionsOf(r)' : d # e
      <3>1. CASE r = n
        BY <1>3, <1>10, <3>1
      <3>2. CASE r # n
        <4>1. r \in DOMAIN requests /\ IsActive(requests[r])
          BY <1>3, <2>1, <3>2
        <4>2. requests[r].thread # th
          BY <1>6, <4>1 DEF Busy, RequestsOf
        <4>3. ExecutionsOf(r) \subseteq ExecutionsOf(r)'
          BY <1>3 DEF ExecutionsOf
        <4> QED
          BY <1>13, <4>1, <4>2, <4>3 DEF IndexInv, LatestInv
      <3> QED
        BY <3>1, <3>2
    <2>2. ASSUME NEW r \in DOMAIN requests'
          PROVE  /\ \E x \in DOMAIN requests' : IsLast(x, requests[r].thread)'
                 /\ \E x \in DOMAIN requests' : IsLatest(x, requests[r].thread)'
      <3>1. CASE requests'[r].thread = th
        BY <1>3, <1>10, <1>12, <3>1
      <3>2. CASE requests'[r].thread # th
        <4>1. r \in DOMAIN requests /\ requests[r].thread # th
          BY <1>3, <3>2
        <4>2. PICK x \in DOMAIN requests : IsLast(x, requests[r].thread)
          BY <4>1 DEF IndexInv, LatestInv
        <4>3. PICK y \in DOMAIN requests : IsLatest(y, requests[r].thread)
          BY <4>1 DEF IndexInv, LatestInv
        <4> QED
          BY <1>3, <1>13, <4>1, <4>2, <4>3
      <3> QED
        BY <3>1, <3>2
    <2> QED
      BY <2>1, <2>2 DEF LatestInv
  <1>15. IndexInv'
    BY <1>4, <1>8, <1>9, <1>14, <1>20 DEF IndexInv
  <1> QED
    BY <1>0, <1>15, <1>20

LEMMA RetryIndex ==
    ASSUME ShapeInv, IndexInv, NEW c \in Callers, CommitRetry(c)
    PROVE  IndexInv'
  <1>0. PICK r, m : r = call[c].request /\ m = Len(executions) + 1
    OBVIOUS
  <1>1. /\ ShapeInv' /\ RowsKept /\ Done(c) /\ Repeats(r, call[c].key) /\ byTime' = byTime
        /\ call[c].op = "retry"
    BY <1>0, RepeatShape DEF CommitRetry
  <1>2. /\ Len(requests) \in Nat /\ DOMAIN requests = 1..Len(requests)
        /\ Len(requests') \in Nat /\ DOMAIN requests' = 1..Len(requests')
        /\ Len(executions) \in Nat /\ DOMAIN executions = 1..Len(executions)
    BY <1>1, RowFacts DEF ShapeInv
  <1>3. /\ DOMAIN requests' = DOMAIN requests
        /\ \A x \in DOMAIN requests :
              /\ requests'[x].thread = requests[x].thread /\ requests'[x].from = requests[x].from
              /\ requests'[x].status = IF x = r THEN "queued" ELSE requests[x].status
        /\ DOMAIN executions' = DOMAIN executions \cup {m}
        /\ \A e \in DOMAIN executions : executions'[e] = executions[e]
        /\ executions'[m].request = r /\ executions'[m].status = "queued"
    BY <1>0, <1>1 DEF Repeats
  <1>4. /\ LocksInv' /\ Held(call[c])
        /\ \A o \in Callers : call'[o].phase \in {"locked", "admitted"} =>
              /\ o # c /\ call'[o] = call[o] /\ call[o].phase \in {"locked", "admitted"}
              /\ call[o].op # "create" => call[o].thread # call[c].thread
    BY <1>1, DoneLocks
  <1>5. /\ r \in DOMAIN requests /\ requests[r].thread = call[c].thread
        /\ call[c].thread \in DOMAIN threads
    BY <1>0, <1>1, DoneCalls DEF WellAimed
  <1>6. /\ m \notin DOMAIN executions /\ m \in Nat /\ \A e \in DOMAIN executions : e <= m
        /\ r \in Nat
    BY <1>0, <1>2, <1>5
  <1>7. ~Busy(requests[r].thread) /\ IsLatest(r, requests[r].thread)
    <2>1. call[c].thread # None
      BY <1>5, RowFacts DEF ShapeInv, None
    <2> QED
      BY <1>0, <1>1, <1>4, <1>5, <2>1 DEF Held, Done, IndexesAllow
  <1>8. HeldInv'
    <2> SUFFICES ASSUME NEW o \in Callers, call'[o].phase \in {"locked", "admitted"}
                 PROVE  Held(call[o])'
      BY DEF HeldInv
    <2>1. /\ call'[o] = call[o] /\ call[o].phase \in {"locked", "admitted"}
          /\ call[o].op # "create" => call[o].thread # call[c].thread
      BY <1>4
    <2>2. Held(call[o]) /\ WellAimed(call[o], PrincipalOf[o])
      BY <2>1 DEF IndexInv, HeldInv, ShapeInv, CallInv
    <2>3. call[o].thread # call[c].thread
      BY <1>5, <2>1, <2>2, RowFacts DEF WellAimed, ShapeInv, None
    <2>4. \A x \in DOMAIN requests' : requests'[x].thread = call[o].thread =>
              /\ x \in DOMAIN requests /\ requests[x].thread = call[o].thread
              /\ IsActive(requests'[x]) => IsActive(requests[x])
      BY <1>3, <1>5, <2>3 DEF IsActive
    <2>5. call[o].op \in {"regenerate", "retry"} => call[o].request # r
      BY <1>5, <2>2, <2>3 DEF WellAimed
    <2>6. call[o].op \in {"regenerate", "retry"} =>
              /\ \A x \in DOMAIN requests' : requests'[x].from = call[o].request =>
                    x \in DOMAIN requests /\ requests[x].from = call[o].request
              /\ \A e \in DOMAIN executions' : executions'[e].request = call[o].request =>
                    /\ e \in DOMAIN executions /\ executions[e].request = call[o].request
                    /\ executions'[e].key = executions[e].key
      BY <1>3, <2>5
    <2> QED
      BY <1>1, <1>3, <2>1, <2>2, <2>4, <2>6, HeldKept DEF Before
  <1>9. StatusInv'
    <2>1. ASSUME NEW x \in DOMAIN requests, x # r
          PROVE  \E l \in DOMAIN executions' : Leads(l, x)'
      <3>1. PICK l \in DOMAIN executions : Leads(l, x)
        BY DEF IndexInv, StatusInv
      <3>2. ExecutionsOf(x)' = ExecutionsOf(x)
        BY <1>3, <1>6, <2>1 DEF ExecutionsOf
      <3>3. Leads(l, x)'
        BY <1>3, <2>1, <3>1, <3>2 DEF Leads, ExecutionsOf, IsActive
      <3> QED
        BY <1>3, <3>3
    <2>2. Leads(m, r)'
      <3>1. PICK l \in DOMAIN executions : Leads(l, r)
        BY <1>5 DEF IndexInv, StatusInv
      <3>2. ~IsActive(requests[r])
        BY <1>5, <1>7 DEF Busy, RequestsOf
      <3>3. \A e \in ExecutionsOf(r) : ~IsActive(executions[e])
        BY <3>1, <3>2 DEF Leads, IsActive
      <3>4. ExecutionsOf(r)' = ExecutionsOf(r) \cup {m}
        BY <1>3, <1>6 DEF ExecutionsOf
      <3>5. \A e \in ExecutionsOf(r)' :
               e <= m /\ (e # m => ~IsActive(executions'[e]))
        BY <1>3, <1>6, <3>3, <3>4 DEF ExecutionsOf
      <3> QED
        BY <1>3, <1>5, <3>4, <3>5 DEF Leads
    <2> QED
      BY <1>3, <2>1, <2>2 DEF StatusInv
  <1>10. \A th : RequestsOf(th)' = RequestsOf(th)
    BY <1>3 DEF RequestsOf
  <1>11. LatestInv'
    <2>1. \A x, th : (IsLast(x, th)' <=> IsLast(x, th)) /\ (IsLatest(x, th)' <=> IsLatest(x, th))
      BY <1>1, <1>10 DEF IsLast, IsLatest, Before
    <2>2. PICK l \in DOMAIN executions : Leads(l, r)
      BY <1>5 DEF IndexInv, StatusInv
    <2>3. l \in ExecutionsOf(r)' /\ m \in ExecutionsOf(r)' /\ l # m
      BY <1>3, <1>6, <2>2 DEF Leads, ExecutionsOf
    <2>4. \A x \in DOMAIN requests : ExecutionsOf(x) \subseteq ExecutionsOf(x)'
      BY <1>3 DEF ExecutionsOf
    <2>5. ASSUME NEW x \in DOMAIN requests, IsActive(requests'[x])
          PROVE  \/ IsLast(x, requests[x].thread)
                 \/ IsLatest(x, requests[x].thread) /\ \E d, e \in ExecutionsOf(x)' : d # e
      <3>1. CASE x = r
        BY <1>7, <2>3, <3>1
      <3>2. CASE x # r
        <4>1. IsActive(requests[x])
          BY <1>3, <2>5, <3>2 DEF IsActive
        <4> QED
          BY <2>4, <4>1 DEF IndexInv, LatestInv
      <3> QED
        BY <3>1, <3>2
    <2> QED
      BY <1>3, <2>1, <2>5 DEF IndexInv, LatestInv
  <1>12. TimeInv'
    BY <1>1, <1>3 DEF IndexInv, TimeInv
  <1> QED
    BY <1>4, <1>8, <1>9, <1>11, <1>12 DEF IndexInv

LEMMA MoveIndex ==
    ASSUME ShapeInv, IndexInv, NEW e \in DOMAIN executions, MoveSteps(e)
    PROVE  IndexInv'
  <1>0. PICK r : r = executions[e].request
    OBVIOUS
  <1>1. PICK to \in Statuses : Moves(e, to)
    BY MoveShape
  <1>2. /\ ShapeInv' /\ executions[e].status \in ActiveStatuses /\ Unlocked(ThreadOf(e))
        /\ byTime' = byTime /\ call' = call
    BY MoveShape
  <1>3. /\ Len(requests) \in Nat /\ DOMAIN requests = 1..Len(requests)
        /\ Len(requests') \in Nat /\ DOMAIN requests' = 1..Len(requests')
        /\ r \in DOMAIN requests
    BY <1>0, <1>2, RowFacts DEF ShapeInv, RowInv
  <1>4. /\ DOMAIN requests' = DOMAIN requests
        /\ \A x \in DOMAIN requests :
              /\ requests'[x].thread = requests[x].thread /\ requests'[x].from = requests[x].from
              /\ requests'[x].status = IF x = r THEN to ELSE requests[x].status
        /\ DOMAIN executions' = DOMAIN executions
        /\ \A x \in DOMAIN executions :
              /\ executions'[x].request = executions[x].request
              /\ executions'[x].key = executions[x].key
              /\ executions'[x].status = IF x = e THEN to ELSE executions[x].status
    BY <1>0, <1>1 DEF Moves
  <1>5. Leads(e, r)
    <2>1. PICK m \in DOMAIN executions : Leads(m, r)
      BY <1>3 DEF IndexInv, StatusInv
    <2>2. e \in ExecutionsOf(r) /\ IsActive(executions[e])
      BY <1>0, <1>2 DEF ExecutionsOf, IsActive
    <2>3. e = m
      BY <2>1, <2>2 DEF Leads
    <2> QED
      BY <2>1, <2>3
  <1>6. LocksInv'
    BY <1>2 DEF IndexInv, LocksInv, HasLock
  <1>7. HeldInv'
    <2> SUFFICES ASSUME NEW o \in Callers, call'[o].phase \in {"locked", "admitted"}
                 PROVE  Held(call[o])'
      BY DEF HeldInv
    <2>1. /\ call'[o] = call[o] /\ call[o].phase \in {"locked", "admitted"}
          /\ Held(call[o]) /\ WellAimed(call[o], PrincipalOf[o])
      BY <1>2 DEF IndexInv, HeldInv, ShapeInv, CallInv
    <2>2. call[o].thread # requests[r].thread
      <3>1. requests[r].thread \in DOMAIN threads /\ None \notin DOMAIN threads
        BY <1>3, RowFacts DEF ShapeInv, RowInv, None
      <3> QED
        BY <1>0, <1>2, <2>1, <3>1 DEF Unlocked, ThreadOf, HasLock
    <2>3. \A x \in DOMAIN requests' : requests'[x].thread = call[o].thread =>
              /\ x \in DOMAIN requests /\ requests[x].thread = call[o].thread
              /\ IsActive(requests'[x]) => IsActive(requests[x])
      BY <1>3, <1>4, <2>2 DEF IsActive
    <2>4. call[o].op \in {"regenerate", "retry"} =>
              /\ \A x \in DOMAIN requests' : requests'[x].from = call[o].request =>
                    x \in DOMAIN requests /\ requests[x].from = call[o].request
              /\ \A x \in DOMAIN executions' : executions'[x].request = call[o].request =>
                    /\ x \in DOMAIN executions /\ executions[x].request = call[o].request
                    /\ executions'[x].key = executions[x].key
      BY <1>4
    <2> QED
      BY <1>2, <1>4, <2>1, <2>3, <2>4, HeldKept DEF Before
  <1>8. \A x : ExecutionsOf(x)' = ExecutionsOf(x)
    BY <1>4 DEF ExecutionsOf
  <1>9. StatusInv'
    <2>1. ASSUME NEW x \in DOMAIN requests, x # r
          PROVE  \E m \in DOMAIN executions' : Leads(m, x)'
      <3>1. PICK m \in DOMAIN executions : Leads(m, x)
        BY DEF IndexInv, StatusInv
      <3>2. \A l \in ExecutionsOf(x) : executions'[l].status = executions[l].status
        BY <1>0, <1>4, <2>1 DEF ExecutionsOf
      <3>3. Leads(m, x)'
        BY <1>4, <1>8, <2>1, <3>1, <3>2 DEF Leads, IsActive
      <3> QED
        BY <1>4, <3>3
    <2>2. Leads(e, r)'
      <3>1. \A l \in ExecutionsOf(r) : l # e => executions'[l].status = executions[l].status
        BY <1>4 DEF ExecutionsOf
      <3> QED
        BY <1>3, <1>4, <1>5, <1>8, <3>1 DEF Leads, IsActive
    <2> QED
      BY <1>4, <2>1, <2>2 DEF StatusInv
  <1>10. \A th : RequestsOf(th)' = RequestsOf(th)
    BY <1>4 DEF RequestsOf
  <1>11. LatestInv'
    <2>1. IsActive(requests[r])
      BY <1>2, <1>5 DEF Leads, IsActive
    <2>2. \A x, th : (IsLast(x, th)' <=> IsLast(x, th)) /\ (IsLatest(x, th)' <=> IsLatest(x, th))
      BY <1>2, <1>10 DEF IsLast, IsLatest, Before
    <2>3. \A x \in DOMAIN requests : IsActive(requests'[x]) => IsActive(requests[x])
      BY <1>4, <2>1 DEF IsActive
    <2> QED
      BY <1>4, <1>8, <2>2, <2>3 DEF IndexInv, LatestInv
  <1>12. TimeInv'
    BY <1>2, <1>4 DEF IndexInv, TimeInv
  <1> QED
    BY <1>6, <1>7, <1>9, <1>11, <1>12 DEF IndexInv

LEMMA IndexStep ==
    ASSUME ShapeInv, IndexInv, [Next]_vars
    PROVE  IndexInv'
  <1>1. CASE UNCHANGED vars
    <2>1. /\ UNCHANGED <<requests, executions, byTime>> /\ call' = call
      BY <1>1 DEF vars
    <2>2. LocksInv'
      BY <2>1 DEF IndexInv, LocksInv, HasLock
    <2>3. HeldInv'
      BY <2>1 DEF IndexInv, HeldInv, Held, IndexesAllow, Busy, RequestsOf, ReplacementOf,
                  ExecutionsOf, IsActive, IsLatest, IsLast, Before
    <2> QED
      BY <2>1, <2>2, <2>3, NothingMoves
  <1>2. ASSUME NEW c \in Callers, NEW th \in DOMAIN threads, Archive(c, th) PROVE IndexInv'
    <2>1. /\ UNCHANGED <<requests, executions, byTime>> /\ call' = call
      BY <1>2, ArchiveShape
    <2>2. LocksInv'
      BY <2>1 DEF IndexInv, LocksInv, HasLock
    <2>3. HeldInv'
      BY <2>1 DEF IndexInv, HeldInv, Held, IndexesAllow, Busy, RequestsOf, ReplacementOf,
                  ExecutionsOf, IsActive, IsLatest, IsLast, Before
    <2> QED
      BY <2>1, <2>2, <2>3, NothingMoves
  <1> QED
    BY <1>1, <1>2, EveryStep, CallStepIndex, CommitIndex, RetryIndex, MoveIndex

LEMMA IndexInit == Init => IndexInv
  BY DEF Init, Idle, IndexInv, LocksInv, HasLock, HeldInv, StatusInv, LatestInv, TimeInv

---------------------------------------------------------------------------
(* The conversation *)

\* The question of a request is in its thread, and requests are made in the order of their
\* questions.
InputsInv ==
    /\ \A r \in DOMAIN requests :
          /\ requests[r].input \in DOMAIN entries
          /\ entries[requests[r].input].thread = requests[r].thread
          /\ entries[requests[r].input].author = "requester"
    /\ \A o, r \in DOMAIN requests :
          o < r /\ requests[o].thread = requests[r].thread => requests[o].input <= requests[r].input

\* An answer is written after its question, by an execution that ended its request, the
\* only one of that request to leave one.
AnswersInv ==
    /\ \A e \in DOMAIN executions : executions[e].result # None =>
          /\ executions[e].result \in DOMAIN entries
          /\ entries[executions[e].result].request = executions[e].request
          /\ entries[executions[e].result].thread = requests[executions[e].request].thread
          /\ requests[executions[e].request].input < executions[e].result
          /\ requests[executions[e].request].status \in {"completed", "cancelled"}
    /\ \A d, e \in DOMAIN executions :
          /\ executions[d].request = executions[e].request
          /\ executions[d].result # None /\ executions[e].result # None
          => d = e
    /\ \A i \in DOMAIN entries : entries[i].author = "answerer" =>
          \E e \in DOMAIN executions : executions[e].result = i

\* Of the requests with one question all but the last have been replaced, and they are in
\* the order of created_at.
SupersededInv ==
    \A o, r \in DOMAIN requests :
        o < r /\ requests[o].input = requests[r].input => ReplacementOf(o) # {} /\ Before(o, r)

\* What was replaced has ended.
EndedInv ==
    \A r \in DOMAIN requests : requests[r].from # None =>
        /\ requests[r].from \in DOMAIN requests
        /\ requests[requests[r].from].status \in {"completed", "cancelled"}

AnswerOf(i, r) == \E e \in ExecutionsOf(r) : executions[e].result = i

EntriesOf(th) == {i \in DOMAIN entries : entries[i].thread = th}
QuestionOf(i) == requests[entries[i].request].input

OneAnswerEach(context) ==
    \A i, j \in DOMAIN context :
        /\ entries[context[i]].author = "answerer" /\ entries[context[j]].author = "answerer"
        /\ QuestionOf(context[i]) = QuestionOf(context[j])
        => i = j

NoneReplaced(context) == \A i \in DOMAIN context : ~Replaced(context[i])

\* A context ends with the question of r and is a conversation in its thread.
Conversation(context, r) ==
    /\ Ascends(context, EntriesOf(requests[r].thread))
    /\ context # <<>> /\ Last(context) = requests[r].input
    /\ OneAnswerEach(context)

\* What was given stands.
ContextInv ==
    \A r \in DOMAIN requests :
        Conversation(requests[r].context, r) /\ NoneReplaced(requests[r].context)

\* What is regenerated under the lock is the last request and has ended, what is tried again
\* has failed.
AtEnd(k) ==
    /\ k.op = "regenerate" =>
          IsLast(k.request, k.thread) /\ requests[k.request].status \in {"completed", "cancelled"}
    /\ k.op = "retry" => requests[k.request].status = "failed"

HeldEndInv == \A c \in Callers : call[c].phase \in {"locked", "admitted"} => AtEnd(call[c])

ConversationInv ==
    InputsInv /\ AnswersInv /\ SupersededInv /\ EndedInv /\ ContextInv /\ HeldEndInv

\* The order of created_at stays.
OrderKept == \A o, r \in DOMAIN requests : Before(o, r) => Before(o, r)'

---------------------------------------------------------------------------
(* What a step does to questions, contexts and answers *)

\* Rows are added; nothing that is read of the others changes but statuses and results.
Stays ==
    /\ DOMAIN entries \subseteq DOMAIN entries'
    /\ \A i \in DOMAIN entries : entries'[i] = entries[i]
    /\ DOMAIN requests \subseteq DOMAIN requests'
    /\ \A r \in DOMAIN requests :
          /\ requests'[r].thread = requests[r].thread /\ requests'[r].input = requests[r].input
          /\ requests'[r].from = requests[r].from /\ requests'[r].context = requests[r].context
    /\ DOMAIN executions \subseteq DOMAIN executions'
    /\ \A e \in DOMAIN executions : executions'[e].request = executions[e].request

\* The request and the execution that are added.
NewRequest(th, input, from, context) ==
    LET n == Len(requests) + 1
        m == Len(executions) + 1 IN
    /\ DOMAIN requests' = DOMAIN requests \cup {n}
    /\ \A r \in DOMAIN requests : requests'[r] = requests[r]
    /\ requests'[n].thread = th /\ requests'[n].input = input /\ requests'[n].from = from
    /\ requests'[n].context = context
    /\ DOMAIN executions' = DOMAIN executions \cup {m}
    /\ \A e \in DOMAIN executions : executions'[e] = executions[e]
    /\ executions'[m].request = n /\ executions'[m].result = None

\* The entry that is added.
NewEntry(th, author, r) ==
    LET q == Len(entries) + 1 IN
    /\ DOMAIN entries' = DOMAIN entries \cup {q} /\ DOMAIN entries' = 1..q /\ Len(entries') = q
    /\ \A i \in DOMAIN entries : entries'[i] = entries[i]
    /\ entries'[q].thread = th /\ entries'[q].author = author /\ entries'[q].request = r

LEMMA AddsRequest ==
    ASSUME RowInv, NEW c \in Callers, NEW th, NEW input, NEW from, NEW context,
           AddRequest(c, th, input, from, context)
    PROVE  NewRequest(th, input, from, context)
  <1>1. PICK n, m : n = Len(requests) + 1 /\ m = Len(executions) + 1
    OBVIOUS
  <1>2. PICK contexts : requests \in Seq(RequestRows(contexts))
    BY DEF RowInv
  <1>3. PICK row : row = [thread |-> th, kind |-> call[c].kind, input |-> input, from |-> from,
                          context |-> context, seen |-> call[c].seen, status |-> "queued"]
    OBVIOUS
  <1>4. PICK execution : execution = [request |-> n, key |-> NoKey, result |-> None,
                                      status |-> "queued"]
    OBVIOUS
  <1>5. requests' = Append(requests, row) /\ executions' = Append(executions, execution)
    BY <1>1, <1>3, <1>4 DEF AddRequest
  <1>6. /\ DOMAIN requests' = DOMAIN requests \cup {n} /\ requests'[n] = row
        /\ \A r \in DOMAIN requests : requests'[r] = requests[r]
    BY <1>1, <1>2, <1>5
  <1>7. executions \in Seq(ExecutionRows)
    BY DEF RowInv
  <1>8. /\ DOMAIN executions' = DOMAIN executions \cup {m} /\ executions'[m] = execution
        /\ \A e \in DOMAIN executions : executions'[e] = executions[e]
    BY <1>1, <1>5, <1>7
  <1>9. /\ requests'[n].thread = th /\ requests'[n].input = input /\ requests'[n].from = from
        /\ requests'[n].context = context
    BY <1>3, <1>6
  <1>10. executions'[m].request = n /\ executions'[m].result = None
    BY <1>4, <1>8
  <1> QED
    BY <1>1, <1>6, <1>8, <1>9, <1>10 DEF NewRequest

LEMMA AddsEntry ==
    ASSUME RowInv, NEW th, NEW author, NEW r,
           entries' = Append(entries, [thread |-> th, author |-> author, request |-> r])
    PROVE  NewEntry(th, author, r)
  <1>1. PICK q : q = Len(entries) + 1
    OBVIOUS
  <1>2. PICK entry : entry = [thread |-> th, author |-> author, request |-> r]
    OBVIOUS
  <1>3. entries \in Seq(EntryRows)
    BY DEF RowInv
  <1>4. entries' = Append(entries, entry)
    BY <1>2
  <1>5. /\ DOMAIN entries' = DOMAIN entries \cup {q} /\ DOMAIN entries' = 1..q
        /\ Len(entries') = q
        /\ \A i \in DOMAIN entries : entries'[i] = entries[i]
        /\ entries'[q] = entry
    BY <1>1, <1>3, <1>4
  <1>6. entries'[q].thread = th /\ entries'[q].author = author /\ entries'[q].request = r
    BY <1>2, <1>5
  <1> QED
    BY <1>1, <1>5, <1>6 DEF NewEntry

\* A question is asked; or an answer is regenerated, with the question and the context of
\* the request it is for.
Asks(th, kind) ==
    /\ NewEntry(th, "requester", Len(requests) + 1)
    /\ NewRequest(th, Len(entries) + 1, None, Snapshot(entries', th, kind))

AsksAgain(th, r) ==
    /\ entries' = entries
    /\ NewRequest(th, requests[r].input, r, requests[r].context)

LEMMA CommitContent ==
    ASSUME ShapeInv, NEW c \in Callers, Commits(c)
    PROVE  \/ call[c].op # "regenerate" /\ Asks(ItsThread(c), call[c].kind)
           \/ call[c].op = "regenerate" /\ AsksAgain(call[c].thread, call[c].request)
  <1>1. RowInv /\ entries \in Seq(EntryRows)
    BY DEF ShapeInv, RowInv
  <1>2. ASSUME NEW th, Ask(c, th) PROVE Asks(th, call[c].kind)
    <2>1. PICK asked : asked = Append(entries, [thread |-> th, author |-> "requester",
                                                request |-> Len(requests) + 1])
      OBVIOUS
    <2>2. entries' = asked /\ AddRequest(c, th, Len(asked), None, Snapshot(asked, th, call[c].kind))
      BY <1>2, <2>1 DEF Ask
    <2>3. NewEntry(th, "requester", Len(requests) + 1)
      BY <1>1, <2>1, <2>2, AddsEntry
    <2>4. Len(asked) = Len(entries) + 1
      BY <2>2, <2>3 DEF NewEntry
    <2>5. AddRequest(c, th, Len(entries) + 1, None, Snapshot(entries', th, call[c].kind))
      BY <2>2, <2>4, Zenon
    <2> QED
      BY <1>1, <2>3, <2>5, AddsRequest DEF Asks
  <1>3. CASE CommitCreate(c)
    <2>1. Ask(c, ItsThread(c)) /\ call[c].op = "create"
      BY <1>3, Zenon DEF CommitCreate, ItsThread
    <2> QED
      BY <1>2, <2>1
  <1>4. CASE CommitAppend(c)
    <2>1. call[c].op = "append" /\ Ask(c, call[c].thread)
      BY <1>4 DEF CommitAppend
    <2>2. ItsThread(c) = call[c].thread
      BY <2>1 DEF ItsThread
    <2> QED
      BY <1>2, <2>1, <2>2
  <1>5. CASE CommitRegenerate(c)
    <2>1. /\ call[c].op = "regenerate" /\ entries' = entries
          /\ AddRequest(c, call[c].thread, requests[call[c].request].input, call[c].request,
                        requests[call[c].request].context)
      BY <1>5 DEF CommitRegenerate
    <2> QED
      BY <1>1, <2>1, AddsRequest DEF AsksAgain
  <1> QED
    BY <1>3, <1>4, <1>5 DEF Commits

\* One more execution of a request.
TriesAgain(r) ==
    LET m == Len(executions) + 1 IN
    /\ entries' = entries /\ DOMAIN requests' = DOMAIN requests
    /\ \A o \in DOMAIN requests :
          /\ requests'[o].thread = requests[o].thread /\ requests'[o].input = requests[o].input
          /\ requests'[o].from = requests[o].from /\ requests'[o].context = requests[o].context
          /\ o # r => requests'[o].status = requests[o].status
    /\ DOMAIN executions' = DOMAIN executions \cup {m}
    /\ \A e \in DOMAIN executions : executions'[e] = executions[e]
    /\ executions'[m].request = r /\ executions'[m].result = None

LEMMA RetryContent ==
    ASSUME ShapeInv, NEW c \in Callers, CommitRetry(c)
    PROVE  TriesAgain(call[c].request)
  <1>1. PICK r, m : r = call[c].request /\ m = Len(executions) + 1
    OBVIOUS
  <1>2. PICK contexts : requests \in Seq(RequestRows(contexts))
    BY DEF ShapeInv, RowInv
  <1>3. \A o \in DOMAIN requests : requests[o] \in RequestRows(contexts)
    BY <1>2
  <1>4. /\ entries' = entries
        /\ requests' = [requests EXCEPT ![r] = [requests[r] EXCEPT !.status = "queued"]]
    BY <1>1 DEF CommitRetry
  <1>5. /\ DOMAIN requests' = DOMAIN requests
        /\ \A o \in DOMAIN requests :
              requests'[o] = IF o = r THEN [requests[r] EXCEPT !.status = "queued"] ELSE requests[o]
    BY <1>2, <1>4
  <1>6. \A o \in DOMAIN requests :
          /\ requests'[o].thread = requests[o].thread /\ requests'[o].input = requests[o].input
          /\ requests'[o].from = requests[o].from /\ requests'[o].context = requests[o].context
          /\ o # r => requests'[o].status = requests[o].status
    BY <1>3, <1>5 DEF RequestRows
  <1>7. PICK execution : execution = [request |-> r, key |-> call[c].key, result |-> None,
                                      status |-> "queued"]
    OBVIOUS
  <1>8. executions' = Append(executions, execution) /\ executions \in Seq(ExecutionRows)
    BY <1>1, <1>7 DEF CommitRetry, ShapeInv, RowInv
  <1>9. /\ DOMAIN executions' = DOMAIN executions \cup {m} /\ executions'[m] = execution
        /\ \A e \in DOMAIN executions : executions'[e] = executions[e]
    BY <1>1, <1>8
  <1>10. executions'[m].request = r /\ executions'[m].result = None
    BY <1>7, <1>9
  <1> QED
    BY <1>1, <1>4, <1>5, <1>6, <1>9, <1>10 DEF TriesAgain

\* An execution moves, with its request, and may leave an answer as it ends.
MovesAlong(e) ==
    LET r == executions[e].request IN
    /\ DOMAIN requests' = DOMAIN requests
    /\ \A o \in DOMAIN requests :
          /\ requests'[o].thread = requests[o].thread /\ requests'[o].input = requests[o].input
          /\ requests'[o].from = requests[o].from /\ requests'[o].context = requests[o].context
          /\ o # r => requests'[o].status = requests[o].status
    /\ DOMAIN executions' = DOMAIN executions
    /\ \A x \in DOMAIN executions :
          /\ executions'[x].request = executions[x].request
          /\ x # e => executions'[x].result = executions[x].result

Leaves(e) ==
    \/ entries' = entries /\ executions'[e].result = executions[e].result
    \/ /\ NewEntry(ThreadOf(e), "answerer", executions[e].request)
       /\ executions'[e].result = Len(entries) + 1
       /\ requests'[executions[e].request].status \in {"completed", "cancelled"}

LEMMA MoveContent ==
    ASSUME ShapeInv, NEW e \in DOMAIN executions, MoveSteps(e)
    PROVE  MovesAlong(e) /\ Leaves(e)
  <1>1. PICK r : r = executions[e].request
    OBVIOUS
  <1>2. PICK contexts : requests \in Seq(RequestRows(contexts))
    BY DEF ShapeInv, RowInv
  <1>3. \A o \in DOMAIN requests : requests[o] \in RequestRows(contexts)
    BY <1>2
  <1>4. executions \in Seq(ExecutionRows) /\ r \in DOMAIN requests
    BY <1>1 DEF ShapeInv, RowInv
  <1>5. executions[e] \in ExecutionRows
    BY <1>4
  <1>6. PICK from, to :
           /\ Move(e, from, to)
           /\ \/ LeaveNothing(e, to)
              \/ LeaveAnswer(e, to) /\ to \in {"completed", "cancelled"}
    <2>1. CASE Start(e)
      BY <2>1 DEF Start
    <2>2. CASE Requeue(e)
      BY <2>2 DEF Requeue
    <2>3. CASE Complete(e)
      BY <2>3 DEF Complete
    <2>4. CASE Fail(e)
      BY <2>4 DEF Fail
    <2>5. CASE \E c \in Callers : Cancel(c, e)
      BY <2>5 DEF Cancel
    <2> QED
      BY <2>1, <2>2, <2>3, <2>4, <2>5 DEF MoveSteps
  <1>7. requests' = [requests EXCEPT ![r] = [requests[r] EXCEPT !.status = to]]
    BY <1>1, <1>6 DEF Move
  <1>8. /\ DOMAIN requests' = DOMAIN requests
        /\ \A o \in DOMAIN requests :
              requests'[o] = IF o = r THEN [requests[r] EXCEPT !.status = to] ELSE requests[o]
    BY <1>2, <1>7
  <1>9. \A o \in DOMAIN requests :
          /\ requests'[o].thread = requests[o].thread /\ requests'[o].input = requests[o].input
          /\ requests'[o].from = requests[o].from /\ requests'[o].context = requests[o].context
          /\ requests'[o].status = IF o = r THEN to ELSE requests[o].status
    BY <1>3, <1>8 DEF RequestRows
  <1>10. PICK row :
           /\ executions' = [executions EXCEPT ![e] = row]
           /\ row.request = executions[e].request
           /\ \/ entries' = entries /\ row.result = executions[e].result
              \/ /\ entries' = Append(entries, [thread |-> ThreadOf(e), author |-> "answerer",
                                                request |-> executions[e].request])
                 /\ row.result = Len(entries) + 1 /\ to \in {"completed", "cancelled"}
    <2>1. CASE LeaveNothing(e, to)
      <3>1. PICK row : row = [executions[e] EXCEPT !.status = to]
        OBVIOUS
      <3>2. row.request = executions[e].request /\ row.result = executions[e].result
        BY <1>5, <3>1 DEF ExecutionRows
      <3>3. executions' = [executions EXCEPT ![e] = row] /\ entries' = entries
        BY <2>1, <3>1, Zenon DEF LeaveNothing
      <3> QED
        BY <3>2, <3>3
    <2>2. CASE LeaveAnswer(e, to) /\ to \in {"completed", "cancelled"}
      <3>1. PICK row : row = [executions[e] EXCEPT !.status = to, !.result = Len(entries) + 1]
        OBVIOUS
      <3>2. row.request = executions[e].request /\ row.result = Len(entries) + 1
        BY <1>5, <3>1 DEF ExecutionRows
      <3>3. executions' = [executions EXCEPT ![e] = row]
        BY <2>2, <3>1 DEF LeaveAnswer
      <3>4. entries' = Append(entries, [thread |-> ThreadOf(e), author |-> "answerer",
                                        request |-> executions[e].request])
        BY <2>2 DEF LeaveAnswer
      <3> QED
        BY <2>2, <3>2, <3>3, <3>4
    <2> QED
      BY <1>6, <2>1, <2>2
  <1>11. /\ DOMAIN executions' = DOMAIN executions
         /\ \A x \in DOMAIN executions :
               /\ executions'[x].request = executions[x].request
               /\ x # e => executions'[x].result = executions[x].result
         /\ executions'[e].result = row.result
    <2>1. /\ DOMAIN executions' = DOMAIN executions
          /\ \A x \in DOMAIN executions : executions'[x] = IF x = e THEN row ELSE executions[x]
      BY <1>4, <1>10
    <2> QED
      BY <1>10, <2>1
  <1>12. MovesAlong(e)
    BY <1>1, <1>8, <1>9, <1>11 DEF MovesAlong
  <1>13. Leaves(e)
    <2>1. CASE entries' = entries /\ row.result = executions[e].result
      BY <1>11, <2>1 DEF Leaves
    <2>2. CASE /\ entries' = Append(entries, [thread |-> ThreadOf(e), author |-> "answerer",
                                              request |-> executions[e].request])
               /\ row.result = Len(entries) + 1 /\ to \in {"completed", "cancelled"}
      <3>1. NewEntry(ThreadOf(e), "answerer", executions[e].request)
        BY <2>2, AddsEntry DEF ShapeInv
      <3>2. requests'[r].status = to
        BY <1>4, <1>9
      <3> QED
        BY <1>1, <1>11, <2>2, <3>1, <3>2 DEF Leaves
    <2> QED
      BY <1>10, <2>1, <2>2
  <1> QED
    BY <1>12, <1>13

---------------------------------------------------------------------------
(* What follows for the rows that were there *)

LEMMA ContentStays ==
    ASSUME ShapeInv,
           \/ UNCHANGED <<entries, requests, executions>>
           \/ \E th, kind : Asks(th, kind)
           \/ \E th, r : AsksAgain(th, r)
           \/ \E r : TriesAgain(r)
           \/ \E e \in DOMAIN executions : MovesAlong(e) /\ Leaves(e)
    PROVE  Stays
  <1>1. CASE UNCHANGED <<entries, requests, executions>>
    BY <1>1 DEF Stays
  <1>2. CASE \E th, kind : Asks(th, kind)
    BY <1>2 DEF Asks, NewEntry, NewRequest, Stays
  <1>3. CASE \E th, r : AsksAgain(th, r)
    BY <1>3 DEF AsksAgain, NewRequest, Stays
  <1>4. CASE \E r : TriesAgain(r)
    BY <1>4 DEF TriesAgain, Stays
  <1>5. CASE \E e \in DOMAIN executions : MovesAlong(e) /\ Leaves(e)
    BY <1>5 DEF MovesAlong, Leaves, NewEntry, Stays
  <1> QED
    BY <1>1, <1>2, <1>3, <1>4, <1>5

\* The entries that were there answer what they answered.
SameAnswers ==
    \A i \in DOMAIN entries : \A r \in DOMAIN requests' :
        AnswerOf(i, r)' <=> (r \in DOMAIN requests /\ AnswerOf(i, r))

LEMMA AnswersAdded ==
    ASSUME ShapeInv, Stays, NEW m, m \notin DOMAIN executions,
           DOMAIN executions' = DOMAIN executions \cup {m},
           \A e \in DOMAIN executions : executions'[e] = executions[e],
           executions'[m].result = None
    PROVE  SameAnswers
  <1>1. \A e \in DOMAIN executions : executions[e].request \in DOMAIN requests
    BY DEF ShapeInv, RowInv
  <1>2. \A i \in DOMAIN entries : i # None
    BY DEF ShapeInv, RowInv, None
  <1> QED
    BY <1>1, <1>2 DEF SameAnswers, AnswerOf, ExecutionsOf

ReplacedIff ==
    \A i \in DOMAIN entries :
        Replaced(i) <=> \E r \in DOMAIN requests : AnswerOf(i, r) /\ ReplacementOf(r) # {}

LEMMA ReplacedBy == ShapeInv => ReplacedIff
  <1> SUFFICES ASSUME ShapeInv, NEW i \in DOMAIN entries
               PROVE  Replaced(i) <=>
                         \E r \in DOMAIN requests : AnswerOf(i, r) /\ ReplacementOf(r) # {}
    BY DEF ReplacedIff
  <1>1. \A e \in DOMAIN executions : executions[e].request \in DOMAIN requests
    BY DEF ShapeInv, RowInv
  <1>2. ASSUME Replaced(i)
        PROVE  \E r \in DOMAIN requests : AnswerOf(i, r) /\ ReplacementOf(r) # {}
    BY <1>1, <1>2 DEF Replaced, AnswerOf, ExecutionsOf
  <1>3. ASSUME NEW r \in DOMAIN requests, AnswerOf(i, r), ReplacementOf(r) # {}
        PROVE  Replaced(i)
    BY <1>3 DEF Replaced, AnswerOf, ExecutionsOf
  <1> QED
    BY <1>2, <1>3

LEMMA ReplacedByLater == ShapeInv' => ReplacedIff'
  BY ReplacedBy, PTL

\* Replaced stays what has an answer to a request that has a replacement.
LEMMA ReplacedStays ==
    ASSUME ShapeInv, ShapeInv', Stays, SameAnswers, NEW i \in DOMAIN entries,
           \A r \in DOMAIN requests : AnswerOf(i, r) =>
              (ReplacementOf(r)' = {} <=> ReplacementOf(r) = {})
    PROVE  Replaced(i)' <=> Replaced(i)
  <1>1. Replaced(i) <=> \E r \in DOMAIN requests : AnswerOf(i, r) /\ ReplacementOf(r) # {}
    BY ReplacedBy DEF ReplacedIff
  <1>2. i \in DOMAIN entries'
    BY DEF Stays
  <1>3. Replaced(i)' <=> \E r \in DOMAIN requests' : AnswerOf(i, r)' /\ ReplacementOf(r)' # {}
    BY <1>2, ReplacedByLater DEF ReplacedIff
  <1>4. DOMAIN requests \subseteq DOMAIN requests'
    BY DEF Stays
  <1>5. \A r \in DOMAIN requests' : AnswerOf(i, r)' <=> (r \in DOMAIN requests /\ AnswerOf(i, r))
    BY DEF SameAnswers
  <1> QED
    BY <1>1, <1>3, <1>4, <1>5

LEMMA AscendsIn ==
    ASSUME NEW S, NEW T, NEW numbers, Ascends(numbers, S), S \subseteq T
    PROVE  Ascends(numbers, T)
  BY DEF Ascends

\* A written answer belongs to a request.
LEMMA AnswersKnown ==
    ASSUME ShapeInv, AnswersInv, NEW i \in DOMAIN entries, entries[i].author = "answerer"
    PROVE  /\ entries[i].request \in DOMAIN requests /\ AnswerOf(i, entries[i].request)
  <1>1. PICK e \in DOMAIN executions : executions[e].result = i
    BY DEF AnswersInv
  <1>2. i # None
    BY DEF ShapeInv, RowInv, None
  <1>3. entries[i].request = executions[e].request
    BY <1>1, <1>2 DEF AnswersInv
  <1> QED
    BY <1>1, <1>3 DEF ShapeInv, RowInv, AnswerOf, ExecutionsOf

LEMMA OldContexts ==
    ASSUME ShapeInv, AnswersInv, ContextInv, Stays, NEW r \in DOMAIN requests
    PROVE  Conversation(requests[r].context, r)'
  <1>1. PICK context : context = requests[r].context
    OBVIOUS
  <1>2. /\ r \in DOMAIN requests' /\ requests'[r].context = context
        /\ requests'[r].thread = requests[r].thread /\ requests'[r].input = requests[r].input
    BY <1>1 DEF Stays
  <1>3. /\ Ascends(context, EntriesOf(requests[r].thread))
        /\ context # <<>> /\ Last(context) = requests[r].input
        /\ OneAnswerEach(context)
    BY <1>1 DEF ContextInv, Conversation
  <1>4. EntriesOf(requests[r].thread) \subseteq EntriesOf(requests[r].thread)'
    BY <1>2 DEF EntriesOf, Stays
  <1>5. Ascends(context, EntriesOf(requests[r].thread)')
    BY <1>3, <1>4, AscendsIn
  <1>6. \A i \in DOMAIN context : context[i] \in DOMAIN entries
    BY <1>3 DEF Ascends, EntriesOf
  <1>7. ASSUME NEW i \in DOMAIN context, entries'[context[i]].author = "answerer"
        PROVE  /\ entries[context[i]].author = "answerer"
               /\ QuestionOf(context[i])' = QuestionOf(context[i])
    <2>1. context[i] \in DOMAIN entries /\ entries'[context[i]] = entries[context[i]]
      BY <1>6 DEF Stays
    <2>2. entries[context[i]].request \in DOMAIN requests
      BY <1>7, <2>1, AnswersKnown
    <2> QED
      BY <1>7, <2>1, <2>2 DEF QuestionOf, Stays
  <1>8. OneAnswerEach(requests[r].context)'
    BY <1>2, <1>3, <1>7 DEF OneAnswerEach
  <1> QED
    BY <1>2, <1>3, <1>5, <1>8 DEF Conversation

\* Answers to one question that were not replaced are one answer.
LEMMA OneStands ==
    ASSUME ShapeInv, AnswersInv, SupersededInv,
           NEW i \in DOMAIN entries, NEW j \in DOMAIN entries,
           entries[i].author = "answerer", entries[j].author = "answerer",
           ~Replaced(i), ~Replaced(j), QuestionOf(i) = QuestionOf(j)
    PROVE  i = j
  <1>1. PICK o, r : o = entries[i].request /\ r = entries[j].request
    OBVIOUS
  <1>2. o \in DOMAIN requests /\ AnswerOf(i, o) /\ r \in DOMAIN requests /\ AnswerOf(j, r)
    BY <1>1, AnswersKnown
  <1>3. ReplacementOf(o) = {} /\ ReplacementOf(r) = {}
    BY <1>2, ReplacedBy DEF ReplacedIff
  <1>4. requests[o].input = requests[r].input /\ o \in Nat /\ r \in Nat
    BY <1>1, <1>2, RowFacts DEF QuestionOf, ShapeInv
  <1>5. o = r
    BY <1>2, <1>3, <1>4 DEF SupersededInv
  <1>6. i # None /\ j # None
    BY DEF ShapeInv, RowInv, None
  <1>7. PICK d \in DOMAIN executions, e \in DOMAIN executions :
           /\ executions[d].request = o /\ executions[d].result = i
           /\ executions[e].request = o /\ executions[e].result = j
    BY <1>2, <1>5 DEF AnswerOf, ExecutionsOf
  <1>8. d = e
    BY <1>6, <1>7 DEF AnswersInv
  <1> QED
    BY <1>7, <1>8

\* What a new question is given.
LEMMA NewContext ==
    ASSUME ShapeInv, AnswersInv, SupersededInv, NEW th, NEW kind, Asks(th, kind),
           NEW n, n = Len(requests) + 1
    PROVE  /\ Conversation(requests[n].context, n)'
           /\ \E context : /\ context = requests'[n].context
                            /\ \A i \in DOMAIN context : ~Replaced(context[i])
  <1>0. ShapeInv /\ Stays
    BY ContentStays
  <1>1. PICK q : q = Len(entries) + 1
    OBVIOUS
  <1>2. /\ DOMAIN entries = 1..Len(entries) /\ Len(entries) \in Nat
        /\ q \in Nat \ {0} /\ q \notin DOMAIN entries
    BY <1>1 DEF ShapeInv, RowInv
  <1>3. /\ DOMAIN entries' = DOMAIN entries \cup {q} /\ DOMAIN entries' = 1..q
        /\ Len(entries') = q
        /\ \A i \in DOMAIN entries : entries'[i] = entries[i]
        /\ entries'[q].thread = th /\ entries'[q].author = "requester"
    BY <1>1 DEF Asks, NewEntry
  <1>4. /\ requests'[n].thread = th /\ requests'[n].input = q
        /\ requests'[n].context = Snapshot(entries', th, kind)
    BY <1>1 DEF Asks, NewRequest
  <1>5. ~Replaced(q)
    BY <1>2 DEF Replaced, AnswersInv, None
  <1>6. PICK T : T = {i \in 1..q : entries'[i].thread = th /\ ~Replaced(i)}
    OBVIOUS
  <1>7. PICK turns : turns = Kept([i \in 1..q |-> i], T)
    OBVIOUS
  <1>8. turns = Turns(entries', th)
    BY <1>3, <1>6, <1>7, Zenon DEF Turns
  <1>9. q \in T
    BY <1>2, <1>3, <1>5, <1>6
  <1>10. /\ Ascends(turns, (1..q) \cap T)
         /\ turns # <<>> /\ Last(turns) = q
    <2>1. q \in Nat /\ q # 0
      BY <1>2
    <2> QED
      BY <1>7, <1>9, <2>1, KeptNumbers
  <1>11. (1..q) \cap T = T
    BY <1>6
  <1>12. PICK context : context = Snapshot(entries', th, kind)
    OBVIOUS
  <1>13. Ascends(context, T) /\ context # <<>> /\ Last(context) = q
    <2>1. Ascends(turns, T)
      BY <1>10, <1>11
    <2>2. CASE kind = "human" \/ Len(turns) <= MaxTurns
      <3>1. context = turns
        BY <1>8, <1>12, <2>2 DEF Snapshot
      <3> QED
        BY <1>10, <2>1, <3>1
    <2>3. CASE ~(kind = "human" \/ Len(turns) <= MaxTurns)
      <3>1. context = SubSeq(turns, Len(turns) - MaxTurns + 1, Len(turns))
        BY <1>8, <1>12, <2>3 DEF Snapshot
      <3>2. MaxTurns \in Nat \ {0} /\ Len(turns) \in Nat
        BY <2>1, StoreAssumption DEF Ascends
      <3>3. MaxTurns < Len(turns)
        BY <2>3, <3>2
      <3> QED
        BY <1>10, <2>1, <3>1, <3>2, <3>3, AscendingEnd
    <2> QED
      BY <2>2, <2>3
  <1>14. \A i \in DOMAIN context :
            /\ context[i] \in DOMAIN entries'
            /\ entries'[context[i]].thread = th /\ ~Replaced(context[i])
    BY <1>3, <1>6, <1>13 DEF Ascends
  <1>15. T \subseteq EntriesOf(th)'
    BY <1>3, <1>6 DEF EntriesOf
  <1>16. Ascends(context, EntriesOf(th)')
    BY <1>13, <1>15, AscendsIn
  <1>17. ASSUME NEW i \in DOMAIN context, entries'[context[i]].author = "answerer"
         PROVE  /\ context[i] \in DOMAIN entries
                /\ entries[context[i]].author = "answerer"
                /\ QuestionOf(context[i])' = QuestionOf(context[i])
    <2>1. context[i] \in DOMAIN entries /\ entries'[context[i]] = entries[context[i]]
      BY <1>3, <1>14, <1>17
    <2>2. entries[context[i]].request \in DOMAIN requests
      BY <1>17, <2>1, AnswersKnown
    <2> QED
      BY <1>0, <1>17, <2>1, <2>2 DEF QuestionOf, Stays
  <1>18. ASSUME NEW i \in DOMAIN context, NEW j \in DOMAIN context,
                entries'[context[i]].author = "answerer", entries'[context[j]].author = "answerer",
                QuestionOf(context[i])' = QuestionOf(context[j])'
         PROVE  i = j
    <2>1. context[i] = context[j]
      BY <1>14, <1>17, <1>18, OneStands
    <2>2. DOMAIN context = 1..Len(context) /\ Len(context) \in Nat
          /\ \A x \in DOMAIN context : context[x] \in Nat
      BY <1>13 DEF Ascends
    <2> QED
      BY <1>13, <2>1, <2>2 DEF Ascends
  <1>19. OneAnswerEach(requests[n].context)'
    BY <1>4, <1>12, <1>18 DEF OneAnswerEach
  <1> QED
    BY <1>4, <1>12, <1>13, <1>14, <1>16, <1>19 DEF Conversation

\* As requests are in the order of their questions, and those with one question in that of
\* created_at, the latest by place is the last.
LEMMA LatestIsLast ==
    ASSUME ShapeInv, TimeInv, InputsInv, SupersededInv, NEW th, NEW r, IsLast(r, th)
    PROVE  LatestByPlace(th) = r
  <1>1. /\ DOMAIN requests = 1..Len(requests) /\ Len(requests) \in Nat
        /\ \A o \in DOMAIN requests : requests[o].input \in Nat
    BY RowFacts DEF ShapeInv
  <1> DEFINE Later(x) == \A o \in RequestsOf(th) \ {x} :
                            \/ requests[o].input < requests[x].input
                            \/ /\ requests[o].input = requests[x].input
                               /\ \E i, j \in DOMAIN byTime : i < j /\ byTime[i] = o /\ byTime[j] = x
  <1>3. r \in RequestsOf(th) /\ \A o \in RequestsOf(th) : o <= r
    BY DEF IsLast
  <1>4. \A o \in RequestsOf(th) : o \in DOMAIN requests /\ requests[o].thread = th
    BY DEF RequestsOf
  <1>5. Later(r)
    <2> SUFFICES ASSUME NEW o \in RequestsOf(th) \ {r}
                 PROVE  \/ requests[o].input < requests[r].input
                        \/ requests[o].input = requests[r].input /\ Before(o, r)
      BY DEF Before
    <2>1. o < r
      BY <1>1, <1>3, <1>4
    <2>2. requests[o].input <= requests[r].input
      BY <1>3, <1>4, <2>1 DEF InputsInv
    <2>3. requests[o].input = requests[r].input => Before(o, r)
      BY <1>3, <1>4, <2>1 DEF SupersededInv
    <2> QED
      BY <1>1, <1>3, <1>4, <2>2, <2>3
  <1>6. ASSUME NEW x \in RequestsOf(th), Later(x), x # r PROVE FALSE
    <2>1. x < r /\ requests[x].input <= requests[r].input
      BY <1>1, <1>3, <1>4, <1>6 DEF InputsInv
    <2>2. requests[r].input < requests[x].input
          \/ (requests[r].input = requests[x].input /\ Before(r, x))
      BY <1>3, <1>6 DEF Before
    <2>3. requests[r].input = requests[x].input /\ Before(r, x)
      BY <1>1, <1>3, <1>4, <2>1, <2>2
    <2>4. Before(x, r)
      BY <1>3, <1>4, <2>1, <2>3 DEF SupersededInv
    <2> QED
      BY <1>3, <1>4, <2>3, <2>4, BeforeIsOrder
  <1>7. LatestByPlace(th) = CHOOSE x \in RequestsOf(th) : Later(x)
    BY DEF LatestByPlace
  <1> HIDE DEF Later
  <1> QED
    BY <1>3, <1>5, <1>6, <1>7

---------------------------------------------------------------------------
(* Who holds a lock holds the end *)

LEMMA AllowedAtEnd ==
    ASSUME ShapeInv, IndexInv, InputsInv, SupersededInv, NEW c \in Callers,
           call[c].phase = "begun", Allowed(call[c])
    PROVE  AtEnd(call[c])
  <1>0. PICK k : k = call[c]
    OBVIOUS
  <1>1. k \in CallRows /\ WellAimed(k, PrincipalOf[c]) /\ Allowed(k)
    BY <1>0 DEF ShapeInv, CallInv
  <1>2. ASSUME k.op = "regenerate"
        PROVE  IsLast(k.request, k.thread) /\ requests[k.request].status \in {"completed", "cancelled"}
    <2>1. k.request \in DOMAIN requests /\ requests[k.request].thread = k.thread
      BY <1>1, <1>2 DEF WellAimed
    <2>2. LatestByPlace(k.thread) = k.request
          /\ requests[k.request].status \in {"completed", "cancelled"}
      BY <1>1, <1>2, <2>1 DEF Allowed, MayRegenerate
    <2>3. PICK m \in DOMAIN requests : IsLast(m, k.thread)
      BY <2>1 DEF IndexInv, LatestInv
    <2>4. LatestByPlace(k.thread) = m
      BY <2>3, LatestIsLast DEF IndexInv
    <2> QED
      BY <2>2, <2>3, <2>4
  <1>3. k.op = "retry" => requests[k.request].status = "failed"
    BY <1>1 DEF Allowed, MayRetry
  <1> QED
    BY <1>0, <1>2, <1>3 DEF AtEnd

\* A lock keeps the end of its thread.
LEMMA AtEndKept ==
    ASSUME ShapeInv, Stays, NEW o \in Callers, call[o].phase \in {"locked", "admitted"},
           AtEnd(call[o]), call'[o] = call[o],
           \A r \in DOMAIN requests' : requests'[r].thread = call[o].thread =>
              r \in DOMAIN requests /\ requests'[r].status = requests[r].status
    PROVE  AtEnd(call[o])'
  <1>1. WellAimed(call[o], PrincipalOf[o])
    BY DEF ShapeInv, CallInv
  <1>2. ASSUME call[o].op = "regenerate"
        PROVE  /\ IsLast(call[o].request, call[o].thread)'
               /\ requests'[call[o].request].status \in {"completed", "cancelled"}
    <2>1. /\ IsLast(call[o].request, call[o].thread)
          /\ requests[call[o].request].status \in {"completed", "cancelled"}
      BY <1>2 DEF AtEnd
    <2>2. RequestsOf(call[o].thread)' = RequestsOf(call[o].thread)
      BY DEF RequestsOf, Stays
    <2>3. call[o].request \in DOMAIN requests'
          /\ requests'[call[o].request].thread = call[o].thread
      BY <2>1, <2>2 DEF IsLast, RequestsOf
    <2>4. requests'[call[o].request].status = requests[call[o].request].status
      BY <2>3
    <2> QED
      BY <2>1, <2>2, <2>4 DEF IsLast
  <1>3. ASSUME call[o].op = "retry" PROVE requests'[call[o].request].status = "failed"
    <2>1. /\ call[o].request \in DOMAIN requests
          /\ requests[call[o].request].thread = call[o].thread
          /\ requests[call[o].request].status = "failed"
      BY <1>1, <1>3 DEF WellAimed, AtEnd
    <2> QED
      BY <2>1 DEF Stays
  <1> QED
    BY <1>2, <1>3 DEF AtEnd

LEMMA CallStepEnds ==
    ASSUME ShapeInv, IndexInv, InputsInv, SupersededInv, HeldEndInv, NEW c \in Callers,
           CallSteps(c)
    PROVE  HeldEndInv'
  <1>1. UNCHANGED <<requests, executions, entries>>
    BY DEF CallSteps, Begin, LockThread, Admit, GiveUp
  <1>2. call \in [Callers -> CallRows]
    BY DEF ShapeInv, CallInv
  <1>3. \A o \in Callers \ {c} : call'[o] = call[o]
    BY <1>2 DEF CallSteps, Begin, LockThread, Admit, GiveUp
  <1>5. ASSUME NEW o \in Callers \ {c}, call'[o].phase \in {"locked", "admitted"}
        PROVE  AtEnd(call[o])'
    BY <1>1, <1>3, <1>5 DEF HeldEndInv, AtEnd, IsLast, RequestsOf
  <1>6. ASSUME call'[c].phase \in {"locked", "admitted"} PROVE AtEnd(call[c])'
    <2>1. CASE LockThread(c)
      <3>1. /\ call[c].phase = "begun" /\ Allowed(call[c])
            /\ call' = [call EXCEPT ![c] = [call[c] EXCEPT !.phase = "locked"]]
        BY <2>1 DEF LockThread
      <3>2. call'[c].thread = call[c].thread /\ call'[c].op = call[c].op
            /\ call'[c].request = call[c].request
        BY <1>2, <3>1 DEF CallRows
      <3>3. AtEnd(call[c])
        BY <3>1, AllowedAtEnd
      <3> QED
        BY <1>1, <3>2, <3>3 DEF AtEnd, IsLast, RequestsOf
    <2>2. CASE Admit(c)
      <3>1. call'[c].thread = call[c].thread /\ call'[c].op = call[c].op
            /\ call'[c].request = call[c].request /\ call[c].phase = "locked"
        BY <1>2, <2>2 DEF Admit, CallRows
      <3>2. AtEnd(call[c])
        BY <3>1 DEF HeldEndInv
      <3> QED
        BY <1>1, <3>1, <3>2 DEF AtEnd, IsLast, RequestsOf
    <2>3. CASE Begin(c)
      <3>1. PICK k \in Calls(c) : call' = [call EXCEPT ![c] = k]
        BY <2>3 DEF Begin
      <3> QED
        BY <1>2, <1>6, <3>1, CallsAreAimed
    <2>4. CASE GiveUp(c)
      BY <1>2, <1>6, <2>4 DEF GiveUp, Idle
    <2> QED
      BY <2>1, <2>2, <2>3, <2>4 DEF CallSteps
  <1> QED
    BY <1>5, <1>6 DEF HeldEndInv

\* Whoever holds a lock while c commits holds that of another thread.
LEMMA DoneEnds ==
    ASSUME ShapeInv, IndexInv, HeldEndInv, Stays, NEW c \in Callers, Done(c),
           \A r \in DOMAIN requests' :
              \/ requests'[r].thread = ItsThread(c)
              \/ r \in DOMAIN requests /\ requests'[r].status = requests[r].status
    PROVE  HeldEndInv'
  <1> SUFFICES ASSUME NEW o \in Callers, call'[o].phase \in {"locked", "admitted"}
               PROVE  AtEnd(call[o])'
    BY DEF HeldEndInv
  <1>1. /\ o # c /\ call'[o] = call[o] /\ call[o].phase \in {"locked", "admitted"}
        /\ call[o].op # "create" => call[o].thread # call[c].thread
    BY DoneLocks
  <1>2. WellAimed(call[o], PrincipalOf[o]) /\ AtEnd(call[o])
    BY <1>1 DEF ShapeInv, CallInv, HeldEndInv
  <1>3. CASE call[o].op = "create"
    BY <1>1, <1>3 DEF AtEnd
  <1>4. CASE call[o].op # "create"
    <2>1. call[o].thread \in DOMAIN threads /\ call[o].thread # call[c].thread
      BY <1>1, <1>2, <1>4 DEF WellAimed
    <2>2. Len(threads) + 1 \notin DOMAIN threads
      BY RowFacts DEF ShapeInv
    <2>3. call[o].thread # ItsThread(c)
      BY <2>1, <2>2 DEF ItsThread
    <2>4. \A r \in DOMAIN requests' : requests'[r].thread = call[o].thread =>
              r \in DOMAIN requests /\ requests'[r].status = requests[r].status
      BY <2>3
    <2> QED
      BY <1>1, <1>2, <2>4, AtEndKept
  <1> QED
    BY <1>3, <1>4

---------------------------------------------------------------------------
(* The steps *)

\* An execution is added, and what was asked again had failed: the answers stay.
LEMMA AnswersKept ==
    ASSUME ShapeInv, AnswersInv, Stays, NEW m, m \notin DOMAIN executions,
           DOMAIN executions' = DOMAIN executions \cup {m},
           \A e \in DOMAIN executions : executions'[e] = executions[e],
           executions'[m].result = None,
           \A i \in DOMAIN entries' : i \in DOMAIN entries \/ entries'[i].author # "answerer",
           \A r \in DOMAIN requests :
              requests'[r].status = requests[r].status \/ requests[r].status = "failed"
    PROVE  AnswersInv'
  <1>1. ASSUME NEW e \in DOMAIN executions', executions'[e].result # None
        PROVE  /\ e \in DOMAIN executions /\ executions'[e] = executions[e]
               /\ executions[e].request \in DOMAIN requests
               /\ executions[e].result \in DOMAIN entries
    BY <1>1 DEF AnswersInv, ShapeInv, RowInv
  <1>2. \A e \in DOMAIN executions' : executions'[e].result # None =>
           /\ executions'[e].result \in DOMAIN entries'
           /\ entries'[executions'[e].result].request = executions'[e].request
           /\ entries'[executions'[e].result].thread = requests'[executions'[e].request].thread
           /\ requests'[executions'[e].request].input < executions'[e].result
           /\ requests'[executions'[e].request].status \in {"completed", "cancelled"}
    BY <1>1 DEF AnswersInv, Stays
  <1>3. \A d, e \in DOMAIN executions' :
           /\ executions'[d].request = executions'[e].request
           /\ executions'[d].result # None /\ executions'[e].result # None
           => d = e
    BY <1>1 DEF AnswersInv
  <1>4. \A i \in DOMAIN entries' : entries'[i].author = "answerer" =>
           \E e \in DOMAIN executions' : executions'[e].result = i
    BY DEF AnswersInv, Stays
  <1> QED
    BY <1>2, <1>3, <1>4 DEF AnswersInv

\* Where an entry is appended.
LEMMA EntryPlaces ==
    ASSUME ShapeInv, NEW q, q = Len(entries) + 1
    PROVE  /\ q \notin DOMAIN entries /\ q \in Nat /\ q # None
           /\ \A i \in DOMAIN entries : i \in Nat /\ i < q /\ i # None
  <1>1. entries \in Seq(EntryRows)
    BY DEF ShapeInv, RowInv
  <1>2. DOMAIN entries = 1..Len(entries) /\ Len(entries) \in Nat
    BY <1>1
  <1> QED
    BY <1>2 DEF None

LEMMA AskStep ==
    ASSUME ShapeInv, ShapeInv', ConversationInv, HeldEndInv', OrderKept,
           NEW th, NEW kind, Asks(th, kind)
    PROVE  ConversationInv'
  <1>0. PICK n, q, m : n = Len(requests) + 1 /\ q = Len(entries) + 1 /\ m = Len(executions) + 1
    OBVIOUS
  <1>1. InputsInv /\ AnswersInv /\ SupersededInv /\ EndedInv /\ ContextInv
    BY DEF ConversationInv
  <1>2. NewRequest(th, q, None, Snapshot(entries', th, kind)) /\ NewEntry(th, "requester", n)
    BY <1>0 DEF Asks
  <1>3. /\ DOMAIN requests' = DOMAIN requests \cup {n}
        /\ \A r \in DOMAIN requests : requests'[r] = requests[r]
        /\ requests'[n].thread = th /\ requests'[n].input = q /\ requests'[n].from = None
        /\ DOMAIN executions' = DOMAIN executions \cup {m}
        /\ \A e \in DOMAIN executions : executions'[e] = executions[e]
        /\ executions'[m].request = n /\ executions'[m].result = None
    BY <1>0, <1>2 DEF NewRequest
  <1>4. /\ DOMAIN entries' = DOMAIN entries \cup {q}
        /\ \A i \in DOMAIN entries : entries'[i] = entries[i]
        /\ entries'[q].thread = th /\ entries'[q].author = "requester"
    BY <1>0, <1>2 DEF NewEntry
  <1>5. /\ DOMAIN requests = 1..Len(requests) /\ Len(requests) \in Nat /\ n \notin DOMAIN requests
        /\ DOMAIN executions = 1..Len(executions) /\ Len(executions) \in Nat
        /\ m \notin DOMAIN executions
        /\ n \in Nat /\ \A r \in DOMAIN requests : r \in Nat /\ r < n
    BY <1>0, RowFacts DEF ShapeInv
  <1>6. /\ q \notin DOMAIN entries /\ q \in Nat
        /\ \A i \in DOMAIN entries : i \in Nat /\ i < q /\ i # None
        /\ q # None
    BY <1>0, EntryPlaces
  <1>7. Stays
    BY ContentStays
  <1>8. SameAnswers
    BY <1>3, <1>5, <1>7, AnswersAdded
  <1>9. \A r \in DOMAIN requests : ReplacementOf(r)' = ReplacementOf(r)
    BY <1>3, <1>5 DEF ReplacementOf, None
  <1>10. \A i \in DOMAIN entries : Replaced(i)' <=> Replaced(i)
    BY <1>7, <1>8, <1>9, ReplacedStays
  <1>11. InputsInv'
    <2>1. ASSUME NEW r \in DOMAIN requests'
          PROVE  /\ requests'[r].input \in DOMAIN entries'
                 /\ entries'[requests'[r].input].thread = requests'[r].thread
                 /\ entries'[requests'[r].input].author = "requester"
      BY <1>1, <1>3, <1>4 DEF InputsInv
    <2>2. ASSUME NEW o \in DOMAIN requests', NEW r \in DOMAIN requests', o < r,
                 requests'[o].thread = requests'[r].thread
          PROVE  requests'[o].input <= requests'[r].input
      <3>1. o \in DOMAIN requests
        BY <1>3, <1>5, <2>2
      <3>2. CASE r = n
        <4>1. requests'[o].input \in DOMAIN entries
          BY <1>1, <1>3, <3>1 DEF InputsInv
        <4> QED
          BY <1>3, <1>6, <3>2, <4>1
      <3>3. CASE r # n
        BY <1>1, <1>3, <2>2, <3>1, <3>3 DEF InputsInv
      <3> QED
        BY <3>2, <3>3
    <2> QED
      BY <2>1, <2>2 DEF InputsInv
  <1>12. AnswersInv'
    BY <1>1, <1>3, <1>4, <1>5, <1>7, AnswersKept
  <1>13. SupersededInv'
    <2> SUFFICES ASSUME NEW o \in DOMAIN requests', NEW r \in DOMAIN requests', o < r,
                        requests'[o].input = requests'[r].input
                 PROVE  ReplacementOf(o)' # {} /\ Before(o, r)'
      BY DEF SupersededInv
    <2>1. o \in DOMAIN requests
      BY <1>3, <1>5
    <2>2. requests'[o].input \in DOMAIN entries
      BY <1>1, <1>3, <2>1 DEF InputsInv
    <2>3. r \in DOMAIN requests
      BY <1>3, <1>6, <2>2
    <2>4. ReplacementOf(o) # {} /\ Before(o, r)
      BY <1>1, <1>3, <2>1, <2>3 DEF SupersededInv
    <2> QED
      BY <1>9, <2>1, <2>3, <2>4 DEF OrderKept
  <1>14. EndedInv'
    BY <1>1, <1>3, <1>5 DEF EndedInv
  <1>15. ContextInv'
    <2>1. ASSUME NEW r \in DOMAIN requests PROVE NoneReplaced(requests[r].context)'
      <3>1. /\ NoneReplaced(requests[r].context)
            /\ Ascends(requests[r].context, EntriesOf(requests[r].thread))
        BY <1>1 DEF ContextInv, Conversation
      <3>2. \A i \in DOMAIN requests[r].context : requests[r].context[i] \in DOMAIN entries
        BY <3>1 DEF Ascends, EntriesOf
      <3>3. requests'[r].context = requests[r].context
        BY <1>3
      <3> QED
        BY <1>10, <3>1, <3>2, <3>3 DEF NoneReplaced
    <2>2. \A r \in DOMAIN requests : Conversation(requests[r].context, r)'
      BY <1>1, <1>7, OldContexts
    <2>3. PICK context :
             /\ Conversation(requests[n].context, n)' /\ context = requests'[n].context
             /\ \A i \in DOMAIN context : ~Replaced(context[i])
      BY <1>0, <1>1, NewContext
    <2>4. NoneReplaced(requests[n].context)'
      <3>1. \A i \in DOMAIN context : context[i] \in DOMAIN entries \/ context[i] = q
        BY <1>4, <2>3 DEF Conversation, Ascends, EntriesOf
      <3>2. ~Replaced(q)'
        <4>1. \A e \in DOMAIN executions :
                 executions[e].result \in DOMAIN entries \/ executions[e].result = None
          BY <1>1 DEF AnswersInv
        <4>2. \A e \in DOMAIN executions' : executions'[e].result # q
          BY <1>3, <1>6, <4>1
        <4> QED
          BY <4>2 DEF Replaced
      <3>3. \A i \in DOMAIN context : ~Replaced(context[i])'
        BY <1>10, <2>3, <3>1, <3>2
      <3> QED
        BY <2>3, <3>3 DEF NoneReplaced
    <2> QED
      BY <1>3, <2>1, <2>2, <2>3, <2>4 DEF ContextInv
  <1> QED
    BY <1>11, <1>12, <1>13, <1>14, <1>15 DEF ConversationInv

LEMMA UpToLast ==
    ASSUME NEW S, NEW numbers, Ascends(numbers, S), numbers # <<>>, NEW i \in DOMAIN numbers
    PROVE  numbers[i] <= Last(numbers)
  <1>1. /\ DOMAIN numbers = 1..Len(numbers) /\ Len(numbers) \in Nat
        /\ \A x \in DOMAIN numbers : numbers[x] \in Nat
        /\ \A x, y \in DOMAIN numbers : x < y => numbers[x] < numbers[y]
    BY DEF Ascends
  <1>2. Last(numbers) = numbers[Len(numbers)] /\ Len(numbers) \in DOMAIN numbers
    BY <1>1 DEF Last
  <1>3. i = Len(numbers) \/ i < Len(numbers)
    BY <1>1
  <1> QED
    BY <1>1, <1>2, <1>3

\* The answer of the last request is replaced: it comes after the question of every request
\* of its thread, so that no context has it.
LEMMA AgainContexts ==
    ASSUME ShapeInv, ShapeInv', InputsInv, AnswersInv, ContextInv, Stays, SameAnswers,
           NEW r0 \in DOMAIN requests, IsLast(r0, requests[r0].thread),
           NEW r \in DOMAIN requests,
           \A o \in DOMAIN requests \ {r0} : ReplacementOf(o)' = ReplacementOf(o),
           NEW context, context = requests[r].context, NEW x \in DOMAIN context
    PROVE  context[x] \in DOMAIN entries /\ ~Replaced(context[x])'
  <1>1. PICK i : i = context[x]
    OBVIOUS
  <1>2. /\ Ascends(context, EntriesOf(requests[r].thread)) /\ context # <<>>
        /\ Last(context) = requests[r].input /\ ~Replaced(i)
    BY <1>1 DEF ContextInv, Conversation, NoneReplaced
  <1>3. i \in DOMAIN entries /\ entries[i].thread = requests[r].thread /\ i \in Nat
    BY <1>1, <1>2 DEF Ascends, EntriesOf
  <1>4. i <= requests[r].input
    BY <1>1, <1>2, UpToLast
  <1>5. ~AnswerOf(i, r0)
    <2> SUFFICES ASSUME AnswerOf(i, r0) PROVE FALSE
      OBVIOUS
    <2>1. PICK e \in DOMAIN executions : executions[e].request = r0 /\ executions[e].result = i
      BY DEF AnswerOf, ExecutionsOf
    <2>2. i # None
      BY <1>3 DEF ShapeInv, RowInv, None
    <2>3. requests[r0].input < i /\ entries[i].thread = requests[r0].thread
      BY <2>1, <2>2 DEF AnswersInv
    <2>4. requests[r0].input \in Nat /\ requests[r].input \in Nat /\ r \in Nat /\ r0 \in Nat
      BY RowFacts DEF ShapeInv
    <2>5. r <= r0 /\ requests[r].thread = requests[r0].thread
      BY <1>3, <2>3 DEF IsLast, RequestsOf
    <2>6. requests[r].input <= requests[r0].input
      BY <2>4, <2>5 DEF InputsInv
    <2> QED
      BY <1>3, <1>4, <2>3, <2>4, <2>6
  <1>6. Replaced(i)' <=> Replaced(i)
    BY <1>3, <1>5, ReplacedStays
  <1> QED
    BY <1>1, <1>2, <1>3, <1>6

LEMMA AgainStep ==
    ASSUME ShapeInv, ShapeInv', ConversationInv, HeldEndInv', OrderKept, TimeInv',
           NEW th, NEW r0 \in DOMAIN requests, AsksAgain(th, r0),
           requests[r0].thread = th, IsLast(r0, th),
           requests[r0].status \in {"completed", "cancelled"},
           NEW n, n = Len(requests) + 1, Before(r0, n)'
    PROVE  ConversationInv'
  <1>0. PICK m : m = Len(executions) + 1
    OBVIOUS
  <1>1. InputsInv /\ AnswersInv /\ SupersededInv /\ EndedInv /\ ContextInv
    BY DEF ConversationInv
  <1>2. entries' = entries /\ NewRequest(th, requests[r0].input, r0, requests[r0].context)
    BY DEF AsksAgain
  <1>3. /\ DOMAIN requests' = DOMAIN requests \cup {n}
        /\ \A r \in DOMAIN requests : requests'[r] = requests[r]
        /\ requests'[n].thread = th /\ requests'[n].input = requests[r0].input
        /\ requests'[n].from = r0 /\ requests'[n].context = requests[r0].context
        /\ DOMAIN executions' = DOMAIN executions \cup {m}
        /\ \A e \in DOMAIN executions : executions'[e] = executions[e]
        /\ executions'[m].request = n /\ executions'[m].result = None
    BY <1>0, <1>2 DEF NewRequest
  <1>4. /\ n \in Nat /\ n \notin DOMAIN requests /\ m \notin DOMAIN executions
        /\ \A r \in DOMAIN requests : r \in Nat /\ r < n /\ requests[r].input \in Nat
    BY <1>0, RowFacts DEF ShapeInv
  <1>5. Stays
    BY ContentStays
  <1>6. SameAnswers /\ AnswersInv'
    BY <1>1, <1>2, <1>3, <1>4, <1>5, AnswersAdded, AnswersKept
  <1>7. /\ \A o \in DOMAIN requests \ {r0} : ReplacementOf(o)' = ReplacementOf(o)
        /\ n \in ReplacementOf(r0)'
        /\ \A o \in DOMAIN requests : ReplacementOf(o) \subseteq ReplacementOf(o)'
    BY <1>3, <1>4 DEF ReplacementOf
  <1>8. /\ \A o \in DOMAIN requests : requests[o].thread = th => o <= r0
    BY DEF IsLast, RequestsOf
  <1>9. InputsInv'
    <2>1. ASSUME NEW r \in DOMAIN requests'
          PROVE  /\ requests'[r].input \in DOMAIN entries'
                 /\ entries'[requests'[r].input].thread = requests'[r].thread
                 /\ entries'[requests'[r].input].author = "requester"
      BY <1>1, <1>2, <1>3 DEF InputsInv
    <2>2. ASSUME NEW o \in DOMAIN requests', NEW r \in DOMAIN requests', o < r,
                 requests'[o].thread = requests'[r].thread
          PROVE  requests'[o].input <= requests'[r].input
      <3>1. o \in DOMAIN requests
        BY <1>3, <1>4, <2>2
      <3>2. CASE r = n
        <4>1. o <= r0 /\ requests[o].thread = requests[r0].thread
          BY <1>3, <1>8, <2>2, <3>1, <3>2
        <4>2. requests[o].input <= requests[r0].input
          BY <1>1, <1>4, <3>1, <4>1 DEF InputsInv
        <4> QED
          BY <1>3, <3>1, <3>2, <4>2
      <3>3. CASE r # n
        BY <1>1, <1>3, <2>2, <3>1, <3>3 DEF InputsInv
      <3> QED
        BY <3>2, <3>3
    <2> QED
      BY <2>1, <2>2 DEF InputsInv
  <1>10. SupersededInv'
    <2> SUFFICES ASSUME NEW o \in DOMAIN requests', NEW r \in DOMAIN requests', o < r,
                        requests'[o].input = requests'[r].input
                 PROVE  ReplacementOf(o)' # {} /\ Before(o, r)'
      BY DEF SupersededInv
    <2>1. o \in DOMAIN requests
      BY <1>3, <1>4
    <2>2. CASE o = r0 /\ r = n
      BY <1>7, <2>2
    <2>3. CASE o # r0 /\ r = n
      <3>1. requests[o].input = requests[r0].input
        BY <1>3, <2>1, <2>3
      <3>2. requests[o].thread = th
        BY <1>1, <2>1, <3>1 DEF InputsInv
      <3>3. o < r0
        BY <1>4, <1>8, <2>1, <2>3, <3>2
      <3>4. ReplacementOf(o) # {} /\ Before(o, r0)
        BY <1>1, <2>1, <3>1, <3>3 DEF SupersededInv
      <3>5. Before(o, r0)' /\ o \in DOMAIN requests' /\ r0 \in DOMAIN requests'
        BY <1>3, <2>1, <3>4 DEF OrderKept
      <3>6. Before(o, n)'
        BY <3>5, BeforeLater
      <3> QED
        BY <1>7, <2>1, <2>3, <3>4, <3>6
    <2>4. CASE r # n
      <3>1. ReplacementOf(o) # {} /\ Before(o, r) /\ r \in DOMAIN requests
        BY <1>1, <1>3, <2>1, <2>4 DEF SupersededInv
      <3> QED
        BY <1>7, <2>1, <3>1 DEF OrderKept
    <2> QED
      BY <2>2, <2>3, <2>4
  <1>11. EndedInv'
    BY <1>1, <1>3 DEF EndedInv
  <1>13. ContextInv'
    <2>1. \A r \in DOMAIN requests : Conversation(requests[r].context, r)'
      BY <1>1, <1>5, OldContexts
    <2>2. ASSUME NEW r \in DOMAIN requests, NEW context, context = requests[r].context
          PROVE  \A x \in DOMAIN context : ~Replaced(context[x])'
      BY <1>1, <1>5, <1>6, <1>7, <2>2, AgainContexts
    <2>3. ASSUME NEW r \in DOMAIN requests', NEW o \in DOMAIN requests,
                 requests'[r].context = requests[o].context
          PROVE  NoneReplaced(requests[r].context)'
      <3>1. PICK context : context = requests[o].context
        OBVIOUS
      <3>2. \A x \in DOMAIN context : ~Replaced(context[x])'
        BY <2>2, <3>1
      <3> QED
        BY <2>3, <3>1, <3>2 DEF NoneReplaced
    <2>4. Conversation(requests[n].context, n)'
      <3>1. Conversation(requests[r0].context, r0)'
        BY <2>1
      <3>2. /\ requests'[n].context = requests'[r0].context
            /\ requests'[n].thread = requests'[r0].thread
            /\ requests'[n].input = requests'[r0].input
        BY <1>3
      <3> QED
        BY <3>1, <3>2 DEF Conversation
    <2> QED
      BY <1>3, <2>1, <2>3, <2>4 DEF ContextInv
  <1> QED
    BY <1>6, <1>9, <1>10, <1>11, <1>13 DEF ConversationInv

\* No request is added, and what was replaced stays as it ended.
LEMMA SameEnds ==
    ASSUME ShapeInv, ShapeInv', ConversationInv, AnswersInv', HeldEndInv', OrderKept, Stays,
           SameAnswers, DOMAIN requests' = DOMAIN requests,
           \A o \in DOMAIN requests :
              requests'[o].status = requests[o].status \/ ReplacementOf(o) = {}
    PROVE  ConversationInv'
  <1>1. InputsInv /\ AnswersInv /\ SupersededInv /\ EndedInv /\ ContextInv
    BY DEF ConversationInv
  <1>2. \A r \in DOMAIN requests :
          /\ requests'[r].thread = requests[r].thread /\ requests'[r].input = requests[r].input
          /\ requests'[r].from = requests[r].from /\ requests'[r].context = requests[r].context
    BY DEF Stays
  <1>3. \A r \in DOMAIN requests : ReplacementOf(r)' = ReplacementOf(r)
    BY <1>2 DEF ReplacementOf
  <1>4. \A i \in DOMAIN entries : Replaced(i)' <=> Replaced(i)
    BY <1>3, ReplacedStays
  <1>6. InputsInv'
    BY <1>1, <1>2 DEF InputsInv, Stays
  <1>7. SupersededInv'
    BY <1>1, <1>2, <1>3 DEF SupersededInv, OrderKept
  <1>8. EndedInv'
    <2> SUFFICES ASSUME NEW r \in DOMAIN requests, requests[r].from # None
                 PROVE  /\ requests[r].from \in DOMAIN requests
                        /\ requests'[requests[r].from].status \in {"completed", "cancelled"}
      BY <1>2 DEF EndedInv
    <2>1. requests[r].from \in DOMAIN requests
          /\ requests[requests[r].from].status \in {"completed", "cancelled"}
      BY <1>1 DEF EndedInv
    <2>2. ReplacementOf(requests[r].from) # {}
      BY DEF ReplacementOf
    <2> QED
      BY <2>1, <2>2
  <1>9. ContextInv'
    <2>1. \A r \in DOMAIN requests : Conversation(requests[r].context, r)'
      BY <1>1, OldContexts
    <2>2. ASSUME NEW r \in DOMAIN requests PROVE NoneReplaced(requests[r].context)'
      <3>1. PICK context : context = requests[r].context
        OBVIOUS
      <3>2. /\ \A x \in DOMAIN context : ~Replaced(context[x])
            /\ Ascends(context, EntriesOf(requests[r].thread))
        BY <1>1, <3>1 DEF ContextInv, Conversation, NoneReplaced
      <3>3. \A x \in DOMAIN context : context[x] \in DOMAIN entries
        BY <3>2 DEF Ascends, EntriesOf
      <3>4. \A x \in DOMAIN context : ~Replaced(context[x])'
        BY <1>4, <3>2, <3>3
      <3>5. requests'[r].context = context
        BY <1>2, <3>1
      <3> QED
        BY <3>4, <3>5 DEF NoneReplaced
    <2> QED
      BY <2>1, <2>2 DEF ContextInv
  <1> QED
    BY <1>6, <1>7, <1>8, <1>9 DEF ConversationInv

LEMMA NotEnded ==
    ASSUME EndedInv, NEW r, requests[r].status \notin {"completed", "cancelled"}
    PROVE  r = None \/ ReplacementOf(r) = {}
  BY DEF EndedInv, ReplacementOf

LEMMA TryStep ==
    ASSUME ShapeInv, ShapeInv', ConversationInv, HeldEndInv', OrderKept, NEW r \in DOMAIN requests,
           requests[r].status = "failed", TriesAgain(r)
    PROVE  ConversationInv'
  <1>0. PICK m : m = Len(executions) + 1
    OBVIOUS
  <1>1. /\ entries' = entries /\ DOMAIN requests' = DOMAIN requests
        /\ \A o \in DOMAIN requests : o # r => requests'[o].status = requests[o].status
        /\ DOMAIN executions' = DOMAIN executions \cup {m}
        /\ \A e \in DOMAIN executions : executions'[e] = executions[e]
        /\ executions'[m].result = None
    BY <1>0 DEF TriesAgain
  <1>2. m \notin DOMAIN executions
    BY <1>0, RowFacts DEF ShapeInv
  <1>3. Stays
    BY ContentStays
  <1>4. SameAnswers
    BY <1>1, <1>2, <1>3, AnswersAdded
  <1>5. \A o \in DOMAIN requests :
          requests'[o].status = requests[o].status \/ requests[o].status = "failed"
    BY <1>1
  <1>6. AnswersInv'
    BY <1>1, <1>2, <1>3, <1>5, AnswersKept DEF ConversationInv
  <1>7. ReplacementOf(r) = {}
    <2>1. r # None
      BY RowFacts DEF ShapeInv, None
    <2> QED
      BY <2>1, NotEnded DEF ConversationInv
  <1>8. \A o \in DOMAIN requests :
          requests'[o].status = requests[o].status \/ ReplacementOf(o) = {}
    BY <1>1, <1>7
  <1> QED
    BY <1>1, <1>3, <1>4, <1>6, <1>8, SameEnds

\* What is active has left no answer, and has not been replaced.
LEMMA MoveStep ==
    ASSUME ShapeInv, ShapeInv', ConversationInv, IndexInv, HeldEndInv', OrderKept,
           NEW e \in DOMAIN executions,
           executions[e].status \in ActiveStatuses, MovesAlong(e), Leaves(e)
    PROVE  ConversationInv'
  <1>0. PICK r, q : r = executions[e].request /\ q = Len(entries) + 1
    OBVIOUS
  <1>1. AnswersInv /\ Stays
    BY ContentStays DEF ConversationInv
  <1>2. /\ DOMAIN requests' = DOMAIN requests /\ DOMAIN executions' = DOMAIN executions
        /\ \A o \in DOMAIN requests :
              /\ requests'[o].thread = requests[o].thread /\ requests'[o].input = requests[o].input
              /\ o # r => requests'[o].status = requests[o].status
        /\ \A x \in DOMAIN executions :
              /\ executions'[x].request = executions[x].request
              /\ x # e => executions'[x].result = executions[x].result
    BY <1>0 DEF MovesAlong
  <1>3. /\ r \in DOMAIN requests /\ DOMAIN requests \subseteq Nat
        /\ \A x \in DOMAIN executions : executions[x].request \in DOMAIN requests
    BY <1>0, RowFacts DEF ShapeInv, RowInv
  <1>4. IsActive(requests[r])
    <2>1. PICK m \in DOMAIN executions : Leads(m, r)
      BY <1>3 DEF IndexInv, StatusInv
    <2>2. e \in ExecutionsOf(r) /\ IsActive(executions[e])
      BY <1>0 DEF ExecutionsOf, IsActive
    <2> QED
      BY <2>1, <2>2 DEF Leads, IsActive
  <1>5. \A x \in DOMAIN executions : executions[x].request = r => executions[x].result = None
    BY <1>1, <1>4 DEF AnswersInv, IsActive, ActiveStatuses
  <1>6. executions[e].result = None
    BY <1>0, <1>5
  <1>9. \A o \in DOMAIN requests :
          requests'[o].status = requests[o].status \/ ReplacementOf(o) = {}
    <2>1. r # None /\ requests[r].status \notin {"completed", "cancelled"}
      BY <1>3, <1>4, RowFacts DEF ShapeInv, None, IsActive, ActiveStatuses
    <2>2. ReplacementOf(r) = {}
      BY <2>1, NotEnded DEF ConversationInv
    <2> QED
      BY <1>2, <2>2
  <1>7. CASE entries' = entries /\ executions'[e].result = executions[e].result
    <2>1. \A x \in DOMAIN executions : executions'[x].result = executions[x].result
      BY <1>2, <1>7
    <2>2. AnswersInv'
      <3>1. \A x \in DOMAIN executions : executions[x].result # None =>
               requests'[executions[x].request].status = requests[executions[x].request].status
        BY <1>2, <1>3, <1>5
      <3> QED
        BY <1>1, <1>2, <1>3, <1>7, <2>1, <3>1 DEF AnswersInv
    <2>3. SameAnswers
      BY <1>2, <2>1 DEF SameAnswers, AnswerOf, ExecutionsOf
    <2> QED
      BY <1>1, <1>2, <1>9, <2>2, <2>3, SameEnds
  <1>8. CASE /\ NewEntry(ThreadOf(e), "answerer", executions[e].request)
             /\ executions'[e].result = Len(entries) + 1
             /\ requests'[executions[e].request].status \in {"completed", "cancelled"}
    <2>1. /\ DOMAIN entries' = DOMAIN entries \cup {q}
          /\ \A i \in DOMAIN entries : entries'[i] = entries[i]
          /\ entries'[q].thread = requests[r].thread /\ entries'[q].author = "answerer"
          /\ entries'[q].request = r
          /\ executions'[e].result = q /\ requests'[r].status \in {"completed", "cancelled"}
      BY <1>0, <1>8 DEF NewEntry, ThreadOf
    <2>2. /\ q \in Nat /\ q # None /\ q \notin DOMAIN entries
          /\ \A i \in DOMAIN entries : i \in Nat /\ i < q /\ i # None
      BY <1>0, EntryPlaces
    <2>3. AnswersInv'
      <3>1. \A x \in DOMAIN executions : executions[x].result # None =>
               /\ executions[x].request # r /\ x # e
               /\ requests'[executions[x].request].status = requests[executions[x].request].status
        BY <1>2, <1>3, <1>5, <1>6
      <3>2. requests[r].input < q
        <4>1. requests[r].input \in DOMAIN entries
          BY <1>3 DEF ConversationInv, InputsInv
        <4> QED
          BY <2>2, <4>1
      <3>3. \A x \in DOMAIN executions' : executions'[x].result # None =>
               /\ executions'[x].result \in DOMAIN entries'
               /\ entries'[executions'[x].result].request = executions'[x].request
               /\ entries'[executions'[x].result].thread = requests'[executions'[x].request].thread
               /\ requests'[executions'[x].request].input < executions'[x].result
               /\ requests'[executions'[x].request].status \in {"completed", "cancelled"}
        <4> SUFFICES ASSUME NEW x \in DOMAIN executions, executions'[x].result # None
                     PROVE  /\ executions'[x].result \in DOMAIN entries'
                            /\ entries'[executions'[x].result].request = executions'[x].request
                            /\ entries'[executions'[x].result].thread
                                  = requests'[executions'[x].request].thread
                            /\ requests'[executions'[x].request].input < executions'[x].result
                            /\ requests'[executions'[x].request].status \in {"completed", "cancelled"}
          BY <1>2
        <4>1. CASE x = e
          BY <1>0, <1>2, <1>3, <2>1, <3>2, <4>1
        <4>2. CASE x # e
          BY <1>1, <1>2, <1>3, <2>1, <3>1, <4>2 DEF AnswersInv
        <4> QED
          BY <4>1, <4>2
      <3>4. \A d, x \in DOMAIN executions' :
               /\ executions'[d].request = executions'[x].request
               /\ executions'[d].result # None /\ executions'[x].result # None
               => d = x
        BY <1>0, <1>1, <1>2, <3>1 DEF AnswersInv
      <3>5. \A i \in DOMAIN entries' : entries'[i].author = "answerer" =>
               \E x \in DOMAIN executions' : executions'[x].result = i
        <4> SUFFICES ASSUME NEW i \in DOMAIN entries', entries'[i].author = "answerer"
                     PROVE  \E x \in DOMAIN executions' : executions'[x].result = i
          OBVIOUS
        <4>1. CASE i = q
          BY <1>2, <2>1, <4>1
        <4>2. CASE i # q
          <5>1. i \in DOMAIN entries /\ entries[i].author = "answerer"
            BY <2>1, <4>2
          <5>2. PICK x \in DOMAIN executions : executions[x].result = i
            BY <1>1, <5>1 DEF AnswersInv
          <5>3. x # e
            BY <1>6, <2>2, <5>1, <5>2
          <5> QED
            BY <1>2, <5>2, <5>3
        <4> QED
          BY <4>1, <4>2
      <3> QED
        BY <3>3, <3>4, <3>5 DEF AnswersInv
    <2>4. SameAnswers
      <3>1. \A x \in DOMAIN executions : \A i \in DOMAIN entries :
               executions'[x].result = i <=> executions[x].result = i
        BY <1>2, <1>6, <2>1, <2>2
      <3> QED
        BY <1>2, <3>1 DEF SameAnswers, AnswerOf, ExecutionsOf
    <2> QED
      BY <1>1, <1>2, <1>9, <2>3, <2>4, SameEnds
  <1> QED
    BY <1>7, <1>8 DEF Leaves

LEMMA NothingStep ==
    ASSUME ConversationInv, HeldEndInv', UNCHANGED <<entries, requests, executions, byTime>>
    PROVE  ConversationInv'
  <1>1. InputsInv'
    BY DEF ConversationInv, InputsInv
  <1>2. AnswersInv'
    BY DEF ConversationInv, AnswersInv
  <1>3. SupersededInv'
    BY DEF ConversationInv, SupersededInv, ReplacementOf, Before
  <1>4. EndedInv'
    BY DEF ConversationInv, EndedInv
  <1>5. ContextInv'
    <2> SUFFICES ASSUME NEW r \in DOMAIN requests
                 PROVE  Conversation(requests[r].context, r)' /\ NoneReplaced(requests[r].context)'
      BY DEF ContextInv
    <2>1. Conversation(requests[r].context, r) /\ NoneReplaced(requests[r].context)
      BY DEF ConversationInv, ContextInv
    <2>2. Conversation(requests[r].context, r)'
      BY <2>1 DEF Conversation, EntriesOf, OneAnswerEach, QuestionOf
    <2>3. NoneReplaced(requests[r].context)'
      BY <2>1 DEF NoneReplaced, Replaced, ReplacementOf
    <2> QED
      BY <2>2, <2>3
  <1> QED
    BY <1>1, <1>2, <1>3, <1>4, <1>5 DEF ConversationInv

LEMMA ConversationStep ==
    ASSUME ShapeInv, IndexInv, ConversationInv, [Next]_vars
    PROVE  ConversationInv'
  <1>0. HeldEndInv /\ InputsInv /\ SupersededInv
    BY DEF ConversationInv
  <1>8. byTime' = byTime => OrderKept
    BY DEF OrderKept, Before
  <1>1. ShapeInv'
    BY <1>0, ShapeStep
  <1>2. CASE UNCHANGED vars
    <2>1. UNCHANGED <<entries, requests, executions, byTime, call>>
      BY <1>2 DEF vars
    <2>2. HeldEndInv'
      BY <1>0, <2>1 DEF HeldEndInv, AtEnd, IsLast, RequestsOf
    <2> QED
      BY <2>1, <2>2, NothingStep
  <1>3. ASSUME NEW c \in Callers, CallSteps(c) PROVE ConversationInv'
    <2>1. UNCHANGED <<entries, requests, executions, byTime>>
      BY <1>3 DEF CallSteps, Begin, LockThread, Admit, GiveUp
    <2>2. HeldEndInv'
      BY <1>0, <1>3, CallStepEnds
    <2> QED
      BY <2>1, <2>2, NothingStep
  <1>4. ASSUME NEW c \in Callers, Commits(c) PROVE ConversationInv'
    <2>1. Done(c)
      BY <1>4 DEF Commits, CommitCreate, CommitAppend, CommitRegenerate
    <2>5. IndexInv' /\ OrderKept
      BY <1>4, CommitIndex DEF OrderKept
    <2>2. WellAimed(call[c], PrincipalOf[c]) /\ AtEnd(call[c])
      <3>1. call[c].phase \in {"locked", "admitted"}
        BY <2>1 DEF Done, Ready
      <3> QED
        BY <1>0, <3>1 DEF ShapeInv, CallInv, HeldEndInv
    <2>3. CASE call[c].op # "regenerate" /\ Asks(ItsThread(c), call[c].kind)
      <3>1. Stays
        BY <2>3, ContentStays
      <3>2. \A r \in DOMAIN requests' :
               \/ requests'[r].thread = ItsThread(c)
               \/ r \in DOMAIN requests /\ requests'[r].status = requests[r].status
        BY <2>3 DEF Asks, NewRequest
      <3>3. HeldEndInv'
        BY <1>0, <2>1, <3>1, <3>2, DoneEnds
      <3> QED
        BY <1>1, <2>3, <2>5, <3>3, AskStep
    <2>4. CASE call[c].op = "regenerate" /\ AsksAgain(call[c].thread, call[c].request)
      <3>1. /\ call[c].request \in DOMAIN requests
            /\ requests[call[c].request].thread = call[c].thread
            /\ IsLast(call[c].request, call[c].thread) /\ ItsThread(c) = call[c].thread
            /\ requests[call[c].request].status \in {"completed", "cancelled"}
            /\ call[c].request <= call[c].seen
        BY <2>2, <2>4 DEF WellAimed, AtEnd, ItsThread
      <3>2. Stays
        BY <2>4, ContentStays
      <3>3. \A r \in DOMAIN requests' :
               \/ requests'[r].thread = ItsThread(c)
               \/ r \in DOMAIN requests /\ requests'[r].status = requests[r].status
        BY <2>4, <3>1 DEF AsksAgain, NewRequest
      <3>4. HeldEndInv'
        BY <1>0, <2>1, <3>2, <3>3, DoneEnds
      <3> QED
        <4>1. PICK n, r0 : n = Len(requests) + 1 /\ r0 = call[c].request
          OBVIOUS
        <4>2. Before(r0, n)'
          BY <1>4, <3>1, <4>1, CommitIndex
        <4>3. TimeInv'
          BY <2>5 DEF IndexInv
        <4> QED
          BY <1>1, <2>4, <2>5, <3>1, <3>4, <4>1, <4>2, <4>3, AgainStep
    <2> QED
      BY <1>4, <2>3, <2>4, CommitContent
  <1>5. ASSUME NEW c \in Callers, CommitRetry(c) PROVE ConversationInv'
    <2>1. PICK r : r = call[c].request
      OBVIOUS
    <2>2. TriesAgain(r) /\ Done(c) /\ call[c].op = "retry"
      BY <1>5, <2>1, RetryContent DEF CommitRetry
    <2>3. WellAimed(call[c], PrincipalOf[c]) /\ AtEnd(call[c])
      <3>1. call[c].phase \in {"locked", "admitted"}
        BY <2>2 DEF Done, Ready
      <3> QED
        BY <1>0, <3>1 DEF ShapeInv, CallInv, HeldEndInv
    <2>4. /\ r \in DOMAIN requests /\ requests[r].thread = ItsThread(c)
          /\ requests[r].status = "failed"
      BY <2>1, <2>2, <2>3 DEF WellAimed, AtEnd, ItsThread
    <2>5. Stays
      BY <2>2, ContentStays
    <2>6. \A o \in DOMAIN requests' :
             \/ requests'[o].thread = ItsThread(c)
             \/ o \in DOMAIN requests /\ requests'[o].status = requests[o].status
      BY <2>2, <2>4 DEF TriesAgain
    <2>7. HeldEndInv'
      BY <1>0, <2>2, <2>5, <2>6, DoneEnds
    <2>8. OrderKept
      BY <1>5, <1>8 DEF CommitRetry
    <2> QED
      BY <1>1, <2>2, <2>4, <2>7, <2>8, TryStep
  <1>6. ASSUME NEW e \in DOMAIN executions, MoveSteps(e) PROVE ConversationInv'
    <2>1. MovesAlong(e) /\ Leaves(e)
      BY <1>6, MoveContent
    <2>2. executions[e].status \in ActiveStatuses /\ Unlocked(ThreadOf(e)) /\ call' = call
          /\ OrderKept
      BY <1>6, <1>8, MoveShape
    <2>3. Stays
      BY <2>1, ContentStays
    <2>4. HeldEndInv'
      <3> SUFFICES ASSUME NEW o \in Callers, call[o].phase \in {"locked", "admitted"}
                   PROVE  AtEnd(call[o])'
        BY <2>2 DEF HeldEndInv
      <3>1. AtEnd(call[o]) /\ WellAimed(call[o], PrincipalOf[o])
        BY <1>0 DEF HeldEndInv, ShapeInv, CallInv
      <3>2. CASE call[o].op = "create"
        BY <2>2, <3>2 DEF AtEnd
      <3>3. CASE call[o].op # "create"
        <4>1. call[o].thread # None
          <5>1. call[o].thread \in DOMAIN threads
            BY <3>1, <3>3 DEF WellAimed
          <5> QED
            BY <5>1, RowFacts DEF ShapeInv, None
        <4>2. call[o].thread # requests[executions[e].request].thread
          BY <2>2, <4>1 DEF Unlocked, ThreadOf, HasLock
        <4>3. \A r \in DOMAIN requests' : requests'[r].thread = call[o].thread =>
                 r \in DOMAIN requests /\ requests'[r].status = requests[r].status
          BY <2>1, <4>2 DEF MovesAlong
        <4> QED
          BY <2>2, <2>3, <3>1, <4>3, AtEndKept
      <3> QED
        BY <3>2, <3>3
    <2> QED
      BY <1>1, <2>1, <2>2, <2>4, MoveStep
  <1>7. ASSUME NEW c \in Callers, NEW th \in DOMAIN threads, Archive(c, th)
        PROVE  ConversationInv'
    <2>1. UNCHANGED <<entries, requests, executions, byTime, call>>
      BY <1>7 DEF Archive
    <2>2. HeldEndInv'
      BY <1>0, <2>1 DEF HeldEndInv, AtEnd, IsLast, RequestsOf
    <2> QED
      BY <2>1, <2>2, NothingStep
  <1> QED
    BY <1>0, <1>2, <1>3, <1>4, <1>5, <1>6, <1>7, EveryStep

LEMMA ConversationInit == Init => ConversationInv
  <1> SUFFICES ASSUME Init PROVE ConversationInv
    OBVIOUS
  <1>1. DOMAIN requests = {} /\ DOMAIN entries = {} /\ DOMAIN executions = {}
    BY DEF Init
  <1>2. InputsInv /\ AnswersInv /\ SupersededInv /\ EndedInv /\ ContextInv
    BY <1>1 DEF InputsInv, AnswersInv, SupersededInv, EndedInv, ContextInv
  <1>3. HeldEndInv
    BY DEF Init, HeldEndInv, Idle
  <1> QED
    BY <1>2, <1>3 DEF ConversationInv

---------------------------------------------------------------------------
(* The theorems *)

LEMMA Invariants == Spec => [](ShapeInv /\ IndexInv /\ ConversationInv)
  <1>1. Init => ShapeInv /\ IndexInv /\ ConversationInv
    BY ShapeInit, IndexInit, ConversationInit
  <1>2. ShapeInv /\ IndexInv /\ ConversationInv /\ [Next]_vars
        => (ShapeInv /\ IndexInv /\ ConversationInv)'
    BY ShapeStep, IndexStep, ConversationStep
  <1> QED
    BY <1>1, <1>2, PTL DEF Spec

\* The unique indexes of the database never have to refuse a write, for any number of callers,
\* threads, requests and keys, and whichever call overtakes which: save that of a retry whose
\* request is the latest by created_at and not by its question's place (the indexes of
\* response_requests and response_executions; append_response, regenerate_response and
\* retry_execution look under the lock of the thread).
THEOREM IndexesHold == Spec => []IndexesSuffice
  <1>1. ShapeInv /\ IndexInv /\ ConversationInv => IndexesSuffice
    <2> SUFFICES ASSUME ShapeInv, IndexInv, ConversationInv PROVE IndexesSuffice
      OBVIOUS
    <2>1. ASSUME NEW c \in Callers, Ready(c)
          PROVE  \/ IndexesAllow(call[c])
                 \/ call[c].op = "retry" /\ LatestByPlace(call[c].thread) # call[c].request
      <3>1. Held(call[c]) /\ WellAimed(call[c], PrincipalOf[c])
        BY <2>1 DEF Ready, IndexInv, HeldInv, ShapeInv, CallInv
      <3>2. CASE call[c].op # "retry"
        BY <3>1, <3>2 DEF Held
      <3>3. CASE call[c].op = "retry" /\ LatestByPlace(call[c].thread) = call[c].request
        <4>1. /\ call[c].request \in DOMAIN requests
              /\ requests[call[c].request].thread = call[c].thread
          BY <3>1, <3>3 DEF WellAimed
        <4>2. PICK m \in DOMAIN requests : IsLast(m, call[c].thread)
          BY <4>1 DEF IndexInv, LatestInv
        <4>3. LatestByPlace(call[c].thread) = m
          BY <4>2, LatestIsLast DEF IndexInv, ConversationInv
        <4>4. ~Busy(call[c].thread)
          BY <3>1, <3>3, <4>2, <4>3 DEF Held
        <4> QED
          BY <3>1, <3>3, <4>4 DEF Held, IndexesAllow
      <3> QED
        BY <3>2, <3>3
    <2>2. ASSUME NEW r \in DOMAIN requests
          PROVE  requests[r].status = executions[Newest(ExecutionsOf(r))].status
      <3>1. PICK m \in DOMAIN executions : Leads(m, r)
        BY DEF IndexInv, StatusInv
      <3>2. ExecutionsOf(r) \subseteq Nat
        BY RowFacts DEF ShapeInv, ExecutionsOf
      <3>3. Newest(ExecutionsOf(r)) = m
        BY <3>1, <3>2 DEF Newest, Leads
      <3> QED
        BY <3>1, <3>3 DEF Leads
    <2> QED
      BY <2>1, <2>2 DEF IndexesSuffice
  <1> QED
    BY <1>1, Invariants, PTL

\* What runs is the latest of its thread, by the place of its question or, if it was tried
\* again, by created_at, and no answer to its question stands but one that is being replaced,
\* for any number of callers, threads, questions and answers and whichever call overtakes
\* which (append_response, regenerate_response, retry_execution, persist_response_entry).
THEOREM RunsAtTheEndHolds == Spec => []RunsAtTheEnd
  <1>1. ShapeInv /\ IndexInv /\ ConversationInv => RunsAtTheEnd
    <2> SUFFICES ASSUME ShapeInv, IndexInv, ConversationInv,
                        NEW r \in DOMAIN requests, IsActive(requests[r])
                 PROVE  /\ \/ LatestByPlace(requests[r].thread) = r
                           \/ /\ LatestByTime(requests[r].thread) = r
                              /\ Cardinality(ExecutionsOf(r)) > 1
                        /\ \A i \in DOMAIN entries :
                              /\ entries[i].author = "answerer"
                              /\ requests[entries[i].request].input = requests[r].input
                              => Replaced(i)
      BY DEF RunsAtTheEnd
    <2>1. IsLast(r, requests[r].thread) => LatestByPlace(requests[r].thread) = r
      BY LatestIsLast DEF IndexInv, ConversationInv
    <2>2. IsLatest(r, requests[r].thread) => LatestByTime(requests[r].thread) = r
      BY LatestByTimeFound DEF IndexInv
    <2>3. ASSUME NEW d \in ExecutionsOf(r), NEW e \in ExecutionsOf(r), d # e
          PROVE  Cardinality(ExecutionsOf(r)) > 1
      <3>1. IsFiniteSet(1..Len(executions)) /\ ExecutionsOf(r) \subseteq 1..Len(executions)
        BY RowFacts, FS_Interval DEF ShapeInv, ExecutionsOf
      <3>2. IsFiniteSet(ExecutionsOf(r)) /\ Cardinality(ExecutionsOf(r)) \in Nat
        BY <3>1, FS_Subset, FS_CardinalityType
      <3>3. IsFiniteSet({d, e}) /\ Cardinality({d, e}) = 2
        <4>1. IsFiniteSet({d}) /\ Cardinality({d}) = 1 /\ e \notin {d}
          BY <2>3, FS_Singleton
        <4>2. {d} \cup {e} = {d, e}
          OBVIOUS
        <4> QED
          BY <4>1, <4>2, FS_AddElement
      <3>4. {d, e} \subseteq ExecutionsOf(r)
        OBVIOUS
      <3>5. Cardinality({d, e}) <= Cardinality(ExecutionsOf(r))
        BY <3>2, <3>4, FS_Subset
      <3> QED
        BY <3>2, <3>3, <3>5
    <2>4. ASSUME NEW i \in DOMAIN entries, entries[i].author = "answerer",
                 requests[entries[i].request].input = requests[r].input
          PROVE  Replaced(i)
      <3>1. PICK o : o = entries[i].request
        OBVIOUS
      <3>2. o \in DOMAIN requests /\ AnswerOf(i, o) /\ requests[o].input = requests[r].input
        BY <2>4, <3>1, AnswersKnown DEF ConversationInv
      <3>3. requests[r].status \notin {"completed", "cancelled"} /\ r # None
        BY RowFacts DEF IsActive, ActiveStatuses, ShapeInv, None
      <3>4. o # r
        <4>1. i # None
          BY DEF ShapeInv, RowInv, None
        <4> QED
          BY <3>2, <3>3, <4>1 DEF AnswerOf, ExecutionsOf, ConversationInv, AnswersInv
      <3>5. ~(r < o)
        <4>1. r < o => ReplacementOf(r) # {}
          BY <3>2 DEF ConversationInv, SupersededInv
        <4>2. ReplacementOf(r) = {}
          BY <3>3, NotEnded DEF ConversationInv
        <4> QED
          BY <4>1, <4>2
      <3>6. o < r
        BY <3>2, <3>4, <3>5, RowFacts DEF ShapeInv
      <3>7. ReplacementOf(o) # {}
        BY <3>2, <3>6 DEF ConversationInv, SupersededInv
      <3> QED
        BY <3>2, <3>7, ReplacedBy DEF ReplacedIff
    <2> QED
      BY <2>1, <2>2, <2>3, <2>4 DEF IndexInv, LatestInv
  <1> QED
    BY <1>1, Invariants, PTL

\* What an answerer is given is the conversation, for any number of callers, threads,
\* questions and answers, any limit of turns and whichever call overtakes which: in order, from
\* the thread, ending with the question, with one answer to each question, none of which has
\* been replaced (_snapshot_context, _copy_context).
THEOREM ContextIsConversationHolds == Spec => []ContextIsConversation
  <1>1. ShapeInv /\ IndexInv /\ ConversationInv => ContextIsConversation
    <2> SUFFICES ASSUME ShapeInv, IndexInv, ConversationInv, NEW r \in DOMAIN requests,
                        NEW context, context = requests[r].context
                 PROVE  /\ context # <<>> /\ Last(context) = requests[r].input
                        /\ \A i, j \in DOMAIN context : i < j => context[i] < context[j]
                        /\ \A i \in DOMAIN context :
                              entries[context[i]].thread = requests[r].thread
                        /\ \A i \in DOMAIN context : ~Replaced(context[i])
                        /\ OneAnswerEach(context)
      BY Zenon DEF ContextIsConversation, OneAnswerEach, QuestionOf
    <2>1. /\ Ascends(context, EntriesOf(requests[r].thread))
          /\ context # <<>> /\ Last(context) = requests[r].input /\ OneAnswerEach(context)
          /\ NoneReplaced(context)
      BY DEF ConversationInv, ContextInv, Conversation
    <2>2. /\ \A i, j \in DOMAIN context : i < j => context[i] < context[j]
          /\ \A i \in DOMAIN context : entries[context[i]].thread = requests[r].thread
      BY <2>1 DEF Ascends, EntriesOf
    <2> QED
      BY <2>1, <2>2 DEF NoneReplaced
  <1> QED
    BY <1>1, Invariants, PTL
===============================================================================
