------------------------------ MODULE ThreadStore ------------------------------
(***************************************************************************)
(* Threads and their response requests (backend/app/services/thread.py and *)
(* repositories/threads.py): a thread is created with a question, asked    *)
(* further questions, has answers regenerated, failed ones tried again and *)
(* running ones cancelled.                                                 *)
(*                                                                         *)
(* A call is one transaction in steps: it begins (ensure_personal_context; *)
(* now() in PostgreSQL is this moment), locks its thread and checks, asks  *)
(* for admission under a lock shared by all, and commits.  Between any two *)
(* of these steps the others go on: calls lock in another order than they  *)
(* began, and commit in another order than they locked.  What the inference*)
(* projector and the human matcher do to an execution is one step each;    *)
(* they write the row of the thread too, so they wait for its lock.        *)
(***************************************************************************)
EXTENDS Selection, Integers, FiniteSets

CONSTANTS
    Callers,      \* API calls in flight at a time
    PrincipalOf,  \* who makes each
    Guests,       \* the principals who are guests
    Keys,         \* idempotency keys of retries
    ModelLimit,   \* inference_model_active_limit
    GuestLimit,   \* inference_guest_model_active_limit
    MaxTurns,     \* MAX_GENERATION_TURNS
    MaxThreads, MaxRequests, MaxExecutions   \* bounds

ASSUME StoreAssumption == {ModelLimit, GuestLimit, MaxTurns} \subseteq Nat \ {0}

VARIABLES
    threads, entries, requests, executions,   \* rows, in the order they were inserted
    byTime,   \* the requests in the order of created_at
    call

vars == <<threads, entries, requests, executions, byTime, call>>

Principals == {PrincipalOf[c] : c \in Callers}
Kinds == {"model", "human"}
ActiveStatuses == {"queued", "running"}
Statuses == ActiveStatuses \cup {"completed", "failed", "cancelled"}

None == 0
NoKey == "none"

Idle == [phase |-> "idle", op |-> "none", thread |-> None, request |-> None, kind |-> "model",
         key |-> NoKey, seen |-> 0]

ThreadModel == [owner : Principals, status : {"active", "archived"}]
ThreadEntryModel ==
    [thread : DOMAIN threads, author : {"requester", "answerer"}, request : 1..MaxRequests]
ResponseRequestModel ==
    [thread : DOMAIN threads, kind : Kinds, input : DOMAIN entries, from : 0..MaxRequests,
     context : Seq(DOMAIN entries), seen : 0..MaxRequests, status : Statuses]
ExecutionModel ==
    [request : DOMAIN requests, key : Keys \cup {NoKey}, result : DOMAIN entries \cup {None},
     status : Statuses]

TypeOK ==
    /\ threads \in Seq(ThreadModel) /\ entries \in Seq(ThreadEntryModel)
    /\ requests \in Seq(ResponseRequestModel) /\ executions \in Seq(ExecutionModel)
    /\ ToSet(byTime) = DOMAIN requests /\ Len(byTime) = Len(requests)
    /\ call \in [Callers ->
          [phase : {"idle", "begun", "locked", "admitted"},
           op : {"none", "create", "append", "regenerate", "retry"},
           thread : DOMAIN threads \cup {None}, request : DOMAIN requests \cup {None},
           kind : Kinds, key : Keys \cup {NoKey}, seen : 0..MaxRequests]]

Init ==
    /\ threads = <<>> /\ entries = <<>> /\ requests = <<>> /\ executions = <<>>
    /\ byTime = <<>>
    /\ call = [c \in Callers |-> Idle]

---------------------------------------------------------------------------
(* Reading the rows *)

IsActive(row) == row.status \in ActiveStatuses

RequestsOf(th) == {r \in DOMAIN requests : requests[r].thread = th}
ExecutionsOf(r) == {e \in DOMAIN executions : executions[e].request = r}
Newest(S) == CHOOSE x \in S : \A y \in S : y <= x

Busy(th) == \E r \in RequestsOf(th) : IsActive(requests[r])

\* What regenerate_response and the views call the latest: by the place of the question,
\* then by age.
LatestByPlace(th) ==
    CHOOSE r \in RequestsOf(th) : \A o \in RequestsOf(th) \ {r} :
        \/ requests[o].input < requests[r].input
        \/ /\ requests[o].input = requests[r].input
           /\ \E i, j \in DOMAIN byTime : i < j /\ byTime[i] = o /\ byTime[j] = r

\* What retry_execution calls the latest: by created_at alone.
LatestByTime(th) ==
    LET times == {i \in DOMAIN byTime : requests[byTime[i]].thread = th} IN byTime[Newest(times)]

ReplacementOf(r) == {o \in DOMAIN requests : requests[o].from = r}

\* _entry_was_replaced
Replaced(entry) ==
    \E e \in DOMAIN executions :
        executions[e].result = entry /\ ReplacementOf(executions[e].request) # {}

HasLock(c) == call[c].phase \in {"locked", "admitted"} /\ call[c].thread # None
Unlocked(th) == \A c \in Callers : ~(HasLock(c) /\ call[c].thread = th)

---------------------------------------------------------------------------
(* Beginning a call *)

\* select_answerer: guests are answered by models.
MayAsk(c, kind) == kind = "human" => PrincipalOf[c] \notin Guests

Owned(c, th) == threads[th].owner = PrincipalOf[c] /\ threads[th].status = "active"

ACall(op, th, r, kind, key) ==
    [phase |-> "begun", op |-> op, thread |-> th, request |-> r, kind |-> kind, key |-> key,
     seen |-> Len(requests)]

\* The calls c can make: of its own threads, as far as its principal has seen them.
Calls(c) ==
    LET kinds == {kind \in Kinds : MayAsk(c, kind)}
        mine == {th \in DOMAIN threads : Owned(c, th)}
        asked == {r \in DOMAIN requests : requests[r].thread \in mine}
        about(op, r, key) == ACall(op, requests[r].thread, r, requests[r].kind, key) IN
    {ACall("create", None, None, kind, NoKey) : kind \in kinds}
    \cup {ACall("append", th, None, kind, NoKey) : th \in mine, kind \in kinds}
    \cup {about("regenerate", r, NoKey) : r \in asked}
    \cup {about("retry", r, key) : r \in asked, key \in Keys}

\* The transaction begins: from here on created_at is fixed, and nothing is locked.
Begin(c) ==
    /\ call[c] = Idle
    /\ \E k \in Calls(c) : call' = [call EXCEPT ![c] = k]
    /\ UNCHANGED <<threads, entries, requests, executions, byTime>>

---------------------------------------------------------------------------
(* The thread is locked and looked at *)

\* Faulty variant: an answer to an earlier question is regenerated too.
MayRegenerateEarlier(r) ==
    /\ ReplacementOf(r) = {}
    /\ requests[r].status \in {"completed", "cancelled"}
    /\ ~Busy(requests[r].thread)

\* A request that has a replacement is answered with it: the call is a repetition.
MayRegenerate(r) ==
    /\ ReplacementOf(r) = {}
    /\ LatestByPlace(requests[r].thread) = r
    /\ requests[r].status \in {"completed", "cancelled"}
    /\ ~Busy(requests[r].thread)

\* A key that was used before is answered with the execution it started.
MayRetry(r, key) ==
    LET latest == Newest(ExecutionsOf(r)) IN
    /\ \A e \in ExecutionsOf(r) : executions[e].key # key /\ ~IsActive(executions[e])
    /\ LatestByTime(requests[r].thread) = r
    /\ requests[r].status = "failed" /\ executions[latest].status = "failed"
    /\ requests[r].kind # "human"

Allowed(k) ==
    CASE k.op = "create" -> TRUE
      [] k.op = "append" -> ~Busy(k.thread)
      [] k.op = "regenerate" -> MayRegenerate(k.request)
      [] k.op = "retry" -> MayRetry(k.request, k.key)

Present(th) == th # None => threads[th].status = "active"

\* Faulty variant: the thread is read without FOR UPDATE.
ReadThread(c) ==
    /\ call[c].phase = "begun"
    /\ Present(call[c].thread) /\ Allowed(call[c])
    /\ call' = [call EXCEPT ![c].phase = "locked"]
    /\ UNCHANGED <<threads, entries, requests, executions, byTime>>

\* _locked_thread and what is asked of the rows under it. A call that creates a thread
\* has nothing to lock.
LockThread(c) ==
    /\ call[c].phase = "begun"
    /\ call[c].thread # None => Unlocked(call[c].thread)
    /\ Present(call[c].thread) /\ Allowed(call[c])
    /\ call' = [call EXCEPT ![c].phase = "locked"]
    /\ UNCHANGED <<threads, entries, requests, executions, byTime>>

\* Not found, busy, not regenerable, not retryable, no capacity, a repetition, or the
\* connection breaks: the transaction is rolled back.
GiveUp(c) ==
    /\ call[c] # Idle
    /\ call' = [call EXCEPT ![c] = Idle]
    /\ UNCHANGED <<threads, entries, requests, executions, byTime>>

---------------------------------------------------------------------------
(* Admission *)

ActiveModels == {e \in DOMAIN executions :
                    IsActive(executions[e]) /\ requests[executions[e].request].kind = "model"}

OfPrincipal(p) == {e \in DOMAIN executions :
                      threads[requests[executions[e].request].thread].owner = p}

\* Faulty variant: without pg_advisory_xact_lock.
AdmitUnlocked(c) ==
    /\ call[c].phase = "locked" /\ call[c].kind = "model"
    /\ Cardinality(ActiveModels) < ModelLimit
    /\ PrincipalOf[c] \in Guests =>
          Cardinality(ActiveModels \cap OfPrincipal(PrincipalOf[c])) < GuestLimit
    /\ call' = [call EXCEPT ![c].phase = "admitted"]
    /\ UNCHANGED <<threads, entries, requests, executions, byTime>>

\* reserve_generation_capacity
Admit(c) ==
    /\ call[c].phase = "locked" /\ call[c].kind = "model"
    /\ \A o \in Callers : call[o].phase # "admitted"
    /\ Cardinality(ActiveModels) < ModelLimit
    /\ PrincipalOf[c] \in Guests =>
          Cardinality(ActiveModels \cap OfPrincipal(PrincipalOf[c])) < GuestLimit
    /\ call' = [call EXCEPT ![c].phase = "admitted"]
    /\ UNCHANGED <<threads, entries, requests, executions, byTime>>

---------------------------------------------------------------------------
(* Writing *)

\* Faulty variant: answers that were replaced are kept.
ThreadTurns(ents, th) ==
    Kept([i \in 1..Len(ents) |-> i], {i \in 1..Len(ents) : ents[i].thread = th})

\* The entries of the thread, without the answers that were replaced.
Turns(ents, th) ==
    Kept([i \in 1..Len(ents) |-> i],
         {i \in 1..Len(ents) : ents[i].thread = th /\ ~Replaced(i)})

\* The turns up to the question. A human sees all of them, a model the last (the limit of
\* bytes is one of turns here).
Snapshot(ents, th, kind) ==
    LET turns == Turns(ents, th) IN
    IF kind = "human" \/ Len(turns) <= MaxTurns THEN turns
    ELSE SubSeq(turns, Len(turns) - MaxTurns + 1, Len(turns))

\* created_at is the beginning of the transaction: after the requests that were there
\* then, before those whose transactions began when there were more.
InsertByTime(r, seen) ==
    \E i \in 1..(Len(byTime) + 1) :
        /\ \A j \in DOMAIN byTime :
              /\ j < i => requests[byTime[j]].seen <= seen
              /\ j >= i => byTime[j] > seen
        /\ byTime' = InsertAt(byTime, i, r)

\* _create_response_request_models
AddRequest(c, th, input, from, context) ==
    /\ Len(requests) < MaxRequests /\ Len(executions) < MaxExecutions
    /\ requests' = Append(requests,
          [thread |-> th, kind |-> call[c].kind, input |-> input, from |-> from,
           context |-> context, seen |-> call[c].seen, status |-> "queued"])
    /\ executions' = Append(executions,
          [request |-> Len(requests) + 1, key |-> NoKey, result |-> None, status |-> "queued"])
    /\ InsertByTime(Len(requests) + 1, call[c].seen)

\* _create_response_models: the question, its request and the context.
Ask(c, th) ==
    LET asked == Append(entries, [thread |-> th, author |-> "requester",
                                  request |-> Len(requests) + 1]) IN
    /\ entries' = asked
    /\ AddRequest(c, th, Len(asked), None, Snapshot(asked, th, call[c].kind))

\* Admission is for models; a human's request needs only the lock of its thread.
Ready(c) == call[c].phase = "admitted" \/ (call[c].phase = "locked" /\ call[c].kind = "human")

\* The unique indexes refuse what they would be broken by.
IndexesAllow(k) ==
    /\ k.thread # None => ~Busy(k.thread)
    /\ k.op = "regenerate" => ReplacementOf(k.request) = {}
    /\ k.op = "retry" => \A e \in ExecutionsOf(k.request) : executions[e].key # k.key

Done(c) == Ready(c) /\ IndexesAllow(call[c]) /\ call' = [call EXCEPT ![c] = Idle]

CommitCreate(c) ==
    /\ Done(c) /\ call[c].op = "create" /\ Len(threads) < MaxThreads
    /\ threads' = Append(threads, [owner |-> PrincipalOf[c], status |-> "active"])
    /\ Ask(c, Len(threads) + 1)

CommitAppend(c) ==
    /\ Done(c) /\ call[c].op = "append"
    /\ Ask(c, call[c].thread)
    /\ UNCHANGED threads

\* The same question and the same context: the answer to be replaced is not in it.
CommitRegenerate(c) ==
    /\ Done(c) /\ call[c].op = "regenerate"
    /\ AddRequest(c, call[c].thread, requests[call[c].request].input, call[c].request,
                  requests[call[c].request].context)
    /\ UNCHANGED <<threads, entries>>

CommitRetry(c) ==
    /\ Done(c) /\ call[c].op = "retry" /\ Len(executions) < MaxExecutions
    /\ executions' = Append(executions,
          [request |-> call[c].request, key |-> call[c].key, result |-> None, status |-> "queued"])
    /\ requests' = [requests EXCEPT ![call[c].request].status = "queued"]
    /\ UNCHANGED <<threads, entries, byTime>>

---------------------------------------------------------------------------
(* What becomes of an execution *)

ThreadOf(e) == requests[executions[e].request].thread

\* Execution and request move together.
Move(e, from, to) ==
    /\ executions[e].status \in from /\ Unlocked(ThreadOf(e))
    /\ requests' = [requests EXCEPT ![executions[e].request].status = to]
    /\ UNCHANGED <<threads, byTime, call>>

LeaveNothing(e, to) ==
    /\ executions' = [executions EXCEPT ![e].status = to]
    /\ UNCHANGED entries

\* persist_response_entry: the answer becomes the last entry of the thread.
LeaveAnswer(e, to) ==
    /\ entries' = Append(entries, [thread |-> ThreadOf(e), author |-> "answerer",
                                   request |-> executions[e].request])
    /\ executions' = [executions EXCEPT ![e].status = to, ![e].result = Len(entries) + 1]

KindOf(e) == requests[executions[e].request].kind

\* Taken up by a worker or a human; put back by a human.
Start(e) == Move(e, {"queued"}, "running") /\ LeaveNothing(e, "running")
Requeue(e) == KindOf(e) = "human" /\ Move(e, {"running"}, "queued") /\ LeaveNothing(e, "queued")

Complete(e) == Move(e, {"running"}, "completed") /\ LeaveAnswer(e, "completed")

\* Models fail or run out of time; requests for humans wait.
Fail(e) == KindOf(e) = "model" /\ Move(e, ActiveStatuses, "failed") /\ LeaveNothing(e, "failed")

\* What a model had written by then is kept as an answer.
Cancel(c, e) ==
    /\ Owned(c, ThreadOf(e))
    /\ Move(e, ActiveStatuses, "cancelled")
    /\ \/ LeaveNothing(e, "cancelled")
       \/ KindOf(e) = "model" /\ executions[e].status = "running" /\ LeaveAnswer(e, "cancelled")

Archive(c, th) ==
    /\ Owned(c, th) /\ Unlocked(th)
    /\ threads' = [threads EXCEPT ![th].status = "archived"]
    /\ UNCHANGED <<entries, requests, executions, byTime, call>>

---------------------------------------------------------------------------
Next ==
    \/ \E c \in Callers :
          \/ Begin(c) \/ LockThread(c) \/ Admit(c) \/ GiveUp(c)
          \/ CommitCreate(c) \/ CommitAppend(c) \/ CommitRegenerate(c) \/ CommitRetry(c)
          \/ \E e \in DOMAIN executions : Cancel(c, e)
          \/ \E th \in DOMAIN threads : Archive(c, th)
    \/ \E e \in DOMAIN executions : Start(e) \/ Requeue(e) \/ Complete(e) \/ Fail(e)

Spec == Init /\ [][Next]_vars

---------------------------------------------------------------------------
(* Properties *)

\* The unique indexes of the database never have to refuse what a call is about to write
\* (no code handles that error): one active request in a thread, one active execution of a
\* request, one execution for a key, one replacement of a request. The exception is a retry
\* of a request that is the latest by created_at and not by its question's place: its calls
\* overtook one another, and retry_execution does not ask whether the thread is busy.
IndexesSuffice ==
    /\ \A c \in Callers :
          Ready(c) => \/ IndexesAllow(call[c])
                      \/ call[c].op = "retry" /\ LatestByPlace(call[c].thread) # call[c].request
    /\ \A r \in DOMAIN requests :
          requests[r].status = executions[Newest(ExecutionsOf(r))].status

\* The limits of active executions hold for the rows, whoever asks at the same time
\* (reserve_generation_capacity and the commit of the row it admits).
CapacityKept ==
    /\ Cardinality(ActiveModels) <= ModelLimit
    /\ \A p \in Guests : Cardinality(ActiveModels \cap OfPrincipal(p)) <= GuestLimit

\* What an answerer is given is the conversation: in order, from the thread, ending with
\* the question, and with one answer to each question, none of which has been replaced,
\* however often answers were regenerated or tried again (_snapshot_context, _copy_context).
ContextIsConversation ==
    \A r \in DOMAIN requests :
        LET context == requests[r].context
            question(entry) == requests[entries[entry].request].input IN
        /\ context # <<>> /\ Last(context) = requests[r].input
        /\ \A i, j \in DOMAIN context : i < j => context[i] < context[j]
        /\ \A i \in DOMAIN context : entries[context[i]].thread = requests[r].thread
        /\ \A i \in DOMAIN context : ~Replaced(context[i])
        /\ \A i, j \in DOMAIN context :
              /\ entries[context[i]].author = "answerer" /\ entries[context[j]].author = "answerer"
              /\ question(context[i]) = question(context[j])
              => i = j

\* What runs is the latest of its thread: by the place of its question as long as it was
\* never tried again, and by created_at otherwise. No answer to its question stands, except
\* one being replaced, so that no question ends with two answers. The calls may begin, lock
\* and commit in three orders (regenerate_response, retry_execution, _entry_was_replaced).
RunsAtTheEnd ==
    \A r \in DOMAIN requests :
        IsActive(requests[r]) =>
            /\ \/ LatestByPlace(requests[r].thread) = r
               \/ LatestByTime(requests[r].thread) = r /\ Cardinality(ExecutionsOf(r)) > 1
            /\ \A i \in DOMAIN entries :
                  /\ entries[i].author = "answerer"
                  /\ requests[entries[i].request].input = requests[r].input
                  => Replaced(i)

\* docs/architecture/spaces-threads-realtime.md:70 says that only the latest failed request
\* is tried again: what runs would answer the last question of its thread.
OnlyTheLatestRuns ==
    \A r \in DOMAIN requests :
        IsActive(requests[r]) => LatestByPlace(requests[r].thread) = r
===============================================================================
