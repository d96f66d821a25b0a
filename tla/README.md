# SodAI in TLA+

A TLA+ model of the parts of SodAI whose correctness depends on what happens *between* steps: the
GPU workers and the event stream they write, the API's coordinator that turns the stream into rows
and bills, the credit ledger those bills move money in and the triggers that guard it, the matching
of requests with humans and the ranks those humans earn, the threads that requests belong to, and
the way a browser window comes to show them. The modules are checked with TLC on small instances;
the results that matter most are proved with TLAPS for every value of the constants.

Sources are named relative to `src/`. `PROJECT.json` maps every definition of the model to the lines
it stands for, and lists the hazards the properties are for.

## 1. The system

SodAI answers chat messages with a language model on its own GPUs, or with a human. A request
reserves credits; its end settles them.

```
 browser ── HTTP ──> API (one process) ── SQL ──> PostgreSQL: threads, executions, outbox,
    ^                 │   │    ^                                claims, ledger
    │ WebSocket       │   │    └── event stream, group "projector" ───┐
    └── hub <─────────┘   └── job stream, cancellation keys ──> Redis ─┤
                                                                       └── inference workers (GPU)
```

### Inventory

| Component (code) | State | Operations | What is hard | What makes it correct |
|---|---|---|---|---|
| **Inference worker** (`inference/.../worker.py`) | job stream and pending list, attempt lock with a time to live, recorded position, GPU lease, event stream | read, claim, lock, read position, lease, generate, publish, mark done, acknowledge, give back | crashes between any two Redis calls, locks that lapse under a slow worker, a job delivered twice, calls executed but reported as failed | one numbered stream per attempt whoever writes it; no job acknowledged early, none lost |
| **Event contract** (`backend/app/domain/execution_events.py`, `packages/contracts`) | none (a decision on row and event) | `classify_generation_event` | early, late and repeated events | every event applied exactly once and in order |
| **Coordinator** (`backend/app/services/inference/coordinator.py`, `broker.py`, `repositories/threads.py`) | execution rows, outbox, Redis streams, the process's memory | dispatcher, projector, reconciler, cancellation | three tasks and a request handler share rows; API crashes; Redis outages; commit, announcement and acknowledgement are separate | the text is a prefix of the worker's; each execution ends once; nothing sent is forgotten; everything ends |
| **Credit ledger, billing, allowance, human credits** (`repositories/credits.py`, `domain/credits.py`, `services/credit_allowance.py`, `services/inference/billing.py`, `services/human_credits.py`) | lots, reservations, allocations, consumptions, transactions with postings | grant, start an allowance, reserve, settle, release, reward, expire; balance and pages | money kept twice; half-open intervals; reservations that outlive their lot; an expiry command that decides by an old instant | the books agree; first to expire is first spent; expired credits never return; the pages add up |
| **Ledger guards and audit** (migrations `0003`, `0007`, `0009`, `0010`; `services/credit_audit.py`) | triggers, foreign keys, unique keys | deferred checks at commit; the audit's queries | amounts computed twice, in Python and in PL/pgSQL; row locks nobody wrote down | no legal transaction is refused; the audit finds nothing; no circle of waiting transactions |
| **Human matching** (`repositories/humans.py`, `services/human.py`, `domain/human_matching.py`) | profiles, wait entries, claims with drafts, leases, deadlines | ready, stop, match, save draft, answer, skip, decline, cancel, expire | drafts saved without the matching lock; answer deadline against lease; deadlines read before locks are held | status, claims, answer, reservation and reward tell one story; a written answer is not lost; nobody waits in vain |
| **Human ranks, answer conditions** (`repositories/human_ranks.py`, `domain/human_ranks.py`, `domain/human_answer_conditions.py`) | rank, evidence window | recalculate, set by hand, clamp | ratings given, changed and taken back long after the rank moved | the rank is what the policy says; no claim moves it twice |
| **Threads and responses** (`repositories/threads.py`, `services/thread.py`) | threads, entries, requests, executions, contexts | create, append, retry, regenerate, cancel, archive, admission | windows on one thread; calls that begin, lock and commit in three orders; two notions of "latest"; counting rows that are not there yet | unique indexes need not refuse; limits hold; a context is the conversation; only the latest runs |
| **Realtime hub and chat client** (`services/realtime.py`, `frontend/.../use-chat-realtime.ts`, `thread-realtime.ts`, `thread-shell.tsx`) | histories, subscriber queues, cursor, what the window shows and fetches | publish, subscribe, replay, overflow, evict, reduce, fetch | events published after commits, in any order; bounded queues and histories; sequences restart with the API; overlapping fetches; promises that outlive the run of the effect that made them | a window that is told nothing more shows the rows |
| **Response evaluations, answer history** | one row each, or none | rate; read | the rank follows the rating | as for ranks |
| **Sign-in, guests, tokens, key cache** (`auth/`, `backend/app/auth`) | sessions, cached keys | verify, refresh | stale key set | – |
| **Models, deployment files, presentation, iOS client, infrastructure** | – | – | numerical code, pure I/O, layout, configuration | out of scope |

The components meet in the **job stream** (dispatcher to worker), the **event stream** (worker to
projector), the **execution row** (projector, reconciler, human matcher and cancellation, each under
its row lock), the **reservation** (made with the execution, finalized with its end, in the same
transaction), and the **hub** (every commit is announced after it).

## 2. The modules

| Module | Models | Built on |
|---|---|---|
| `GenerationEvents` | event types, phases, and the projector's decision on an event; pure operators | – |
| `InferenceWorker` | workers of one model, their Redis keys and streams | `GenerationEvents` |
| `ExecutionLifecycle` | abstract: what an execution promises its requester | `GenerationEvents` |
| `GenerationCoordinator` | the API's three tasks and cancellation; implements `ExecutionLifecycle` | `GenerationEvents`, instance of `ExecutionLifecycle` |
| `InferenceBilling` | what a model execution is charged, as the application and as the database compute it; pure | – |
| `CreditLedger` | lots, reservations, consumptions, the journal, the expiry command | `InferenceBilling` |
| `CreditStatement` | the balance and the pages of transactions a user is shown | `CreditLedger` |
| `LedgerGuards` | the triggers at commit, and the audit | `CreditStatement` |
| `LedgerLocks` | the row locks of the ledger's transactions and their order | – |
| `HumanPolicies` | catalogue of human answerers, answer conditions, rank policy; pure | – |
| `Selection` | some of the entries of a sequence, as a query with a condition returns them; pure | – |
| `HumanMatching` | readiness, the line, claims, drafts, deadlines, the matcher, with status, reservation and reward | `HumanPolicies`, `Selection` |
| `HumanRanks` | claims and ratings of one human, and the rank that follows | `HumanPolicies` |
| `ThreadStore` | threads, entries, requests, executions; calls in steps under locks | `Selection` |
| `ThreadRealtime` | rows, hub, socket and window of one thread | `Selection` |
| `InferenceWorkerProofs`, `GenerationCoordinatorProofs`, `CreditLedgerProofs`, `HumanMatchingProofs`, `HumanRanksProofs`, `ThreadStoreProofs`, `ThreadRealtimeProofs` | theorems (section 5); `CreditLedgerProofs` also has those about the statement, the audit, the triggers and the locks | the module named, `DataInduction` |
| `DataInduction` | induction over numbers and finite sets, the laws of sums over finite sets, and what a selection from a sequence keeps; lemmas only | `Selection` |
| `MC...` | values of the constants, and bounds, for TLC | the module named |

The definitions commented *Faulty variant* change a definition of the model the way a plausible
mistake in the code would. The specifications never use them; with one of them in place of the
original the property listed beside it in `PROJECT.json` is violated, which shows that the
property depends on that piece of code.

### State and actions, and the code

**`InferenceWorker`.** A step is one Redis round trip of `worker.py`; Lua scripts are single steps.
`message` is the consumer group's view of each job message, `lock` the attempt lock key
(free, owner, or `done`), `progress` and `log` the position key and the event stream, `pool` the GPU
lease, `cancelKey` the cancellation key. `pc` is where a worker stands in `_process`; `resume`,
`sequence` and `leased` are its local variables.

| Code | Actions |
|---|---|
| `_next_jobs` | `ReadNew`, `ClaimIdle` |
| `_process` up to the run | `TakeLock`, `LockUnavailable`, `ReadProgress` |
| `_acquire_resource` | `AcquireLease`, `ProceedWithoutLease`, `LockLostWaiting` |
| `_generate` | `FailTooLate`, `CheckCancelled`, `FailPrompt`, `Start`, `StopOnCancel`, `Step`, `EngineFails`, `FailEngine`, each through `Emit` |
| finally and except blocks | `ReleaseLease`, `MarkDone`, `LockLostFinishing`, `Acknowledge`, `GiveBack` |
| around the code | `CallBreaks` (a Redis call raises, executed or not), `Crash`, `Restart`, `LockLapses`, `LeaseLapses`, `DeadlinePasses`, `CancelLapses` |
| the API's side | `Dispatch` (the same job may be sent twice), `RequestCancel` |

The engine is a script: sampling seed and chunk boundaries are fixed by the job, so an undisturbed
run yields the same events each time. It may fail anywhere, and then flushes a chunk that is
shorter than the script's.

**`GenerationCoordinator`.** A step is one database transaction or one Redis round trip.
`execution` holds the rows with their result entry and bill, `outbox` and `cancelOutbox` the rows to
send, `log` and `delivery` the event stream and its consumer group, `batch`, `inHand`, `deferred`,
`recovered`, `check` and `round` the memory of the process. `told` and `unexamined` are observers.

| Code | Actions |
|---|---|
| `_dispatch_loop`, `_dispatch_pending` | `BeginRound`, `SendCancellation`, `SelectJobs`, `SendJob`, `CommitRound` |
| `_project_loop`, `_project`, `project_generation_event`, `finalize` | `Read`, `Project`, `ProjectionFails`, `ShowAndAcknowledge` |
| `_reconcile_loop`, `event_backlog`, `reconciliation_is_safe`, `expire_executions` | `CountPending`, `ReadLag`, `NextPass`, `Expire`, `ExpiryFails` |
| `cancel_execution` | `Cancel` |
| around the code | `RedisStops`, `RedisReturns`, `ApiRestarts`, `TimeRunsOut`, and `Publish` for the workers |

`Publish` writes the event streams that `InferenceWorker` can write: consecutive numbers, nothing
behind a terminal event, phases in order. Any call may be executed and yet raise (`ReplyIsLost`).

**`ExecutionLifecycle`** is the promise: queued, perhaps running, ended once; the text only grows;
result and bill appear with the end and stay. The property `LivesOnce` states that the coordinator
implements it, with status, `partial_output`, result entry and bill of the rows as the refinement
mapping.

**`CreditLedger`.** A step is one database transaction (the wallet lock keeps others off the
wallet's lots), except for the expiry command, which takes its instant and looks for lots before it
has a lock: `BeginSweep`, then `CommitSweep` or `SweepRefused`. Lots, reservations with their
allocations and consumptions are kept as facts with instants, and `AvailableAt` reads them as of an
instant like `_lot_usage`. `journal` is the set of transactions with their postings, each under its
idempotency key. `Grant`, `Reserve` (with the allowance it may start) and `Finalize` (settlement with
reward, or release; the charge of a model execution comes from `InferenceBilling!Settlement`) are the
other operations; `Tick` advances the clock.

**`CreditStatement`** and **`LedgerGuards`** have no variables of their own: they are what a user
reads and what a trigger recomputes. `GuardsAccept` is an action property: every new transaction,
lot, reservation, end and usage of a step satisfies the trigger that fires for it at commit, computed
from the tables as they are then.

**`LedgerLocks`.** A transaction is the list of the lock requests it makes, in order: advisory keys,
wallets, the key-share lock every posting takes through its foreign key, and the update lock the
deferred trigger takes at commit. `Begin`, `Lock` and `Commit` run such lists in several sessions.

**`HumanMatching`.** A step is one transaction. `profile` and `line` are the users' profiles and wait
entries, `claim` the claim of each user on each execution, `status`, `result`, `credit` and `reward`
the columns of execution, response and reservation that an end writes, `left` the time until the
answer deadline. Instants are kept as time left; `Tick` takes from all of them.

| Code | Actions |
|---|---|
| `ready`, `stop` | `Ready`, `Stop` |
| `match_once` with `_reconcile_claims`, automatic answers, ranks and one match | `Match` (any set of lapsed claims may be locked by others), `MatchAll` |
| the answerer's calls, which read the deadline as of their beginning | `BeginCall`, then `Answer`, `Skip`, `Decline`, `SaveDraft` or `Refuse` |
| the requester | `Ask`, `Cancel`, `Evaluate` |
| the operator | `SetRank` |

What the policy makes of a record is `HumanRanks`; in `HumanMatching` a rank may move by one level
whenever the code recalculates. `HumanRanks` has the claims of one human in order (`Take`, `Answered`,
`Expired`, `GivenUp`), ratings (`SetEvaluation`, `ClearEvaluation`) and `SetManualRank`.

**`ThreadStore`.** `threads`, `entries`, `requests` and `executions` are tables in the order of their
inserts, `byTime` the requests by `created_at`, which is the *beginning* of their transaction. A call
is a transaction in steps, `call[c].phase`: it begins, locks its thread and checks (`LockThread`),
asks for admission under the lock all share (`Admit`), and commits.

| Code | Actions |
|---|---|
| `create_thread_response`, `append_response`, `regenerate_response`, `retry_execution` | `Begin`, `LockThread`, `Admit`, then `CommitCreate`, `CommitAppend`, `CommitRegenerate` or `CommitRetry`; or `GiveUp` |
| `cancel_execution`, `archive` | `Cancel`, `Archive` |
| projector, reconciler and matcher on the execution and its thread | `Start`, `Requeue`, `Complete`, `Fail` |

`Begin` is where `ensure_personal_context` (or the first statement of a retry) starts the transaction
and fixes `created_at`, several round trips before the lock: calls begin, lock and commit in three
orders, and a request may be inserted anywhere in `byTime` that its beginning allows (`InsertByTime`).

**`ThreadRealtime`.** `db` is the thread with its latest response, `unpublished` the events of commits
that their tasks have not published yet, `hub` sequence, history and eviction mark of the principal,
`socket` what it still has to send; `cursor`, `view`, `fetch`, `sync` and `reply` are the window's.
`fetch` is the one fetch that counts; of the others only the promises matter, which settle later:
`replaced` counts, for each key of `syncExecutionOnce`, those of the present run of the effect, and `left` those
of runs that were cancelled by a reconnection, which share its marks (`sync`). `missed` is an observer:
it says why the window may lack a change that no fetch is going to bring.

| Code | Actions |
|---|---|
| commits of threads, projector, matcher | `Ask`, `AskAgain`, `Start`, `Requeue`, `Generate`, `Complete`, `Fail`, `Cancel`, `Rename` |
| `RealtimeHub.publish`, `subscribe`, eviction; socket | `Publish`, `Connect`, `Deliver`, `EvictHistory`, `Disconnect`, `Restart` |
| `syncThread`, `syncExecutionOnce`, replies | `FetchReads` (two statements, two snapshots), `FetchArrives`, `OldFetchArrives`, `LeftFetchArrives`, `ReplyArrives` |
| `reduceThreadRealtime` | `Apply`, within `Deliver` |

## 3. What is checked

| Run | Checks | Instance | Distinct states |
|---|---|---|---|
| `worker` | `TypeOK`, `LogIsOneRun`, `AcknowledgedIsDone`, `DoneIsFinal`, `KeysEndByOwner`, `JobsSettle` | 2 workers, 1 attempt, 1 chunk, 1 copy, 2 faults | 356 658 |
| `coordinator` | `TypeOK`, `OutputIsPrefix`, `NothingLost`, `ToldIsTrue`, `MarkedIsSent`, refinement `LivesOnce` | 1 execution, 3 events of any kind, 1 fault | 1 670 183 |
| `coordinator_progress` | `EveryExecutionEnds`, `CompletedIsTold`, `CancellationIsSent`, `StreamDrains` | 1 execution, a short answer, 1 fault | 18 799 |
| `credits` | `TypeOK`, `BooksAgree`, `HistoryAddsUp`, `StatementAddsUp`, `OneAllowanceAtATime`, `AuditFindsNothing`, `GuardsAccept`, `ExpiredStaysExpired` | 2 users, 2 executions, 1 grant, 2 expiry commands, 3 instants | 190 017 |
| `one_wallet` | `NoDeadlock` | 3 sessions, 1 wallet, the transactions that take this one | 4 822 |
| `humans` | `RowsAgree`, `ProfilesAgree`, `NewestDraftIsSent`, `DraftOutlivesDeadline`, `EndedStaysEnded` | 2 humans, 2 requests, drafts of 2 revisions, 2 ranks | 404 941 |
| `human_progress` | `AssignmentsEnd`, `NobodyWaitsInVain` | 2 humans, each with a request of his own | 88 804 |
| `human_ranks` | `RankSettled`, `ChangesAreEarned` | 1 human, 4 claims, samples of 2 | 740 575 |
| `threads` | `IndexesSuffice`, `CapacityKept`, `ContextIsConversation`, `RunsAtTheEnd` | 1 user, 2 windows, 2 threads, 3 requests, 4 executions | 2 371 424 |
| `realtime` | `NeverSilentlyStale`, `OverStaysOver` | 1 window, 3 changes, queue of 2, history of 1, 1 loss | 4 964 243 |
| `backlog_gate`, `many_wallets` | one statement of the documentation each, which the code does not keep (section 6) | as above, or smaller | – |

In words:

- *Worker.* However two workers crash, lose the lock, come back late or see their calls break, the
  stream of an attempt is one run of its script with consecutive numbers and at most one terminal
  event, at its end. A job is acknowledged only when its attempt is marked done; after that nothing
  is published. Nobody takes another's lock or lease away. Every job is acknowledged in the end.
- *Coordinator.* The stored text is exactly the deltas up to the last event applied, although events
  come early, late and twice. A readable event leaves the stream only when it was applied
  or its execution has ended. Clients are told only the end that really happened, and the end of a
  completed answer is always told. Every outbox row marked as sent was sent. Every execution ends,
  provided that Redis is restarted.
- *Ledger.* Postings and lots agree after every transaction; the balance a user is shown is what the
  pages he is shown add up to; no transaction the program makes is refused by a trigger, so the
  greedy allocation, the charge and the split of an end are those the database computes on its own;
  the audit finds nothing; what expired does not return even when a reservation on it is
  released afterwards.
- *Locks.* On one wallet no order of any three transactions that take it alone ends in a circle of waiting ones.
- *Humans.* Status, claims, answer, reservation and reward of a request always tell the same story.
  What is sent in a human's name at the deadline is the newest text that was acknowledged, and such a
  text is not thrown away. The copy of the rank the matcher reads is current, and conditions are valid
  for it. No claim that has ended is reopened. No assignment lasts for ever although its lease may be renewed
  for ever, and a human shown as waiting and a request he may take come together or part.
- *Ranks.* The rank never waits for an unrelated event to be corrected, and no claim moves it twice.
- *Threads.* In whatever orders calls begin, lock and commit: what a call checked under its lock is
  still so when it commits, so that no unique index has to refuse, with one exception, a retry of the request that is
  the latest by `created_at` and not by its place; the limits of active executions hold; the context of a request is the
  conversation, in order, with one answer per question and none that was replaced; what runs is the
  latest of its thread, by place or, once tried again, by time, and its question has no other answer that stands.
- *Realtime.* When everything that was published has arrived and nothing is being fetched, the window
  shows the conversation of the rows, through full queues, lost connections, evicted histories and restarts, unless since
  its last fetch one of two things happened that `Renamed` and `LeftBehind` show (section 6): a rename raised its revision over a change
  it lacked, or a promise of a cancelled run took the mark of an event. An answer
  shown as over is not shown as going on again.

### Bounds, and why they are enough

- **`worker`**: takeover needs two workers and one attempt; the second worker can already be the
  late one and the successor. `MaxFaults = 2` lets a run be interrupted and its successor too.
  One chunk gives every position a resumed run can start from: before the start, after it, after the
  chunk (whole or short), after the end. The script is deterministic, so more chunks repeat the same
  position. `MaxCopies = 1` here: a second delivery already comes from `ClaimIdle`, which takes over
  a message that its reader still works on. The theorems of section 5 have none of these bounds.
- **`coordinator`**: the tasks share only Redis and the process's memory across executions; rows are
  per execution, so that one execution is enough for the properties of a row. Three events are enough
  for one to be applied, one to be early and one to be late or repeated. All events of the contract
  are in the vocabulary, blank text and unreadable payloads included. Liveness is checked on
  `started`, `completed` and `failed` by timeout.
- **`credits`**: prices are chosen so that one allowance (14) does not cover two requests (12 and
  10), a request spans two lots when there was a grant (8), and the two usages of `MCUsages` are charged a part of
  what was held and the maximum; executions by humans are charged nothing, or all. The horizon of two ticks contains issue,
  spending and expiry, with an allowance of two ticks, and a grant or a reward of one. Two runs of the
  expiry command can overlap. The run takes about two and a half minutes.
- **`one_wallet`**: all kinds of transaction that one wallet can take part in alone (an answer needs a
  second one), three at a time. A circle of two or three is found whatever row it is about; since each
  program takes the wallet before any row of the system, larger circles have no more to lock. The theorem
  (section 5) is about any number of sessions.
- **`humans`**: two humans compete for a request and pass it on; one of them made the other request,
  which he must not get. All terms are one tick, except the answer deadline of two, so that lease,
  skip window and deadline pass in every order. Two revisions, one of them blank, are enough for a
  late draft and an emptied one. `human_progress` has longer wait entries, so that somebody waits.
- **`human_ranks`**: with samples of two and four claims the rank can move twice, in either direction.
- **`threads`**: two windows are what can meet on one thread; two threads, what can meet in
  admission. Three requests hold a question, a regenerated answer and a further question; the fourth
  execution is a retry. Two calls are enough for one to begin, be passed by a whole question of the other, and commit
  behind it. The limit is one running model and the context has two turns, so both bite. `FewRows` of `MCThreadStore` allows
  one request and one execution less where there are two threads or a human is asked: what meets in admission or at
  the matcher needs no third request. The instance has no guests: their limit is the second conjunct of
  `CapacityKept`, which the theorem covers.
- **`realtime`**: three changes overflow a queue of two and a history of one; a connection is needed
  before anything is lost, and `EvictHistory` is no loss in this count. `FewUnpublished` of
  `MCThreadRealtime` lets two events wait to be published at a time, enough for one to overtake another. `LeftBehind` needs a reconnection and one more
  change; `Renamed` needs no loss. The theorems have none of these bounds.

The counters behind the bounds (`MaxCopies`, `MaxFaults`, `MaxEvents`, `MaxTime`, `MaxClaims`,
`MaxThreads`, `MaxRequests`, `MaxExecutions`, `MaxRevision`, `MaxText`) appear in guards only, and
`RanksSeen`, `Revisions`, `ModelUsages` and `Tariff` choose among the inputs. `SweepLimit`,
`ModelLimit`, `MaxTurns`, `HistorySize` and `QueueSize` are parameters of the program.

Windows, users, executions, sessions and expiry commands are symmetric where no definition tells two
of a kind apart; runs with liveness properties use no symmetry.

The type invariants of `LedgerLocks`, `HumanMatching`, `HumanRanks`, `ThreadStore` and
`ThreadRealtime` are stated in their modules; the listed runs check deeper properties in their place.

### Deadlock checking

It is off where the system may stop: workers when every job is acknowledged, the coordinator when
every execution has ended, the ledger at its horizon, threads and windows when their bounds are
used up. The lock runs and the runs about humans keep it on: sessions run one transaction after
another, time passes, and ratings change.

## 4. Fairness, and what justifies it

- *Workers and the API run, and are restarted when they die*: `restart: unless-stopped` in
  `compose.yaml`; each loop of `coordinator.py` and the worker catches what it raises and goes on.
- *No message is passed over for ever* (strong fairness per message): `XAUTOCLAIM` walks the pending
  list with a cursor, in the worker and in the projector.
- *Abandoned keys disappear, deadlines pass*: the lock and the lease have a time to live which a dead
  owner does not renew. A live owner's lock may lapse too, but that is a fault, not an obligation.
- *The engine yields*: `JobsSettle` assumes that the model runtime goes on or raises.
- *Redis is restarted* (`FairSpec` of the coordinator). `OutageSpec` drops this one assumption; under
  it executions need not end, which contradicts the documentation (section 6).
- *An execution is not locked at every pass of the reconciler*: `expire_executions` skips locked
  rows, so that `Expire(S)` may take any set; each row is in it in the end.
- *Humans* (`FairSpec` of `HumanMatching`): the clock ticks, and the loop of
  `services/human_coordinator.py`, which matches at an interval and catches what it raises, sooner or
  later finds no row locked (`MatchAll`; `Match` may skip any). Nothing is assumed of humans: they
  need not answer, skip, or go offline.

Faults have no fairness, and are bounded; the properties hold whether or not they occur.

## 5. What is proved

| Theorem | States | Module |
|---|---|---|
| `TypeCorrect` | `Spec => []TypeOK` | `InferenceWorkerProofs` |
| `StreamIsOneRun` | `Spec => []LogIsOneRun` | `InferenceWorkerProofs` |
| `AcknowledgedIsDoneHolds` | `Spec => []AcknowledgedIsDone` | `InferenceWorkerProofs` |
| `DoneIsFinalHolds` | `Spec => DoneIsFinal` | `InferenceWorkerProofs` |
| `KeysEndByOwnerHolds` | `Spec => KeysEndByOwner` | `InferenceWorkerProofs` |
| `TypeCorrect` | `Spec => []TypeOK` | `GenerationCoordinatorProofs` |
| `OutputIsPrefixHolds` | `Spec => []OutputIsPrefix` | `GenerationCoordinatorProofs` |
| `NothingLostHolds` | `Spec => []NothingLost` | `GenerationCoordinatorProofs` |
| `ToldIsTrueHolds` | `Spec => []ToldIsTrue` | `GenerationCoordinatorProofs` |
| `MarkedIsSentHolds` | `Spec => []MarkedIsSent` | `GenerationCoordinatorProofs` |
| `LivesOnceHolds` | `Spec => LivesOnce` | `GenerationCoordinatorProofs` |
| `AllowancesNeverOverlap` | `Spec => []OneAllowanceAtATime` | `CreditLedgerProofs` |
| `UsageIsAccepted` | charge and reason computed by the application are those the trigger expects | `CreditLedgerProofs` |
| `SettlementIsCovered` | a charge fits what the tariff made the request reserve | `CreditLedgerProofs` |
| `LedgerInvHolds` | `Spec => []LedgerInv`, the inductive invariant of the books | `CreditLedgerProofs` |
| `BooksAgreeHolds` | `Spec => []BooksAgree` | `CreditLedgerProofs` |
| `LedgerTypeOK` | `Spec => []TypeOK` | `CreditLedgerProofs` |
| `ExpiredStaysExpiredHolds` | `Spec => ExpiredStaysExpired` | `CreditLedgerProofs` |
| `HistoryAddsUpHolds` | `Spec => []HistoryAddsUp` | `CreditLedgerProofs` |
| `StatementAddsUpHolds` | `Spec => []StatementAddsUp` | `CreditLedgerProofs` |
| `AuditFindsNothingHolds` | `Spec => []AuditFindsNothing` | `CreditLedgerProofs` |
| `GuardsAcceptHolds` | `Spec => GuardsAccept` | `CreditLedgerProofs` |
| `OneWalletNeverDeadlocks` | `Wallets = {w}` implies `LocksSpec => []NoDeadlock` | `CreditLedgerProofs` |
| `RowsAgreeHolds` | `Spec => []RowsAgree` | `HumanMatchingProofs` |
| `EndedStaysEndedHolds` | `Spec => EndedStaysEnded` | `HumanMatchingProofs` |
| `NewestDraftIsSentHolds` | `Spec => []NewestDraftIsSent` | `HumanMatchingProofs` |
| `DraftOutlivesDeadlineHolds` | `Spec => DraftOutlivesDeadline` | `HumanMatchingProofs` |
| `ProfilesAgreeHolds` | `Spec => []ProfilesAgree` | `HumanMatchingProofs` |
| `RankSettledHolds` | `Spec => []RankSettled` | `HumanRanksProofs` |
| `ChangesAreEarnedHolds` | `Spec => []ChangesAreEarned` | `HumanRanksProofs` |
| `CapacityHolds` | `Spec => []CapacityKept` | `ThreadStoreProofs` |
| `IndexesHold` | `Spec => []IndexesSuffice` | `ThreadStoreProofs` |
| `ContextIsConversationHolds` | `Spec => []ContextIsConversation` | `ThreadStoreProofs` |
| `RunsAtTheEndHolds` | `Spec => []RunsAtTheEnd` | `ThreadStoreProofs` |
| `TypeCorrect` | `Spec => []TypeOK` | `ThreadRealtimeProofs` |
| `WindowIsCurrent` | `Spec => []NeverSilentlyStale` | `ThreadRealtimeProofs` |
| `OverIsFinal` | `Spec => OverStaysOver` | `ThreadRealtimeProofs` |

They hold for any sets of workers, attempts, users, executions, sweeps, sessions, callers and principals,
any scripts, bounds, drafts, prices, terms, limits and sizes of queues and histories. They assume `ConstantsAssumption` of `InferenceWorker` (a
consumer is not called `free` or `done`; scripts contain only intermediate events) and of
`GenerationCoordinator` (the executions, rows of a table, are finitely many; workers publish events of the contract),
`AmountsAssumption` of `CreditLedger` (amounts and durations are positive; a human price is a
multiple of ten, as `HumanCreditTerms` demands; the tariff is one the database accepts) and its
`SetsAssumption` (the executions, rows of a table, are finitely many and none is named like the
expiry command; no user is named like one of the system's accounts),
`MatchingAssumption` of `HumanMatching` (terms and revisions are positive, no user is called
`nobody`), `RanksAssumption` of `HumanRanks` (the policy is one the code accepts)
`StoreAssumption` of `ThreadStore` (limits are positive) and `RealtimeAssumption` of `ThreadRealtime`
(sizes are positive, bounds are numbers). `OneWalletNeverDeadlocks` is about the transactions of one user, as
many sessions and of whatever kinds; for two wallets the statement is false, which `many_wallets` shows.

**The stream.** `LogIsOneRun` is not inductive: a worker decides what to publish from `resume` and
`sequence`, which it read earlier. `RunInv` adds two facts. `PositionOfLog` ties the recorded position to the
last event of the stream, terminal or not. `PositionOfRun` says of a worker that still owns the lock that
what it read is still true: the position recorded now is the larger of the one it resumed from and the
one it reached itself. A worker that lost the lock is bound by nothing, and needs not be: each publication
checks the lock. So the next event published is numbered by the length of the stream, and a run that
found a terminal position never publishes. The proof takes each action, and below it `Emit`, whose
five outcomes have lemmas of their own.

**Acknowledgement.** `AcknowledgedIsDone` is inductive with the fact that a worker about to acknowledge
has marked the attempt done, which holds because `done` is never overwritten: all three scripts on the
lock key compare it with the worker's own name first, and no worker is called `done`. From the
same fact follows `DoneIsFinal`.

**Keys.** `KeysEndByOwner` is proved key by key (`LockEndsByOwner`, `LeaseEndsByOwner`): a step that changes a
key somebody holds is a step of its holder, or the key lapses, which is a fault. That the deletion at
the end of a run compares the owner first is what the case of `GiveBack` rests on.

**The life of an execution.** Only its row matters for it, so the lemmas are about rows. `RowOK` says which rows
can occur: result and bill come with the end, a running execution has counted its input. `LivesOn` and
`Moves` are the steps of `ExecutionLifecycle` written for rows, and `RowsStep` shows that each step of the
coordinator makes one of them, or none: `LivesOnceHolds` is that, with each of them taken for the step
of the same name. Since an end is final (`EndIsFinal`), what clients were told stays true, and what the projector holds
in its hand and is about to tell stays true as well (`HandTells`); this gives `ToldIsTrue`. `MarkedIsSent` needs that the round under
way has sent what it is going to mark (`SentInv`), also where a raising call ends it early.

**The text and the stream.** `RowOfStep` says what a step may do to a row: leave it alone, end it, or apply
the event behind the last one applied. `PrefixInv` (the output lists the deltas among the events applied, and no more
events were applied than written) is inductive with it. `NothingLost` is the deepest of them: an
event is acknowledged also when it is *ignored*, and the projector ignores whatever the contract
does not allow next. So it must be shown that the event behind the last one applied is always allowed (`NextIsAccepted`).
That relates the worker to the row: `Legal` is what a worker may have written, `Follows`
says that a running row is thinking unless the events applied to it say otherwise. Then what is
ignored is unreadable, too late or comes after the end, and what may be forgotten once may be
forgotten for ever (`SettledStays`).

**Allowances.** `OneAllowanceAtATime` needs `LotInv`: lots are well formed, and none is issued ahead of
the clock. Then an allowance of the same user that is not current has ended already, and a
new one starts behind it. `AppendKeepsLots` states this once; grants, requests and rewards cite it.

**Charges.** `UsageIsAccepted` compares the two formulas for every tariff and every way an execution
can end, absent token counts and caps included; `SettlementIsCovered` is the bound that keeps
`Finalize` from taking more than was held.

**The books.** `BooksAgree` compares two ways of keeping money: what the journal posted to an account, and what
lots, consumptions and reservations say is there. It is not inductive, and both sides are sums.
`LedgerInv` says of every account that what was posted to it is what was issued on it, moved by what
was consumed, and by what is held (`Books`), as three sums over the lots, the consumptions and the
reservations, so that a step that adds one record or changes one changes one term of one sum. Where the money
goes is in the terms: what a lot put on its owner's wallet, what a settlement took from it, what its
expiry moved away. To know that a step adds a term *and* not twice, the invariant also says what
each record rests on: a transaction is in the journal only if what it is for has happened (`IsPosted`), a
consumption only if its reservation has ended or its lot was swept (`IsConsumed`), an allocation
sums to the amount reserved (`GoodReservation`). The loops over lots are folds
in the order of spending: `AllocationIs` shows that the greedy allocation, where it succeeds, takes from each lot
no more than it has and in sum what was asked, and `SettlementIs` what the end of a reservation makes of it;
`FinalizeMoves` adds up charge, refund and expired remainder of every lot of an
allocation. The laws of sums they cite are in `DataInduction`.

**Expired credits.** `ExpiredStaysExpired` compares what a lot has left before and after a step, `OpenIs`:
its amount, less what was consumed by then, less what is held by then. For a lot that has expired, no request can
hold more, a settlement takes at least as much as it stops holding (`HeldOne`, `UsedMore`: what it returns of an
expired lot is consumed in the same step), and expiry takes. The clock alone could return something, if a
consumption were dated later than the clock; `TakenInv` excludes it.

**The past.** `HistoryAddsUp` speaks of instants that are over, and one step writes there: the expiry command
dates its consumption at the instant it *began*, while settlements committed meanwhile are dated later. What was left of
the lot at that instant is taken from every later one too. So `HistoryInv` adds that of an expired lot which was not
swept no less is left at a later instant than at an earlier one (`NothingComesBack`), and that a command looks
only at lots which had expired when it began (`CandidatesLapsed`).

**The statement.** What the pages list for a user as reserved is the change that each transaction of his makes. `StatementInv` says
that these changes add up to what he holds at this moment, negated; each kind of transaction changes both sides by the
same (a release whose credits all expired posts nothing to the wallet and is listed all the same). The available
part then follows from `BooksAgree`, with what expired and was not moved away yet counted on both sides.

**The audit.** It asks of every reward for the execution it was earned by, and of every settled human execution for
its one end and its one reward. `RewardsInv` states both directions, with witnesses (`IsExplained`), which makes the
rows the audit chooses definite; a step is about one execution at most (`AboutOnly`), and every other one stays explained.

**The triggers.** `GuardsAccept` compares what the repository computed with what the database computes again from the rows
when a transaction commits. The repository allocates and settles in a loop that carries a remainder; a trigger
computes the share of each lot from what the lots before it cover (`ShareOf`). `AllocateShares` and `SettleShares` show that
these are one function, by induction over the lots in the order they are spent. The invariant is `GuardsInv`: the books, the
past, the rewards, and that the platform gives back nothing it earned (`RevenueInv`). From the books and the past
follow that no account is overdrawn (`BalancesHold`) and that no lot gives more than it has (`ConservedNow`). A trigger looks
for its row by a key, for instance *the* transaction that ended a reservation, *the* lots it issued: `EndIssues`, `TakenIs` and
`CapacityIs` show that it finds the rows of this step and no others, the earlier ones included that
overlapping expiry commands dated back. `AllocatedRule`, `EndPostedRule` and `EndTakenRule` say what has to be known of
the rows for a trigger to accept them, and the cases of `StepIsConsistent` and `ReservationsAccepted` supply it, action by action.

**Requests answered by humans.** `MatchingInv` is `RowsAgree`, execution by execution (`Story`), with the
types of the rows and one fact more: the requester never has a claim on his own request, held or
answered. A call is carried out long after it began, and nothing ties what it remembers to the rows;
that it looks again at its claim (`InHand`) is all the proof needs of it. A matching round may end
claims of many executions and then makes one claim more. It is taken apart: `ReconciledRows` shows
that the rows between the two tell the same stories, where the one claim in hand of each lapsed
execution makes `AnsweredBy` well defined; `TakenRows` adds the new claim, which `MayTake` allows only
where there is no other of the same human, neither on this request nor in hand. Each lemma about rows
also shows that no claim that has ended changes (`Onward`), which gives `EndedStaysEnded`.

**Drafts.** `DraftInv` adds to the rows that an active claim holds the newest revision acknowledged (`Drafted`)
and that a claim that ended holds no draft any more. What is sent is therefore the newest, also by a round that
answers in the human's name; a late draft of an older revision changes nothing. `DraftStep` says what a step does to
one claim, and `DraftOutlivesDeadline` follows: only a claim without a text expires at its deadline.

**The waiting line.** `LineInv` adds to the rows that nobody waits twice or with a claim in hand, that who waits is
listed with the rank he has, and that each profile's conditions fit its rank. The line is a sequence from
which entries are taken by a fold; `KeptEntries` shows that what is kept is a selection of the
entries in their order, by induction over the line (`DataInduction`). A change of rank is carried to the line in
the same step (`LineRanked`), and `Clamp` returns conditions that are valid for the new rank.

**Ranks.** `RankSettled` says that the policy, asked again, would leave the rank as it is. `Recalculate` moves it by one
level at most, so the rank is settled after a step only because evidence starts anew with the change: no evidence
meets no requirement of the policy, in either direction. `ChangesAreEarned` bounds the changes by the claims; `RankInv` says where those claims are:
finished at or before the point `before` at which the present evidence begins, as many for each change as
the least demanding requirement of the policy asks for. A change moves `before` to the end, past at least that many more.

**Admission.** `CapacityKept` counts rows, and a call is admitted before its row is there. `CapacityInv`
adds that at most one call is admitted at a time, and that while it is, there is still room for one
row, for all and for its guest. Everything else that happens meanwhile leaves the counted set as it is or makes it
smaller (`NothingGrows`); the admitted call's commit makes it larger by one (`OneGrows`). A retry
counts its request's principal, which `WellAimed` ties to the caller. Nothing in this depends on the
order in which calls begin.

**The unique indexes.** `IndexesSuffice` says that a call that is ready to commit still finds what it
found when it locked its thread. `IndexInv` gives: locks exclude one another (`LocksInv`); what the
locks keep (`HeldInv`, and `HeldKept`, the lemma that a step which adds nothing to a thread nor makes
anything in it active leaves it true); a request has the status of its last execution, the others have ended
(`StatusInv`); what is active is the last request of its thread, or, when it was tried again, the latest by
time (`LatestInv`); every request has one place in the order of `created_at` (`TimeInv`). Where the calls begin, lock and
commit in different orders, the last and the latest request differ: a retry is checked against the latest *by time*, and
that nothing of the thread is active follows only where that is the last one. The exception in `IndexesSuffice` is this case.

**The conversation.** `RunsAtTheEnd` and `ContextIsConversation` are about questions, answers and replacements, which
many calls write. `ConversationInv` says: requests of a thread are made in the order of their questions
(`InputsInv`), so that the latest by place is the last one made; an answer is written behind its
question by the one execution that ended its request (`AnswersInv`); of the requests with one question all but the last have a
replacement, and they are in the order of `created_at`, since a regeneration begins when the request it replaces is there
(`SupersededInv`), so that answers which stand are one to a question, in whatever order other calls came; what
was replaced has ended (`EndedInv`); contexts are conversations and nothing in them has been replaced (`ContextInv`). The
last conjunct, `HeldEndInv`, is what the lock keeps: what is about to be regenerated is the last request of its thread
and has ended, what is about to be tried again has failed, and so left no answer. The one step by which an answer comes to be
replaced is `CommitRegenerate`, and what it replaces is in no context: a context ends with its question, the
answer lies behind it, and no later question has been asked. None of this needs the order in which calls begin.

**Induction over data.** The library's induction theorems take an operator as a parameter, which none
of the provers can instantiate. `DataInduction` proves what is needed here without them: a set
that contains the empty set and, with a set, one element more, contains every finite set, because a least
counterexample is impossible; and a fold is what a function is that obeys its equations. From this follow the laws
of sums over finite sets (of a union, of a changed term, of two sums, of an image), and that the fold `Kept` keeps a selection
in ascending order (`KeptEntries`, `KeptNumbers`).

**The window.** `NeverSilentlyStale` speaks of a window at rest, and says nothing of how it came there. A rename
gives the rows a new revision and leaves the conversation, so the invariant (`IInv`) is about the revision `since` which the
conversation is as it is. It has three parts. `Following`: whatever was read of the thread at some time (an announcement, an event in the
history or on its way, a reply, what a fetch has read, the window) follows the rows, that is, the rows come
after it (`Follows`), and an end that was read is the end a fetch reads later (`Agrees`). All but the window have
the conversation of the rows if they are not older than `since` (`Exact`). The window need not: a patch
that ends an answer takes the revision of its event and not the entry written with it, and so does the title of a rename. `Sound`
says that it then fetches (`Fetching`, or a fetch that has read enough), or that `missed` says why not. `Covered` says that if
the window is older than `since`, something on its way makes up for it: a fetch that has not read yet or has read the conversation, or an
event that has it or makes the window fetch, which is unpublished, queued or about to be
replayed. A step takes one of these away only by delivering it, or it puts another in its place: an overflowing
queue becomes one demand to fetch, a fetch asked for while one runs is repeated (`sync.dirty`), whichever promise of the
present run settles first, and a new connection begins with a fetch, which is why lost connections, evicted histories and restarts do no harm. Only
a promise of a former run takes away a mark and puts nothing in its place, and only the event of a rename raises the
revision without the conversation: `missed` records both, until a fetch that has yet to be read forgets them. At rest
nothing is on its way, so the window shows a revision not older than `since`, and with it the conversation. `OverIsFinal` needs
`Following` only: what is applied to a window that shows an answer as over is newer, and of the same
execution it tells the same end.

**Locks.** On one wallet every transaction is `Guarded`: before the wallet it locks nothing but one of the
advisory keys, of admission control or of the matching of humans, and behind it only rows. `LocksInv` adds that locks held by
two sessions never conflict. In a set of sessions, the one that has the wallet waits for nobody, since the others have at most
a key, which it no longer asks for; if nobody has the wallet, one that has a key wants the wallet next, which is free; if nobody
has a key either, nobody holds anything. An answer takes two wallets and is not among the transactions of one.

**Model-checked only.** Liveness under fairness (`EveryExecutionEnds`, `CompletedIsTold`, `CancellationIsSent`,
`StreamDrains`, `JobsSettle`, `AssignmentsEnd`, `NobodyWaitsInVain`), which is out of the prover's reach. Every
other property of the passing runs is stated by a theorem.

## 6. Where the code and the documentation differ

Two are runs that TLC must find violated, and entries of `findings`:

1. `backlog_gate`: pending events are counted before the lag is asked for; events delivered in between
   are in neither number, and an execution is failed whose completion is in hand
   (`docs/architecture/inference.md:99`).
2. `many_wallets`: two users' requests both hold the key-share lock on a system account and each needs
   the update lock at commit; PostgreSQL aborts one (comment at `credits.py:657`).

The others are kept as configurations beside the listed runs, each of one property that TLC finds
violated (`tlc -config <Name>.cfg <module>`):

| Configuration, module | Property | What happens | Said by |
|---|---|---|---|
| `AckWithoutTerminal`, `MCInferenceWorker` | `AcknowledgedAfterTerminal` | a run that resumes after a fault and fails before the position it resumed from suppresses its own failure event; the job is acknowledged without a terminal event, and the execution ends by its lease | `inference.md:80` |
| `ShortChunkResumed`, `MCInferenceWorker` | `ShortChunkIsLast` | a failing engine flushes a short chunk under the number of the regular one; if its failure event is lost, the next run goes on behind it: a gap until the completion replaces the text | `inference.md:88` |
| `SharedGpu`, `MCInferenceWorker` | `OneGenerationAtATime` | a resumed job whose deadline passes while it waits for the GPU generates without the lease | `inference.md:75` |
| `RedisOutage`, `MCGenerationCoordinator` | `EveryExecutionEnds` | with Redis down nothing expires, because the gate needs Redis to open | `inference.md:98` |
| `SweepTwice`, `MCCreditLedger` | `ExpiryIsIdempotent` | of two overlapping expiry commands, the one with the older instant computes the same amount again and is refused by a unique key; no credit is lost | `credits.md:91` |
| `Overtaking`, `MCThreadStore` | `OnlyTheLatestRuns` | a call that began earlier commits later: its request has the older `created_at`, so that `retry_execution` (`threads.py:531`) takes an earlier failed request for the latest and runs it behind a later question | `spaces-threads-realtime.md:70` |
| `Renamed`, `ThreadRealtime` | `ConversationShown` | a `thread.updated` raises the revision shown (`thread-shell.tsx:553`) without the changes before it; a fetch that brings them was read before the rename and is forgotten as the older (402), and nothing fetches again | `spaces-threads-realtime.md:100` |
| `LeftBehind`, `ThreadRealtime` | `MarkedIsFetched` | every reconnection runs the effect of the window again, and a promise of its former run shares the marks of the new one: for the same execution its `finally` (`thread-shell.tsx:440`) clears them, and the fetch it then asks for returns at once (380), so that the event which was marked is never fetched | `spaces-threads-realtime.md:100` |
| `LateAnswer`, `MCHumanMatching` | `NothingAfterDeadline` | a claim past its deadline is answered with its draft, or by a call that began in time and waited for the locks | `human-brain.md:93` |

`AcknowledgedIsDone` states what does hold in place of the first; `ExpiredStaysExpired` and
`BooksAgree` hold in spite of `SweepTwice`; `NoDeadlock` on one wallet in spite of `many_wallets`;
`DraftOutlivesDeadline` and `EndedStaysEnded` beside `LateAnswer`; `RunsAtTheEnd` and `IndexesSuffice` beside
`Overtaking`; `NeverSilentlyStale` but for the two cases that `Renamed` and `LeftBehind` show.

## 7. What is not modelled

Whole components are listed with their reasons in `PROJECT.json`. Inside the modelled ones:

- *Redis.* The tail of its log lost in a power failure; trimming of streams (their bound is far above
  what one deadline can produce); the day-long time to live of position and done keys.
- *Worker.* The readiness key; jobs that cannot be parsed or name another artifact; batches of more than one
  job, which are processed one after the other. Some pairs of Redis calls are one step: looking for the cancellation and the
  publication that follows (`worker.py:352`); a lock that is taken, the done mark and the acknowledgement
  (199-208); the position and the cancellation (227-228). A worker without a pool of GPUs (448-449), which
  generates without a lease.
- *Coordinator.* Announcements of events that do not end an execution (`ThreadRealtime` has them);
  a message without a string payload, which
  `_stream_messages` (`broker.py:133-139`) passes over and leaves pending, while the model acknowledges all that cannot be
  read; batch limits of 32 and 100; more than one API process (the image starts one). The dispatcher's row
  locks: a second dispatcher does not exist.
- *Ledger.* One clock: the code takes instants from the API's clock, the database's and the
  operator's. Lots of equal instants are ordered by issue instead of by UUID. A used idempotency key is
  refused rather than replayed. What a call does while it has the wallet's lock is one step, so that the lack of
  this lock could not be seen. Free tariffs; anonymisation of deleted accounts; the size of a page. Of the guard on
  reservations, amounts but not the names of columns that must not change. Money amounts are small numbers.
- *Audit.* Its comparison with the status of executions and with the rows of claims, which are not in
  the ledger's state; `RowsAgree` of `HumanMatching` relates status, claim, reservation and reward.
- *Locks.* The reconciler may send several drafts as answers in one transaction; a program has one. Lots are locked under their wallet and left out; rows of executions and threads, which are
  locked before the wallet by the same paths, are left out too; `SKIP LOCKED` is not a wait. The
  rating of a human's answer, which locks the execution before the matching lock
  (`human_ranks.py:55`), is not among the programs.
- *Humans.* The thread of a request (its revision, and its archiving: `humans.py:297`,
  `threads.py:631`), the pages of past answers, the texts; the client's queue of drafts appears as
  revisions that arrive in any order. `HumanRanks.changes` are the changes the policy made; the rank set by hand is an
  action without a record.
- *Threads.* Pages, search, titles; the limit of a context in bytes, which is one of turns; the
  expiry lease of an execution (in `GenerationCoordinator`); branches that are only read.
- *Windows.* The list of threads; tickets; titles (a rename is a new revision); calls that fail other than by a restart; archived
  threads; the animation of answers by humans; the iOS client. The effect of the chat window runs again when a connection is
  ready, in one step with it; that it also runs again when the list of answerers changes is left out.

Hazards without a property, and why: a clock per host (`credits.py:685`); two first requests of a user (`credit_allowance.py:53`), which
only the lock of the wallet keeps apart, and that is not split in the model; a match that writes a
thread's revision without its lock (`humans.py:297`); the order of locks of a rating
(`human_ranks.py:55`); the queued human request of an archived thread (`threads.py:631`), about which
nothing in the repository says what should happen; the lease of a resumed job (`worker.py:477`) and
its suppressed events (`worker.py:277`), where the code does what section 6 says.

## 8. Plan

1. **`InferencePipeline`**: `InferenceWorker` and `GenerationCoordinator` over shared streams, which
   replaces the coordinator's `Publish` by real workers, so that duplicate jobs and cancellation meet expiry.
2. A clock per host in `CreditLedger`; the rating's transaction in `LedgerLocks`.
3. The thread of a request in `HumanMatching`, or `ThreadStore` and `HumanMatching` composed.
4. The key cache of `auth/jwks.py`, guest sessions, and tickets of the realtime hub.
