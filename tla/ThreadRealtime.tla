----------------------------- MODULE ThreadRealtime -----------------------------
(***************************************************************************)
(* One thread as its rows have it and as a chat window shows it: the hub of*)
(* realtime events (backend/app/services/realtime.py and its router), the  *)
(* socket, and the window (frontend/src/components/chat: use-chat-realtime,*)
(* thread-realtime, thread-shell).                                         *)
(*                                                                         *)
(* Rows change in transactions; the event of a change is published after   *)
(* its commit, by the task that made it, and tasks overtake one another.   *)
(* Events are hints: they patch what the window shows or make it fetch the *)
(* thread again over HTTP, and an older revision never replaces a newer.   *)
(***************************************************************************)
EXTENDS Selection, Integers, Sequences, FiniteSets

CONSTANTS
    HistorySize,     \* history_size, events kept for a principal
    QueueSize,       \* subscriber_queue_size
    MaxRevision, MaxText, MaxFaults   \* bounds

ASSUME RealtimeAssumption ==
    /\ {HistorySize, QueueSize, MaxRevision} \subseteq Nat \ {0}
    /\ {MaxText, MaxFaults} \subseteq Nat

VARIABLES
    db,           \* the thread and its latest response
    unpublished,  \* events of changes that are committed and not yet published
    hub,          \* RealtimeHub: sequence, history and _evicted_through of the principal
    socket,       \* the connection: what it still has to send
    cursor,       \* the window: the greatest sequence received
    view,         \* the thread it shows
    fetch,        \* its newest GET of the thread, and the key it was asked under
    sync,         \* its syncExecutionOnce: the pending key, and whether it is dirty
    replaced,     \* for each key, the promises of fetches that no longer count
    left,         \* and those that a cancelled run of the effect left behind
    reply,        \* the answer to its own POST
    missed,       \* observed: why the window may lack a change no fetch will bring
    faults        \* how many connections and processes were lost

outside == <<db, unpublished, hub, socket, cursor, reply, faults>>
window == <<view, fetch, sync, replaced, left, missed>>
vars == <<outside, window>>

Ended == {"completed", "failed", "cancelled"}
Statuses == {"queued", "running"} \cup Ended
Types == Statuses \cup {"delta", "entry.created", "thread.updated", "sync.required"}

Threads == [revision : 1..MaxRevision, execution : 1..MaxRevision, status : Statuses,
            text : 0..MaxText, entries : 1..MaxRevision]
NoThread == [revision |-> 0]

None == 0
Closed == [open |-> FALSE, replay |-> <<>>, queue |-> <<>>]
Keys == 1..MaxRevision
NoPromises == [key \in Keys |-> 0]
NoSync == [pending |-> None, dirty |-> FALSE]
NoFetch == [stage |-> "none", key |-> None]
Asked(key) == [stage |-> "asked", key |-> key]
NoReply == [to |-> "nothing"]

Events == [type : Types, thread : Threads, sequence : Nat]

Hubs == [sequence : Nat, history : Seq(Events), evictedThrough : Nat]
Sockets == [open : BOOLEAN, replay : Seq(Events), queue : Seq(Events)]
Syncs == [pending : Keys \cup {None}, dirty : BOOLEAN]
Promises == [Keys -> Nat]

TypeOK ==
    /\ db \in Threads /\ view \in Threads \cup {NoThread}
    /\ \A e \in unpublished : e.type \in Types /\ e.thread \in Threads
    /\ hub \in Hubs /\ Len(hub.history) <= HistorySize
    /\ socket \in Sockets /\ Len(socket.queue) <= QueueSize
    /\ cursor \in Nat
    /\ fetch.stage \in {"none", "asked", "half", "read"} /\ fetch.key \in Keys \cup {None}
    /\ sync \in Syncs /\ replaced \in Promises /\ left \in Promises
    /\ reply.to \in {"nothing", "post", "cancel"}
    /\ missed \subseteq {"renamed", "settled"}
    /\ faults \in 0..MaxFaults

\* The window opens on a thread that may have come some way; how its answer ended is all one.
Init ==
    /\ \E status \in {"queued", "running", "completed"} :
          db = [revision |-> 1, execution |-> 1, status |-> status, text |-> 0, entries |-> 1]
    /\ unpublished = {}
    /\ hub = [sequence |-> 0, history |-> <<>>, evictedThrough |-> None]
    /\ socket = Closed /\ cursor = 0
    /\ view = NoThread
    /\ fetch = Asked(None) /\ sync = NoSync /\ replaced = NoPromises /\ left = NoPromises
    /\ reply = NoReply /\ missed = {} /\ faults = 0

---------------------------------------------------------------------------
(* The rows change *)

\* A task that has committed publishes what it knows of the thread, when it comes to it.
Announcement(thread, type) == [type |-> type, thread |-> thread]

\* One transaction; an event carries the thread as it was at the commit, as far as it tells.
Commit(thread, type) ==
    LET committed == [thread EXCEPT !.revision = db.revision + 1] IN
    /\ db.revision < MaxRevision
    /\ db' = committed
    /\ unpublished' = unpublished \cup {Announcement(committed, type)}
    /\ UNCHANGED <<hub, socket, cursor, faults, window>>

\* A call of this window is answered with the thread; one of another window is not.
Answered(to) ==
    \/ UNCHANGED reply
    \/ /\ view # NoThread /\ reply = NoReply
       /\ reply' = [to |-> to, thread |-> db']

\* append, regenerate and retry
Ask ==
    /\ db.status \in Ended
    /\ Commit([db EXCEPT !.execution = @ + 1, !.status = "queued", !.text = 0, !.entries = @ + 1],
              "entry.created")
    /\ Answered("post")

AskAgain ==
    /\ db.status \in Ended
    /\ Commit([db EXCEPT !.execution = @ + 1, !.status = "queued", !.text = 0], "queued")
    /\ Answered("post")

\* Started, generating, done: the projector; started, requeued, done: the human matcher.
Start ==
    /\ db.status = "queued"
    /\ Commit([db EXCEPT !.status = "running"], "running") /\ UNCHANGED reply
Requeue ==
    /\ db.status = "running" /\ db.text = 0
    /\ Commit([db EXCEPT !.status = "queued"], "queued") /\ UNCHANGED reply
Generate ==
    /\ db.status = "running" /\ db.text < MaxText
    /\ Commit([db EXCEPT !.text = @ + 1], "delta") /\ UNCHANGED reply
Complete ==
    /\ db.status = "running"
    /\ Commit([db EXCEPT !.status = "completed", !.entries = @ + 1], "completed")
    /\ UNCHANGED reply
Fail ==
    /\ db.status \notin Ended
    /\ Commit([db EXCEPT !.status = "failed"], "failed") /\ UNCHANGED reply

\* What was written so far becomes an entry.
Cancel ==
    /\ db.status \notin Ended
    /\ Commit([db EXCEPT !.status = "cancelled",
                         !.entries = IF db.text > 0 THEN @ + 1 ELSE @], "cancelled")
    /\ Answered("cancel")

\* The title is left out: what matters is that a rename has a revision of its own.
Rename == Commit(db, "thread.updated") /\ UNCHANGED reply

---------------------------------------------------------------------------
(* The hub *)

SyncRequired(event) == [event EXCEPT !.type = "sync.required"]

\* Faulty variant: what does not fit is dropped.
PutOrDrop(queue, event) == IF Len(queue) < QueueSize THEN Append(queue, event) ELSE queue

\* A full queue becomes one request to synchronise.
Put(queue, event) ==
    IF Len(queue) < QueueSize THEN Append(queue, event) ELSE <<SyncRequired(event)>>

Remember(event) ==
    LET full == Len(hub.history) = HistorySize IN
    [sequence |-> event.sequence,
     history |-> Append(IF full THEN Tail(hub.history) ELSE hub.history, event),
     evictedThrough |-> IF full THEN Head(hub.history).sequence ELSE hub.evictedThrough]

Publish(committed) ==
    LET event == [type |-> committed.type, thread |-> committed.thread,
                  sequence |-> hub.sequence + 1] IN
    /\ unpublished' = unpublished \ {committed}
    /\ hub' = Remember(event)
    /\ socket' = IF socket.open THEN [socket EXCEPT !.queue = Put(@, event)] ELSE socket
    /\ UNCHANGED <<db, cursor, reply, faults, window>>

Replay(after) ==
    IF hub.history # <<>> /\ hub.evictedThrough # None /\ after < hub.evictedThrough
    THEN <<SyncRequired(Last(hub.history))>>
    ELSE Kept(hub.history, {i \in DOMAIN hub.history : hub.history[i].sequence > after})

\* The histories of other principals push out the one of a principal without a socket.
EvictHistory ==
    /\ ~socket.open /\ hub.history # <<>>
    /\ hub' = [hub EXCEPT !.history = <<>>, !.evictedThrough = None]
    /\ UNCHANGED <<db, unpublished, socket, cursor, reply, faults, window>>

Disconnect ==
    /\ socket.open /\ faults < MaxFaults
    /\ socket' = Closed
    /\ faults' = faults + 1
    /\ UNCHANGED <<db, unpublished, hub, cursor, reply, window>>

\* A promise of a fetch that no longer counts still settles, and its key may be the pending
\* one; nothing waits for the promise of a fetch without a key.
With(promises, key) == IF key = None THEN promises ELSE [promises EXCEPT ![key] = @ + 1]

\* The backend restarts: sequences start again, events not yet published are never, and
\* calls in flight fail.
Restart ==
    /\ faults < MaxFaults
    /\ hub' = [sequence |-> 0, history |-> <<>>, evictedThrough |-> None]
    /\ unpublished' = {} /\ socket' = Closed
    /\ IF fetch.stage = "read" THEN UNCHANGED <<fetch, replaced>>
       ELSE fetch' = NoFetch /\ replaced' = With(replaced, fetch.key)
    /\ reply' = NoReply
    /\ faults' = faults + 1
    /\ UNCHANGED <<db, cursor, view, sync, left, missed>>

---------------------------------------------------------------------------
(* The window *)

\* Ticket, handshake, subscribe and ready: the effect is cleaned up and runs again. It
\* fetches the thread anew; promises of the run that ends are left behind.
Connect ==
    /\ ~socket.open
    /\ socket' = [open |-> TRUE, replay |-> Replay(cursor), queue |-> <<>>]
    /\ fetch' = Asked(None) /\ sync' = NoSync /\ missed' = {}
    /\ left' = With([key \in Keys |-> left[key] + replaced[key]], fetch.key)
    /\ replaced' = NoPromises
    /\ UNCHANGED <<db, unpublished, hub, cursor, view, reply, faults>>

\* syncThread: of two fetches only the newer counts.
Fetch(key) ==
    /\ fetch' = Asked(key) /\ replaced' = With(replaced, fetch.key)
    /\ missed' = {}

SyncThread == Fetch(None) /\ UNCHANGED sync

\* syncExecutionOnce
SyncOnce(key) ==
    IF sync.pending = key
    THEN sync' = [sync EXCEPT !.dirty = TRUE] /\ UNCHANGED <<fetch, replaced, missed>>
    ELSE sync' = [sync EXCEPT !.pending = key] /\ Fetch(key)

Ignore == UNCHANGED <<fetch, sync, replaced, missed>>

\* What the window lacks now it gets only from a fetch that has not been read.
Miss(why) ==
    missed' = IF fetch.stage = "asked" THEN missed ELSE missed \cup {why}

SameConversation(one, other) ==
    /\ one.execution = other.execution /\ one.status = other.status
    /\ one.text = other.text /\ one.entries = other.entries

\* reduceThreadRealtime: a patch of the response that is shown, or a fetch.
Patch(type, thread) ==
    [view EXCEPT !.revision = thread.revision,
                 !.status = IF type = "delta" THEN "running" ELSE type,
                 !.text = IF type \in {"delta", "completed", "cancelled"} THEN thread.text ELSE @]

\* Faulty variant: a late event of the execution is applied, whatever is shown.
ApplyResponseAlways(type, thread) ==
    IF type = "queued" \/ view = NoThread \/ view.execution # thread.execution
    THEN SyncOnce(thread.execution) /\ UNCHANGED view
    ELSE /\ view' = Patch(type, thread)
         /\ IF type \in Ended THEN SyncOnce(thread.execution) ELSE Ignore

ApplyResponse(type, thread) ==
    IF type = "queued" \/ view = NoThread \/ view.execution # thread.execution
    THEN SyncOnce(thread.execution) /\ UNCHANGED view
    ELSE IF thread.revision < view.revision THEN Ignore /\ UNCHANGED view
    ELSE IF view.status \in Ended THEN SyncOnce(thread.execution) /\ UNCHANGED view
    ELSE /\ view' = Patch(type, thread)
         /\ IF type \in Ended THEN SyncOnce(thread.execution) ELSE Ignore

\* The title and the revision of the event, on the conversation that is shown.
ApplyTitle(thread) ==
    /\ UNCHANGED <<fetch, sync, replaced>>
    /\ IF view = NoThread \/ thread.revision < view.revision THEN UNCHANGED <<view, missed>>
       ELSE /\ view' = [view EXCEPT !.revision = thread.revision]
            /\ IF SameConversation(view, thread) THEN UNCHANGED missed ELSE Miss("renamed")

Apply(type, thread) ==
    CASE type \in {"sync.required", "entry.created"} -> SyncThread /\ UNCHANGED view
      [] type = "thread.updated" -> ApplyTitle(thread)
      [] OTHER -> ApplyResponse(type, thread)

\* The replay is sent before what was queued meanwhile.
Deliver ==
    LET event == Head(socket.replay \o socket.queue) IN
    /\ socket.replay \o socket.queue # <<>>
    /\ socket' = IF socket.replay # <<>> THEN [socket EXCEPT !.replay = Tail(@)]
                 ELSE [socket EXCEPT !.queue = Tail(@)]
    /\ cursor' = IF event.sequence > cursor THEN event.sequence ELSE cursor
    /\ Apply(event.type, event.thread)
    /\ UNCHANGED <<db, unpublished, hub, left, reply, faults>>

\* GET reads the thread and then its entries and responses, in two statements.
FetchReads ==
    /\ fetch' = CASE fetch.stage = "asked" -> [stage |-> "half", key |-> fetch.key, thread |-> db]
                  [] fetch.stage = "half" ->
                        [stage |-> "read", key |-> fetch.key,
                         thread |-> [db EXCEPT !.revision = fetch.thread.revision]]
    /\ UNCHANGED <<outside, view, sync, replaced, left, missed>>

\* The promise of syncExecutionOnce settles. What was marked meanwhile is fetched.
Settle(key, newest, others) ==
    IF key = None \/ sync.pending # key \/ ~sync.dirty
    THEN /\ fetch' = newest /\ replaced' = others
         /\ sync' = IF key # None /\ sync.pending = key THEN NoSync ELSE sync
         /\ UNCHANGED missed
    ELSE /\ fetch' = Asked(key) /\ replaced' = With(others, newest.key)
         /\ sync' = [sync EXCEPT !.dirty = FALSE]
         /\ missed' = {}

FetchArrives ==
    /\ fetch.stage = "read"
    /\ view' = IF view.revision > fetch.thread.revision THEN view ELSE fetch.thread
    /\ Settle(fetch.key, NoFetch, replaced)
    /\ UNCHANGED <<outside, left>>

\* The answer to a fetch that a newer one replaced, or the failure of one.
OldFetchArrives(key) ==
    /\ replaced[key] > 0
    /\ Settle(key, fetch, [replaced EXCEPT ![key] = @ - 1])
    /\ UNCHANGED <<outside, view, left>>

\* The answer to a fetch of a run that was cancelled: the marks belong to the run that goes
\* on, but are cleared, and the fetch of what was marked returns at once.
LeftFetchArrives(key) ==
    /\ left[key] > 0
    /\ left' = [left EXCEPT ![key] = @ - 1]
    /\ IF sync.pending = key
       THEN sync' = NoSync /\ IF sync.dirty THEN Miss("settled") ELSE UNCHANGED missed
       ELSE UNCHANGED <<sync, missed>>
    /\ UNCHANGED <<outside, view, fetch, replaced>>

\* createResponse and regenerateResponse; cancelExecution with mergeExecutionSnapshot.
ReplyArrives ==
    /\ reply # NoReply
    /\ LET newer == reply.thread.revision > view.revision
           same == /\ reply.thread.revision = view.revision
                   /\ reply.to = "cancel" => reply.thread.execution = view.execution IN
       view' = IF newer \/ same THEN reply.thread ELSE view
    /\ reply' = NoReply
    /\ UNCHANGED <<db, unpublished, hub, socket, cursor, fetch, sync, replaced, left, missed, faults>>

---------------------------------------------------------------------------
Change ==
    Ask \/ AskAgain \/ Start \/ Requeue \/ Generate \/ Complete \/ Fail \/ Cancel \/ Rename

Next ==
    \/ Change
    \/ \E committed \in unpublished : Publish(committed)
    \/ EvictHistory \/ Disconnect \/ Restart
    \/ Connect \/ Deliver
    \/ (fetch.stage \in {"asked", "half"} /\ FetchReads)
    \/ FetchArrives \/ ReplyArrives
    \/ \E key \in Keys : OldFetchArrives(key) \/ LeftFetchArrives(key)

Spec == Init /\ [][Next]_vars

---------------------------------------------------------------------------
(* Properties *)

Underway ==
    \/ unpublished # {} \/ ~socket.open \/ socket.replay \o socket.queue # <<>>
    \/ fetch # NoFetch \/ sync.dirty \/ reply # NoReply

Shown == view # NoThread /\ SameConversation(view, db)

\* A window that shows another conversation than the rows is about to learn: when
\* everything that was published has arrived and nothing is being or about to be fetched,
\* it shows the entries and the state and text of the latest answer as they are stored,
\* through full queues, lost connections, evicted histories and restarts, unless since its
\* last fetch a rename raised its revision over a change it lacked, or a promise of a
\* cancelled run took the mark of an event (Renamed.cfg and LeftBehind.cfg).
NeverSilentlyStale == ~Underway /\ missed = {} => Shown

\* docs/architecture/spaces-threads-realtime.md:98-101 lets clients converge to the
\* revision in PostgreSQL: so does the conversation, also when it is renamed meanwhile.
ConversationShown == ~Underway => Shown

\* The same of a conversation that no rename has overtaken: what the effect of the chat
\* window keeps of its own fetches brings every change that was marked.
MarkedIsFetched == ~Underway /\ "renamed" \notin missed => Shown

\* An answer that the window has shown as over is not shown as going on again, however
\* late events and snapshots arrive (reduceThreadRealtime, syncThread). Only the answer to
\* its own call may do it: a fetch whose responses were read after its revision can be
\* ahead of a thread of the same revision.
OverStaysOver ==
    [][view # NoThread /\ view.status \in Ended /\ view'.execution = view.execution
          => view'.status = view.status \/ reply' # reply]_view
===============================================================================
