-------------------------- MODULE ThreadRealtimeProofs --------------------------
(***************************************************************************)
(* That a window of ThreadRealtime is never silently stale but where the    *)
(* observer says why, and never shows an answer going on again, for any     *)
(* sizes of histories and queues and any number of changes and faults.      *)
(*                                                                         *)
(* Whatever has read the thread, an event, a fetch, an answer or the       *)
(* window, follows the rows: it is older, or it has their conversation,     *)
(* which is the same since some revision. Only a patch that ends an answer  *)
(* has neither, and it makes the window fetch. And whatever the rows have   *)
(* that the window has not is covered: by a fetch that will read it, or by  *)
(* an event that will make the window fetch.                                *)
(***************************************************************************)
EXTENDS ThreadRealtime, DataInduction, SequenceTheorems, TLAPS

\* What was read of the thread at some time, and the rows now.
Follows(thread, rows) ==
    /\ thread.revision <= rows.revision
    /\ thread.execution <= rows.execution
    /\ thread.execution = rows.execution =>
          /\ thread.status \in Ended => rows.status = thread.status
          /\ rows.status \notin Ended => thread.entries = rows.entries /\ thread.text <= rows.text

\* An end that was read is an end for the responses a GET has read since.
Agrees(thread, read) ==
    (/\ read.stage = "read" /\ thread.status \in Ended
     /\ thread.execution = read.thread.execution
     /\ thread.revision <= read.thread.revision)
    => read.thread.status = thread.status

Seen(thread, rows, read) == thread \in Threads /\ Follows(thread, rows) /\ Agrees(thread, read)

\* Renames leave the conversation as it is since a revision.
Exact(thread, rows, since) == since <= thread.revision => SameConversation(thread, rows)

Past(thread, rows, since, read) == Seen(thread, rows, read) /\ Exact(thread, rows, since)

\* What an event says of the thread as it was at the commit.
Tells(type, thread) ==
    /\ type \in Types
    /\ type \in Ended \cup {"running"} => thread.status = type
    /\ type = "delta" => thread.status = "running"
    /\ type = "running" => thread.text = 0

Fitting(rows, since, read) ==
    {e \in Events : Tells(e.type, e.thread) /\ Past(e.thread, rows, since, read)}

---------------------------------------------------------------------------
(* The inductive invariant *)

Lawful(rows, since) ==
    /\ rows \in Threads /\ rows.execution <= rows.revision /\ rows.entries <= rows.revision
    /\ rows.status = "queued" => rows.text = 0
    /\ since \in 1..rows.revision

AnnouncedFit(changes, rows, since, read) ==
    \A c \in changes : Tells(c.type, c.thread) /\ Past(c.thread, rows, since, read)

HubFits(h, rows, since, read) ==
    /\ h \in [sequence : Nat, history : Seq(Fitting(rows, since, read)), evictedThrough : Nat]
    /\ Len(h.history) <= HistorySize

SocketFits(s, rows, since, read) ==
    /\ s \in [open : BOOLEAN, replay : Seq(Fitting(rows, since, read)),
              queue : Seq(Fitting(rows, since, read))]
    /\ Len(s.queue) <= QueueSize

Reads(read) == read.stage \in {"half", "read"}

FetchFits(read, rows, since) ==
    read.stage \in {"none", "asked"} \/ (Reads(read) /\ Past(read.thread, rows, since, read))

ReplyFits(r, rows, since, read) ==
    r = NoReply \/ (r.to \in {"post", "cancel"} /\ Past(r.thread, rows, since, read))

ViewFits(v, rows, read) == v = NoThread \/ Seen(v, rows, read)

CountersTyped == cursor \in Nat /\ faults \in 0..MaxFaults

WindowTyped ==
    /\ fetch.key \in Keys \cup {None} /\ sync \in Syncs
    /\ replaced \in Promises /\ left \in Promises /\ missed \subseteq {"renamed", "settled"}

\* A fetch will be made.
Fetching == fetch.stage = "asked" \/ sync.dirty

\* The window shows the conversation, or an older one, or it is about to fetch.
Sound(since) ==
    \/ Exact(view, db, since) \/ Fetching \/ ~socket.open \/ missed # {}
    \/ Reads(fetch) /\ view.revision <= fetch.thread.revision

\* An event that makes the window fetch, or that has the conversation.
Telling(event, since) ==
    \/ event.type \in {"sync.required", "entry.created"}
    \/ event.type # "thread.updated" /\ since <= event.thread.revision

Waiting(events, since) == \E i \in 1..Len(events) : Telling(events[i], since)

Covered(since) ==
    socket.open =>
        \/ Fetching \/ since <= view.revision \/ missed # {}
        \/ Reads(fetch) /\ since <= fetch.thread.revision
        \/ \E c \in unpublished : Telling(c, since)
        \/ Waiting(socket.replay, since) \/ Waiting(socket.queue, since)

\* The parts, and everything that was read in them, follow the rows.
Following(since) ==
    /\ AnnouncedFit(unpublished, db, since, fetch) /\ HubFits(hub, db, since, fetch)
    /\ SocketFits(socket, db, since, fetch) /\ FetchFits(fetch, db, since)
    /\ ReplyFits(reply, db, since, fetch) /\ ViewFits(view, db, fetch)

\* The conversation is as it is since a revision.
Unchanged(since) ==
    /\ Lawful(db, since) /\ Following(since) /\ CountersTyped /\ WindowTyped
    /\ Sound(since) /\ Covered(since)

IInv == \E since \in 1..MaxRevision : Unchanged(since)

---------------------------------------------------------------------------
(* What was read follows the rows *)

\* A transaction: the answer goes on or ends, or a new one is asked for.
Moves(rows, next) ==
    /\ next.revision = rows.revision + 1
    /\ \/ next.execution = rows.execution + 1
       \/ /\ next.execution = rows.execution /\ rows.status \notin Ended
          /\ next.status \notin Ended => next.entries = rows.entries /\ rows.text <= next.text

\* The conversation moves, or it does not, but what is being fetched may.
Onward(rows, since, read, next, from, later) ==
    \/ Moves(rows, next) /\ from = next.revision /\ later = read
    \/ /\ SameConversation(rows, next) /\ rows.revision <= next.revision /\ from = since
       /\ \/ later = read \/ later.stage # "read"
          \/ later.thread.status = rows.status /\ later.thread.execution = rows.execution

LEMMA ThreadFields ==
    ASSUME NEW t \in Threads
    PROVE  /\ t.revision \in 1..MaxRevision /\ t.execution \in 1..MaxRevision /\ t.status \in Statuses
           /\ t.text \in 0..MaxText /\ t.entries \in 1..MaxRevision
           /\ t.revision \in Nat /\ t.execution \in Nat /\ t.text \in Int /\ t # NoThread
  BY RealtimeAssumption DEF Threads, NoThread

LEMMA SeenOn ==
    ASSUME NEW rows \in Threads, NEW since, NEW read, NEW next \in Threads, NEW from, NEW later,
           Onward(rows, since, read, next, from, later), NEW t, Seen(t, rows, read)
    PROVE  Seen(t, next, later)
  <1>1. t \in Threads /\ Follows(t, rows) /\ Agrees(t, read)
    BY DEF Seen
  <1>2. CASE Moves(rows, next) /\ later = read
    <2>1. Follows(t, next)
      <3> SUFFICES ASSUME Moves(rows, next), Follows(t, rows) PROVE Follows(t, next)
        BY <1>1, <1>2
      <3> USE <1>1, ThreadFields
      <3>1. t.revision <= next.revision /\ t.execution <= next.execution
        BY DEF Moves, Follows
      <3>2. ASSUME t.execution = next.execution
            PROVE  /\ t.execution = rows.execution /\ rows.status \notin Ended
                   /\ next.status \notin Ended => next.entries = rows.entries /\ rows.text <= next.text
        BY <3>2 DEF Moves, Follows
      <3> QED
        BY <3>1, <3>2 DEF Follows
    <2> QED
      BY <1>1, <1>2, <2>1 DEF Seen
  <1>3. CASE SameConversation(rows, next) /\ rows.revision <= next.revision
    <2>1. Follows(t, next)
      BY <1>1, <1>3, ThreadFields DEF Follows, SameConversation
    <2>2. CASE later = read \/ later.stage # "read"
      BY <1>1, <2>1, <2>2 DEF Seen, Agrees
    <2>3. CASE later.thread.status = rows.status /\ later.thread.execution = rows.execution
      BY <1>1, <2>1, <2>3 DEF Seen, Agrees, Follows
    <2> QED
      BY <1>3, <2>2, <2>3, ThreadFields DEF Onward, Moves
  <1> QED
    BY <1>2, <1>3 DEF Onward

LEMMA ExactOn ==
    ASSUME NEW rows \in Threads, NEW since, NEW read, NEW next \in Threads, NEW from, NEW later,
           Onward(rows, since, read, next, from, later),
           NEW t, t.revision \in Nat, t.revision <= rows.revision, Exact(t, rows, since)
    PROVE  Exact(t, next, from)
  <1>1. CASE Moves(rows, next) /\ from = next.revision
    <2>1. ~(from <= t.revision)
      BY <1>1, ThreadFields DEF Moves
    <2> QED
      BY <2>1 DEF Exact
  <1>2. CASE SameConversation(rows, next) /\ from = since
    BY <1>2 DEF Exact, SameConversation
  <1> QED
    BY <1>1, <1>2 DEF Onward

LEMMA PastOn ==
    ASSUME NEW rows \in Threads, NEW since, NEW read, NEW next \in Threads, NEW from, NEW later,
           Onward(rows, since, read, next, from, later), NEW t, Past(t, rows, since, read)
    PROVE  Past(t, next, from, later)
  <1>1. Seen(t, next, later)
    BY SeenOn DEF Past
  <1>2. t \in Threads /\ t.revision <= rows.revision /\ Exact(t, rows, since)
    BY DEF Past, Seen, Follows
  <1>3. t.revision \in Nat
    BY <1>2, ThreadFields
  <1>4. Exact(t, next, from)
    BY <1>2, <1>3, ExactOn
  <1> QED
    BY <1>1, <1>4 DEF Past

LEMMA FittingOn ==
    ASSUME NEW rows \in Threads, NEW since, NEW read, NEW next \in Threads, NEW from, NEW later,
           Onward(rows, since, read, next, from, later)
    PROVE  /\ Fitting(rows, since, read) \subseteq Fitting(next, from, later)
           /\ \A s : s \in Seq(Fitting(rows, since, read)) => s \in Seq(Fitting(next, from, later))
  <1>1. Fitting(rows, since, read) \subseteq Fitting(next, from, later)
    BY PastOn DEF Fitting
  <1> QED
    BY <1>1, SeqMonotonic

LEMMA FollowingOn ==
    ASSUME NEW rows \in Threads, NEW since, NEW read, NEW next \in Threads, NEW from, NEW later,
           Onward(rows, since, read, next, from, later)
    PROVE  /\ \A cs : AnnouncedFit(cs, rows, since, read) => AnnouncedFit(cs, next, from, later)
           /\ \A h : HubFits(h, rows, since, read) => HubFits(h, next, from, later)
           /\ \A s : SocketFits(s, rows, since, read) => SocketFits(s, next, from, later)
           /\ \A r : ReplyFits(r, rows, since, read) => ReplyFits(r, next, from, later)
           /\ \A v : ViewFits(v, rows, read) => ViewFits(v, next, later)
  <1>1. \A t : Past(t, rows, since, read) => Past(t, next, from, later)
    BY PastOn
  <1>2. \A t : Seen(t, rows, read) => Seen(t, next, later)
    BY SeenOn
  <1>3. \A s : s \in Seq(Fitting(rows, since, read)) => s \in Seq(Fitting(next, from, later))
    BY FittingOn
  <1>4. \A cs : AnnouncedFit(cs, rows, since, read) => AnnouncedFit(cs, next, from, later)
    BY <1>1 DEF AnnouncedFit
  <1>5. \A h : HubFits(h, rows, since, read) => HubFits(h, next, from, later)
    BY <1>3 DEF HubFits
  <1>6. \A s : SocketFits(s, rows, since, read) => SocketFits(s, next, from, later)
    BY <1>3 DEF SocketFits
  <1>7. \A r : ReplyFits(r, rows, since, read) => ReplyFits(r, next, from, later)
    BY <1>1 DEF ReplyFits
  <1>8. \A v : ViewFits(v, rows, read) => ViewFits(v, next, later)
    BY <1>2 DEF ViewFits
  <1> QED
    BY <1>4, <1>5, <1>6, <1>7, <1>8

LEMMA ViewRevision ==
    ASSUME NEW v, NEW rows \in Threads, NEW read, ViewFits(v, rows, read)
    PROVE  /\ v.revision \in Nat /\ v.revision <= rows.revision
           /\ v # NoThread => v \in Threads /\ Seen(v, rows, read)
           /\ v = NoThread => v.revision = 0
  <1>1. CASE v = NoThread
    <2>1. v.revision = 0
      BY <1>1 DEF NoThread
    <2> QED
      BY <1>1, <2>1, ThreadFields
  <1>2. CASE v # NoThread
    <2>1. v \in Threads /\ Seen(v, rows, read)
      BY <1>2 DEF ViewFits, Seen
    <2> QED
      BY <1>2, <2>1, ThreadFields DEF Seen, Follows
  <1> QED
    BY <1>1, <1>2

LEMMA Parts ==
    ASSUME NEW since, Unchanged(since)
    PROVE  /\ Lawful(db, since) /\ db \in Threads /\ CountersTyped /\ WindowTyped
           /\ Sound(since) /\ Covered(since)
           /\ AnnouncedFit(unpublished, db, since, fetch) /\ HubFits(hub, db, since, fetch)
           /\ SocketFits(socket, db, since, fetch) /\ FetchFits(fetch, db, since)
           /\ ReplyFits(reply, db, since, fetch) /\ ViewFits(view, db, fetch)
           /\ since \in Nat /\ since > 0 /\ since <= db.revision
           /\ db.revision \in Nat /\ since \in 1..MaxRevision
  <1>1. Lawful(db, since) /\ db \in Threads /\ since \in 1..db.revision /\ db.revision \in 1..MaxRevision
    BY ThreadFields DEF Unchanged, Lawful
  <1>2. since \in Nat /\ since > 0 /\ since <= db.revision /\ since \in 1..MaxRevision /\ db.revision \in Nat
    BY <1>1, RealtimeAssumption
  <1> QED
    BY <1>1, <1>2 DEF Unchanged, Following

---------------------------------------------------------------------------
(* The rows change *)

Committing(type, to) ==
    /\ db' \in Threads /\ db'.revision = db.revision + 1
    /\ db'.execution <= db'.revision /\ db'.entries <= db'.revision
    /\ db'.status = "queued" => db'.text = 0
    /\ Tells(type, db')
    /\ (Moves(db, db') /\ type # "thread.updated") \/ SameConversation(db, db')
    /\ unpublished' = unpublished \cup {[type |-> type, thread |-> db']}
    /\ UNCHANGED <<hub, socket, cursor, faults, window>>
    /\ reply' = reply \/ reply' = [to |-> to, thread |-> db']

LEMMA CommitFields ==
    ASSUME NEW since, NEW thread, thread \in Threads, NEW type, Lawful(db, since), Commit(thread, type)
    PROVE  /\ db' \in Threads /\ db'.revision = db.revision + 1
           /\ db'.execution = thread.execution /\ db'.status = thread.status
           /\ db'.text = thread.text /\ db'.entries = thread.entries
           /\ unpublished' = unpublished \cup {[type |-> type, thread |-> db']}
           /\ UNCHANGED <<hub, socket, cursor, faults, window>>
           /\ db.revision < MaxRevision
  <1>1. db' = [thread EXCEPT !.revision = db.revision + 1] /\ db.revision < MaxRevision
    BY DEF Commit
  <1>2. db.revision + 1 \in 1..MaxRevision
    BY <1>1, ThreadFields, RealtimeAssumption DEF Lawful
  <1> QED
    BY <1>1, <1>2 DEF Commit, Announcement, Threads

LEMMA AnsweredReply ==
    ASSUME NEW to, Answered(to)
    PROVE  reply' = reply \/ reply' = [to |-> to, thread |-> db']
  BY DEF Answered

\* The thread that a transaction writes, but for its revision.
Written(t, rows, type) ==
    /\ t \in Threads
    /\ t.execution <= rows.revision + 1 /\ t.entries <= rows.revision + 1
    /\ t.status = "queued" => t.text = 0
    /\ \/ t.execution = rows.execution + 1 /\ type # "thread.updated"
       \/ /\ t.execution = rows.execution /\ rows.status \notin Ended /\ type # "thread.updated"
          /\ t.status \notin Ended => t.entries = rows.entries /\ rows.text <= t.text
       \/ SameConversation(rows, t)
    /\ Tells(type, t)

LEMMA CommitMoves ==
    ASSUME NEW since, NEW t, NEW type, NEW to, Lawful(db, since), Commit(t, type),
           reply' = reply \/ reply' = [to |-> to, thread |-> db'], Written(t, db, type)
    PROVE  Committing(type, to)
  <1>1. /\ db' \in Threads /\ db'.revision = db.revision + 1
        /\ db'.execution = t.execution /\ db'.status = t.status
        /\ db'.text = t.text /\ db'.entries = t.entries
        /\ unpublished' = unpublished \cup {[type |-> type, thread |-> db']}
        /\ UNCHANGED <<hub, socket, cursor, faults, window>>
    BY CommitFields DEF Written
  <1>2. /\ db'.execution <= db'.revision /\ db'.entries <= db'.revision
        /\ db'.status = "queued" => db'.text = 0
    BY <1>1 DEF Written
  <1>3. Tells(type, db')
    BY <1>1 DEF Tells, Written
  <1>4. (Moves(db, db') /\ type # "thread.updated") \/ SameConversation(db, db')
    BY <1>1 DEF Moves, SameConversation, Written
  <1> QED
    BY <1>1, <1>2, <1>3, <1>4 DEF Committing

LEMMA ChangeCommits ==
    ASSUME NEW since, Lawful(db, since), Change
    PROVE  \E type, to : to \in {"post", "cancel"} /\ Committing(type, to)
  <1>1. /\ db \in Threads /\ db.execution <= db.revision /\ db.entries <= db.revision
        /\ db.status = "queued" => db.text = 0
        /\ db.revision < MaxRevision
    BY DEF Lawful, Change, Ask, AskAgain, Start, Requeue, Generate, Complete, Fail, Cancel, Rename, Commit
  <1>2. db.execution + 1 \in 1..MaxRevision /\ db.entries + 1 \in 1..MaxRevision
    <2>1. db.execution \in 1..MaxRevision /\ db.entries \in 1..MaxRevision /\ db.revision \in 1..MaxRevision
      BY <1>1, ThreadFields
    <2> QED
      BY <1>1, <2>1, RealtimeAssumption
  <1>3. {"queued", "completed", "cancelled"} \subseteq Statuses /\ 0 \in 0..MaxText
    BY RealtimeAssumption DEF Statuses, Ended
  <1> USE <1>1, ThreadFields, RealtimeAssumption
  <1>4. CASE Ask
    <2>1. PICK t : t = [db EXCEPT !.execution = @ + 1, !.status = "queued", !.text = 0, !.entries = @ + 1]
      OBVIOUS
    <2>2. t \in Threads
      BY <1>2, <1>3, <2>1 DEF Threads
    <2>3. /\ t.execution = db.execution + 1 /\ t.status = "queued" /\ t.text = 0
          /\ t.entries = db.entries + 1
      BY <2>1 DEF Threads
    <2>4. Written(t, db, "entry.created")
      BY <2>2, <2>3 DEF Written, Tells, Types, Statuses, Ended
    <2> QED
      BY <1>4, <2>1, <2>4, CommitMoves, AnsweredReply DEF Ask
  <1>5. CASE AskAgain
    <2>1. PICK t : t = [db EXCEPT !.execution = @ + 1, !.status = "queued", !.text = 0]
      OBVIOUS
    <2>2. t \in Threads
      BY <1>2, <1>3, <2>1 DEF Threads
    <2>3. /\ t.execution = db.execution + 1 /\ t.status = "queued" /\ t.text = 0
          /\ t.entries = db.entries
      BY <2>1 DEF Threads
    <2>4. Written(t, db, "queued")
      BY <2>2, <2>3 DEF Written, Tells, Types, Statuses, Ended
    <2> QED
      BY <1>5, <2>1, <2>4, CommitMoves, AnsweredReply DEF AskAgain
  <1>6. CASE Start
    <2>1. PICK t : t = [db EXCEPT !.status = "running"]
      OBVIOUS
    <2>2. Written(t, db, "running")
      BY <1>6, <2>1 DEF Start, Written, Tells, Types, Threads, Statuses, Ended
    <2> QED
      BY <1>6, <2>1, <2>2, CommitMoves DEF Start
  <1>7. CASE Requeue
    <2>1. PICK t : t = [db EXCEPT !.status = "queued"]
      OBVIOUS
    <2>2. Written(t, db, "queued")
      BY <1>7, <2>1 DEF Requeue, Written, Tells, Types, Threads, Statuses, Ended
    <2> QED
      BY <1>7, <2>1, <2>2, CommitMoves DEF Requeue
  <1>8. CASE Generate
    <2>1. PICK t : t = [db EXCEPT !.text = @ + 1]
      OBVIOUS
    <2>2. Written(t, db, "delta")
      BY <1>8, <2>1 DEF Generate, Written, Tells, Types, Threads, Statuses, Ended
    <2> QED
      BY <1>8, <2>1, <2>2, CommitMoves DEF Generate
  <1>9. CASE Complete
    <2>1. PICK t : t = [db EXCEPT !.status = "completed", !.entries = @ + 1]
      OBVIOUS
    <2>2. t \in Threads
      BY <1>2, <1>3, <2>1 DEF Threads
    <2>3. /\ t.execution = db.execution /\ t.status = "completed"
          /\ t.entries = db.entries + 1
      BY <2>1 DEF Threads
    <2>4. Written(t, db, "completed")
      BY <1>9, <2>2, <2>3 DEF Complete, Written, Tells, Types, Statuses, Ended
    <2> QED
      BY <1>9, <2>1, <2>4, CommitMoves DEF Complete
  <1>10. CASE Fail
    <2>1. PICK t : t = [db EXCEPT !.status = "failed"]
      OBVIOUS
    <2>2. Written(t, db, "failed")
      BY <1>10, <2>1 DEF Fail, Written, Tells, Types, Threads, Statuses, Ended
    <2> QED
      BY <1>10, <2>1, <2>2, CommitMoves DEF Fail
  <1>11. CASE Cancel
    <2>1. PICK t : t = [db EXCEPT !.status = "cancelled",
                                  !.entries = IF db.text > 0 THEN @ + 1 ELSE @]
      OBVIOUS
    <2>2. t \in Threads
      BY <1>2, <1>3, <2>1 DEF Threads
    <2>3. /\ t.execution = db.execution /\ t.status = "cancelled"
          /\ t.entries \in {db.entries, db.entries + 1}
      BY <2>1 DEF Threads
    <2>4. Written(t, db, "cancelled")
      BY <1>11, <2>2, <2>3 DEF Cancel, Written, Tells, Types, Statuses, Ended
    <2> QED
      BY <1>11, <2>1, <2>4, CommitMoves, AnsweredReply DEF Cancel
  <1>12. CASE Rename
    <2>1. Written(db, db, "thread.updated")
      BY DEF Written, Tells, Types, Statuses, Ended, SameConversation
    <2> QED
      BY <1>12, <2>1, CommitMoves DEF Rename
  <1> QED
    BY <1>4, <1>5, <1>6, <1>7, <1>8, <1>9, <1>10, <1>11, <1>12 DEF Change

LEMMA ChangeKeeps ==
    ASSUME NEW since, Unchanged(since), Change
    PROVE  IInv'
  <1>1. Lawful(db, since)
    BY Parts
  <1>2. PICK type, to : to \in {"post", "cancel"} /\ Committing(type, to)
    BY <1>1, ChangeCommits, Zenon
  <1>3. /\ Tells(type, db')
        /\ unpublished' = unpublished \cup {[type |-> type, thread |-> db']}
        /\ hub' = hub /\ socket' = socket /\ cursor' = cursor /\ faults' = faults
        /\ view' = view /\ fetch' = fetch /\ sync' = sync /\ replaced' = replaced /\ left' = left
        /\ missed' = missed
        /\ reply' = reply \/ reply' = [to |-> to, thread |-> db']
    BY <1>2 DEF Committing, window
  <1>4. /\ db \in Threads /\ db' \in Threads /\ db'.revision = db.revision + 1
        /\ db.revision \in Nat /\ db.revision < db'.revision /\ db.revision <= db'.revision
        /\ db'.revision \in 1..MaxRevision
    BY <1>2, Parts, ThreadFields DEF Committing
  <1>5. PICK from \in 1..db'.revision :
           /\ Onward(db, since, fetch, db', from, fetch')
           /\ \/ from = db'.revision /\ type # "thread.updated"
              \/ from = since /\ SameConversation(db, db')
    <2>1. CASE Moves(db, db') /\ type # "thread.updated"
      <3>1. db'.revision \in 1..db'.revision
        BY <1>4
      <3> QED
        BY <1>3, <2>1, <3>1 DEF Onward
    <2>2. CASE SameConversation(db, db')
      <3>1. since \in 1..db'.revision
        BY <1>4, Parts
      <3> QED
        BY <1>3, <1>4, <2>2, <3>1 DEF Onward
    <2> QED
      BY <1>2, <2>1, <2>2 DEF Committing
  <1>6. from \in 1..MaxRevision /\ from \in Nat /\ from <= db'.revision
    <2>1. PICK n \in 1..MaxRevision : n = db'.revision
      BY <1>4
    <2>2. from \in 1..n
      BY <2>1
    <2>3. from \in 1..MaxRevision /\ from \in Nat /\ from <= n
      BY <2>1, <2>2, RealtimeAssumption
    <2> QED
      BY <2>1, <2>3
  <1>7. Lawful(db', from)
    BY <1>2, <1>5 DEF Committing, Lawful
  <1>8. Past(db', db', from, fetch')
    <2>1. Follows(db', db') /\ Exact(db', db', from)
      BY <1>4, ThreadFields DEF Follows, Exact, SameConversation
    <2>2. Agrees(db', fetch')
      <3>1. fetch.stage = "read" => fetch.thread.revision \in Nat /\ fetch.thread.revision <= db.revision
        BY Parts, ThreadFields DEF FetchFits, Past, Seen, Follows
      <3> QED
        BY <1>3, <1>4, <3>1, ThreadFields DEF Agrees
    <2> QED
      BY <1>4, <2>1, <2>2 DEF Past, Seen
  <1>9. /\ AnnouncedFit(unpublished, db', from, fetch') /\ HubFits(hub, db', from, fetch')
        /\ SocketFits(socket, db', from, fetch') /\ ReplyFits(reply, db', from, fetch')
        /\ ViewFits(view, db', fetch')
    <2>1. /\ AnnouncedFit(unpublished, db, since, fetch) /\ HubFits(hub, db, since, fetch)
          /\ SocketFits(socket, db, since, fetch) /\ ReplyFits(reply, db, since, fetch)
          /\ ViewFits(view, db, fetch)
      BY Parts
    <2> QED
      BY <1>4, <1>5, <2>1, FollowingOn
  <1>10. Following(from)'
    <2>1. AnnouncedFit(unpublished', db', from, fetch')
      BY <1>3, <1>8, <1>9 DEF AnnouncedFit
    <2>2. FetchFits(fetch', db', from)
      <3>1. CASE fetch.stage \in {"none", "asked"}
        BY <1>3, <3>1 DEF FetchFits
      <3>2. CASE Reads(fetch) /\ Past(fetch.thread, db, since, fetch)
        <4>1. Past(fetch.thread, db', from, fetch')
          BY <1>4, <1>5, <3>2, PastOn
        <4> QED
          BY <1>3, <3>2, <4>1 DEF FetchFits
      <3> QED
        BY <3>1, <3>2, Parts DEF FetchFits
    <2>3. ReplyFits(reply', db', from, fetch')
      BY <1>2, <1>3, <1>8, <1>9 DEF ReplyFits
    <2> QED
      BY <1>3, <1>9, <2>1, <2>2, <2>3 DEF Following
  <1>11. CountersTyped' /\ WindowTyped'
    BY <1>3, Parts DEF CountersTyped, WindowTyped
  <1>12. Sound(from)'
    <2>1. view.revision <= db.revision /\ view.revision \in Nat
      BY <1>4, Parts, ViewRevision
    <2>2. Exact(view, db, since) => Exact(view, db', from)
      BY <1>4, <1>5, <2>1, ExactOn
    <2>3. from = db'.revision => Exact(view, db', from)
      BY <1>4, <2>1 DEF Exact
    <2> QED
      BY <1>3, <2>2, <2>3, Parts DEF Sound, Fetching
  <1>13. Covered(from)'
    <2>1. CASE from = db'.revision /\ type # "thread.updated"
      <3>1. PICK c : c = [type |-> type, thread |-> db']
        OBVIOUS
      <3>2. c \in unpublished' /\ Telling(c, from)
        BY <1>3, <1>4, <2>1, <3>1 DEF Telling
      <3> QED
        BY <3>2 DEF Covered
    <2>2. CASE from = since
      BY <1>3, <2>2, Parts DEF Covered, Fetching
    <2> QED
      BY <1>5, <2>1, <2>2
  <1>14. Unchanged(from)'
    BY <1>7, <1>10, <1>11, <1>12, <1>13 DEF Unchanged
  <1> QED
    BY <1>6, <1>14 DEF IInv

---------------------------------------------------------------------------
(* Events on their way *)

LEMMA EventFits ==
    ASSUME NEW c, NEW n \in Nat, NEW rows, NEW since, NEW read, Tells(c.type, c.thread), Past(c.thread, rows, since, read)
    PROVE  [type |-> c.type, thread |-> c.thread, sequence |-> n] \in Fitting(rows, since, read)
  BY DEF Fitting, Events, Tells, Past, Seen

LEMMA EventFields ==
    ASSUME NEW rows, NEW since, NEW read, NEW e \in Fitting(rows, since, read)
    PROVE  /\ e \in Events /\ e.type \in Types /\ e.thread \in Threads /\ e.sequence \in Nat
           /\ Tells(e.type, e.thread) /\ Past(e.thread, rows, since, read)
  BY DEF Fitting, Events

LEMMA SyncRequiredFits ==
    ASSUME NEW rows, NEW since, NEW read, NEW e \in Fitting(rows, since, read)
    PROVE  SyncRequired(e) \in Fitting(rows, since, read) /\ SyncRequired(e).type = "sync.required"
  <1>1. /\ SyncRequired(e) \in Events
        /\ SyncRequired(e).type = "sync.required" /\ SyncRequired(e).thread = e.thread
    BY EventFields DEF SyncRequired, Events, Types
  <1>2. Tells("sync.required", e.thread)
    BY DEF Tells, Types, Statuses, Ended
  <1> QED
    BY <1>1, <1>2, EventFields DEF Fitting

LEMMA WaitingLonger ==
    ASSUME NEW S, NEW s \in Seq(S), NEW e \in S, NEW r, Waiting(s, r) \/ Telling(e, r)
    PROVE  Waiting(Append(s, e), r)
  <1>1. PICK n \in Nat : n = Len(s)
    BY LenProperties
  <1>2. PICK t : t = Append(s, e)
    OBVIOUS
  <1>3. Len(t) = n + 1 /\ t[n + 1] = e /\ \A i \in 1..n : t[i] = s[i]
    BY <1>1, <1>2, AppendProperties
  <1>4. Waiting(t, r)
    <2>1. CASE Telling(e, r)
      BY <1>3, <2>1 DEF Waiting
    <2>2. CASE Waiting(s, r)
      <3>1. PICK i \in 1..n : Telling(s[i], r)
        BY <1>1, <2>2 DEF Waiting
      <3>2. i \in 1..(n + 1) /\ t[i] = s[i]
        BY <1>3
      <3> QED
        BY <1>3, <3>1, <3>2 DEF Waiting
    <2> QED
      BY <2>1, <2>2
  <1> QED
    BY <1>2, <1>4

LEMMA WaitingRest ==
    ASSUME NEW S, NEW s \in Seq(S), s # <<>>, NEW r, Waiting(s, r)
    PROVE  Telling(Head(s), r) \/ Waiting(Tail(s), r)
  <1>1. PICK n \in Nat : n = Len(s)
    BY LenProperties
  <1>2. PICK t : t = Tail(s)
    OBVIOUS
  <1>3. n > 0 /\ Len(t) = n - 1 /\ \A i \in 1..(n - 1) : t[i] = s[i + 1]
    BY <1>1, <1>2, HeadTailProperties, EmptySeq
  <1>4. PICK i \in 1..n : Telling(s[i], r)
    BY <1>1 DEF Waiting
  <1>5. CASE i = 1
    BY <1>4, <1>5
  <1>6. CASE i # 1
    <2>1. i - 1 \in 1..(n - 1) /\ (i - 1) + 1 = i
      BY <1>1, <1>6
    <2>2. t[i - 1] = s[i]
      BY <1>3, <2>1
    <2>3. Waiting(t, r)
      BY <1>3, <1>4, <2>1, <2>2 DEF Waiting
    <2> QED
      BY <1>2, <2>3
  <1> QED
    BY <1>5, <1>6

LEMMA PutFits ==
    ASSUME NEW rows, NEW since, NEW read, NEW queue \in Seq(Fitting(rows, since, read)), Len(queue) <= QueueSize,
           NEW e \in Fitting(rows, since, read), NEW r
    PROVE  /\ Put(queue, e) \in Seq(Fitting(rows, since, read)) /\ Len(Put(queue, e)) <= QueueSize
           /\ Waiting(queue, r) \/ Telling(e, r) => Waiting(Put(queue, e), r)
  <1>1. CASE Len(queue) < QueueSize
    <2>1. Put(queue, e) = Append(queue, e)
      BY <1>1 DEF Put
    <2>2. /\ Append(queue, e) \in Seq(Fitting(rows, since, read))
          /\ Len(Append(queue, e)) = Len(queue) + 1 /\ Len(queue) \in Nat
      BY AppendProperties, LenProperties
    <2>3. Waiting(queue, r) \/ Telling(e, r) => Waiting(Append(queue, e), r)
      BY WaitingLonger
    <2> QED
      BY <1>1, <2>1, <2>2, <2>3, RealtimeAssumption
  <1>2. CASE ~(Len(queue) < QueueSize)
    <2>1. Put(queue, e) = <<SyncRequired(e)>>
      BY <1>2 DEF Put
    <2>2. PICK w \in Fitting(rows, since, read) : w = SyncRequired(e) /\ w.type = "sync.required"
      BY SyncRequiredFits
    <2>3. <<w>> \in Seq(Fitting(rows, since, read)) /\ Len(<<w>>) = 1 /\ <<w>>[1] = w
      OBVIOUS
    <2>4. Waiting(<<w>>, r)
      BY <2>2, <2>3 DEF Waiting, Telling
    <2> QED
      BY <2>1, <2>2, <2>3, <2>4, RealtimeAssumption
  <1> QED
    BY <1>1, <1>2

LEMMA RememberFits ==
    ASSUME NEW since, HubFits(hub, db, since, fetch), NEW e \in Fitting(db, since, fetch)
    PROVE  HubFits(Remember(e), db, since, fetch)
  <1>1. /\ hub.history \in Seq(Fitting(db, since, fetch)) /\ Len(hub.history) \in Nat
        /\ Len(hub.history) <= HistorySize /\ hub.evictedThrough \in Nat /\ e.sequence \in Nat
    BY LenProperties, EventFields DEF HubFits
  <1>2. CASE Len(hub.history) = HistorySize
    <2>1. hub.history # <<>>
      BY <1>1, <1>2, EmptySeq, RealtimeAssumption
    <2>2. PICK rest \in Seq(Fitting(db, since, fetch)) : rest = Tail(hub.history) /\ Len(rest) = Len(hub.history) - 1
      BY <1>1, <2>1, HeadTailProperties
    <2>3. Head(hub.history) \in Fitting(db, since, fetch)
      BY <1>1, <2>1, HeadTailProperties
    <2>4. Head(hub.history).sequence \in Nat
      BY <2>3, EventFields
    <2>5. Append(rest, e) \in Seq(Fitting(db, since, fetch)) /\ Len(Append(rest, e)) = Len(rest) + 1
      BY AppendProperties
    <2>6. Remember(e) = [sequence |-> e.sequence, history |-> Append(rest, e),
                         evictedThrough |-> Head(hub.history).sequence]
      BY <1>2, <2>2 DEF Remember
    <2> QED
      BY <1>1, <2>2, <2>4, <2>5, <2>6 DEF HubFits
  <1>3. CASE Len(hub.history) # HistorySize
    <2>1. /\ Append(hub.history, e) \in Seq(Fitting(db, since, fetch))
          /\ Len(Append(hub.history, e)) = Len(hub.history) + 1
      BY <1>1, AppendProperties
    <2>2. Remember(e) = [sequence |-> e.sequence, history |-> Append(hub.history, e),
                         evictedThrough |-> hub.evictedThrough]
      BY <1>3 DEF Remember
    <2>3. Len(hub.history) + 1 <= HistorySize
      BY <1>1, <1>3, RealtimeAssumption
    <2> QED
      BY <1>1, <2>1, <2>2, <2>3 DEF HubFits
  <1> QED
    BY <1>2, <1>3

LEMMA PublishKeeps ==
    ASSUME NEW since, Unchanged(since), NEW committed \in unpublished, Publish(committed)
    PROVE  Unchanged(since)'
  <1>1. PICK e : e = [type |-> committed.type, thread |-> committed.thread,
                      sequence |-> hub.sequence + 1]
    OBVIOUS
  <1>2. /\ unpublished' = unpublished \ {committed} /\ hub' = Remember(e)
        /\ socket' = IF socket.open THEN [socket EXCEPT !.queue = Put(@, e)] ELSE socket
        /\ db' = db /\ cursor' = cursor /\ faults' = faults /\ reply' = reply
        /\ view' = view /\ fetch' = fetch /\ sync' = sync /\ replaced' = replaced /\ left' = left
        /\ missed' = missed
    BY <1>1 DEF Publish, window
  <1>3. e \in Fitting(db, since, fetch) /\ e.thread = committed.thread /\ e.type = committed.type
    <2>1. hub.sequence + 1 \in Nat
      BY Parts DEF HubFits
    <2>2. Tells(committed.type, committed.thread) /\ Past(committed.thread, db, since, fetch)
      BY Parts DEF AnnouncedFit
    <2> QED
      BY <1>1, <2>1, <2>2, EventFits
  <1>4. PICK queue : queue = Put(socket.queue, e)
    OBVIOUS
  <1>5. /\ queue \in Seq(Fitting(db, since, fetch)) /\ Len(queue) <= QueueSize
        /\ Waiting(socket.queue, since) \/ Telling(e, since) => Waiting(queue, since)
    <2>1. socket.queue \in Seq(Fitting(db, since, fetch)) /\ Len(socket.queue) <= QueueSize
      BY Parts DEF SocketFits
    <2> QED
      BY <1>3, <1>4, <2>1, PutFits
  <1>6. /\ SocketFits(socket', db, since, fetch) /\ socket'.open = socket.open
        /\ socket.open => socket'.replay = socket.replay /\ socket'.queue = queue
    <2>1. SocketFits(socket, db, since, fetch)
      BY Parts
    <2> QED
      BY <1>2, <1>4, <1>5, <2>1 DEF SocketFits
  <1>7. Following(since)'
    <2>1. AnnouncedFit(unpublished', db', since, fetch')
      BY <1>2, Parts DEF AnnouncedFit
    <2>2. HubFits(hub', db', since, fetch')
      BY <1>2, <1>3, Parts, RememberFits
    <2> QED
      BY <1>2, <1>6, <2>1, <2>2, Parts DEF Following
  <1>8. CountersTyped' /\ WindowTyped' /\ Lawful(db', since)
    BY <1>2, Parts DEF CountersTyped, WindowTyped
  <1>9. Sound(since)'
    BY <1>2, <1>6, Parts DEF Sound, Fetching
  <1>10. Covered(since)'
    <2> SUFFICES ASSUME socket.open,
                        \E c \in unpublished : Telling(c, since),
                        ~\E c \in unpublished' : Telling(c, since)
                 PROVE  Waiting(queue, since)
      BY <1>2, <1>5, <1>6, Parts DEF Covered, Fetching
    <2>1. Telling(committed, since)
      BY <1>2
    <2> QED
      BY <1>3, <1>5, <2>1 DEF Telling
  <1> QED
    BY <1>7, <1>8, <1>9, <1>10 DEF Unchanged

---------------------------------------------------------------------------
(* Faults *)

LEMMA ClosedFits ==
    ASSUME NEW rows, NEW since, NEW read
    PROVE  SocketFits(Closed, rows, since, read)
  BY EmptySeq, RealtimeAssumption DEF SocketFits, Closed

LEMMA EvictHistoryKeeps ==
    ASSUME NEW since, Unchanged(since), EvictHistory
    PROVE  Unchanged(since)'
  <1>1. /\ hub' = [hub EXCEPT !.history = <<>>, !.evictedThrough = None]
        /\ db' = db /\ unpublished' = unpublished /\ socket' = socket /\ cursor' = cursor
        /\ reply' = reply /\ faults' = faults
        /\ view' = view /\ fetch' = fetch /\ sync' = sync /\ replaced' = replaced /\ left' = left
        /\ missed' = missed
    BY DEF EvictHistory, window
  <1>2. HubFits(hub', db', since, fetch')
    <2>1. PICK h : h = [hub EXCEPT !.history = <<>>]
      OBVIOUS
    <2>2. HubFits(h, db, since, fetch)
      <3>1. <<>> \in Seq(Fitting(db, since, fetch)) /\ Len(<<>>) <= HistorySize
        BY EmptySeq, RealtimeAssumption
      <3>2. hub \in [sequence : Nat, history : Seq(Fitting(db, since, fetch)), evictedThrough : Nat]
        BY Parts DEF HubFits
      <3>3. /\ h \in [sequence : Nat, history : Seq(Fitting(db, since, fetch)), evictedThrough : Nat]
            /\ h.history = <<>>
        BY <2>1, <3>1, <3>2
      <3> QED
        BY <3>1, <3>3 DEF HubFits
    <2>3. hub' = [h EXCEPT !.evictedThrough = None]
      BY <1>1, <2>1
    <2>4. HubFits(hub', db, since, fetch)
      BY <2>2, <2>3 DEF HubFits, None
    <2> QED
      BY <1>1, <2>4
  <1>3. Following(since)'
    BY <1>1, <1>2, Parts DEF Following
  <1>4. CountersTyped' /\ WindowTyped' /\ Lawful(db', since)
    BY <1>1, Parts DEF CountersTyped, WindowTyped
  <1>5. Sound(since)' /\ Covered(since)'
    BY <1>1, Parts DEF Sound, Covered, Fetching
  <1> QED
    BY <1>3, <1>4, <1>5 DEF Unchanged

LEMMA DisconnectKeeps ==
    ASSUME NEW since, Unchanged(since), Disconnect
    PROVE  Unchanged(since)'
  <1>1. /\ socket' = Closed /\ faults < MaxFaults /\ faults' = faults + 1
        /\ db' = db /\ unpublished' = unpublished /\ hub' = hub /\ cursor' = cursor
        /\ reply' = reply
        /\ view' = view /\ fetch' = fetch /\ sync' = sync /\ replaced' = replaced /\ left' = left
        /\ missed' = missed
    BY DEF Disconnect, window
  <1>2. Following(since)'
    BY <1>1, Parts, ClosedFits DEF Following
  <1>3. CountersTyped' /\ WindowTyped' /\ Lawful(db', since)
    BY <1>1, Parts, RealtimeAssumption DEF CountersTyped, WindowTyped
  <1>4. ~socket'.open
    BY <1>1 DEF Closed
  <1> QED
    BY <1>2, <1>3, <1>4 DEF Unchanged, Sound, Covered

\* The promises that are counted under a key.
LEMMA WithTyped ==
    ASSUME NEW promises \in Promises, NEW key \in Keys \cup {None}
    PROVE  With(promises, key) \in Promises
  BY DEF With, Promises

LEMMA RestartKeeps ==
    ASSUME NEW since, Unchanged(since), Restart
    PROVE  Unchanged(since)'
  <1>1. /\ hub' = [sequence |-> 0, history |-> <<>>, evictedThrough |-> None]
        /\ unpublished' = {} /\ socket' = Closed
        /\ \/ fetch' = fetch /\ replaced' = replaced
           \/ fetch' = NoFetch /\ replaced' = With(replaced, fetch.key)
        /\ reply' = NoReply /\ faults < MaxFaults /\ faults' = faults + 1
        /\ db' = db /\ cursor' = cursor /\ view' = view /\ sync' = sync /\ left' = left
        /\ missed' = missed
    BY DEF Restart
  <1>2. db \in Threads /\ Onward(db, since, fetch, db', since, fetch') /\ db' \in Threads
    BY <1>1, Parts, ThreadFields DEF Onward, NoFetch, SameConversation
  <1>3. HubFits(hub', db', since, fetch')
    BY <1>1, EmptySeq, RealtimeAssumption DEF HubFits, None
  <1>4. ViewFits(view', db', fetch')
    <2>1. ViewFits(view, db, fetch)
      BY Parts
    <2> QED
      BY <1>1, <1>2, <2>1, FollowingOn
  <1>5. FetchFits(fetch', db', since)
    BY <1>1, Parts DEF FetchFits, NoFetch
  <1>6. AnnouncedFit(unpublished', db', since, fetch') /\ ReplyFits(reply', db', since, fetch')
    BY <1>1 DEF AnnouncedFit, ReplyFits
  <1>7. Following(since)'
    BY <1>1, <1>3, <1>4, <1>5, <1>6, ClosedFits DEF Following
  <1>8. CountersTyped' /\ Lawful(db', since)
    BY <1>1, Parts, RealtimeAssumption DEF CountersTyped
  <1>9. WindowTyped'
    <2>1. With(replaced, fetch.key) \in Promises
      BY Parts, WithTyped DEF WindowTyped
    <2> QED
      BY <1>1, <2>1, Parts DEF WindowTyped, NoFetch
  <1>10. ~socket'.open
    BY <1>1 DEF Closed
  <1> QED
    BY <1>7, <1>8, <1>9, <1>10 DEF Unchanged, Sound, Covered

---------------------------------------------------------------------------
(* The window fetches *)

\* A fetch is asked for, and nothing that was fetched is left.
LEMMA AskedOnward ==
    ASSUME NEW rows \in Threads, NEW since, NEW read, NEW key
    PROVE  /\ Onward(rows, since, read, rows, since, Asked(key)) /\ FetchFits(Asked(key), rows, since)
           /\ Asked(key).stage = "asked" /\ Asked(key).key = key
  BY ThreadFields DEF Onward, Asked, FetchFits, SameConversation

LEMMA ReplayFits ==
    ASSUME NEW since, HubFits(hub, db, since, fetch), NEW after
    PROVE  Replay(after) \in Seq(Fitting(db, since, fetch))
  <1>1. /\ hub.history \in Seq(Fitting(db, since, fetch)) /\ Len(hub.history) \in Nat
        /\ DOMAIN hub.history = 1..Len(hub.history)
    BY LenProperties DEF HubFits
  <1>2. CASE hub.history # <<>> /\ hub.evictedThrough # None /\ after < hub.evictedThrough
    <2>1. Last(hub.history) \in Fitting(db, since, fetch)
      BY <1>1, <1>2, EmptySeq, ElementOfSeq DEF Last
    <2> QED
      BY <1>2, <2>1, SyncRequiredFits DEF Replay
  <1>3. CASE ~(hub.history # <<>> /\ hub.evictedThrough # None /\ after < hub.evictedThrough)
    <2>1. PICK places : places = {i \in DOMAIN hub.history : hub.history[i].sequence > after}
      OBVIOUS
    <2>2. Kept(hub.history, places) \in Seq(Fitting(db, since, fetch))
      BY <1>1, <2>1, KeptEntries
    <2> QED
      BY <1>3, <2>1, <2>2 DEF Replay
  <1> QED
    BY <1>2, <1>3

LEMMA ConnectKeeps ==
    ASSUME NEW since, Unchanged(since), Connect
    PROVE  Unchanged(since)'
  <1>1. PICK gathered : gathered = [key \in Keys |-> left[key] + replaced[key]]
    OBVIOUS
  <1>2. /\ socket' = [open |-> TRUE, replay |-> Replay(cursor), queue |-> <<>>]
        /\ fetch' = Asked(None) /\ sync' = NoSync /\ missed' = {}
        /\ left' = With(gathered, fetch.key) /\ replaced' = NoPromises
        /\ db' = db /\ unpublished' = unpublished /\ hub' = hub /\ cursor' = cursor
        /\ view' = view /\ reply' = reply /\ faults' = faults
    BY <1>1 DEF Connect
  <1>3. /\ Onward(db, since, fetch, db', since, fetch') /\ db \in Threads /\ db' \in Threads
        /\ FetchFits(fetch', db', since) /\ fetch'.stage = "asked" /\ fetch'.key = None
    BY <1>2, Parts, AskedOnward
  <1>4. SocketFits(socket', db', since, fetch')
    <2>1. Replay(cursor) \in Seq(Fitting(db, since, fetch))
      BY Parts, ReplayFits
    <2>2. Replay(cursor) \in Seq(Fitting(db', since, fetch'))
      BY <1>3, <2>1, FittingOn
    <2> QED
      BY <1>2, <2>2, EmptySeq, RealtimeAssumption DEF SocketFits
  <1>5. Following(since)'
    <2>1. /\ AnnouncedFit(unpublished, db, since, fetch) /\ HubFits(hub, db, since, fetch)
          /\ ReplyFits(reply, db, since, fetch) /\ ViewFits(view, db, fetch)
      BY Parts
    <2>2. /\ AnnouncedFit(unpublished, db', since, fetch') /\ HubFits(hub, db', since, fetch')
          /\ ReplyFits(reply, db', since, fetch') /\ ViewFits(view, db', fetch')
      BY <1>3, <2>1, FollowingOn
    <2> QED
      BY <1>2, <1>3, <1>4, <2>2 DEF Following
  <1>6. CountersTyped' /\ Lawful(db', since)
    BY <1>2, Parts DEF CountersTyped
  <1>7. WindowTyped'
    <2>1. gathered \in Promises
      BY <1>1, Parts DEF WindowTyped, Promises
    <2>2. With(gathered, fetch.key) \in Promises
      BY <2>1, Parts, WithTyped DEF WindowTyped
    <2>3. NoPromises \in Promises /\ NoSync \in Syncs
      BY DEF NoPromises, Promises, NoSync, Syncs
    <2> QED
      BY <1>2, <1>3, <2>2, <2>3 DEF WindowTyped
  <1> QED
    BY <1>3, <1>5, <1>6, <1>7 DEF Unchanged, Sound, Covered, Fetching

LEMMA FetchReadsKeeps ==
    ASSUME NEW since, Unchanged(since), fetch.stage \in {"asked", "half"}, FetchReads
    PROVE  Unchanged(since)'
  <1>1. /\ db' = db /\ unpublished' = unpublished /\ hub' = hub /\ socket' = socket
        /\ cursor' = cursor /\ reply' = reply /\ faults' = faults
        /\ view' = view /\ sync' = sync /\ replaced' = replaced /\ left' = left /\ missed' = missed
    BY DEF FetchReads, outside
  <1>2. db \in Threads /\ db' \in Threads /\ SameConversation(db, db') /\ db.revision <= db'.revision
    BY <1>1, Parts, ThreadFields DEF SameConversation
  <1>3. /\ Reads(fetch') /\ Onward(db, since, fetch, db', since, fetch')
        /\ FetchFits(fetch', db', since) /\ fetch'.key = fetch.key
        /\ fetch.stage = "asked" => fetch'.thread.revision = db.revision
        /\ fetch.stage = "half" => fetch'.thread.revision = fetch.thread.revision
    <2>1. CASE fetch.stage = "asked"
      <3>1. fetch' = [stage |-> "half", key |-> fetch.key, thread |-> db]
        BY <2>1 DEF FetchReads
      <3>2. Follows(db, db) /\ Exact(db, db, since) /\ Agrees(db, fetch')
        BY <3>1, <1>2, ThreadFields DEF Follows, Exact, Agrees, SameConversation
      <3>3. Reads(fetch') /\ FetchFits(fetch', db', since)
        BY <1>1, <1>2, <3>1, <3>2 DEF Reads, FetchFits, Past, Seen
      <3> QED
        BY <1>2, <2>1, <3>1, <3>3 DEF Onward
    <2>2. CASE fetch.stage = "half"
      <3>1. PICK t : t = [db EXCEPT !.revision = fetch.thread.revision]
        OBVIOUS
      <3>2. fetch' = [stage |-> "read", key |-> fetch.key, thread |-> t]
        BY <2>2, <3>1 DEF FetchReads
      <3>3. Past(fetch.thread, db, since, fetch)
        BY <2>2, Parts DEF FetchFits
      <3>4. fetch.thread \in Threads /\ fetch.thread.revision <= db.revision
        BY <3>3 DEF Past, Seen, Follows
      <3>5. /\ t \in Threads /\ t.revision = fetch.thread.revision /\ t.execution = db.execution
            /\ t.status = db.status /\ t.text = db.text /\ t.entries = db.entries
        BY <1>2, <3>1, <3>4 DEF Threads
      <3>6. Follows(t, db) /\ Agrees(t, fetch')
        BY <1>2, <3>2, <3>4, <3>5, ThreadFields DEF Follows, Agrees
      <3>7. Exact(t, db, since)
        BY <3>5 DEF Exact, SameConversation
      <3>8. Reads(fetch') /\ FetchFits(fetch', db', since)
        BY <1>1, <3>2, <3>5, <3>6, <3>7 DEF Reads, FetchFits, Past, Seen
      <3> QED
        BY <1>2, <2>2, <3>2, <3>5, <3>8 DEF Onward
    <2> QED
      BY <2>1, <2>2
  <1>4. Following(since)'
    <2>1. /\ AnnouncedFit(unpublished, db, since, fetch) /\ HubFits(hub, db, since, fetch)
          /\ SocketFits(socket, db, since, fetch)
          /\ ReplyFits(reply, db, since, fetch) /\ ViewFits(view, db, fetch)
      BY Parts
    <2>2. /\ AnnouncedFit(unpublished, db', since, fetch') /\ HubFits(hub, db', since, fetch')
          /\ SocketFits(socket, db', since, fetch')
          /\ ReplyFits(reply, db', since, fetch') /\ ViewFits(view, db', fetch')
      BY <1>2, <1>3, <2>1, FollowingOn
    <2> QED
      BY <1>1, <1>3, <2>2 DEF Following
  <1>5. CountersTyped' /\ WindowTyped' /\ Lawful(db', since)
    BY <1>1, <1>3, Parts DEF CountersTyped, WindowTyped
  <1>6. Sound(since)'
    <2>1. view.revision <= db.revision
      BY Parts, ViewRevision
    <2> QED
      BY <1>1, <1>3, <2>1, Parts DEF Sound, Fetching, Reads
  <1>7. Covered(since)'
    BY <1>1, <1>3, Parts DEF Covered, Fetching, Reads
  <1> QED
    BY <1>4, <1>5, <1>6, <1>7 DEF Unchanged

---------------------------------------------------------------------------
(* Answers to the window *)

\* A promise settles: either a fetch is asked for, or no mark is lost.
LEMMA SettleCases ==
    ASSUME WindowTyped, NEW key \in Keys \cup {None}, NEW newest, newest.key \in Keys \cup {None},
           NEW others \in Promises, Settle(key, newest, others)
    PROVE  /\ WindowTyped' \/ left' # left
           /\ \/ fetch' = Asked(key)
              \/ fetch' = newest /\ missed' = missed /\ sync'.dirty = sync.dirty
  <1>1. sync \in Syncs /\ sync.dirty \in BOOLEAN /\ left \in Promises
        /\ missed \subseteq {"renamed", "settled"}
    BY DEF WindowTyped, Syncs
  <1>2. CASE key = None \/ sync.pending # key \/ ~sync.dirty
    <2>1. /\ fetch' = newest /\ replaced' = others /\ missed' = missed
          /\ sync' = IF key # None /\ sync.pending = key THEN NoSync ELSE sync
      BY <1>2, Zenon DEF Settle
    <2>2. NoSync \in Syncs /\ NoSync.dirty = FALSE
      BY DEF NoSync, Syncs
    <2>3. sync' \in Syncs
      BY <1>1, <2>1, <2>2
    <2>4. sync'.dirty = sync.dirty
      <3>1. CASE key # None /\ sync.pending = key
        BY <1>1, <1>2, <2>1, <2>2, <3>1, Zenon
      <3>2. CASE ~(key # None /\ sync.pending = key)
        BY <2>1, <3>2, Zenon
      <3> QED
        BY <3>1, <3>2
    <2> QED
      BY <1>1, <2>1, <2>3, <2>4 DEF WindowTyped
  <1>3. CASE ~(key = None \/ sync.pending # key \/ ~sync.dirty)
    <2>1. /\ fetch' = Asked(key) /\ replaced' = With(others, newest.key)
          /\ sync' = [sync EXCEPT !.dirty = FALSE] /\ missed' = {}
      BY <1>3, Zenon DEF Settle
    <2>2. sync' \in Syncs
      BY <1>1, <2>1 DEF Syncs
    <2>3. replaced' \in Promises
      BY <2>1, WithTyped
    <2>4. fetch'.key \in Keys \cup {None}
      BY <2>1 DEF Asked
    <2> QED
      BY <1>1, <2>1, <2>2, <2>3, <2>4 DEF WindowTyped
  <1> QED
    BY <1>2, <1>3

LEMMA FetchArrivesKeeps ==
    ASSUME NEW since, Unchanged(since), FetchArrives
    PROVE  /\ Unchanged(since)'
           /\ view # NoThread /\ view.status \in Ended /\ view'.execution = view.execution
                 => view'.status = view.status
  <1>1. /\ db' = db /\ unpublished' = unpublished /\ hub' = hub /\ socket' = socket
        /\ cursor' = cursor /\ reply' = reply /\ faults' = faults /\ left' = left
        /\ fetch.stage = "read"
        /\ view' = IF view.revision > fetch.thread.revision THEN view ELSE fetch.thread
        /\ Settle(fetch.key, NoFetch, replaced)
    BY DEF FetchArrives, outside
  <1>2. WindowTyped /\ fetch.key \in Keys \cup {None} /\ replaced \in Promises
        /\ NoFetch.key \in Keys \cup {None}
    BY Parts DEF WindowTyped, NoFetch
  <1>3. /\ WindowTyped'
        /\ \/ fetch' = Asked(fetch.key)
           \/ fetch' = NoFetch /\ missed' = missed /\ sync'.dirty = sync.dirty
    BY <1>1, <1>2, SettleCases
  <1>4. db \in Threads /\ db' \in Threads /\ SameConversation(db, db') /\ db.revision <= db'.revision
    BY <1>1, Parts, ThreadFields DEF SameConversation
  <1>5. Onward(db, since, fetch, db', since, fetch') /\ FetchFits(fetch', db', since)
    <2>1. fetch'.stage \in {"none", "asked"}
      BY <1>3 DEF Asked, NoFetch
    <2> QED
      BY <1>4, <2>1 DEF Onward, FetchFits
  <1>6. /\ Past(fetch.thread, db, since, fetch) /\ fetch.thread \in Threads
        /\ fetch.thread.revision <= db.revision /\ fetch.thread.revision \in Nat
    <2>1. Past(fetch.thread, db, since, fetch)
      BY <1>1, Parts DEF FetchFits
    <2> QED
      BY <2>1, ThreadFields DEF Past, Seen, Follows
  <1>7. view.revision \in Nat /\ view.revision <= db.revision
        /\ (view # NoThread => Seen(view, db, fetch))
    BY Parts, ViewRevision
  <1>8. Following(since)'
    <2>1. ViewFits(view', db, fetch)
      BY <1>1, <1>6, Parts DEF ViewFits, Past
    <2>2. /\ AnnouncedFit(unpublished, db, since, fetch) /\ HubFits(hub, db, since, fetch)
          /\ SocketFits(socket, db, since, fetch) /\ ReplyFits(reply, db, since, fetch)
      BY Parts
    <2>3. /\ AnnouncedFit(unpublished, db', since, fetch') /\ HubFits(hub, db', since, fetch')
          /\ SocketFits(socket, db', since, fetch')
          /\ ReplyFits(reply, db', since, fetch') /\ ViewFits(view', db', fetch')
      BY <1>4, <1>5, <2>1, <2>2, FollowingOn
    <2> QED
      BY <1>1, <1>5, <2>3 DEF Following
  <1>9. CountersTyped' /\ Lawful(db', since)
    BY <1>1, Parts DEF CountersTyped
  <1>10. Fetching' \/ (missed' = missed /\ ~Fetching)
    <2>1. CASE fetch' = Asked(fetch.key)
      BY <2>1 DEF Fetching, Asked
    <2>2. CASE fetch' = NoFetch /\ missed' = missed /\ sync'.dirty = sync.dirty
      BY <1>1, <2>2, Zenon DEF Fetching
    <2> QED
      BY <1>3, <2>1, <2>2
  <1>11. Sound(since)'
    <2>1. CASE view.revision > fetch.thread.revision
      <3>1. view' = view /\ ~(view.revision <= fetch.thread.revision)
        BY <1>1, <1>6, <1>7, <2>1
      <3> QED
        BY <1>1, <1>10, <3>1, Parts DEF Sound
    <2>2. CASE ~(view.revision > fetch.thread.revision)
      <3>1. view' = fetch.thread /\ Exact(view', db', since)
        BY <1>1, <1>6, <2>2 DEF Past
      <3> QED
        BY <3>1 DEF Sound
    <2> QED
      BY <2>1, <2>2
  <1>12. Covered(since)'
    <2>1. since <= view.revision \/ since <= fetch.thread.revision => since <= view'.revision
      BY <1>1, <1>6, <1>7, Parts
    <2> QED
      BY <1>1, <1>10, <2>1, Parts DEF Covered
  <1>13. ASSUME view # NoThread, view.status \in Ended, view'.execution = view.execution
         PROVE  view'.status = view.status
    <2>1. Agrees(view, fetch)
      BY <1>7, <1>13 DEF Seen
    <2> QED
      BY <1>1, <1>6, <1>7, <1>13, <2>1 DEF Agrees
  <1> QED
    BY <1>3, <1>8, <1>9, <1>11, <1>12, <1>13 DEF Unchanged

\* The window shows what it showed, and a mark that is cleared is fetched or missed.
LEMMA SettlingKeeps ==
    ASSUME NEW since, Unchanged(since), UNCHANGED <<outside, view>>, WindowTyped',
           \/ fetch'.stage = "asked"
           \/ fetch' = fetch /\ ((missed' = missed /\ sync'.dirty = sync.dirty) \/ missed' # {})
    PROVE  Unchanged(since)'
  <1>1. /\ db' = db /\ unpublished' = unpublished /\ hub' = hub /\ socket' = socket
        /\ cursor' = cursor /\ reply' = reply /\ faults' = faults /\ view' = view
    BY DEF outside
  <1>2. db \in Threads /\ db' \in Threads /\ SameConversation(db, db') /\ db.revision <= db'.revision
    BY <1>1, Parts, ThreadFields DEF SameConversation
  <1>3. Onward(db, since, fetch, db', since, fetch') /\ FetchFits(fetch', db', since)
    BY <1>1, <1>2, Parts DEF Onward, FetchFits
  <1>4. Following(since)'
    <2>1. /\ AnnouncedFit(unpublished, db, since, fetch) /\ HubFits(hub, db, since, fetch)
          /\ SocketFits(socket, db, since, fetch) /\ ReplyFits(reply, db, since, fetch)
          /\ ViewFits(view, db, fetch)
      BY Parts
    <2>2. /\ AnnouncedFit(unpublished, db', since, fetch') /\ HubFits(hub, db', since, fetch')
          /\ SocketFits(socket, db', since, fetch')
          /\ ReplyFits(reply, db', since, fetch') /\ ViewFits(view, db', fetch')
      BY <1>2, <1>3, <2>1, FollowingOn
    <2> QED
      BY <1>1, <1>3, <2>2 DEF Following
  <1>5. CountersTyped' /\ Lawful(db', since)
    BY <1>1, Parts DEF CountersTyped
  <1>6. Fetching' \/ missed' # {} \/ (fetch' = fetch /\ missed' = missed /\ ~Fetching)
    <2>1. CASE fetch'.stage = "asked"
      BY <2>1 DEF Fetching
    <2>2. CASE fetch' = fetch /\ missed' = missed /\ sync'.dirty = sync.dirty
      BY <2>2, Zenon DEF Fetching
    <2> QED
      BY <2>1, <2>2
  <1>7. Sound(since)' /\ Covered(since)'
    BY <1>1, <1>6, Parts DEF Sound, Covered
  <1> QED
    BY <1>4, <1>5, <1>7 DEF Unchanged

LEMMA OldFetchArrivesKeeps ==
    ASSUME NEW since, Unchanged(since), NEW key \in Keys, OldFetchArrives(key)
    PROVE  Unchanged(since)'
  <1>1. PICK others : others = [replaced EXCEPT ![key] = @ - 1]
    OBVIOUS
  <1>2. /\ replaced[key] > 0 /\ Settle(key, fetch, others)
        /\ UNCHANGED <<outside, view>> /\ left' = left
    BY <1>1 DEF OldFetchArrives, outside
  <1>3. WindowTyped /\ fetch.key \in Keys \cup {None} /\ replaced \in Promises
    BY Parts DEF WindowTyped
  <1>4. others \in Promises
    BY <1>1, <1>2, <1>3 DEF Promises
  <1>5. /\ WindowTyped'
        /\ \/ fetch' = Asked(key)
           \/ fetch' = fetch /\ missed' = missed /\ sync'.dirty = sync.dirty
    BY <1>2, <1>3, <1>4, SettleCases
  <1>6. \/ fetch'.stage = "asked"
        \/ fetch' = fetch /\ missed' = missed /\ sync'.dirty = sync.dirty
    BY <1>5 DEF Asked
  <1> QED
    BY <1>2, <1>5, <1>6, SettlingKeeps

LEMMA LeftFetchArrivesKeeps ==
    ASSUME NEW since, Unchanged(since), NEW key \in Keys, LeftFetchArrives(key)
    PROVE  Unchanged(since)'
  <1>1. /\ left[key] > 0 /\ left' = [left EXCEPT ![key] = @ - 1]
        /\ UNCHANGED <<outside, view>> /\ fetch' = fetch /\ replaced' = replaced
        /\ \/ sync' = sync /\ missed' = missed
           \/ sync' = NoSync /\ sync.dirty /\ Miss("settled")
           \/ sync' = NoSync /\ ~sync.dirty /\ missed' = missed
    BY Zenon DEF LeftFetchArrives, outside
  <1>2. /\ sync \in Syncs /\ sync.dirty \in BOOLEAN /\ left \in Promises /\ replaced \in Promises
        /\ fetch.key \in Keys \cup {None} /\ missed \subseteq {"renamed", "settled"}
    BY Parts DEF WindowTyped, Syncs
  <1>3. left' \in Promises
    BY <1>1, <1>2 DEF Promises
  <1>4. NoSync \in Syncs /\ NoSync.dirty = FALSE
    BY DEF NoSync, Syncs
  <1>5. Miss("settled") => /\ missed' \subseteq {"renamed", "settled"}
                           /\ fetch.stage = "asked" \/ missed' # {}
    BY <1>2 DEF Miss
  <1>6. WindowTyped'
    <2>1. sync' \in Syncs /\ missed' \subseteq {"renamed", "settled"}
      BY <1>1, <1>2, <1>4, <1>5, Zenon
    <2> QED
      BY <1>1, <1>2, <1>3, <2>1 DEF WindowTyped
  <1>7. \/ fetch'.stage = "asked"
        \/ fetch' = fetch /\ ((missed' = missed /\ sync'.dirty = sync.dirty) \/ missed' # {})
    BY <1>1, <1>2, <1>4, <1>5, Zenon
  <1> QED
    BY <1>1, <1>6, <1>7, SettlingKeeps

LEMMA ReplyArrivesKeeps ==
    ASSUME NEW since, Unchanged(since), ReplyArrives
    PROVE  Unchanged(since)' /\ reply' # reply
  <1>1. /\ db' = db /\ unpublished' = unpublished /\ hub' = hub /\ socket' = socket
        /\ cursor' = cursor /\ fetch' = fetch /\ sync' = sync /\ faults' = faults
        /\ replaced' = replaced /\ left' = left /\ missed' = missed
        /\ reply' = NoReply /\ reply # NoReply
        /\ \/ view' = view
           \/ /\ view' = reply.thread
              /\ reply.thread.revision > view.revision \/ reply.thread.revision = view.revision
    BY DEF ReplyArrives
  <1>2. Past(reply.thread, db, since, fetch)
    BY <1>1, Parts DEF ReplyFits
  <1>3. /\ reply.thread \in Threads /\ reply.thread.revision <= db.revision
        /\ reply.thread.revision \in Nat /\ Exact(reply.thread, db, since)
    BY <1>2, ThreadFields DEF Past, Seen, Follows
  <1>4. view.revision \in Nat /\ view.revision <= db.revision
    BY Parts, ViewRevision
  <1>5. Following(since)'
    BY <1>1, <1>2, Parts DEF Following, ViewFits, ReplyFits, Past
  <1>6. CountersTyped' /\ WindowTyped' /\ Lawful(db', since)
    BY <1>1, Parts DEF CountersTyped, WindowTyped
  <1>7. Sound(since)'
    BY <1>1, <1>3, Parts DEF Sound, Fetching
  <1>8. Covered(since)'
    <2>1. since <= view.revision => since <= view'.revision
      BY <1>1, <1>3, <1>4, Parts
    <2> QED
      BY <1>1, <2>1, Parts DEF Covered, Fetching
  <1> QED
    BY <1>1, <1>5, <1>6, <1>7, <1>8 DEF Unchanged

---------------------------------------------------------------------------
(* Events in the window *)

\* A fetch is made, or the one under way will be followed by another.
Woken == fetch'.stage = "asked" \/ (fetch' = fetch /\ sync'.dirty)

\* Nothing is fetched.
Calm == fetch' = fetch /\ sync' = sync /\ replaced' = replaced

LEMMA FetchWakes ==
    ASSUME NEW key \in Keys \cup {None}, Fetch(key), WindowTyped, sync' \in Syncs, left' = left
    PROVE  Woken /\ WindowTyped'
  <1>1. fetch' = Asked(key) /\ replaced' = With(replaced, fetch.key) /\ missed' = {}
    BY DEF Fetch
  <1>2. fetch'.stage = "asked" /\ fetch'.key = key
    BY <1>1 DEF Asked
  <1>3. replaced' \in Promises
    BY <1>1, WithTyped DEF WindowTyped
  <1> QED
    BY <1>1, <1>2, <1>3 DEF Woken, WindowTyped

LEMMA SyncOnceWakes ==
    ASSUME NEW key \in Keys, SyncOnce(key), WindowTyped, left' = left
    PROVE  Woken /\ WindowTyped'
  <1>1. sync \in Syncs
    BY DEF WindowTyped
  <1>2. CASE sync.pending = key
    <2>1. /\ sync' = [sync EXCEPT !.dirty = TRUE]
          /\ fetch' = fetch /\ replaced' = replaced /\ missed' = missed
      BY <1>2 DEF SyncOnce
    <2>2. sync' \in Syncs
      BY <1>1, <2>1 DEF Syncs
    <2>3. sync'.dirty = TRUE
      BY <1>1, <2>1 DEF Syncs
    <2>4. WindowTyped'
      BY <2>1, <2>2 DEF WindowTyped
    <2> QED
      BY <2>1, <2>3, <2>4, Zenon DEF Woken
  <1>3. CASE sync.pending # key
    <2>1. sync' = [sync EXCEPT !.pending = key] /\ Fetch(key)
      BY <1>3 DEF SyncOnce
    <2>2. sync' \in Syncs
      BY <1>1, <2>1 DEF Syncs
    <2> QED
      BY <2>1, <2>2, FetchWakes
  <1> QED
    BY <1>2, <1>3

\* The response that is shown takes what the event has.
Patches(type, thread) ==
    /\ view # NoThread /\ view.execution = thread.execution
    /\ ~(thread.revision < view.revision) /\ view.status \notin Ended
    /\ type \in {"delta", "running"} \cup Ended
    /\ view' = Patch(type, thread)

\* The conversation that is shown takes the revision of a title.
Retitles(thread) ==
    /\ view # NoThread /\ ~(thread.revision < view.revision)
    /\ view' = [view EXCEPT !.revision = thread.revision]
    /\ \/ SameConversation(view, thread) /\ missed' = missed
       \/ fetch.stage = "asked" \/ missed' # {}

LEMMA ApplyCases ==
    ASSUME WindowTyped, NEW type, NEW thread, thread \in Threads, Tells(type, thread),
           Apply(type, thread), left' = left
    PROVE  /\ WindowTyped'
           /\ \/ Woken /\ view' = view
              \/ /\ Calm /\ view' = view /\ missed' = missed
                 /\ type # "thread.updated" => thread.revision < view.revision
                 /\ type \notin {"sync.required", "entry.created"}
              \/ Patches(type, thread) /\ type \in Ended /\ Woken
              \/ Patches(type, thread) /\ type \notin Ended /\ Calm /\ missed' = missed
              \/ type = "thread.updated" /\ Retitles(thread) /\ Calm
  <1>1. CASE type \in {"sync.required", "entry.created"}
    <2>1. Fetch(None) /\ sync' = sync /\ view' = view
      BY <1>1 DEF Apply, SyncThread
    <2> QED
      BY <2>1, FetchWakes DEF WindowTyped
  <1>2. CASE type = "thread.updated"
    <2>1. ApplyTitle(thread)
      BY <1>2 DEF Apply
    <2>2. Calm
      BY <2>1 DEF ApplyTitle, Calm
    <2>3. CASE view = NoThread \/ thread.revision < view.revision
      <3>1. view' = view /\ missed' = missed
        BY <2>1, <2>3 DEF ApplyTitle
      <3> QED
        BY <1>2, <2>2, <3>1 DEF WindowTyped, Calm
    <2>4. CASE ~(view = NoThread \/ thread.revision < view.revision)
      <3>1. /\ view' = [view EXCEPT !.revision = thread.revision]
            /\ \/ SameConversation(view, thread) /\ missed' = missed
               \/ Miss("renamed")
        BY <2>1, <2>4 DEF ApplyTitle
      <3>2. Miss("renamed") => /\ missed' \subseteq {"renamed", "settled"}
                               /\ fetch.stage = "asked" \/ missed' # {}
        BY DEF Miss, WindowTyped
      <3>3. Retitles(thread)
        BY <2>4, <3>1, <3>2 DEF Retitles
      <3>4. missed' \subseteq {"renamed", "settled"}
        BY <3>1, <3>2 DEF WindowTyped
      <3> QED
        BY <1>2, <2>2, <3>3, <3>4 DEF WindowTyped, Calm
    <2> QED
      BY <2>3, <2>4
  <1>3. CASE type \notin {"sync.required", "entry.created", "thread.updated"}
    <2>1. /\ type \in {"queued", "delta", "running"} \cup Ended
          /\ ApplyResponse(type, thread)
      BY <1>3 DEF Apply, Tells, Types, Statuses
    <2>2. thread.execution \in Keys
      BY ThreadFields DEF Keys
    <2>3. SyncOnce(thread.execution) => Woken /\ WindowTyped'
      BY <2>2, SyncOnceWakes
    <2>4. Ignore => Calm /\ missed' = missed /\ WindowTyped'
      BY DEF Ignore, Calm, WindowTyped
    <2>5. CASE type = "queued" \/ view = NoThread \/ view.execution # thread.execution
      <3>1. SyncOnce(thread.execution) /\ view' = view
        BY <2>1, <2>5 DEF ApplyResponse
      <3> QED
        BY <2>3, <3>1
    <2>6. CASE /\ ~(type = "queued" \/ view = NoThread \/ view.execution # thread.execution)
               /\ thread.revision < view.revision
      <3>1. Ignore /\ view' = view
        BY <2>1, <2>6 DEF ApplyResponse
      <3> QED
        BY <1>3, <2>4, <2>6, <3>1
    <2>7. CASE /\ ~(type = "queued" \/ view = NoThread \/ view.execution # thread.execution)
               /\ ~(thread.revision < view.revision) /\ view.status \in Ended
      <3>1. SyncOnce(thread.execution) /\ view' = view
        BY <2>1, <2>7 DEF ApplyResponse
      <3> QED
        BY <2>3, <3>1
    <2>8. CASE /\ ~(type = "queued" \/ view = NoThread \/ view.execution # thread.execution)
               /\ ~(thread.revision < view.revision) /\ view.status \notin Ended
      <3>1. /\ view' = Patch(type, thread)
            /\ IF type \in Ended THEN SyncOnce(thread.execution) ELSE Ignore
        BY <2>1, <2>8 DEF ApplyResponse
      <3>2. Patches(type, thread)
        BY <2>1, <2>8, <3>1 DEF Patches
      <3> QED
        BY <2>3, <2>4, <3>1, <3>2
    <2> QED
      BY <2>5, <2>6, <2>7, <2>8
  <1> QED
    BY <1>1, <1>2, <1>3

LEMMA PatchFollows ==
    ASSUME NEW rows \in Threads, NEW since, NEW read, Seen(view, rows, read), NEW type, NEW thread,
           Tells(type, thread), Past(thread, rows, since, read), Patches(type, thread)
    PROVE  /\ Seen(view', rows, read) /\ view'.revision = thread.revision
           /\ type \notin Ended => Exact(view', rows, since)
  <1>1. view \in Threads /\ Follows(view, rows) /\ Agrees(view, read)
    BY DEF Seen
  <1>2. thread \in Threads /\ Follows(thread, rows) /\ Agrees(thread, read) /\ Exact(thread, rows, since)
    BY DEF Past, Seen
  <1>3. /\ view.execution = thread.execution /\ type \in {"delta", "running"} \cup Ended
        /\ ~(thread.revision < view.revision) /\ view.status \notin Ended
    BY DEF Patches
  <1>4. PICK status, text :
           /\ status = IF type = "delta" THEN "running" ELSE type
           /\ text = IF type \in {"delta", "completed", "cancelled"} THEN thread.text ELSE view.text
    OBVIOUS
  <1>5. status = thread.status /\ status \in Statuses /\ text \in 0..MaxText
    BY <1>1, <1>2, <1>3, <1>4, ThreadFields DEF Tells, Statuses, Ended
  <1>6. view' = [view EXCEPT !.revision = thread.revision, !.status = status, !.text = text]
    BY <1>4 DEF Patches, Patch
  <1>7. /\ view' \in Threads /\ view'.revision = thread.revision
        /\ view'.execution = view.execution /\ view'.status = thread.status
        /\ view'.text = text /\ view'.entries = view.entries
    BY <1>1, <1>2, <1>5, <1>6, ThreadFields DEF Threads
  <1>8. Follows(view', rows)
    BY <1>1, <1>2, <1>3, <1>4, <1>7 DEF Follows
  <1>9. Agrees(view', read)
    BY <1>2, <1>3, <1>7 DEF Agrees
  <1>10. ASSUME type \notin Ended, since <= view'.revision
         PROVE  SameConversation(view', rows)
    <2>1. SameConversation(thread, rows) /\ rows.status = "running" /\ "running" \notin Ended
      BY <1>2, <1>3, <1>7, <1>10 DEF Exact, Tells, Ended, SameConversation
    <2>2. view.execution = rows.execution /\ view.entries = rows.entries /\ view.text <= rows.text
      BY <1>1, <1>3, <2>1 DEF Follows, SameConversation
    <2>3. text = rows.text
      <3>1. CASE type = "delta"
        BY <1>4, <2>1, <3>1 DEF SameConversation
      <3>2. CASE type = "running"
        <4>1. text = view.text /\ rows.text = 0 /\ view.text \in 0..MaxText
          BY <1>1, <1>4, <2>1, <3>2, ThreadFields DEF Tells, SameConversation
        <4> QED
          BY <2>2, <4>1, RealtimeAssumption
      <3> QED
        BY <1>3, <1>10, <3>1, <3>2
    <2> QED
      BY <1>3, <1>7, <2>1, <2>2, <2>3 DEF SameConversation
  <1> QED
    BY <1>7, <1>8, <1>9, <1>10 DEF Seen, Exact

LEMMA TitleFollows ==
    ASSUME NEW rows \in Threads, NEW since, NEW read, Seen(view, rows, read), NEW thread,
           Past(thread, rows, since, read), Retitles(thread),
           read.stage = "read" => read.thread.revision \in Nat
    PROVE  /\ Seen(view', rows, read) /\ view'.revision = thread.revision
           /\ view'.status = view.status
           /\ SameConversation(view, thread) => Exact(view', rows, since)
  <1>1. view \in Threads /\ Follows(view, rows) /\ Agrees(view, read)
    BY DEF Seen
  <1>2. thread \in Threads /\ thread.revision <= rows.revision /\ Exact(thread, rows, since)
    BY DEF Past, Seen, Follows
  <1>3. view' = [view EXCEPT !.revision = thread.revision] /\ ~(thread.revision < view.revision)
    BY DEF Retitles
  <1>4. /\ view' \in Threads /\ view'.revision = thread.revision
        /\ view'.execution = view.execution /\ view'.status = view.status
        /\ view'.text = view.text /\ view'.entries = view.entries
    BY <1>1, <1>2, <1>3 DEF Threads
  <1>5. Follows(view', rows)
    BY <1>1, <1>2, <1>4 DEF Follows
  <1>6. Agrees(view', read)
    <2> SUFFICES ASSUME read.stage = "read", view'.status \in Ended,
                        view'.execution = read.thread.execution,
                        view'.revision <= read.thread.revision
                 PROVE  read.thread.status = view'.status
      BY DEF Agrees
    <2>1. view.revision \in Nat /\ thread.revision \in Nat /\ read.thread.revision \in Nat
      BY <1>1, <1>2, ThreadFields
    <2>2. view.revision <= read.thread.revision
      BY <1>3, <1>4, <2>1
    <2> QED
      BY <1>1, <1>4, <2>2 DEF Agrees
  <1>7. ASSUME SameConversation(view, thread), since <= view'.revision
        PROVE  SameConversation(view', rows)
    BY <1>2, <1>4, <1>7 DEF Exact, SameConversation
  <1> QED
    BY <1>4, <1>5, <1>6, <1>7 DEF Seen, Exact

LEMMA NextEvent ==
    ASSUME NEW S, NEW replay \in Seq(S), NEW queue \in Seq(S), replay \o queue # <<>>
    PROVE  /\ Head(replay \o queue) \in S
           /\ replay # <<>> => Head(replay \o queue) = Head(replay)
           /\ replay = <<>> => queue # <<>> /\ Head(replay \o queue) = Head(queue)
  <1>1. replay \o queue \in Seq(S)
    BY ConcatProperties
  <1>2. Head(replay \o queue) \in S
    BY <1>1, HeadTailProperties
  <1>3. CASE replay = <<>>
    <2>1. replay \o queue = queue
      BY <1>3, ConcatEmptySeq
    <2> QED
      BY <1>2, <1>3, <2>1
  <1>4. CASE replay # <<>>
    <2>1. Len(replay) \in Nat \ {0} /\ Len(queue) \in Nat
      BY <1>4, EmptySeq, LenProperties
    <2>2. (replay \o queue)[1] = replay[1]
      BY <2>1, ConcatProperties
    <2> QED
      BY <1>1, <1>2, <1>4, <2>2
  <1> QED
    BY <1>3, <1>4

LEMMA DeliverKeeps ==
    ASSUME NEW since, Unchanged(since), Deliver
    PROVE  Unchanged(since)' /\ (view # NoThread /\ view.status \in Ended => view'.status = view.status)
  <1>1. PICK S : S = Fitting(db, since, fetch)
    OBVIOUS
  <1>2. PICK replay \in Seq(S), queue \in Seq(S) : replay = socket.replay /\ queue = socket.queue
    BY <1>1, Parts DEF SocketFits
  <1>3. PICK e : e = Head(replay \o queue)
    OBVIOUS
  <1>4. /\ replay \o queue # <<>>
        /\ socket' = IF replay # <<>> THEN [socket EXCEPT !.replay = Tail(@)]
                     ELSE [socket EXCEPT !.queue = Tail(@)]
        /\ cursor' = IF e.sequence > cursor THEN e.sequence ELSE cursor
        /\ Apply(e.type, e.thread)
        /\ db' = db /\ unpublished' = unpublished /\ hub' = hub /\ reply' = reply /\ faults' = faults
        /\ left' = left
    BY <1>2, <1>3 DEF Deliver
  <1>5. /\ e \in S
        /\ replay # <<>> => e = Head(replay)
        /\ replay = <<>> => queue # <<>> /\ e = Head(queue)
    BY <1>3, <1>4, NextEvent
  <1>6. /\ Tells(e.type, e.thread) /\ Past(e.thread, db, since, fetch) /\ e.thread \in Threads
        /\ e.sequence \in Nat
    BY <1>1, <1>5, EventFields
  <1>7. e.thread.revision \in Nat /\ e.thread.revision <= db.revision
    BY <1>6, ThreadFields DEF Past, Seen, Follows
  <1>8. WindowTyped /\ cursor \in Nat /\ db \in Threads
    BY Parts DEF CountersTyped
  <1>9. /\ WindowTyped'
        /\ \/ Woken /\ view' = view
           \/ /\ Calm /\ view' = view /\ missed' = missed
              /\ e.type # "thread.updated" => e.thread.revision < view.revision
              /\ e.type \notin {"sync.required", "entry.created"}
           \/ Patches(e.type, e.thread) /\ e.type \in Ended /\ Woken
           \/ Patches(e.type, e.thread) /\ e.type \notin Ended /\ Calm /\ missed' = missed
           \/ e.type = "thread.updated" /\ Retitles(e.thread) /\ Calm
    BY <1>4, <1>6, <1>8, ApplyCases
  <1>10. view.revision \in Nat /\ view.revision <= db.revision
         /\ (view # NoThread => Seen(view, db, fetch))
    BY Parts, ViewRevision
  <1>11. Patches(e.type, e.thread) =>
            /\ Seen(view', db, fetch) /\ view'.revision = e.thread.revision
            /\ view.revision <= e.thread.revision
            /\ e.type \notin Ended => Exact(view', db, since)
            /\ e.type \notin {"sync.required", "entry.created"}
    <2> SUFFICES ASSUME Patches(e.type, e.thread)
                 PROVE  /\ Seen(view', db, fetch) /\ view'.revision = e.thread.revision
                        /\ view.revision <= e.thread.revision
                        /\ e.type \notin Ended => Exact(view', db, since)
                        /\ e.type \notin {"sync.required", "entry.created"}
      OBVIOUS
    <2>1. Seen(view, db, fetch)
      BY <1>10 DEF Patches
    <2>2. view.revision <= e.thread.revision /\ e.type \notin {"sync.required", "entry.created"}
      BY <1>7, <1>10 DEF Patches, Ended
    <2> QED
      BY <1>6, <1>8, <2>1, <2>2, PatchFollows
  <1>12. Retitles(e.thread) =>
            /\ Seen(view', db, fetch) /\ view'.revision = e.thread.revision
            /\ view.revision <= e.thread.revision /\ view'.status = view.status
            /\ SameConversation(view, e.thread) => Exact(view', db, since)
    <2> SUFFICES ASSUME Retitles(e.thread)
                 PROVE  /\ Seen(view', db, fetch) /\ view'.revision = e.thread.revision
                        /\ view.revision <= e.thread.revision /\ view'.status = view.status
                        /\ SameConversation(view, e.thread) => Exact(view', db, since)
      OBVIOUS
    <2>1. Seen(view, db, fetch) /\ view.revision <= e.thread.revision
      BY <1>7, <1>10 DEF Retitles
    <2>2. fetch.stage = "read" => fetch.thread.revision \in Nat
      BY Parts, ThreadFields DEF FetchFits, Past, Seen
    <2> QED
      BY <1>6, <1>8, <2>1, <2>2, TitleFollows
  <1>13. Woken \/ Calm
    BY <1>9
  <1>14. Onward(db, since, fetch, db', since, fetch') /\ FetchFits(fetch', db', since) /\ db' \in Threads
    <2>1. SameConversation(db, db') /\ db.revision <= db'.revision /\ db' \in Threads
      BY <1>4, <1>8, ThreadFields DEF SameConversation
    <2>2. fetch' = fetch \/ fetch'.stage = "asked"
      BY <1>13 DEF Woken, Calm
    <2> QED
      BY <1>4, <2>1, <2>2, Parts DEF Onward, FetchFits
  <1>15. Woken => Fetching'
    BY DEF Woken, Fetching
  <1>16. /\ SocketFits(socket', db, since, fetch) /\ socket'.open = socket.open
         /\ \/ replay # <<>> /\ socket'.replay = Tail(replay) /\ socket'.queue = queue
            \/ replay = <<>> /\ socket'.replay = replay /\ socket'.queue = Tail(queue)
    <2>1. CASE replay # <<>>
      <3>1. PICK rest \in Seq(S) : rest = Tail(replay)
        BY <2>1, HeadTailProperties
      <3>2. socket' = [socket EXCEPT !.replay = rest]
        BY <1>2, <1>4, <2>1, <3>1
      <3> QED
        BY <1>1, <1>2, <2>1, <3>1, <3>2, Parts DEF SocketFits
    <2>2. CASE replay = <<>>
      <3>1. PICK rest \in Seq(S) : rest = Tail(queue) /\ Len(rest) = Len(queue) - 1 /\ Len(queue) \in Nat
        BY <1>5, <2>2, HeadTailProperties, LenProperties
      <3>2. socket' = [socket EXCEPT !.queue = rest]
        BY <1>2, <1>4, <2>2, <3>1
      <3>3. Len(queue) <= QueueSize /\ Len(rest) <= QueueSize
        BY <1>2, <3>1, Parts, RealtimeAssumption DEF SocketFits
      <3>4. socket \in [open : BOOLEAN, replay : Seq(S), queue : Seq(S)]
        BY <1>1, Parts DEF SocketFits
      <3>5. /\ socket' \in [open : BOOLEAN, replay : Seq(S), queue : Seq(S)]
            /\ socket'.open = socket.open /\ socket'.replay = socket.replay /\ socket'.queue = rest
        BY <3>1, <3>2, <3>4
      <3> QED
        BY <1>1, <1>2, <2>2, <3>1, <3>3, <3>5 DEF SocketFits
    <2> QED
      BY <2>1, <2>2
  <1>17. Following(since)'
    <2>1. ViewFits(view', db, fetch)
      BY <1>9, <1>11, <1>12, Parts DEF ViewFits
    <2>2. /\ AnnouncedFit(unpublished, db, since, fetch) /\ HubFits(hub, db, since, fetch)
          /\ SocketFits(socket', db, since, fetch) /\ ReplyFits(reply, db, since, fetch)
      BY <1>16, Parts
    <2>3. /\ AnnouncedFit(unpublished, db', since, fetch') /\ HubFits(hub, db', since, fetch')
          /\ SocketFits(socket', db', since, fetch') /\ ReplyFits(reply, db', since, fetch')
          /\ ViewFits(view', db', fetch')
      BY <1>8, <1>14, <2>1, <2>2, FollowingOn
    <2> QED
      BY <1>4, <1>14, <2>3 DEF Following
  <1>18. CountersTyped' /\ Lawful(db', since)
    BY <1>4, <1>6, <1>8, Parts DEF CountersTyped
  <1>19. Calm => Fetching' = Fetching /\ fetch' = fetch
    BY DEF Calm, Fetching
  <1>20. Sound(since)'
    <2>1. CASE Woken
      BY <1>15, <2>1 DEF Sound
    <2>2. CASE Calm /\ view' = view /\ missed' = missed
      BY <1>4, <1>16, <1>19, <2>2, Parts DEF Sound
    <2>3. CASE Patches(e.type, e.thread) /\ e.type \notin Ended
      BY <1>4, <1>11, <2>3 DEF Sound
    <2>4. CASE Retitles(e.thread) /\ Calm
      <3>1. CASE SameConversation(view, e.thread)
        BY <1>4, <1>12, <2>4, <3>1 DEF Sound
      <3>2. CASE fetch.stage = "asked" \/ missed' # {}
        BY <2>4, <3>2 DEF Sound, Calm, Fetching
      <3> QED
        BY <2>4, <3>1, <3>2 DEF Retitles
    <2> QED
      BY <1>9, <2>1, <2>2, <2>3, <2>4
  <1>21. Covered(since)'
    <2> SUFFICES ASSUME socket.open, ~Woken
                 PROVE  \/ Fetching' \/ since <= view'.revision \/ missed' # {}
                        \/ Reads(fetch') /\ since <= fetch'.thread.revision
                        \/ \E c \in unpublished : Telling(c, since)
                        \/ Waiting(socket'.replay, since) \/ Waiting(socket'.queue, since)
      BY <1>4, <1>15, <1>16 DEF Covered
    <2>1. Calm
      BY <1>13
    <2>2. view.revision <= view'.revision /\ view'.revision \in Nat
      BY <1>7, <1>9, <1>10, <1>11, <1>12
    <2>3. missed' = missed \/ fetch.stage = "asked" \/ missed' # {}
      BY <1>9 DEF Retitles
    <2>4. CASE since <= view.revision
      BY <1>10, <2>2, <2>4, Parts
    <2>5. CASE Waiting(replay, since) \/ Waiting(queue, since)
      <3>1. Telling(e, since) \/ Waiting(socket'.replay, since) \/ Waiting(socket'.queue, since)
        <4>1. CASE replay # <<>>
          BY <1>5, <1>16, <2>5, <4>1, WaitingRest
        <4>2. CASE replay = <<>>
          <5>1. ~Waiting(replay, since)
            BY <4>2 DEF Waiting
          <5> QED
            BY <1>5, <1>16, <2>5, <4>2, <5>1, WaitingRest
        <4> QED
          BY <4>1, <4>2
      <3>2. ASSUME Telling(e, since)
            PROVE  since <= view'.revision
        <4>1. e.type # "thread.updated" /\ since <= e.thread.revision
          BY <1>9, <1>11, <3>2 DEF Telling
        <4>2. e.thread.revision <= view'.revision
          BY <1>7, <1>9, <1>10, <1>11, <4>1
        <4> QED
          BY <1>7, <2>2, <4>1, <4>2, Parts
      <3> QED
        BY <3>1, <3>2
    <2>6. CASE Fetching \/ missed # {}
      <3>1. fetch.stage = "asked" => Fetching'
        BY <2>1 DEF Calm, Fetching
      <3> QED
        BY <1>19, <2>1, <2>3, <2>6, <3>1
    <2>7. CASE Reads(fetch) /\ since <= fetch.thread.revision
      BY <1>19, <2>1, <2>7
    <2> QED
      BY <1>2, <2>4, <2>5, <2>6, <2>7, Parts DEF Covered
  <1>22. view # NoThread /\ view.status \in Ended => view'.status = view.status
    BY <1>9, <1>12 DEF Patches
  <1> QED
    BY <1>9, <1>17, <1>18, <1>20, <1>21, <1>22 DEF Unchanged

---------------------------------------------------------------------------
(* Theorems *)

LEMMA InitKeeps == Init => IInv
  <1> SUFFICES ASSUME Init PROVE IInv
    OBVIOUS
  <1>1. PICK status \in {"queued", "running", "completed"} :
           db = [revision |-> 1, execution |-> 1, status |-> status, text |-> 0, entries |-> 1]
    BY DEF Init
  <1>2. /\ unpublished = {} /\ hub = [sequence |-> 0, history |-> <<>>, evictedThrough |-> None]
        /\ socket = Closed /\ cursor = 0 /\ view = NoThread
        /\ fetch = Asked(None) /\ sync = NoSync /\ replaced = NoPromises /\ left = NoPromises
        /\ reply = NoReply /\ missed = {} /\ faults = 0
    BY DEF Init
  <1>3. Lawful(db, 1) /\ db \in Threads
    BY <1>1, RealtimeAssumption DEF Lawful, Threads, Statuses, Ended
  <1>4. HubFits(hub, db, 1, fetch)
    BY <1>2, EmptySeq, RealtimeAssumption DEF HubFits, None
  <1>5. Following(1)
    BY <1>2, <1>3, <1>4, ClosedFits, AskedOnward DEF Following, AnnouncedFit, ReplyFits, ViewFits
  <1>6. CountersTyped /\ WindowTyped
    BY <1>2, RealtimeAssumption
       DEF CountersTyped, WindowTyped, NoSync, Syncs, NoPromises, Promises, Asked
  <1>7. fetch.stage = "asked"
    BY <1>2 DEF Asked
  <1>8. Unchanged(1) /\ 1 \in 1..MaxRevision
    BY <1>3, <1>5, <1>6, <1>7, RealtimeAssumption DEF Unchanged, Sound, Covered, Fetching
  <1> QED
    BY <1>8 DEF IInv

OverStays ==
    view # NoThread /\ view.status \in Ended /\ view'.execution = view.execution
        => view'.status = view.status \/ reply' # reply

LEMMA NextKeeps == IInv /\ [Next]_vars => IInv' /\ OverStays
  <1> SUFFICES ASSUME IInv, [Next]_vars PROVE IInv' /\ OverStays
    OBVIOUS
  <1>1. PICK since \in 1..MaxRevision : Unchanged(since)
    BY DEF IInv
  <1>2. Unchanged(since)' => IInv'
    BY DEF IInv
  <1>3. CASE Change
    <2>1. Lawful(db, since)
      BY <1>1, Parts
    <2>2. PICK type, to : to \in {"post", "cancel"} /\ Committing(type, to)
      BY <1>3, <2>1, ChangeCommits, Zenon
    <2>3. view' = view
      BY <2>2 DEF Committing, window
    <2>4. IInv'
      BY <1>1, <1>3, ChangeKeeps
    <2> QED
      BY <2>3, <2>4 DEF OverStays
  <1>4. CASE \E committed \in unpublished : Publish(committed)
    <2>1. PICK committed \in unpublished : Publish(committed)
      BY <1>4
    <2> QED
      BY <1>1, <1>2, <2>1, PublishKeeps DEF Publish, OverStays, window
  <1>5. CASE EvictHistory
    BY <1>1, <1>2, <1>5, EvictHistoryKeeps DEF EvictHistory, OverStays, window
  <1>6. CASE Disconnect
    BY <1>1, <1>2, <1>6, DisconnectKeeps DEF Disconnect, OverStays, window
  <1>7. CASE Restart
    BY <1>1, <1>2, <1>7, RestartKeeps DEF Restart, OverStays
  <1>8. CASE Connect
    BY <1>1, <1>2, <1>8, ConnectKeeps DEF Connect, OverStays
  <1>9. CASE Deliver
    BY <1>1, <1>2, <1>9, DeliverKeeps DEF OverStays
  <1>10. CASE fetch.stage \in {"asked", "half"} /\ FetchReads
    BY <1>1, <1>2, <1>10, FetchReadsKeeps DEF FetchReads, OverStays
  <1>11. CASE FetchArrives
    BY <1>1, <1>2, <1>11, FetchArrivesKeeps DEF OverStays
  <1>12. CASE ReplyArrives
    BY <1>1, <1>2, <1>12, ReplyArrivesKeeps DEF OverStays
  <1>13. CASE \E key \in Keys : OldFetchArrives(key) \/ LeftFetchArrives(key)
    <2>1. PICK key \in Keys : OldFetchArrives(key) \/ LeftFetchArrives(key)
      BY <1>13
    <2>2. Unchanged(since)'
      BY <1>1, <2>1, OldFetchArrivesKeeps, LeftFetchArrivesKeeps
    <2>3. view' = view
      BY <2>1 DEF OldFetchArrives, LeftFetchArrives
    <2> QED
      BY <1>2, <2>2, <2>3 DEF OverStays
  <1>14. CASE UNCHANGED vars
    <2>1. /\ db' = db /\ unpublished' = unpublished /\ hub' = hub /\ socket' = socket
          /\ cursor' = cursor /\ reply' = reply /\ faults' = faults /\ view' = view
          /\ fetch' = fetch /\ sync' = sync /\ replaced' = replaced /\ left' = left
          /\ missed' = missed
      BY <1>14 DEF vars, outside, window
    <2>2. WindowTyped'
      BY <1>1, <2>1, Parts DEF WindowTyped
    <2>3. Unchanged(since)'
      BY <1>1, <2>1, <2>2, SettlingKeeps DEF outside
    <2> QED
      BY <1>2, <2>1, <2>3 DEF OverStays
  <1> QED
    BY <1>3, <1>4, <1>5, <1>6, <1>7, <1>8, <1>9, <1>10, <1>11, <1>12, <1>13, <1>14 DEF Next

LEMMA Invariance == Spec => []IInv
  BY InitKeeps, NextKeeps, PTL DEF Spec

\* The parts of ThreadRealtime have their types, in every state and for all sizes and bounds.
THEOREM TypeCorrect == Spec => []TypeOK
  <1>1. IInv => TypeOK
    <2> SUFFICES ASSUME IInv PROVE TypeOK
      OBVIOUS
    <2>1. PICK since \in 1..MaxRevision : Unchanged(since)
      BY DEF IInv
    <2>2. \A s : s \in Seq(Fitting(db, since, fetch)) => s \in Seq(Events)
      BY SeqMonotonic DEF Fitting
    <2>3. hub \in Hubs /\ Len(hub.history) <= HistorySize
      BY <2>1, <2>2, Parts DEF HubFits, Hubs
    <2>4. socket \in Sockets /\ Len(socket.queue) <= QueueSize
      BY <2>1, <2>2, Parts DEF SocketFits, Sockets
    <2>5. view \in Threads \cup {NoThread}
      BY <2>1, Parts DEF ViewFits, Seen
    <2>6. \A e \in unpublished : e.type \in Types /\ e.thread \in Threads
      BY <2>1, Parts DEF AnnouncedFit, Tells, Past, Seen
    <2>7. fetch.stage \in {"none", "asked", "half", "read"}
      BY <2>1, Parts DEF FetchFits, Reads
    <2>8. reply.to \in {"nothing", "post", "cancel"}
      BY <2>1, Parts DEF ReplyFits, NoReply
    <2>9. db \in Threads /\ CountersTyped /\ WindowTyped
      BY <2>1, Parts
    <2> QED
      BY <2>3, <2>4, <2>5, <2>6, <2>7, <2>8, <2>9 DEF TypeOK, CountersTyped, WindowTyped
  <1> QED
    BY <1>1, Invariance, PTL

\* When everything that was published has arrived at the window, nothing is being fetched and
\* no call of its own is unanswered, it shows the conversation that is stored: whatever was
\* dropped from full queues and histories, whatever connections and processes were lost, and
\* however fetches, promises and renames overtook one another, but for the two cases that the
\* observer has seen.
THEOREM WindowIsCurrent == Spec => []NeverSilentlyStale
  <1>1. IInv => NeverSilentlyStale
    <2> SUFFICES ASSUME IInv, ~Underway, missed = {} PROVE Shown
      BY DEF NeverSilentlyStale
    <2>1. PICK since \in 1..MaxRevision : Unchanged(since)
      BY DEF IInv
    <2>2. /\ unpublished = {} /\ socket.open /\ socket.replay \o socket.queue = <<>>
          /\ fetch = NoFetch /\ ~sync.dirty
      BY DEF Underway
    <2>3. /\ socket.replay \in Seq(Fitting(db, since, fetch))
          /\ socket.queue \in Seq(Fitting(db, since, fetch))
      BY <2>1, Parts DEF SocketFits
    <2>4. socket.replay = <<>> /\ socket.queue = <<>>
      BY <2>2, <2>3, ConcatEqualIffEmpty
    <2>5. ~Waiting(socket.replay, since) /\ ~Waiting(socket.queue, since)
      BY <2>4 DEF Waiting
    <2>6. ~Fetching /\ ~Reads(fetch)
      BY <2>2 DEF Fetching, Reads, NoFetch
    <2>7. since <= view.revision /\ view # NoThread
      <3>1. since <= view.revision
        BY <2>1, <2>2, <2>5, <2>6, Parts DEF Covered
      <3>2. NoThread.revision = 0 /\ ~(since <= 0)
        BY <2>1, Parts DEF NoThread
      <3> QED
        BY <3>1, <3>2
    <2>8. Exact(view, db, since)
      BY <2>1, <2>2, <2>6, Parts DEF Sound
    <2> QED
      BY <2>7, <2>8 DEF Exact, Shown
  <1> QED
    BY <1>1, Invariance, PTL

\* An answer that the window has shown as over is not shown as going on again, in whatever
\* order late events and the answers to its fetches arrive.
THEOREM OverIsFinal == Spec => OverStaysOver
  <1>1. IInv /\ [Next]_vars => [OverStays]_view
    BY NextKeeps
  <1>2. Spec => [][OverStays]_view
    BY <1>1, Invariance, PTL DEF Spec
  <1> QED
    BY <1>2, PTL DEF OverStaysOver, OverStays

===============================================================================
