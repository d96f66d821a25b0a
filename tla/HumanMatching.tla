----------------------------- MODULE HumanMatching -----------------------------
(***************************************************************************)
(* Requests answered by humans (backend/app/repositories/humans.py and     *)
(* services/human.py): humans who are ready wait in line, a matcher gives   *)
(* the oldest request to the human who waited longest among those allowed, *)
(* and the human answers, saves drafts, skips or declines until a lease or  *)
(* the deadline of the answer passes.                                       *)
(*                                                                         *)
(* One step is one database transaction.  All but the saving of a draft    *)
(* hold the matching lock.  The calls of a human read the deadline as of   *)
(* the beginning of their transaction, before they wait for locks, so they *)
(* are two steps: they begin in time, and they are carried out later.       *)
(*                                                                         *)
(* Instants are kept as the time left until they come; Tick takes from all. *)
(* What the rank policy makes of a human's record is in HumanRanks; here a  *)
(* rank may move by one whenever the code looks at it.                      *)
(***************************************************************************)
EXTENDS HumanPolicies, Selection, FiniteSetsExt

CONSTANTS
    Users,         \* users who may offer to answer
    Executions,    \* executions of human requests, 1..n, in the order they are made
    Owner,         \* the user who owns the thread of each, a performer or not
    Asked,         \* the answerer and the effort each asks for
    ChosenConditions, \* the conditions users choose among
    ClaimLease, WaitLease, SkipWindow,   \* 60, 30 and 20 seconds
    TimeLimit,     \* the time to answer, by effort
    RanksSeen,     \* bound: the ranks humans have
    Revisions,     \* bound: revisions of a draft
    Blank          \* revisions whose text is empty, or only blanks

ASSUME MatchingAssumption ==
    /\ Executions \subseteq Nat \ {0} /\ Revisions \subseteq Nat \ {0}
    /\ Blank \subseteq Revisions
    /\ \A e \in Executions :
          Asked[e].answerer \in Answerers /\ Asked[e].effort \in SupportedEfforts(Asked[e].answerer)
    /\ ChosenConditions \subseteq Conditions
    /\ 1 \in RanksSeen /\ RanksSeen \subseteq Ranks
    /\ {ClaimLease, WaitLease, SkipWindow} \subseteq Nat \ {0}
    /\ TimeLimit \in [Efforts -> Nat \ {0}]
    /\ "nobody" \notin Users

VARIABLES
    profile,   \* human_profiles: rank and accepted conditions of each user
    line,      \* wait entries with status waiting, in the order of ready_at
    claim,     \* human_claims, by execution and performer
    status,    \* of each execution, and of its request
    left,      \* time until the deadline of the answer, while there is a claim
    result,    \* the entry an execution was answered with
    credit,    \* the reservation of each execution
    reward,    \* who was paid for it
    call       \* the execution a call in flight of each user is about, or none

vars == <<profile, line, claim, status, left, result, credit, reward, call>>

Pairs == Executions \X Users

NoProfile == [rank |-> 0, accepted |-> DefaultConditions]
Profiles == [rank : Ranks, accepted : Conditions] \cup {NoProfile}

WaitEntries == [user : Users, rank : Ranks, seen : 0..WaitLease]

NoClaim == [status |-> "none", skip |-> 0, lease |-> 0, draft |-> 0, revision |-> 0]
Ended == {"answered", "skipped", "declined", "expired", "cancelled"}
Claims ==
    [status : {"none", "active"} \cup Ended, skip : 0..SkipWindow, lease : 0..ClaimLease,
     draft : Revisions \cup {0}, revision : Revisions \cup {0}]

\* What an execution was answered with: nothing yet, a text its author sent, or else the
\* revision of a draft.
Unanswered == -1
Sent == 0

NoCall == 0

MaxLimit == Max({TimeLimit[f] : f \in Efforts})

TypeOK ==
    /\ profile \in [Users -> Profiles]
    /\ line \in Seq(WaitEntries)
    /\ claim \in [Pairs -> Claims]
    /\ status \in [Executions -> {"none", "queued", "running", "completed", "cancelled"}]
    /\ left \in [Executions -> 0..MaxLimit]
    /\ result \in [Executions -> {Unanswered, Sent} \cup Revisions]
    /\ credit \in [Executions -> {"none", "held", "settled", "released"}]
    /\ reward \in [Executions -> Users \cup {"nobody"}]
    /\ call \in [Users -> Executions \cup {NoCall}]

Init ==
    /\ profile = [u \in Users |-> NoProfile]
    /\ line = <<>>
    /\ claim = [p \in Pairs |-> NoClaim]
    /\ status = [e \in Executions |-> "none"]
    /\ left = [e \in Executions |-> 0]
    /\ result = [e \in Executions |-> Unanswered]
    /\ credit = [e \in Executions |-> "none"]
    /\ reward = [e \in Executions |-> "nobody"]
    /\ call = [u \in Users |-> NoCall]

Active(e, u) == claim[e, u].status = "active"

\* uq_human_claims_active_performer
HasClaim(u) == \E e \in Executions : Active(e, u)

Lessen(n) == IF n = 0 THEN 0 ELSE n - 1

Tick ==
    /\ claim' = [p \in Pairs |-> [claim[p] EXCEPT !.skip = Lessen(@), !.lease = Lessen(@)]]
    /\ left' = [e \in Executions |-> Lessen(left[e])]
    /\ line' = [i \in DOMAIN line |-> [line[i] EXCEPT !.seen = Lessen(@)]]
    /\ UNCHANGED <<profile, status, result, credit, reward, call>>

---------------------------------------------------------------------------
(* The line of waiting humans *)

Waits(ln, u) == \E i \in DOMAIN ln : ln[i].user = u

Without(ln, u) == Kept(ln, {i \in DOMAIN ln : ln[i].user # u})

\* A fresh entry is renewed and keeps its place; a lapsed one is closed, and the user
\* goes to the end.
EnsureWaiting(ln, u, rank) ==
    IF \E i \in DOMAIN ln : ln[i].user = u /\ ln[i].seen > 0
    THEN [i \in DOMAIN ln |-> IF ln[i].user = u THEN [ln[i] EXCEPT !.seen = WaitLease] ELSE ln[i]]
    ELSE Append(Without(ln, u), [user |-> u, rank |-> rank, seen |-> WaitLease])

\* What the application shows its user.
BrainState(u) ==
    IF \E e \in Executions : Active(e, u) /\ left[e] > 0 THEN "assigned"
    ELSE IF \E i \in DOMAIN line : line[i].user = u /\ line[i].seen > 0 THEN "waiting"
    ELSE "idle"

\* PUT /human/readiness, with new conditions or the old ones.  A human with a claim
\* renews its lease instead of waiting.
Ready(u) ==
    LET old == IF profile[u] = NoProfile THEN [NoProfile EXCEPT !.rank = 1] ELSE profile[u] IN
    \E accepted \in ChosenConditions \cup {old.accepted} :
        /\ accepted # old.accepted => ValidConditions(accepted, old.rank)
        /\ profile' = [profile EXCEPT ![u] = [old EXCEPT !.accepted = accepted]]
        /\ IF HasClaim(u)
           THEN /\ claim' = [p \in Pairs |->
                                IF p[2] = u /\ claim[p].status = "active"
                                THEN [claim[p] EXCEPT !.lease = ClaimLease] ELSE claim[p]]
                /\ UNCHANGED line
           ELSE /\ line' = EnsureWaiting(line, u, old.rank)
                /\ UNCHANGED claim
        /\ UNCHANGED <<status, left, result, credit, reward, call>>

Stop(u) ==
    /\ Waits(line, u)
    /\ line' = Without(line, u)
    /\ UNCHANGED <<profile, claim, status, left, result, credit, reward, call>>

---------------------------------------------------------------------------
(* Ranks: the profile, and the rank copied into the entry of who waits *)

LineRanked(ln, profiles) ==
    [i \in DOMAIN ln |-> [ln[i] EXCEPT !.rank = profiles[ln[i].user].rank]]

Reranked(u, rank) == [rank |-> rank, accepted |-> Clamp(profile[u].accepted, rank)]

\* The ranks a recalculation may arrive at, one for each of the users.
Recalculations(users) ==
    {r \in [users -> RanksSeen] : \A u \in users : r[u] - profile[u].rank \in -1..1}

\* profile and line after it, from the line the transaction has made so far.
Recalculate(ranks, ln) ==
    /\ profile' = [u \in Users |->
                      IF u \in DOMAIN ranks /\ ranks[u] # profile[u].rank
                      THEN Reranked(u, ranks[u]) ELSE profile[u]]
    /\ line' = LineRanked(ln, profile')

\* The operator sets a rank by hand, perhaps of a user without a profile.
SetRank(u, rank) ==
    /\ profile' = [profile EXCEPT ![u] =
                      IF rank = @.rank THEN @ ELSE Reranked(u, rank)]
    /\ line' = LineRanked(line, profile')
    /\ UNCHANGED <<claim, status, left, result, credit, reward, call>>

\* The requester rates an answer, or takes the rating back.
Evaluate(e) ==
    /\ status[e] = "completed"
    /\ \E u \in Users :
          /\ claim[e, u].status = "answered"
          /\ \E ranks \in Recalculations({u}) : Recalculate(ranks, line)
    /\ UNCHANGED <<claim, status, left, result, credit, reward, call>>

---------------------------------------------------------------------------
(* The requester *)

\* A request is made together with its reservation and its place in the queue.
Ask(e) ==
    /\ status[e] = "none"
    /\ \A f \in Executions : f < e => status[f] # "none"
    /\ status' = [status EXCEPT ![e] = "queued"]
    /\ credit' = [credit EXCEPT ![e] = "held"]
    /\ UNCHANGED <<profile, line, claim, left, result, reward, call>>

\* A claim ends, and its draft is cleared.  Its instants are not read again, nor is the
\* revision, except by a property, where there is an answer.
EndClaim(c, outcome) ==
    [NoClaim EXCEPT !.status = outcome,
                    !.revision = IF outcome = "answered" THEN c.revision ELSE 0]

Cancel(e) ==
    /\ status[e] \in {"queued", "running"}
    /\ status' = [status EXCEPT ![e] = "cancelled"]
    /\ credit' = [credit EXCEPT ![e] = "released"]
    /\ \/ /\ \A u \in Users : ~Active(e, u)
          /\ UNCHANGED <<claim, line>>
       \/ \E u \in Users :
             /\ Active(e, u)
             /\ claim' = [claim EXCEPT ![<<e, u>>] = EndClaim(@, "cancelled")]
             /\ line' = EnsureWaiting(line, u, profile[u].rank)
    /\ left' = [left EXCEPT ![e] = 0]
    /\ UNCHANGED <<profile, result, reward, call>>

---------------------------------------------------------------------------
(* The performer *)

\* The transaction of an answer, a skip, a decline or a draft begins before the deadline.
\* Its statement reads the deadline as of then.  Which call it is shows when it goes on.
BeginCall(u) ==
    /\ call[u] = NoCall
    /\ \E e \in Executions :
          /\ Active(e, u) /\ left[e] > 0
          /\ call' = [call EXCEPT ![u] = e]
    /\ UNCHANGED <<profile, line, claim, status, left, result, credit, reward>>

EndCall(u) == call' = [call EXCEPT ![u] = NoCall]

\* The execution goes back to the queue, where it keeps its place.
Requeue(e) ==
    /\ status' = [status EXCEPT ![e] = "queued"]
    /\ left' = [left EXCEPT ![e] = 0]

\* HumanClaimNotFoundError: the claim has ended meanwhile; or the window of a skip or a
\* decline is missed; or the client breaks off.
Refuse(u) ==
    /\ call[u] # NoCall
    /\ EndCall(u)
    /\ UNCHANGED <<profile, line, claim, status, left, result, credit, reward>>

\* Faulty variant: the claim is not looked at again once the locks are held.
InHandUnchecked(u, e) == call[u] = e

InHand(u, e) == call[u] = e /\ Active(e, u)

Release(u, e, outcome) ==
    /\ claim' = [claim EXCEPT ![<<e, u>>] = EndClaim(@, outcome)]
    /\ Requeue(e)
    /\ line' = EnsureWaiting(line, u, profile[u].rank)
    /\ EndCall(u)
    /\ UNCHANGED <<profile, result, credit, reward>>

Skip(u, e) ==
    /\ InHand(u, e) /\ claim[e, u].skip > 0
    /\ Release(u, e, "skipped")

Decline(u, e) ==
    /\ InHand(u, e) /\ claim[e, u].skip = 0
    /\ Release(u, e, "declined")

\* Faulty variant: a late revision of the draft replaces a newer one.
LatestWins(c, revision) ==
    [c EXCEPT !.draft = revision, !.revision = Max({c.revision, revision}), !.lease = ClaimLease]

SavedDraft(c, revision) ==
    IF revision <= c.revision THEN c
    ELSE [c EXCEPT !.draft = revision, !.revision = revision, !.lease = ClaimLease]

\* Without the matching lock.  Revisions may arrive in any order.
SaveDraft(u, e, revision) ==
    /\ InHand(u, e)
    /\ claim' = [claim EXCEPT ![<<e, u>>] = SavedDraft(@, revision)]
    /\ EndCall(u)
    /\ UNCHANGED <<profile, line, status, left, result, credit, reward>>

\* The answer, its settlement with the performer's reward, and the performer's rank.
Answer(u, e) ==
    /\ InHand(u, e)
    /\ claim' = [claim EXCEPT ![<<e, u>>] = EndClaim(@, "answered")]
    /\ status' = [status EXCEPT ![e] = "completed"]
    /\ result' = [result EXCEPT ![e] = Sent]
    /\ credit' = [credit EXCEPT ![e] = "settled"]
    /\ reward' = [reward EXCEPT ![e] = u]
    /\ \E ranks \in Recalculations({u}) : Recalculate(ranks, line)
    /\ left' = [left EXCEPT ![e] = 0]
    /\ EndCall(u)

---------------------------------------------------------------------------
(* The matcher: one transaction of match_available *)

\* Faulty variant: while its lease is renewed, a claim outlives its deadline.
LapsedByLease(p) == claim[p].status = "active" /\ claim[p].lease = 0

Lapsed(p) == claim[p].status = "active" /\ (claim[p].lease = 0 \/ left[p[1]] = 0)

\* Faulty variant: drafts are forgotten.
NeverAutomatic(p) == FALSE

\* At the deadline of the answer a draft that is not blank becomes the answer.
Automatic(p) == left[p[1]] = 0 /\ claim[p].draft \notin Blank \cup {0}

\* _reconcile_claims over the lapsed claims it could lock.
ReconciledClaims(lapsed) ==
    [p \in Pairs |->
        IF p \in lapsed THEN EndClaim(claim[p], IF Automatic(p) THEN "answered" ELSE "expired")
        ELSE claim[p]]

ReconciledStatus(lapsed) ==
    [e \in Executions |->
        IF \E u \in Users : <<e, u>> \in lapsed
        THEN IF \E u \in Users : <<e, u>> \in lapsed /\ Automatic(<<e, u>>)
             THEN "completed" ELSE "queued"
        ELSE status[e]]

\* Who is paid for each execution that is answered so.
AnsweredBy(lapsed) ==
    LET answered == {p \in lapsed : Automatic(p)} IN
    [e \in {p[1] : p \in answered} |-> CHOOSE u \in Users : <<e, u>> \in answered]

\* Faulty variant: earlier claims on the request are not looked at.
MayTakeAgain(e, entry, claims, statuses) ==
    /\ statuses[e] = "queued"
    /\ entry.rank >= RequiredRank(Asked[e].answerer)
    /\ entry.user # Owner[e]
    /\ Asked[e].answerer \in profile[entry.user].accepted.answerers
    /\ Asked[e].effort \in profile[entry.user].accepted.efforts
    /\ \A f \in Executions : claims[<<f, entry.user>>].status # "active"

\* Who waits may take a queued request of a rank he has, which he accepts, did not make
\* and never had before, when he has none in hand.
MayTake(e, entry, claims, statuses) ==
    /\ statuses[e] = "queued"
    /\ entry.rank >= RequiredRank(Asked[e].answerer)
    /\ entry.user # Owner[e]
    /\ Asked[e].answerer \in profile[entry.user].accepted.answerers
    /\ Asked[e].effort \in profile[entry.user].accepted.efforts
    /\ claims[<<e, entry.user>>].status = "none"
    /\ \A f \in Executions : claims[<<f, entry.user>>].status # "active"

\* Faulty variant: only the oldest request is offered.
OldestOffered(fresh, claims, statuses) ==
    {m \in Executions \X DOMAIN fresh :
        /\ MayTake(m[1], fresh[m[2]], claims, statuses)
        /\ \A e \in Executions : e < m[1] => statuses[e] # "queued"}

Offers(fresh, claims, statuses) ==
    {m \in Executions \X DOMAIN fresh : MayTake(m[1], fresh[m[2]], claims, statuses)}

\* Who waits and was seen within the lease.
Fresh == Kept(line, {i \in DOMAIN line : line[i].seen > 0})

NewClaim ==
    [NoClaim EXCEPT !.status = "active", !.skip = SkipWindow, !.lease = ClaimLease]

MatchRound(lapsed) ==
    LET claims == ReconciledClaims(lapsed)
        statuses == ReconciledStatus(lapsed)
        answerer == AnsweredBy(lapsed)
        finished == [e \in Executions |-> IF \E u \in Users : <<e, u>> \in lapsed THEN 0 ELSE left[e]]
        open == Offers(Fresh, claims, statuses)
    IN
    /\ UNCHANGED call
    /\ result' = [e \in Executions |->
                     IF e \in DOMAIN answerer THEN claim[<<e, answerer[e]>>].draft ELSE result[e]]
    /\ credit' = [e \in Executions |-> IF e \in DOMAIN answerer THEN "settled" ELSE credit[e]]
    /\ reward' = [e \in Executions |-> IF e \in DOMAIN answerer THEN answerer[e] ELSE reward[e]]
    /\ \E ranks \in Recalculations({p[2] : p \in lapsed}) :
          \/ /\ open = {}
             /\ Recalculate(ranks, Fresh)
             /\ claim' = claims /\ status' = statuses /\ left' = finished
          \/ \E m \in open, u \in Users :
                LET e == m[1] IN
                \* the oldest request, and for it who has waited longest
                /\ \A n \in open : e < n[1] \/ (e = n[1] /\ m[2] <= n[2])
                /\ u = Fresh[m[2]].user
                /\ Recalculate(ranks, Without(Fresh, u))
                /\ claim' = [claims EXCEPT ![<<e, u>>] = NewClaim]
                /\ status' = [statuses EXCEPT ![e] = "running"]
                /\ left' = [finished EXCEPT ![e] = TimeLimit[Asked[e].effort]]

\* Claims whose rows, or whose thread, another transaction has locked are left for a
\* later round.
Match ==
    \E skipped \in SUBSET {p \in Pairs : Lapsed(p)} :
        MatchRound({p \in Pairs : Lapsed(p)} \ skipped)

MatchAll == MatchRound({p \in Pairs : Lapsed(p)})

---------------------------------------------------------------------------
Next ==
    \/ Tick
    \/ Match
    \/ \E u \in Users :
          \/ Ready(u) \/ Stop(u)
          \/ \E rank \in RanksSeen : SetRank(u, rank)
          \/ BeginCall(u) \/ Refuse(u)
          \/ \E e \in Executions :
                \/ Skip(u, e) \/ Decline(u, e) \/ Answer(u, e)
                \/ \E r \in Revisions : SaveDraft(u, e, r)
    \/ \E e \in Executions : Ask(e) \/ Cancel(e) \/ Evaluate(e)

Spec == Init /\ [][Next]_vars

\* Time passes, the coordinator's loop matches again and again, and no row stays locked.
FairSpec == Spec /\ WF_vars(Tick) /\ WF_vars(MatchAll)

---------------------------------------------------------------------------
(* Properties *)

\* Status, claims, answer, reservation and reward tell the same story: a request runs
\* exactly while one human holds it, who holds no other; a completed one has one answered
\* claim, whose performer, not the requester, was paid; a cancelled one has its credits
\* back (match_once, _reconcile_claims, answer, cancel_active_claim).
RowsAgree ==
    /\ \A e \in Executions :
          LET active == {u \in Users : Active(e, u)}
              answered == {u \in Users : claim[e, u].status = "answered"} IN
          /\ status[e] = "running" <=> active # {}
          /\ \A u, v \in active : u = v
          /\ status[e] = "completed" <=> answered # {}
          /\ answered = {u \in Users : reward[e] = u} /\ Owner[e] \notin answered
          /\ result[e] # Unanswered <=> status[e] = "completed"
          /\ <<status[e], credit[e]>> \in
                {<<"none", "none">>, <<"queued", "held">>, <<"running", "held">>,
                 <<"completed", "settled">>, <<"cancelled", "released">>}
    /\ \A u \in Users : \A e, f \in Executions : Active(e, u) /\ Active(f, u) => e = f

\* What the matcher and the ranks read of a human is current: he waits once, and not with
\* a claim in hand; the rank in the entry of who waits is his rank; and the conditions are
\* valid for the rank, or every later recalculation, and with it every answer, would fail
\* (_ensure_wait_entry, _update_waiting_rank, clamp_human_answer_conditions).
ProfilesAgree ==
    /\ \A i, j \in DOMAIN line : line[i].user = line[j].user => i = j
    /\ \A u \in Users : HasClaim(u) => ~Waits(line, u)
    /\ \A i \in DOMAIN line : line[i].rank = profile[line[i].user].rank
    /\ \A u \in Users :
          profile[u] # NoProfile => ValidConditions(profile[u].accepted, profile[u].rank)

\* What is sent in a human's name is the newest text that was acknowledged, not an older
\* one that arrived late and not one that was emptied since (save_draft, _reconcile_claims).
NewestDraftIsSent ==
    \A e \in Executions :
        result[e] \in Revisions =>
            /\ result[e] \notin Blank
            /\ \E u \in Users : claim[e, u].status = "answered" /\ claim[e, u].revision = result[e]

\* A text that was acknowledged and waits for its deadline is not thrown away by the
\* system: from the deadline on, only the answer, a decision its author made in time or
\* the requester's cancellation end the claim (_reconcile_claims).
DraftOutlivesDeadline ==
    [][\A p \in Pairs :
          left[p[1]] = 0 /\ claim[p].draft \in Revisions \ Blank =>
              claim'[p].status # "expired"]_vars

\* What docs/architecture/human-brain.md says of deadlines: a claim whose deadline has
\* passed expires, and no answer is accepted any more.  The code answers with the draft,
\* and accepts an answer that came in time and waited for the locks.
NothingAfterDeadline ==
    [][\A p \in Pairs :
          Active(p[1], p[2]) /\ left[p[1]] = 0 => claim'[p].status # "answered"]_vars

\* A claim that has ended is never reopened nor ended otherwise, so that nobody is given
\* the same request twice and no late call undoes an outcome (uq_human_claims_execution_performer,
\* _locked_claim).
EndedStaysEnded ==
    [][\A p \in Pairs :
          claim[p].status \in Ended => claim'[p].status = claim[p].status]_vars

\* An assignment does not go on for ever, whatever is renewed: the deadline does not move.
AssignmentsEnd ==
    \A p \in Pairs : []<>(claim[p].status # "active")

\* A human shown as waiting and a request he may take do not stay apart: other requests
\* and other humans may come first, but not for ever.
NobodyWaitsInVain ==
    \A e \in Executions, u \in Users :
        ~<>[](/\ BrainState(u) = "waiting"
              /\ \E i \in DOMAIN line : line[i].user = u /\ MayTake(e, line[i], claim, status))
===============================================================================
