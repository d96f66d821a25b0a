------------------------------- MODULE HumanRanks -------------------------------
(***************************************************************************)
(* The rank of one human (backend/app/repositories/human_ranks.py): how the *)
(* claims he took, their outcomes and the ratings of his answers are turned *)
(* into evidence, and when the policy is asked again.  Every step is one    *)
(* transaction under the matching lock.                                     *)
(***************************************************************************)
EXTENDS HumanPolicies

CONSTANTS
    Policy,      \* HUMAN_RANK_POLICY, or one with smaller samples
    MaxClaims    \* bound: the claims he takes

ASSUME RanksAssumption ==
    /\ IsPolicy(Policy)
    /\ MaxClaims \in Nat

VARIABLES
    rank,
    before,      \* how many claims were made before rank_changed_at
    claims,      \* his claims, in the order they were made and finished
    changes      \* automatic changes of his rank, the rows of human_rank_events

vars == <<rank, before, claims, changes>>

Claims ==
    [answerer : Answerers, status : {"active", "answered", "expired", "given up"},
     rating : {"none", "positive", "negative"}]

TypeOK ==
    /\ rank \in Ranks
    /\ claims \in Seq(Claims)
    /\ before \in 0..Len(claims)
    /\ changes \in Nat

Init == rank = 1 /\ before = 0 /\ claims = <<>> /\ changes = 0

---------------------------------------------------------------------------
(* The evidence *)

\* The last of some claims, given by their places: as many as the limit allows.
Recent(places, limit) == {i \in places : Cardinality({j \in places : i < j}) < limit}

OfStatus(cs, places, status) == {i \in places : cs[i].status \in status}

\* Claims on requests for the answerer of the present rank, made since it was reached.
Present(cs, r, since) ==
    {i \in DOMAIN cs : since < i /\ cs[i].answerer = AnswererForRank(r)}

\* What the policy is told of some claims.
Counted(cs, r, mine) ==
    LET answered == OfStatus(cs, mine, {"answered"})
        attempts == Recent(OfStatus(cs, mine, {"answered", "expired"}), Policy.attemptLimit)
        ratings == Recent({i \in answered : cs[i].rating # "none"}, Policy.ratingLimit)
    IN [rank |-> r, completed |-> Cardinality(answered),
        attempts |-> Cardinality(attempts),
        completedAttempts |-> Cardinality(attempts \cap answered),
        rated |-> Cardinality(ratings),
        positive |-> Cardinality({i \in ratings : cs[i].rating = "positive"})]

\* Faulty variant: claims that were made at another rank are counted too.
EvidenceOfAllTime(cs, r, since) == Counted(cs, r, Present(cs, r, 0))

Evidence(cs, r, since) == Counted(cs, r, Present(cs, r, since))

\* recalculate: at most one level at a time, and the evidence starts anew.
Recalculate(cs) ==
    LET decided == Decide(Policy, Evidence(cs, rank, before)) IN
    /\ claims' = cs
    /\ rank' = decided.rank
    /\ IF decided.reason = "none" THEN UNCHANGED <<before, changes>>
       ELSE before' = Len(cs) /\ changes' = changes + 1

---------------------------------------------------------------------------
(* The occasions *)

Busy == claims # <<>> /\ claims[Len(claims)].status = "active"

\* The matcher gives him a request of his rank or below.
Take(answerer) ==
    /\ ~Busy /\ Len(claims) < MaxClaims
    /\ answerer \in Available(rank)
    /\ claims' = Append(claims, [answerer |-> answerer, status |-> "active", rating |-> "none"])
    /\ UNCHANGED <<rank, before, changes>>

\* Sent by him, or by the matcher at the deadline.
Answered ==
    /\ Busy
    /\ Recalculate([claims EXCEPT ![Len(claims)].status = "answered"])

\* The lease or the deadline passed and there was no draft.
Expired ==
    /\ Busy
    /\ Recalculate([claims EXCEPT ![Len(claims)].status = "expired"])

\* Skipped, declined or cancelled: neither for nor against him.
GivenUp ==
    /\ Busy
    /\ claims' = [claims EXCEPT ![Len(claims)].status = "given up"]
    /\ UNCHANGED <<rank, before, changes>>

SetEvaluation(i, rating) ==
    /\ claims[i].status = "answered"
    /\ Recalculate([claims EXCEPT ![i].rating = rating])

\* Faulty variant: the rank is not looked at when a rating is taken back.
ClearQuietly(i) ==
    /\ claims[i].status = "answered"
    /\ claims' = [claims EXCEPT ![i].rating = "none"]
    /\ UNCHANGED <<rank, before, changes>>

ClearEvaluation(i) ==
    /\ claims[i].status = "answered"
    /\ Recalculate([claims EXCEPT ![i].rating = "none"])

SetManualRank(r) ==
    /\ rank' = r
    /\ before' = IF r = rank THEN before ELSE Len(claims)
    /\ UNCHANGED <<claims, changes>>

Next ==
    \/ \E a \in Answerers : Take(a)
    \/ Answered \/ Expired \/ GivenUp
    \/ \E i \in DOMAIN claims :
          ClearEvaluation(i) \/ \E rating \in {"positive", "negative"} : SetEvaluation(i, rating)
    \/ \E r \in Ranks : SetManualRank(r)

Spec == Init /\ [][Next]_vars

---------------------------------------------------------------------------
(* Properties *)

\* No transaction leaves a rank behind that the policy would change again: whatever ends a
\* claim or touches a rating asks it, so that the rank never waits for an unrelated event
\* (the recalculations of services/human.py and services/evaluations.py).
RankSettled == Decide(Policy, Evidence(claims, rank, before)).reason = "none"

\* A change by the policy is paid for with claims of its own: the same claims never move
\* the rank twice, be it back and forth or two levels up, whatever their ratings become
\* afterwards.  (Every requirement names a sample, and each change used that many claims.)
ChangesAreEarned ==
    LET needs == {Policy.promotion[r].attempts : r \in DOMAIN Policy.promotion}
                 \cup {Policy.retention[r].attempts : r \in DOMAIN Policy.retention}
                 \cup {Policy.retention[r].rated : r \in DOMAIN Policy.retention}
        finished == {i \in DOMAIN claims : claims[i].status \in {"answered", "expired"}}
    IN \A n \in needs : (\A k \in needs : n <= k) => changes * n <= Cardinality(finished)
===============================================================================
