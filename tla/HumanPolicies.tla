----------------------------- MODULE HumanPolicies -----------------------------
(***************************************************************************)
(* What a human may be asked, and how the rank that decides it follows     *)
(* from past answers: the catalogue of human answerers (domain/            *)
(* answerers.py), the conditions a human accepts requests under (domain/   *)
(* human_answer_conditions.py) and the rank policy (domain/                *)
(* human_ranks.py).  Pure operators; no state.                             *)
(***************************************************************************)
EXTENDS Integers, Sequences, FiniteSets, SequencesExt

Ranks == 1..3

\* HUMAN_ANSWERER_ORDER: the position of an answerer is the rank it requires.
AnswererOrder == <<"human-lite", "human-standard", "human-pro">>
EffortOrder == <<"low", "medium", "high", "xhigh">>

Answerers == ToSet(AnswererOrder)
Efforts == ToSet(EffortOrder)

RequiredRank(a) == CHOOSE r \in Ranks : AnswererOrder[r] = a

AnswererForRank(rank) == AnswererOrder[rank]

\* The efforts grow with the answerer.
SupportedEfforts(a) ==
    CASE a = "human-lite" -> {"low"}
      [] a = "human-standard" -> {"low", "medium", "high"}
      [] a = "human-pro" -> Efforts

DefaultEffort(a) == IF a = "human-lite" THEN "low" ELSE "medium"

---------------------------------------------------------------------------
(* Conditions *)

Conditions == [answerers : SUBSET Answerers, efforts : SUBSET Efforts]

DefaultConditions == [answerers |-> {"human-lite"}, efforts |-> {"low"}]

Available(rank) == {a \in Answerers : RequiredRank(a) <= rank}

\* A non-empty stretch of the order, without gaps.
IsRange(S, order) ==
    \E lower, upper \in DOMAIN order :
        lower <= upper /\ S = {order[i] : i \in lower..upper}

\* Every answerer must have an effort and every effort an answerer that supports it.
ValidConditions(c, rank) ==
    /\ IsRange(c.answerers, AnswererOrder)
    /\ IsRange(c.efforts, EffortOrder)
    /\ c.answerers \subseteq Available(rank)
    /\ \A a \in c.answerers : SupportedEfforts(a) \cap c.efforts # {}
    /\ c.efforts \subseteq UNION {SupportedEfforts(a) : a \in c.answerers}

\* Faulty variant: the efforts are left alone when answerers are lost.
ClampAnswerersOnly(c, rank) ==
    LET kept == c.answerers \cap Available(rank) IN
    [c EXCEPT !.answerers = IF kept = {} THEN {AnswererForRank(rank)} ELSE kept]

\* What is left of the conditions at another rank; what would be empty becomes the
\* default of the highest answerer left.
Clamp(c, rank) ==
    LET kept == c.answerers \cap Available(rank)
        answerers == IF kept = {} THEN {AnswererForRank(rank)} ELSE kept
        efforts == c.efforts \cap UNION {SupportedEfforts(a) : a \in answerers}
        highest == CHOOSE a \in answerers :
                      \A b \in answerers : RequiredRank(b) <= RequiredRank(a)
    IN [answerers |-> answerers,
        efforts |-> IF efforts = {} THEN {DefaultEffort(highest)} ELSE efforts]

---------------------------------------------------------------------------
(* The rank policy.  A policy gives the requirements of promotion from a    *)
(* rank and of staying at one, and the windows of attempts and of ratings.  *)

IsRate(r) == r \in 0..10000

\* HumanRankPolicy.__post_init__
IsPolicy(policy) ==
    /\ policy.attemptLimit >= 1 /\ policy.ratingLimit >= 1
    /\ DOMAIN policy.promotion \subseteq 1..2
    /\ DOMAIN policy.retention \subseteq 2..3
    /\ \A r \in DOMAIN policy.promotion :
          LET need == policy.promotion[r] IN
          /\ need.completed >= 1
          /\ need.attempts \in 1..policy.attemptLimit
          /\ need.rated \in 1..policy.ratingLimit
          /\ IsRate(need.positiveRate) /\ IsRate(need.completionRate)
    /\ \A r \in DOMAIN policy.retention :
          LET need == policy.retention[r] IN
          /\ need.attempts \in 1..policy.attemptLimit
          /\ need.rated \in 1..policy.ratingLimit
          /\ IsRate(need.positiveRate) /\ IsRate(need.completionRate)

\* The denominators are checked first: a rate of nothing is none.
Rate(part, whole) == (part * 10000) \div whole

MeetsPromotion(e, need) ==
    /\ e.completed >= need.completed
    /\ e.attempts >= need.attempts
    /\ e.rated >= need.rated
    /\ e.rated > 0 /\ Rate(e.positive, e.rated) >= need.positiveRate
    /\ e.attempts > 0 /\ Rate(e.completedAttempts, e.attempts) >= need.completionRate

LowQuality(e, need) ==
    /\ e.rated >= need.rated /\ e.rated > 0
    /\ Rate(e.positive, e.rated) < need.positiveRate

LowReliability(e, need) ==
    /\ e.attempts >= need.attempts /\ e.attempts > 0
    /\ Rate(e.completedAttempts, e.attempts) < need.completionRate

\* Demotion is looked at first.
Decide(policy, e) ==
    IF e.rank \in DOMAIN policy.retention /\ LowQuality(e, policy.retention[e.rank])
    THEN [rank |-> e.rank - 1, reason |-> "quality"]
    ELSE IF e.rank \in DOMAIN policy.retention /\ LowReliability(e, policy.retention[e.rank])
    THEN [rank |-> e.rank - 1, reason |-> "reliability"]
    ELSE IF e.rank \in DOMAIN policy.promotion /\ MeetsPromotion(e, policy.promotion[e.rank])
    THEN [rank |-> e.rank + 1, reason |-> "promotion"]
    ELSE [rank |-> e.rank, reason |-> "none"]
===============================================================================
