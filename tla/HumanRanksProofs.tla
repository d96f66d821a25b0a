---------------------------- MODULE HumanRanksProofs ----------------------------
(***************************************************************************)
(* The rank of a human follows the policy, for every policy the code       *)
(* accepts and any number of claims.                                       *)
(*                                                                         *)
(* RankInv is inductive.  What it adds to the two properties is where the  *)
(* claims are that paid for the changes: before the point at which the     *)
(* evidence starts anew, so that the next change has to find its own.      *)
(***************************************************************************)
EXTENDS HumanRanks, FiniteSetTheorems, TLAPS

Finished(cs, upTo) == {i \in DOMAIN cs : i <= upTo /\ cs[i].status \in {"answered", "expired"}}

Needs ==
    {Policy.promotion[r].attempts : r \in DOMAIN Policy.promotion}
    \cup {Policy.retention[r].attempts : r \in DOMAIN Policy.retention}
    \cup {Policy.retention[r].rated : r \in DOMAIN Policy.retention}

\* n claims and no requirement asks for fewer.
IsLeast(n) == n \in Needs /\ \A k \in Needs : n <= k

Earned(n, cs, since, count) == count * n <= Cardinality(Finished(cs, since))

\* The inductive invariant.
RankInv ==
    /\ TypeOK
    /\ RankSettled
    /\ \A n \in Needs : IsLeast(n) => Earned(n, claims, before, changes)

---------------------------------------------------------------------------
(* The evidence *)

LEMMA PlacesOf ==
    ASSUME NEW cs \in Seq(Claims)
    PROVE  DOMAIN cs = 1..Len(cs) /\ Len(cs) \in Nat
  OBVIOUS

LEMMA PlacesAreFinite ==
    ASSUME NEW cs \in Seq(Claims), NEW S \in SUBSET (DOMAIN cs)
    PROVE  IsFiniteSet(S) /\ Cardinality(S) \in Nat
  <1>1. DOMAIN cs = 1..Len(cs) /\ Len(cs) \in Nat
    OBVIOUS
  <1>2. IsFiniteSet(1..Len(cs))
    BY <1>1, FS_Interval
  <1> QED
    BY <1>1, <1>2, FS_Subset, FS_CardinalityType

\* The requirements are samples of one claim or more.
LEMMA NeedsArePositive == \A n \in Needs : n \in Nat \ {0}
  BY RanksAssumption DEF IsPolicy, Needs

\* Without claims there is nothing to decide by.
LEMMA NothingIsDecided ==
    ASSUME NEW cs, NEW r
    PROVE  Decide(Policy, Counted(cs, r, {})).reason = "none"
  <1> DEFINE e == Counted(cs, r, {})
  <1>1. e.attempts = 0 /\ e.rated = 0
    <2>1. /\ Recent(OfStatus(cs, {}, {"answered", "expired"}), Policy.attemptLimit) = {}
          /\ Recent({i \in OfStatus(cs, {}, {"answered"}) : cs[i].rating # "none"}, Policy.ratingLimit) = {}
      BY Zenon DEF Recent, OfStatus
    <2> QED
      BY <2>1, FS_EmptySet DEF Counted
  <1> HIDE DEF e
  <1>2. \A need : ~LowQuality(e, need) /\ ~LowReliability(e, need) /\ ~MeetsPromotion(e, need)
    BY <1>1 DEF LowQuality, LowReliability, MeetsPromotion
  <1>3. Decide(Policy, e).reason = "none"
    BY <1>2 DEF Decide
  <1> QED
    BY <1>3 DEF e

\* The policy keeps ranks in range, and moves one only for claims of its own: at least
\* as many, made since the last change, as its least requirement.
LEMMA DecisionIsEarned ==
    ASSUME NEW cs \in Seq(Claims), NEW r \in Ranks, NEW since \in 0..Len(cs)
    PROVE  LET decided == Decide(Policy, Evidence(cs, r, since)) IN
           /\ decided.rank \in Ranks
           /\ decided.reason = "none" => decided.rank = r
           /\ decided.reason # "none" =>
                 \A n \in Needs : IsLeast(n) =>
                    n <= Cardinality({i \in DOMAIN cs : since < i /\ cs[i].status \in {"answered", "expired"}})
  <1> DEFINE mine == Present(cs, r, since)
             new == {i \in DOMAIN cs : since < i /\ cs[i].status \in {"answered", "expired"}}
             attempts == Recent(OfStatus(cs, mine, {"answered", "expired"}), Policy.attemptLimit)
             ratings == Recent({i \in OfStatus(cs, mine, {"answered"}) : cs[i].rating # "none"},
                               Policy.ratingLimit)
             e == Evidence(cs, r, since)
  <1>1. e.attempts = Cardinality(attempts) /\ e.rated = Cardinality(ratings) /\ e.rank = r
    BY Zenon DEF Evidence, Counted
  <1>2. attempts \subseteq new /\ ratings \subseteq new
    BY DEF Recent, OfStatus, Present
  <1>3. IsFiniteSet(new) /\ new \in SUBSET (DOMAIN cs) /\ Cardinality(new) \in Nat
    BY PlacesAreFinite
  <1>4. /\ Cardinality(attempts) <= Cardinality(new) /\ Cardinality(attempts) \in Nat
        /\ Cardinality(ratings) <= Cardinality(new) /\ Cardinality(ratings) \in Nat
    <2> HIDE DEF attempts, ratings, new
    <2> QED
      BY <1>2, <1>3, FS_Subset, FS_CardinalityType
  <1> PICK f : f = Policy
    OBVIOUS
  <1>5. DOMAIN f.promotion \subseteq 1..2 /\ DOMAIN f.retention \subseteq 2..3
    BY RanksAssumption DEF IsPolicy
  <1> HIDE DEF attempts, ratings, new, e, mine
  <1>7. CASE r \in DOMAIN f.retention /\ LowQuality(e, f.retention[r])
    <2>1. Decide(f, e) = [rank |-> r - 1, reason |-> "quality"]
      BY <1>1, <1>7 DEF Decide
    <2>2. r - 1 \in Ranks
      BY <1>5, <1>7 DEF Ranks
    <2>3. f.retention[r].rated \in Needs /\ f.retention[r].rated <= e.rated
      BY <1>7 DEF Needs, LowQuality
    <2>4. ASSUME NEW n \in Needs, IsLeast(n) PROVE n <= Cardinality(new)
      <3>1. PICK k : k = f.retention[r].rated
        OBVIOUS
      <3>2. n <= k /\ n \in Nat /\ k \in Nat
        BY <2>3, <2>4, <3>1, NeedsArePositive DEF IsLeast
      <3> QED
        BY <2>3, <3>1, <3>2, <1>1, <1>4, <1>3
    <2> QED
      BY <2>1, <2>2, <2>4 DEF e, new
  <1>8. CASE r \in DOMAIN f.retention /\ ~LowQuality(e, f.retention[r]) /\ LowReliability(e, f.retention[r])
    <2>1. Decide(f, e) = [rank |-> r - 1, reason |-> "reliability"]
      BY <1>1, <1>8 DEF Decide
    <2>2. r - 1 \in Ranks
      BY <1>5, <1>8 DEF Ranks
    <2>3. f.retention[r].attempts \in Needs /\ f.retention[r].attempts <= e.attempts
      BY <1>8 DEF Needs, LowReliability
    <2>4. ASSUME NEW n \in Needs, IsLeast(n) PROVE n <= Cardinality(new)
      <3>1. PICK k : k = f.retention[r].attempts
        OBVIOUS
      <3>2. n <= k /\ n \in Nat /\ k \in Nat
        BY <2>3, <2>4, <3>1, NeedsArePositive DEF IsLeast
      <3> QED
        BY <2>3, <3>1, <3>2, <1>1, <1>4, <1>3
    <2> QED
      BY <2>1, <2>2, <2>4 DEF e, new
  <1>9. CASE /\ ~(r \in DOMAIN f.retention /\ LowQuality(e, f.retention[r]))
             /\ ~(r \in DOMAIN f.retention /\ LowReliability(e, f.retention[r]))
             /\ r \in DOMAIN f.promotion /\ MeetsPromotion(e, f.promotion[r])
    <2>1. Decide(f, e) = [rank |-> r + 1, reason |-> "promotion"]
      BY <1>1, <1>9 DEF Decide
    <2>2. r + 1 \in Ranks
      BY <1>5, <1>9 DEF Ranks
    <2>3. f.promotion[r].attempts \in Needs /\ f.promotion[r].attempts <= e.attempts
      BY <1>9 DEF Needs, MeetsPromotion
    <2>4. ASSUME NEW n \in Needs, IsLeast(n) PROVE n <= Cardinality(new)
      <3>1. PICK k : k = f.promotion[r].attempts
        OBVIOUS
      <3>2. n <= k /\ n \in Nat /\ k \in Nat
        BY <2>3, <2>4, <3>1, NeedsArePositive DEF IsLeast
      <3> QED
        BY <2>3, <3>1, <3>2, <1>1, <1>4, <1>3
    <2> QED
      BY <2>1, <2>2, <2>4 DEF e, new
  <1>10. CASE /\ ~(r \in DOMAIN f.retention /\ LowQuality(e, f.retention[r]))
              /\ ~(r \in DOMAIN f.retention /\ LowReliability(e, f.retention[r]))
              /\ ~(r \in DOMAIN f.promotion /\ MeetsPromotion(e, f.promotion[r]))
    <2>1. Decide(f, e) = [rank |-> r, reason |-> "none"]
      BY <1>1, <1>10 DEF Decide
    <2> QED
      BY <2>1 DEF e
  <1> QED
    BY <1>7, <1>8, <1>9, <1>10

SameAt(cs, ds, places) == \A i \in places : cs[i] = ds[i]

\* Evidence looks at finished claims only.
LEMMA SameEvidence ==
    ASSUME NEW cs, NEW ds, NEW r, NEW since, NEW P, NEW D,
           P = Present(cs, r, since), D = Present(ds, r, since),
           OfStatus(cs, P, {"answered", "expired"}) = OfStatus(ds, D, {"answered", "expired"}),
           SameAt(cs, ds, OfStatus(cs, P, {"answered", "expired"}))
    PROVE  Evidence(cs, r, since) = Evidence(ds, r, since)
  <1>1. OfStatus(cs, P, {"answered"}) = OfStatus(ds, D, {"answered"})
    BY DEF OfStatus, SameAt
  <1>2. OfStatus(cs, P, {"answered"}) \subseteq OfStatus(cs, P, {"answered", "expired"})
    BY DEF OfStatus
  <1>3. {i \in OfStatus(cs, P, {"answered"}) : cs[i].rating # "none"}
        = {i \in OfStatus(ds, D, {"answered"}) : ds[i].rating # "none"}
    BY <1>1, <1>2 DEF SameAt
  <1> PICK R : R = Recent({i \in OfStatus(cs, P, {"answered"}) : cs[i].rating # "none"}, Policy.ratingLimit)
    OBVIOUS
  <1>4. R \subseteq OfStatus(cs, P, {"answered"})
    BY DEF Recent
  <1>5. {i \in R : cs[i].rating = "positive"} = {i \in R : ds[i].rating = "positive"}
    BY <1>2, <1>4 DEF SameAt
  <1>6. R = Recent({i \in OfStatus(ds, D, {"answered"}) : ds[i].rating # "none"}, Policy.ratingLimit)
    BY <1>3, Zenon
  <1> QED
    BY <1>1, <1>5, <1>6, Zenon DEF Evidence, Counted
---------------------------------------------------------------------------
(* The steps *)

\* Asking the policy about claims that finished ones never leave: the rank settles, and a
\* change is paid for with claims made since the last one.
LEMMA RecalculateKeeps ==
    ASSUME RankInv, NEW cs \in Seq(Claims), Recalculate(cs), Len(cs) = Len(claims),
           Finished(claims, before) \subseteq Finished(cs, before)
    PROVE  RankInv'
  <1> DEFINE decided == Decide(Policy, Evidence(cs, rank, before))
             new == {i \in DOMAIN cs : before < i /\ cs[i].status \in {"answered", "expired"}}
  <1>1. /\ rank \in Ranks /\ before \in 0..Len(cs) /\ changes \in Nat /\ before \in Nat
        /\ claims \in Seq(Claims) /\ Len(cs) \in Nat
    BY DEF RankInv, TypeOK
  <1>2. /\ decided.rank \in Ranks
        /\ decided.reason = "none" => decided.rank = rank
        /\ decided.reason # "none" =>
              \A n \in Needs : IsLeast(n) => n <= Cardinality(new)
    BY <1>1, DecisionIsEarned, Zenon
  <1>3. claims' = cs /\ rank' = decided.rank
    BY Zenon DEF Recalculate
  <1>4. /\ decided.reason = "none" => before' = before /\ changes' = changes
        /\ decided.reason # "none" => before' = Len(cs) /\ changes' = changes + 1
    BY Zenon DEF Recalculate
  <1>5. /\ IsFiniteSet(Finished(cs, before)) /\ Cardinality(Finished(cs, before)) \in Nat
        /\ IsFiniteSet(new) /\ Cardinality(new) \in Nat
        /\ Cardinality(Finished(claims, before)) \in Nat
    <2>1. /\ Finished(cs, before) \in SUBSET (DOMAIN cs) /\ new \in SUBSET (DOMAIN cs)
          /\ Finished(claims, before) \in SUBSET (DOMAIN claims)
      BY DEF Finished
    <2> HIDE DEF new
    <2> QED
      BY <2>1, <1>1, PlacesAreFinite
  <1>6. Cardinality(Finished(claims, before)) <= Cardinality(Finished(cs, before))
    BY <1>5, FS_Subset
  <1>7. \A n \in Needs : IsLeast(n) => n \in Nat /\ changes * n <= Cardinality(Finished(claims, before))
    BY NeedsArePositive DEF RankInv, Earned
  <1>8. CASE decided.reason = "none"
    <2>1. TypeOK'
      BY <1>1, <1>2, <1>3, <1>4, <1>8 DEF TypeOK
    <2>2. RankSettled'
      BY <1>2, <1>3, <1>4, <1>8 DEF RankSettled
    <2>3. ASSUME NEW n \in Needs, IsLeast(n) PROVE Earned(n, claims', before', changes')
      <3>1. changes * n <= Cardinality(Finished(cs, before))
        <4> PICK product : product = changes * n
          OBVIOUS
        <4>1. product \in Nat /\ product <= Cardinality(Finished(claims, before))
          BY <1>1, <1>7, <2>3
        <4> QED
          BY <4>1, <1>5, <1>6
      <3> QED
        BY <3>1, <1>3, <1>4, <1>8 DEF Earned
    <2> QED
      BY <2>1, <2>2, <2>3 DEF RankInv, Needs, IsLeast
  <1>9. CASE decided.reason # "none"
    <2>1. TypeOK'
      BY <1>1, <1>2, <1>3, <1>4, <1>9 DEF TypeOK
    <2>2. RankSettled'
      <3>1. Present(cs, decided.rank, Len(cs)) = {}
        BY <1>1 DEF Present
      <3>2. Decide(Policy, Evidence(cs, decided.rank, Len(cs))).reason = "none"
        BY <3>1, NothingIsDecided, Zenon DEF Evidence
      <3> QED
        BY <3>2, <1>3, <1>4, <1>9 DEF RankSettled
    <2>3. ASSUME NEW n \in Needs, IsLeast(n) PROVE Earned(n, claims', before', changes')
      <3>1. Finished(cs, Len(cs)) = Finished(cs, before) \cup new /\ Finished(cs, before) \cap new = {}
        BY <1>1 DEF Finished
      <3>2. Cardinality(Finished(cs, Len(cs))) = Cardinality(Finished(cs, before)) + Cardinality(new)
        <4> HIDE DEF new
        <4>1. Cardinality(Finished(cs, before) \cap new) = 0
          BY <3>1, FS_EmptySet
        <4> PICK A : A = Finished(cs, before)
          OBVIOUS
        <4> PICK B : B = new
          OBVIOUS
        <4>2. Cardinality(A \cup B) = Cardinality(A) + Cardinality(B) - Cardinality(A \cap B)
          BY <1>5, FS_Union
        <4>3. Cardinality(A \cup B) = Cardinality(Finished(cs, Len(cs)))
          BY <3>1
        <4> QED
          BY <4>1, <4>2, <4>3, <1>5
      <3>3. n <= Cardinality(new) /\ n \in Nat /\ changes * n <= Cardinality(Finished(claims, before))
        BY <1>2, <1>7, <1>9, <2>3
      <3>4. (changes + 1) * n = changes * n + n
        BY <1>1, <3>3
      <3>5. (changes + 1) * n <= Cardinality(Finished(cs, Len(cs)))
        <4> PICK product : product = changes * n
          OBVIOUS
        <4>1. product \in Nat /\ product <= Cardinality(Finished(claims, before))
          BY <1>1, <3>3
        <4>2. product + n <= Cardinality(Finished(cs, Len(cs)))
          BY <4>1, <3>2, <3>3, <1>5, <1>6
        <4> QED
          BY <4>2, <3>4
      <3> QED
        BY <3>5, <1>3, <1>4, <1>9 DEF Earned
    <2> QED
      BY <2>1, <2>2, <2>3 DEF RankInv, Needs, IsLeast
  <1> QED
    BY <1>8, <1>9

\* A change of one claim that keeps a finished claim finished.
LEMMA ClaimChanges ==
    ASSUME RankInv, NEW i \in DOMAIN claims, NEW c \in Claims,
           claims[i].status \in {"answered", "expired"} => c.status \in {"answered", "expired"}
    PROVE  LET cs == [claims EXCEPT ![i] = c] IN
           /\ cs \in Seq(Claims) /\ Len(cs) = Len(claims)
           /\ \A n : Finished(claims, n) \subseteq Finished(cs, n)
  <1>1. claims \in Seq(Claims)
    BY DEF RankInv, TypeOK
  <1>2. PICK cs : cs = [claims EXCEPT ![i] = c]
    OBVIOUS
  <1>3. cs \in Seq(Claims) /\ Len(cs) = Len(claims) /\ DOMAIN cs = DOMAIN claims
    BY <1>1, <1>2
  <1>4. cs[i] = c /\ \A j \in DOMAIN claims : j # i => cs[j] = claims[j]
    BY <1>1, <1>2
  <1>5. \A n : Finished(claims, n) \subseteq Finished(cs, n)
    BY <1>3, <1>4 DEF Finished
  <1> QED
    BY <1>2, <1>3, <1>5

LEMMA FinishKeeps ==
    ASSUME RankInv, NEW i \in DOMAIN claims, NEW c \in Claims,
           c.status \in {"answered", "expired"}, Recalculate([claims EXCEPT ![i] = c])
    PROVE  RankInv'
  <1>1. PICK cs : cs = [claims EXCEPT ![i] = c]
    OBVIOUS
  <1>2. cs \in Seq(Claims) /\ Len(cs) = Len(claims) /\ Finished(claims, before) \subseteq Finished(cs, before)
    BY <1>1, ClaimChanges
  <1>3. Recalculate(cs)
    BY <1>1
  <1> QED
    BY <1>2, <1>3, RecalculateKeeps

LEMMA LastIsBusy ==
    ASSUME claims \in Seq(Claims), Busy
    PROVE  Len(claims) \in DOMAIN claims /\ claims[Len(claims)].status = "active"
  <1>1. claims # <<>> /\ claims[Len(claims)].status = "active"
    BY DEF Busy
  <1>2. Len(claims) \in 1..Len(claims)
    BY <1>1
  <1> QED
    BY <1>1, <1>2

\* All claims but the one at last are the same, and that one is not finished.
AllButOne(cs, last) ==
    /\ DOMAIN claims \subseteq DOMAIN cs /\ DOMAIN cs \subseteq DOMAIN claims \cup {last}
    /\ last \in DOMAIN claims => claims[last].status = "active"
    /\ cs[last].status \in {"active", "given up"}
    /\ \A i \in DOMAIN claims : i # last => cs[i] = claims[i]

\* A claim that is not finished, before or after, is no evidence.
LEMMA UnfinishedIsNoEvidence ==
    ASSUME NEW cs, NEW last \in DOMAIN cs, AllButOne(cs, last), NEW r, NEW since
    PROVE  Evidence(claims, r, since) = Evidence(cs, r, since)
  <1> PICK P : P = Present(claims, r, since)
    OBVIOUS
  <1> PICK D : D = Present(cs, r, since)
    OBVIOUS
  <1>1. OfStatus(claims, P, {"answered", "expired"}) = OfStatus(cs, D, {"answered", "expired"})
    BY DEF Present, OfStatus, AllButOne
  <1>2. SameAt(claims, cs, OfStatus(claims, P, {"answered", "expired"}))
    BY DEF Present, OfStatus, SameAt, AllButOne
  <1> QED
    BY <1>1, <1>2, SameEvidence

LEMMA UnfinishedKeeps ==
    ASSUME RankInv, NEW cs \in Seq(Claims), NEW last \in DOMAIN cs, Len(claims) <= Len(cs),
           AllButOne(cs, last), claims' = cs, UNCHANGED <<rank, before, changes>>
    PROVE  RankInv'
  <1>1. rank \in Ranks /\ before \in 0..Len(claims) /\ changes \in Nat /\ claims \in Seq(Claims)
    BY DEF RankInv, TypeOK
  <1>2. TypeOK'
    <2>1. Len(claims) \in Nat /\ Len(cs) \in Nat
      BY <1>1, PlacesOf
    <2>2. \A x, y, z \in Nat : x \in 0..y /\ y <= z => x \in 0..z
      OBVIOUS
    <2>3. before \in 0..Len(cs)
      BY <1>1, <2>1, <2>2
    <2> QED
      BY <1>1, <2>3 DEF TypeOK
  <1>3. \A n : Finished(cs, n) = Finished(claims, n)
    BY DEF Finished, AllButOne
  <1>4. Evidence(claims, rank, before) = Evidence(cs, rank, before)
    BY UnfinishedIsNoEvidence
  <1>5. RankSettled'
    BY <1>4 DEF RankInv, RankSettled
  <1>6. \A n \in Needs : IsLeast(n) => Earned(n, claims', before', changes')
    BY <1>3 DEF RankInv, Earned
  <1> QED
    BY <1>2, <1>5, <1>6 DEF RankInv, Needs, IsLeast

LEMMA TakeKeeps ==
    ASSUME RankInv, NEW a \in Answerers, Take(a)
    PROVE  RankInv'
  <1> DEFINE c == [answerer |-> a, status |-> "active", rating |-> "none"]
             cs == Append(claims, c)
  <1>1. claims \in Seq(Claims) /\ c \in Claims
    BY DEF RankInv, TypeOK, Claims
  <1>2. /\ cs \in Seq(Claims) /\ Len(claims) + 1 \in DOMAIN cs
        /\ DOMAIN cs = DOMAIN claims \cup {Len(claims) + 1} /\ Len(claims) + 1 \notin DOMAIN claims
        /\ cs[Len(claims) + 1] = c /\ \A i \in DOMAIN claims : cs[i] = claims[i]
    BY <1>1
  <1>3. claims' = cs /\ UNCHANGED <<rank, before, changes>>
    BY DEF Take
  <1>4. c.status = "active" /\ Len(claims) <= Len(cs)
    BY <1>1
  <1> HIDE DEF c, cs
  <1> QED
    BY <1>2, <1>3, <1>4, UnfinishedKeeps DEF AllButOne

LEMMA GivenUpKeeps ==
    ASSUME RankInv, GivenUp
    PROVE  RankInv'
  <1>1. PICK last : last = Len(claims)
    OBVIOUS
  <1>2. claims \in Seq(Claims) /\ last \in DOMAIN claims /\ claims[last].status = "active"
    <2>1. claims \in Seq(Claims) /\ Busy
      BY DEF RankInv, TypeOK, GivenUp
    <2> QED
      BY <1>1, <2>1, LastIsBusy
  <1>3. PICK c : c = [claims[last] EXCEPT !.status = "given up"]
    OBVIOUS
  <1>4. c \in Claims /\ c.status = "given up"
    <2>1. claims[last] \in Claims
      BY <1>2
    <2> QED
      BY <1>3, <2>1 DEF Claims
  <1>5. PICK cs : cs = [claims EXCEPT ![last] = c]
    OBVIOUS
  <1>6. cs \in Seq(Claims) /\ Len(cs) = Len(claims) /\ DOMAIN cs = DOMAIN claims
    <2>1. cs \in Seq(Claims) /\ Len(cs) = Len(claims)
      BY <1>2, <1>4, <1>5, ClaimChanges
    <2> QED
      BY <1>2, <2>1, PlacesOf
  <1>9. Len(claims) <= Len(cs)
    BY <1>2, <1>6, PlacesOf
  <1>7. cs[last] = c /\ \A i \in DOMAIN claims : i # last => cs[i] = claims[i]
    BY <1>2, <1>5
  <1>8. claims' = cs /\ UNCHANGED <<rank, before, changes>>
    BY <1>1, <1>3, <1>5 DEF GivenUp
  <1> QED
    BY <1>2, <1>4, <1>6, <1>7, <1>8, <1>9, UnfinishedKeeps DEF AllButOne

LEMMA SetManualRankKeeps ==
    ASSUME RankInv, NEW r \in Ranks, SetManualRank(r)
    PROVE  RankInv'
  <1>1. rank \in Ranks /\ before \in 0..Len(claims) /\ changes \in Nat /\ claims \in Seq(Claims) /\ Len(claims) \in Nat
    BY DEF RankInv, TypeOK
  <1>2. rank' = r /\ claims' = claims /\ changes' = changes
    BY DEF SetManualRank
  <1>3. CASE r = rank
    <2>1. before' = before /\ rank' = rank
      BY <1>3 DEF SetManualRank
    <2> QED
      BY <1>2, <2>1 DEF RankInv, TypeOK, RankSettled, Needs, IsLeast
  <1>4. CASE r # rank
    <2>1. before' = Len(claims)
      BY <1>4 DEF SetManualRank
    <2>2. TypeOK'
      BY <1>1, <1>2, <2>1 DEF TypeOK
    <2>3. RankSettled'
      <3>1. Present(claims, r, Len(claims)) = {}
        BY <1>1 DEF Present
      <3>2. Decide(Policy, Evidence(claims, r, Len(claims))).reason = "none"
        BY <3>1, NothingIsDecided, Zenon DEF Evidence
      <3> QED
        BY <3>2, <1>2, <2>1 DEF RankSettled
    <2>4. ASSUME NEW n \in Needs, IsLeast(n) PROVE Earned(n, claims', before', changes')
      <3>1. Finished(claims, before) \subseteq Finished(claims, Len(claims))
        BY <1>1 DEF Finished
      <3>2. /\ IsFiniteSet(Finished(claims, Len(claims))) /\ Cardinality(Finished(claims, before)) \in Nat
            /\ Cardinality(Finished(claims, Len(claims))) \in Nat
        <4>1. \A k : Finished(claims, k) \in SUBSET (DOMAIN claims)
          BY DEF Finished
        <4> QED
          BY <4>1, <1>1, PlacesAreFinite
      <3>3. Cardinality(Finished(claims, before)) <= Cardinality(Finished(claims, Len(claims)))
        BY <3>1, <3>2, FS_Subset
      <3>4. PICK product : product = changes * n
        OBVIOUS
      <3>5. product \in Nat /\ product <= Cardinality(Finished(claims, before))
        BY <1>1, <2>4, <3>4, NeedsArePositive DEF RankInv, Earned
      <3>6. product <= Cardinality(Finished(claims, Len(claims)))
        BY <3>2, <3>3, <3>5
      <3> QED
        BY <3>4, <3>6, <1>2, <2>1 DEF Earned
    <2> QED
      BY <2>2, <2>3, <2>4 DEF RankInv, Needs, IsLeast
  <1> QED
    BY <1>3, <1>4

LEMMA RankInvHolds == Spec => []RankInv
  <1>1. Init => RankInv
    <2> SUFFICES ASSUME Init PROVE RankInv
      OBVIOUS
    <2>1. claims = <<>> /\ before = 0 /\ rank = 1 /\ changes = 0
      BY DEF Init
    <2>2. TypeOK
      BY <2>1 DEF TypeOK, Ranks
    <2>3. Present(claims, rank, before) = {} /\ Finished(claims, before) = {}
      BY <2>1 DEF Present, Finished
    <2>4. RankSettled
      BY <2>3, NothingIsDecided, Zenon DEF RankSettled, Evidence
    <2>5. ASSUME NEW n \in Needs PROVE Earned(n, claims, before, changes)
      <3>1. n \in Nat /\ changes * n = 0
        BY <2>1, NeedsArePositive
      <3>2. Cardinality(Finished(claims, before)) = 0
        BY <2>3, FS_EmptySet
      <3> QED
        BY <3>1, <3>2 DEF Earned
    <2> QED
      BY <2>2, <2>4, <2>5 DEF RankInv
  <1>2. RankInv /\ [Next]_vars => RankInv'
    <2> SUFFICES ASSUME RankInv, [Next]_vars PROVE RankInv'
      OBVIOUS
    <2>1. claims \in Seq(Claims)
      BY DEF RankInv, TypeOK
    <2>2. ASSUME Busy PROVE Len(claims) \in DOMAIN claims
      BY <2>1, <2>2, LastIsBusy
    <2>3. ASSUME NEW i \in DOMAIN claims
          PROVE  /\ \A x \in {"answered", "expired"} :
                       /\ [claims[i] EXCEPT !.status = x] \in Claims
                       /\ [claims[i] EXCEPT !.status = x].status = x
                 /\ \A x \in {"none", "positive", "negative"} :
                       /\ [claims[i] EXCEPT !.rating = x] \in Claims
                       /\ [claims[i] EXCEPT !.rating = x].status = claims[i].status
      <3>1. claims[i] \in Claims
        BY <2>1, <2>3
      <3> QED
        BY <3>1 DEF Claims
    <2>4. CASE \E a \in Answerers : Take(a)
      BY <2>4, TakeKeeps
    <2>5. CASE Answered
      <3>1. Len(claims) \in DOMAIN claims
        BY <2>2, <2>5 DEF Answered
      <3>2. Recalculate([claims EXCEPT ![Len(claims)] = [claims[Len(claims)] EXCEPT !.status = "answered"]])
        BY <2>5 DEF Answered
      <3> QED
        BY <3>1, <3>2, <2>3, FinishKeeps
    <2>6. CASE Expired
      <3>1. Len(claims) \in DOMAIN claims
        BY <2>2, <2>6 DEF Expired
      <3>2. Recalculate([claims EXCEPT ![Len(claims)] = [claims[Len(claims)] EXCEPT !.status = "expired"]])
        BY <2>6 DEF Expired
      <3> QED
        BY <3>1, <3>2, <2>3, FinishKeeps
    <2>7. CASE GivenUp
      BY <2>7, GivenUpKeeps
    <2>8. ASSUME NEW i \in DOMAIN claims, ClearEvaluation(i)
          PROVE  RankInv'
      <3>1. claims[i].status = "answered"
        BY <2>8 DEF ClearEvaluation
      <3>2. Recalculate([claims EXCEPT ![i] = [claims[i] EXCEPT !.rating = "none"]])
        BY <2>8 DEF ClearEvaluation
      <3> QED
        BY <3>1, <3>2, <2>3, FinishKeeps
    <2>9. ASSUME NEW i \in DOMAIN claims, NEW rating \in {"positive", "negative"}, SetEvaluation(i, rating)
          PROVE  RankInv'
      <3>1. claims[i].status = "answered"
        BY <2>9 DEF SetEvaluation
      <3>2. Recalculate([claims EXCEPT ![i] = [claims[i] EXCEPT !.rating = rating]])
        BY <2>9 DEF SetEvaluation
      <3> QED
        BY <3>1, <3>2, <2>3, FinishKeeps
    <2>10. CASE \E r \in Ranks : SetManualRank(r)
      BY <2>10, SetManualRankKeeps
    <2>11. CASE UNCHANGED vars
      BY <2>11 DEF vars, RankInv, TypeOK, RankSettled, Needs, IsLeast
    <2> QED
      BY <2>4, <2>5, <2>6, <2>7, <2>8, <2>9, <2>10, <2>11 DEF Next
  <1> QED
    BY <1>1, <1>2, PTL DEF Spec

\* After every step the rank is one the policy would not change: for any policy, whatever
\* order answers, expiries, ratings and ranks set by hand come in.
THEOREM RankSettledHolds == Spec => []RankSettled
  <1>1. RankInv => RankSettled
    BY DEF RankInv
  <1> QED
    BY <1>1, RankInvHolds, PTL

\* The same claims never move a rank twice, whatever becomes of their ratings: each change
\* by the policy was paid for with as many finished claims of its own as the least sample.
THEOREM ChangesAreEarnedHolds == Spec => []ChangesAreEarned
  <1>1. RankInv => ChangesAreEarned
    <2> SUFFICES ASSUME RankInv PROVE ChangesAreEarned
      OBVIOUS
    <2> DEFINE finished == {i \in DOMAIN claims : claims[i].status \in {"answered", "expired"}}
    <2>1. claims \in Seq(Claims) /\ changes \in Nat
      BY DEF RankInv, TypeOK
    <2>2. finished \in SUBSET (DOMAIN claims) /\ Finished(claims, before) \subseteq finished
      BY DEF Finished
    <2>3. Finished(claims, before) \in SUBSET (DOMAIN claims)
      BY DEF Finished
    <2>4. IsFiniteSet(finished) /\ Cardinality(finished) \in Nat /\ Cardinality(Finished(claims, before)) \in Nat
      <3> HIDE DEF finished
      <3> QED
        BY <2>1, <2>2, <2>3, PlacesAreFinite
    <2>5. Cardinality(Finished(claims, before)) <= Cardinality(finished)
      <3> HIDE DEF finished
      <3> QED
        BY <2>2, <2>4, FS_Subset
    <2>6. ASSUME NEW n \in Needs, \A k \in Needs : n <= k
          PROVE  changes * n <= Cardinality(finished)
      <3>1. PICK product : product = changes * n
        OBVIOUS
      <3>2. product \in Nat /\ product <= Cardinality(Finished(claims, before))
        BY <2>1, <2>6, <3>1, NeedsArePositive DEF RankInv, IsLeast, Earned
      <3> HIDE DEF finished
      <3> QED
        BY <2>4, <2>5, <3>1, <3>2
    <2> QED
      BY <2>6 DEF ChangesAreEarned, Needs
  <1> QED
    BY <1>1, RankInvHolds, PTL
=================================================================================
