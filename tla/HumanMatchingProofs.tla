------------------------- MODULE HumanMatchingProofs -------------------------
(***************************************************************************)
(* What a request answered by humans goes through, for any number of       *)
(* humans and requests, any terms and any drafts.                           *)
(*                                                                         *)
(* The rows of an execution tell its story: its status, the outcome of its *)
(* claim with each user, its answer, its reservation and its reward.  The  *)
(* lemmas say how a story goes on, then what a change to the rows of one    *)
(* execution leaves true of all of them.  A matching round changes the rows *)
(* of several executions, so it is taken apart: first the claims that       *)
(* lapsed are reconciled, one by one, then one new claim is made.           *)
(*                                                                         *)
(* The second part is about drafts: which revision a claim holds, and that *)
(* it is the newest when it is sent.  The third is about the line of who    *)
(* waits, a sequence from which entries are taken away.                     *)
(***************************************************************************)
EXTENDS HumanMatching, DataInduction, SequenceTheorems, TLAPS

Statuses == {"none", "queued", "running", "completed", "cancelled"}
Credits == {"none", "held", "settled", "released"}
Results == {Unanswered, Sent} \cup Revisions

ClaimStatuses == {"none", "active"} \cup Ended
ClaimRows ==
    [status : ClaimStatuses, skip : Nat, lease : Nat,
     draft : Revisions \cup {0}, revision : Revisions \cup {0}]

RowTypes(claims, st, res, cr, rew) ==
    /\ claims \in [Pairs -> ClaimRows]
    /\ st \in [Executions -> Statuses]
    /\ res \in [Executions -> Results]
    /\ cr \in [Executions -> Credits]
    /\ rew \in [Executions -> Users \cup {"nobody"}]

\* The outcome of each user's claim on e.
Outcomes(claims, e) == [u \in Users |-> claims[<<e, u>>].status]

\* RowsAgree for one execution, and that its owner has no claim on it.
Story(e, outcomes, st, res, cr, rew) ==
    LET active == {u \in Users : outcomes[u] = "active"}
        answered == {u \in Users : outcomes[u] = "answered"} IN
    /\ st = "running" <=> active # {}
    /\ \A u, v \in active : u = v
    /\ st = "completed" <=> answered # {}
    /\ answered = {u \in Users : rew = u}
    /\ Owner[e] \notin active \cup answered
    /\ res # Unanswered <=> st = "completed"
    /\ <<st, cr>> \in
          {<<"none", "none">>, <<"queued", "held">>, <<"running", "held">>,
           <<"completed", "settled">>, <<"cancelled", "released">>}

\* Nobody has two claims in hand.
OneEach(claims) ==
    \A u \in Users : \A e, f \in Executions :
        claims[<<e, u>>].status = "active" /\ claims[<<f, u>>].status = "active" => e = f

Rows(claims, st, res, cr, rew) ==
    /\ RowTypes(claims, st, res, cr, rew)
    /\ \A e \in Executions : Story(e, Outcomes(claims, e), st[e], res[e], cr[e], rew[e])
    /\ OneEach(claims)

\* The inductive invariant.
MatchingInv == Rows(claim, status, result, credit, reward)

\* Between two sets of claims, none that has ended changes.
Onward(claims, later) ==
    \A p \in Pairs : claims[p].status \in Ended => later[p].status = claims[p].status

---------------------------------------------------------------------------
(* How a story goes on *)

LEMMA BeganStory ==
    ASSUME NEW e, NEW c \in [Users -> ClaimStatuses], NEW res, NEW cr, NEW rew,
           Story(e, c, "none", res, cr, rew)
    PROVE  Story(e, c, "queued", res, "held", rew)
  BY DEF Story

LEMMA TakenStory ==
    ASSUME NEW e, NEW c \in [Users -> ClaimStatuses], NEW res, NEW cr, NEW rew,
           Story(e, c, "queued", res, cr, rew),
           NEW u \in Users, u # Owner[e], c[u] = "none",
           NEW d, d[u] = "active", \A v \in Users \ {u} : d[v] = c[v]
    PROVE  Story(e, d, "running", res, cr, rew)
  BY DEF Story

LEMMA ReleasedStory ==
    ASSUME NEW e, NEW c \in [Users -> ClaimStatuses], NEW st, NEW res, NEW cr, NEW rew,
           Story(e, c, st, res, cr, rew),
           NEW u \in Users, c[u] = "active", NEW o \in {"skipped", "declined", "expired"},
           NEW d, d[u] = o, \A v \in Users \ {u} : d[v] = c[v]
    PROVE  Story(e, d, "queued", res, cr, rew)
  <1>1. st = "running"
    BY DEF Story
  <1>2. \A v \in Users : d[v] # "active"
    BY DEF Story
  <1>3. \A v \in Users : d[v] # "answered"
    BY <1>1 DEF Story
  <1>4. {v \in Users : c[v] = "answered"} = {}
    BY <1>1 DEF Story
  <1> QED
    BY <1>1, <1>2, <1>3, <1>4 DEF Story

LEMMA AnsweredStory ==
    ASSUME NEW e, NEW c \in [Users -> ClaimStatuses], NEW st, NEW res, NEW cr, NEW rew,
           Story(e, c, st, res, cr, rew),
           NEW u \in Users, c[u] = "active", NEW r, r # Unanswered,
           NEW d, d[u] = "answered", \A v \in Users \ {u} : d[v] = c[v]
    PROVE  Story(e, d, "completed", r, "settled", u)
  <1>1. st = "running"
    BY DEF Story
  <1>2. \A v \in Users : d[v] # "active"
    BY DEF Story
  <1>3. {v \in Users : d[v] = "answered"} = {u}
    BY <1>1 DEF Story
  <1>4. Owner[e] # u
    BY DEF Story
  <1> QED
    BY <1>2, <1>3, <1>4 DEF Story

LEMMA CancelledStory ==
    ASSUME NEW e, NEW c \in [Users -> ClaimStatuses], NEW st \in {"queued", "running"}, NEW res,
           NEW cr, NEW rew, NEW d \in [Users -> ClaimStatuses],
           Story(e, c, st, res, cr, rew),
           \A v \in Users : d[v] # "active" /\ (d[v] = "answered" => c[v] = "answered")
    PROVE  Story(e, d, "cancelled", res, "released", rew)
  <1>1. {v \in Users : c[v] = "answered"} = {}
    BY DEF Story
  <1>2. {v \in Users : d[v] = "answered"} = {} /\ {v \in Users : d[v] = "active"} = {}
    BY <1>1
  <1> QED
    BY <1>1, <1>2 DEF Story

---------------------------------------------------------------------------
(* How the rows of all executions go on *)

\* Only the instants and drafts of claims change.
LEMMA QuietRows ==
    ASSUME NEW c, NEW st, NEW res, NEW cr, NEW rew, Rows(c, st, res, cr, rew),
           NEW d \in [Pairs -> ClaimRows], \A p \in Pairs : d[p].status = c[p].status
    PROVE  Rows(d, st, res, cr, rew) /\ Onward(c, d)
  <1>1. \A e \in Executions : Outcomes(d, e) = Outcomes(c, e)
    BY DEF Outcomes, Pairs
  <1>2. OneEach(d)
    BY DEF OneEach, Rows, Pairs
  <1>3. Onward(c, d)
    BY DEF Onward
  <1> QED
    BY <1>1, <1>2, <1>3 DEF Rows, RowTypes

\* The story of e goes on, and no other; no claim is made.
LEMMA OneStory ==
    ASSUME NEW c, NEW st, NEW res, NEW cr, NEW rew, Rows(c, st, res, cr, rew),
           NEW d, NEW st2, NEW res2, NEW cr2, NEW rew2, RowTypes(d, st2, res2, cr2, rew2),
           NEW e \in Executions,
           Story(e, Outcomes(d, e), st2[e], res2[e], cr2[e], rew2[e]),
           \A f \in Executions \ {e} :
              /\ st2[f] = st[f] /\ res2[f] = res[f] /\ cr2[f] = cr[f] /\ rew2[f] = rew[f]
              /\ Outcomes(d, f) = Outcomes(c, f),
           \A p \in Pairs : d[p].status = "active" => c[p].status = "active"
    PROVE  Rows(d, st2, res2, cr2, rew2)
  <1>1. OneEach(d)
    BY DEF OneEach, Rows, Pairs
  <1>2. \A f \in Executions : Story(f, Outcomes(d, f), st2[f], res2[f], cr2[f], rew2[f])
    BY DEF Rows
  <1> QED
    BY <1>1, <1>2 DEF Rows

LEMMA OutcomesType ==
    ASSUME NEW c \in [Pairs -> ClaimRows], NEW e \in Executions
    PROVE  Outcomes(c, e) \in [Users -> ClaimStatuses]
  <1>1. \A u \in Users : <<e, u>> \in Pairs
    BY DEF Pairs
  <1>2. \A p \in Pairs : c[p].status \in ClaimStatuses
    BY DEF ClaimRows
  <1> QED
    BY <1>1, <1>2 DEF Outcomes

\* Replacing the claim of u on e changes that outcome and no other.
LEMMA OneOutcome ==
    ASSUME NEW c \in [Pairs -> ClaimRows], NEW d \in [Pairs -> ClaimRows],
           NEW e \in Executions, NEW u \in Users,
           \A p \in Pairs \ {<<e, u>>} : d[p] = c[p]
    PROVE  /\ Outcomes(c, e) \in [Users -> ClaimStatuses]
           /\ Outcomes(c, e)[u] = c[<<e, u>>].status
           /\ Outcomes(d, e)[u] = d[<<e, u>>].status
           /\ \A v \in Users \ {u} : Outcomes(d, e)[v] = Outcomes(c, e)[v]
           /\ \A f \in Executions \ {e} : Outcomes(d, f) = Outcomes(c, f)
  <1>1. \A f \in Executions, v \in Users : <<f, v>> \in Pairs
    BY DEF Pairs
  <1>2. Outcomes(c, e) \in [Users -> ClaimStatuses]
    BY OutcomesType
  <1>3. ASSUME NEW f \in Executions \ {e}
        PROVE  Outcomes(d, f) = Outcomes(c, f)
    BY <1>1 DEF Outcomes
  <1>4. /\ Outcomes(c, e)[u] = c[<<e, u>>].status
        /\ Outcomes(d, e)[u] = d[<<e, u>>].status
        /\ \A v \in Users \ {u} : Outcomes(d, e)[v] = Outcomes(c, e)[v]
    BY <1>1 DEF Outcomes
  <1> QED
    BY <1>2, <1>3, <1>4

\* A request is made.
LEMMA BeganRows ==
    ASSUME NEW c, NEW st, NEW res, NEW cr, NEW rew, Rows(c, st, res, cr, rew),
           NEW e \in Executions, st[e] = "none",
           NEW st2 \in [Executions -> Statuses], NEW cr2 \in [Executions -> Credits],
           st2[e] = "queued", cr2[e] = "held",
           \A f \in Executions \ {e} : st2[f] = st[f] /\ cr2[f] = cr[f]
    PROVE  Rows(c, st2, res, cr2, rew)
  <1>1. RowTypes(c, st2, res, cr2, rew)
    BY DEF Rows, RowTypes
  <1>2. Story(e, Outcomes(c, e), "none", res[e], cr[e], rew[e])
    BY DEF Rows
  <1>3. Outcomes(c, e) \in [Users -> ClaimStatuses]
    BY OutcomesType DEF Rows, RowTypes
  <1>4. Story(e, Outcomes(c, e), st2[e], res[e], cr2[e], rew[e])
    BY <1>2, <1>3, BeganStory
  <1> QED
    BY <1>1, <1>4, OneStory

\* A claim is given back, and its execution goes back to the queue.
LEMMA ReleasedRows ==
    ASSUME NEW c, NEW st, NEW res, NEW cr, NEW rew, Rows(c, st, res, cr, rew),
           NEW e \in Executions, NEW u \in Users, c[<<e, u>>].status = "active",
           NEW d \in [Pairs -> ClaimRows], NEW st2 \in [Executions -> Statuses],
           d[<<e, u>>].status \in {"skipped", "declined"}, st2[e] = "queued",
           \A p \in Pairs \ {<<e, u>>} : d[p] = c[p],
           \A f \in Executions \ {e} : st2[f] = st[f]
    PROVE  Rows(d, st2, res, cr, rew) /\ Onward(c, d)
  <1>1. c \in [Pairs -> ClaimRows] /\ RowTypes(c, st, res, cr, rew)
    BY DEF Rows, RowTypes
  <1>2. /\ Outcomes(c, e) \in [Users -> ClaimStatuses]
        /\ Outcomes(c, e)[u] = "active"
        /\ Outcomes(d, e)[u] = d[<<e, u>>].status
        /\ \A v \in Users \ {u} : Outcomes(d, e)[v] = Outcomes(c, e)[v]
        /\ \A f \in Executions \ {e} : Outcomes(d, f) = Outcomes(c, f)
    BY <1>1, OneOutcome
  <1>3. Story(e, Outcomes(c, e), st[e], res[e], cr[e], rew[e])
    BY DEF Rows
  <1>4. Story(e, Outcomes(d, e), st2[e], res[e], cr[e], rew[e])
    BY <1>2, <1>3, ReleasedStory
  <1>5. RowTypes(d, st2, res, cr, rew)
    BY <1>1 DEF RowTypes
  <1>6. \A p \in Pairs : d[p].status = "active" => c[p].status = "active"
    OBVIOUS
  <1>7. Rows(d, st2, res, cr, rew)
    BY <1>2, <1>4, <1>5, <1>6, OneStory
  <1>8. Onward(c, d)
    BY DEF Onward, Ended
  <1> QED
    BY <1>7, <1>8

\* A claim is answered, and its performer is paid.
LEMMA AnsweredRows ==
    ASSUME NEW c, NEW st, NEW res, NEW cr, NEW rew, Rows(c, st, res, cr, rew),
           NEW e \in Executions, NEW u \in Users, c[<<e, u>>].status = "active",
           NEW d, NEW st2, NEW res2, NEW cr2, NEW rew2, RowTypes(d, st2, res2, cr2, rew2),
           d[<<e, u>>].status = "answered", st2[e] = "completed", res2[e] # Unanswered,
           cr2[e] = "settled", rew2[e] = u,
           \A p \in Pairs \ {<<e, u>>} : d[p] = c[p],
           \A f \in Executions \ {e} :
              st2[f] = st[f] /\ res2[f] = res[f] /\ cr2[f] = cr[f] /\ rew2[f] = rew[f]
    PROVE  Rows(d, st2, res2, cr2, rew2) /\ Onward(c, d)
  <1>1. c \in [Pairs -> ClaimRows] /\ d \in [Pairs -> ClaimRows]
    BY DEF Rows, RowTypes
  <1>2. /\ Outcomes(c, e) \in [Users -> ClaimStatuses]
        /\ Outcomes(c, e)[u] = "active"
        /\ Outcomes(d, e)[u] = "answered"
        /\ \A v \in Users \ {u} : Outcomes(d, e)[v] = Outcomes(c, e)[v]
        /\ \A f \in Executions \ {e} : Outcomes(d, f) = Outcomes(c, f)
    BY <1>1, OneOutcome
  <1>3. Story(e, Outcomes(c, e), st[e], res[e], cr[e], rew[e])
    BY DEF Rows
  <1>4. Story(e, Outcomes(d, e), st2[e], res2[e], cr2[e], rew2[e])
    BY <1>2, <1>3, AnsweredStory
  <1>5. \A p \in Pairs : d[p].status = "active" => c[p].status = "active"
    OBVIOUS
  <1>6. Rows(d, st2, res2, cr2, rew2)
    BY <1>2, <1>4, <1>5, OneStory
  <1>7. Onward(c, d)
    BY DEF Onward, Ended
  <1> QED
    BY <1>6, <1>7

\* A request is cancelled, and with it the claim on it, if there is one.
LEMMA CancelledRows ==
    ASSUME NEW c, NEW st, NEW res, NEW cr, NEW rew, Rows(c, st, res, cr, rew),
           NEW e \in Executions, st[e] \in {"queued", "running"},
           NEW d \in [Pairs -> ClaimRows], NEW st2 \in [Executions -> Statuses],
           NEW cr2 \in [Executions -> Credits], st2[e] = "cancelled", cr2[e] = "released",
           \A f \in Executions \ {e} : st2[f] = st[f] /\ cr2[f] = cr[f],
           \A p \in Pairs :
              \/ d[p] = c[p]
              \/ p[1] = e /\ c[p].status = "active" /\ d[p].status = "cancelled",
           \A u \in Users : d[<<e, u>>].status # "active"
    PROVE  Rows(d, st2, res, cr2, rew) /\ Onward(c, d)
  <1>1. c \in [Pairs -> ClaimRows] /\ RowTypes(c, st, res, cr, rew)
    BY DEF Rows, RowTypes
  <1>2. \A f \in Executions, u \in Users : <<f, u>> \in Pairs /\ <<f, u>>[1] = f
    BY DEF Pairs
  <1>3. Outcomes(c, e) \in [Users -> ClaimStatuses] /\ Outcomes(d, e) \in [Users -> ClaimStatuses]
    BY <1>1, OutcomesType
  <1>4. \A f \in Executions \ {e} : Outcomes(d, f) = Outcomes(c, f)
    BY <1>2 DEF Outcomes
  <1>5. \A u \in Users : /\ Outcomes(d, e)[u] # "active"
                         /\ Outcomes(d, e)[u] = "answered" => Outcomes(c, e)[u] = "answered"
    BY <1>2 DEF Outcomes
  <1>6. Story(e, Outcomes(c, e), st[e], res[e], cr[e], rew[e])
    BY DEF Rows
  <1>7. Story(e, Outcomes(d, e), "cancelled", res[e], "released", rew[e])
    BY <1>3, <1>5, <1>6, CancelledStory
  <1>8. RowTypes(d, st2, res, cr2, rew)
    BY <1>1 DEF RowTypes
  <1>9. \A p \in Pairs : d[p].status = "active" => c[p].status = "active"
    OBVIOUS
  <1>10. Rows(d, st2, res, cr2, rew)
    BY <1>4, <1>7, <1>8, <1>9, OneStory
  <1>11. Onward(c, d)
    BY DEF Onward, Ended
  <1> QED
    BY <1>10, <1>11

\* A queued request is given to a human who has no claim in hand and never had one on it.
LEMMA TakenRows ==
    ASSUME NEW c, NEW st, NEW res, NEW cr, NEW rew, Rows(c, st, res, cr, rew),
           NEW e \in Executions, NEW u \in Users, st[e] = "queued", u # Owner[e],
           c[<<e, u>>].status = "none", \A f \in Executions : c[<<f, u>>].status # "active",
           NEW d \in [Pairs -> ClaimRows], NEW st2 \in [Executions -> Statuses],
           d[<<e, u>>].status = "active", st2[e] = "running",
           \A p \in Pairs \ {<<e, u>>} : d[p] = c[p],
           \A f \in Executions \ {e} : st2[f] = st[f]
    PROVE  Rows(d, st2, res, cr, rew) /\ Onward(c, d)
  <1>1. c \in [Pairs -> ClaimRows] /\ RowTypes(c, st, res, cr, rew)
    BY DEF Rows, RowTypes
  <1>2. /\ Outcomes(c, e) \in [Users -> ClaimStatuses]
        /\ Outcomes(c, e)[u] = "none"
        /\ Outcomes(d, e)[u] = "active"
        /\ \A v \in Users \ {u} : Outcomes(d, e)[v] = Outcomes(c, e)[v]
        /\ \A f \in Executions \ {e} : Outcomes(d, f) = Outcomes(c, f)
    BY <1>1, OneOutcome
  <1>3. Story(e, Outcomes(c, e), "queued", res[e], cr[e], rew[e])
    BY DEF Rows
  <1>4. Story(e, Outcomes(d, e), st2[e], res[e], cr[e], rew[e])
    BY <1>2, <1>3, TakenStory
  <1>5. \A f \in Executions : Story(f, Outcomes(d, f), st2[f], res[f], cr[f], rew[f])
    BY <1>2, <1>4 DEF Rows
  <1>6. RowTypes(d, st2, res, cr, rew)
    BY <1>1 DEF RowTypes
  <1>7. OneEach(d)
    <2>1. \A f \in Executions, v \in Users : <<f, v>> \in Pairs /\ (<<f, v>> = <<e, u>> <=> f = e /\ v = u)
      BY DEF Pairs
    <2>2. ASSUME NEW v \in Users, NEW f \in Executions, NEW g \in Executions,
                 d[<<f, v>>].status = "active", d[<<g, v>>].status = "active"
          PROVE  f = g
      <3>1. CASE v = u
        BY <2>1, <2>2, <3>1
      <3>2. CASE v # u
        BY <2>1, <2>2, <3>2 DEF Rows, OneEach
      <3> QED
        BY <3>1, <3>2
    <2> QED
      BY <2>2 DEF OneEach
  <1>8. Onward(c, d)
    BY DEF Onward, Ended
  <1> QED
    BY <1>5, <1>6, <1>7, <1>8 DEF Rows

---------------------------------------------------------------------------
(* Reconciling the claims that lapsed *)

LEMMA EndClaimType ==
    ASSUME NEW c \in ClaimRows, NEW o \in Ended
    PROVE  EndClaim(c, o) \in ClaimRows /\ EndClaim(c, o).status = o
  BY DEF EndClaim, NoClaim, ClaimRows, ClaimStatuses, Ended

LEMMA AnsweredByFacts ==
    ASSUME NEW lapsed \in SUBSET Pairs, NEW e \in Executions
    PROVE  /\ \A u \in Users : <<e, u>> \in lapsed /\ Automatic(<<e, u>>) => e \in DOMAIN AnsweredBy(lapsed)
           /\ e \in DOMAIN AnsweredBy(lapsed) =>
                 /\ AnsweredBy(lapsed)[e] \in Users
                 /\ <<e, AnsweredBy(lapsed)[e]>> \in lapsed
                 /\ Automatic(<<e, AnsweredBy(lapsed)[e]>>)
  <1>1. PICK answered : answered = {p \in lapsed : Automatic(p)}
    OBVIOUS
  <1>2. AnsweredBy(lapsed) =
           [f \in {p[1] : p \in answered} |-> CHOOSE u \in Users : <<f, u>> \in answered]
    BY <1>1 DEF AnsweredBy
  <1>3. DOMAIN AnsweredBy(lapsed) = {p[1] : p \in answered}
    BY <1>2
  <1>4. ASSUME NEW u \in Users, <<e, u>> \in lapsed, Automatic(<<e, u>>)
        PROVE  e \in DOMAIN AnsweredBy(lapsed)
    <2>1. <<e, u>> \in answered /\ <<e, u>>[1] = e
      BY <1>1, <1>4
    <2> QED
      BY <2>1, <1>3
  <1>5. ASSUME e \in DOMAIN AnsweredBy(lapsed)
        PROVE  AnsweredBy(lapsed)[e] \in Users /\ <<e, AnsweredBy(lapsed)[e]>> \in answered
    <2>1. PICK p \in answered : p[1] = e
      BY <1>3, <1>5
    <2>2. PICK u \in Users : <<e, u>> \in answered
      BY <1>1, <2>1 DEF Pairs
    <2>3. AnsweredBy(lapsed)[e] = CHOOSE v \in Users : <<e, v>> \in answered
      BY <1>2, <1>3, <1>5
    <2> QED
      BY <2>2, <2>3
  <1> QED
    BY <1>1, <1>4, <1>5

LEMMA ReconciledRows ==
    ASSUME MatchingInv, NEW lapsed \in SUBSET Pairs, \A p \in lapsed : Lapsed(p),
           NEW R, R = [e \in Executions |->
                          IF e \in DOMAIN AnsweredBy(lapsed)
                          THEN claim[<<e, AnsweredBy(lapsed)[e]>>].draft ELSE result[e]],
           NEW K, K = [e \in Executions |->
                          IF e \in DOMAIN AnsweredBy(lapsed) THEN "settled" ELSE credit[e]],
           NEW W, W = [e \in Executions |->
                          IF e \in DOMAIN AnsweredBy(lapsed) THEN AnsweredBy(lapsed)[e] ELSE reward[e]]
    PROVE  /\ Rows(ReconciledClaims(lapsed), ReconciledStatus(lapsed), R, K, W)
           /\ Onward(claim, ReconciledClaims(lapsed))
  <1>1. PICK C : C = ReconciledClaims(lapsed)
    OBVIOUS
  <1>2. PICK S : S = ReconciledStatus(lapsed)
    OBVIOUS
  <1>3. PICK A : A = AnsweredBy(lapsed)
    OBVIOUS
  <1>4. RowTypes(claim, status, result, credit, reward) /\ claim \in [Pairs -> ClaimRows]
    BY DEF MatchingInv, Rows, RowTypes
  <1>5. \A e \in Executions, u \in Users : <<e, u>> \in Pairs
    BY DEF Pairs
  <1>6. \A p \in lapsed : claim[p].status = "active"
    BY DEF Lapsed
  <1>7. C \in [Pairs -> ClaimRows]
    BY <1>1, <1>4, EndClaimType DEF ReconciledClaims, Ended
  <1>8. \A p \in Pairs \ lapsed : C[p] = claim[p]
    BY <1>1 DEF ReconciledClaims
  <1>9. \A p \in lapsed : C[p].status = IF Automatic(p) THEN "answered" ELSE "expired"
    BY <1>1, <1>4, EndClaimType DEF ReconciledClaims, Ended
  <1>10. S \in [Executions -> Statuses]
    BY <1>2, <1>4 DEF ReconciledStatus, RowTypes, Statuses
  <1>11. \A e \in Executions :
            (e \in DOMAIN A => A[e] \in Users /\ <<e, A[e]>> \in lapsed /\ Automatic(<<e, A[e]>>))
            /\ \A u \in Users : <<e, u>> \in lapsed /\ Automatic(<<e, u>>) => e \in DOMAIN A
    BY <1>3, AnsweredByFacts
  <1>12. \A p \in lapsed : Automatic(p) => claim[p].draft \in Revisions
    BY <1>4 DEF Automatic, ClaimRows
  <1>13. RowTypes(C, S, R, K, W)
    <2>1. R \in [Executions -> Results]
      BY <1>3, <1>4, <1>11, <1>12 DEF RowTypes, Results
    <2>2. K \in [Executions -> Credits]
      BY <1>4 DEF RowTypes, Credits
    <2>3. W \in [Executions -> Users \cup {"nobody"}]
      BY <1>3, <1>4, <1>11 DEF RowTypes
    <2> QED
      BY <1>7, <1>10, <2>1, <2>2, <2>3 DEF RowTypes
  <1>14. \A p \in Pairs : C[p].status = "active" => claim[p].status = "active"
    BY <1>6, <1>8
  <1>15. OneEach(C)
    BY <1>5, <1>14 DEF OneEach, MatchingInv, Rows
  <1>16. ASSUME NEW e \in Executions
         PROVE  Story(e, Outcomes(C, e), S[e], R[e], K[e], W[e])
    <2>1. Story(e, Outcomes(claim, e), status[e], result[e], credit[e], reward[e])
      BY DEF MatchingInv, Rows
    <2>2. CASE \A u \in Users : <<e, u>> \notin lapsed
      <3>1. Outcomes(C, e) = Outcomes(claim, e)
        BY <1>5, <1>8, <2>2 DEF Outcomes
      <3>2. S[e] = status[e]
        BY <1>2, <2>2 DEF ReconciledStatus
      <3>3. R[e] = result[e] /\ K[e] = credit[e] /\ W[e] = reward[e]
        BY <1>3, <1>11, <2>2
      <3> QED
        BY <2>1, <3>1, <3>2, <3>3
    <2>3. CASE \E u \in Users : <<e, u>> \in lapsed
      <3>1. PICK u \in Users : <<e, u>> \in lapsed
        BY <2>3
      <3>2. /\ Outcomes(claim, e) \in [Users -> ClaimStatuses]
            /\ \A v \in Users : Outcomes(claim, e)[v] = claim[<<e, v>>].status
            /\ \A v \in Users : Outcomes(C, e)[v] = C[<<e, v>>].status
        BY <1>4, OutcomesType DEF Outcomes
      <3>3. \A v \in Users : <<e, v>> \in lapsed => v = u
        <4>1. \A v, w \in Users : Outcomes(claim, e)[v] = "active" /\ Outcomes(claim, e)[w] = "active" => v = w
          BY <2>1 DEF Story
        <4> QED
          BY <1>6, <3>1, <3>2, <4>1
      <3>4. Outcomes(claim, e)[u] = "active"
        BY <1>6, <3>1, <3>2
      <3>5. \A v \in Users \ {u} : Outcomes(C, e)[v] = Outcomes(claim, e)[v]
        BY <1>5, <1>8, <3>2, <3>3
      <3>6. CASE Automatic(<<e, u>>)
        <4>1. Outcomes(C, e)[u] = "answered"
          BY <1>9, <3>1, <3>2, <3>6
        <4>2. S[e] = "completed"
          BY <1>2, <3>1, <3>6 DEF ReconciledStatus
        <4>3. e \in DOMAIN A /\ A[e] = u
          BY <1>11, <3>1, <3>3, <3>6
        <4>4. R[e] = claim[<<e, u>>].draft /\ K[e] = "settled" /\ W[e] = u
          BY <1>3, <4>3
        <4>5. claim[<<e, u>>].draft # Unanswered
          BY <1>12, <3>1, <3>6, MatchingAssumption DEF Unanswered
        <4> QED
          BY <2>1, <3>2, <3>4, <3>5, <4>1, <4>2, <4>4, <4>5, AnsweredStory
      <3>7. CASE ~Automatic(<<e, u>>)
        <4>1. Outcomes(C, e)[u] = "expired"
          BY <1>9, <3>1, <3>2, <3>7
        <4>2. S[e] = "queued"
          BY <1>2, <3>1, <3>3, <3>7 DEF ReconciledStatus
        <4>3. e \notin DOMAIN A
          BY <1>11, <3>3, <3>7
        <4>4. R[e] = result[e] /\ K[e] = credit[e] /\ W[e] = reward[e]
          BY <1>3, <4>3
        <4>5. Story(e, Outcomes(C, e), "queued", result[e], credit[e], reward[e])
          BY <2>1, <3>2, <3>4, <3>5, <4>1, ReleasedStory
        <4> QED
          BY <4>2, <4>4, <4>5
      <3> QED
        BY <3>6, <3>7
    <2> QED
      BY <2>2, <2>3
  <1>17. Onward(claim, C)
    BY <1>6, <1>8 DEF Onward, Ended
  <1> QED
    BY <1>1, <1>2, <1>13, <1>15, <1>16, <1>17 DEF Rows

---------------------------------------------------------------------------
(* The steps *)

LEMMA TermTypes ==
    /\ ClaimLease \in Nat /\ SkipWindow \in Nat
    /\ \A n \in Nat : Lessen(n) \in Nat
    /\ 0 \notin Revisions /\ Revisions \subseteq Nat
  BY MatchingAssumption DEF Lessen

LEMMA InitRows ==
    ASSUME Init
    PROVE  MatchingInv
  <1>1. RowTypes(claim, status, result, credit, reward)
    BY DEF Init, RowTypes, ClaimRows, ClaimStatuses, NoClaim, Statuses, Results, Credits
  <1>2. \A e \in Executions, u \in Users : claim[<<e, u>>].status = "none"
    BY DEF Init, NoClaim, Pairs
  <1>3. ASSUME NEW e \in Executions
        PROVE  Story(e, Outcomes(claim, e), status[e], result[e], credit[e], reward[e])
    <2>1. \A u \in Users : Outcomes(claim, e)[u] = "none"
      BY <1>2 DEF Outcomes
    <2>2. {u \in Users : Outcomes(claim, e)[u] = "answered"} = {}
      BY <2>1
    <2>3. {u \in Users : Outcomes(claim, e)[u] = "active"} = {}
      BY <2>1
    <2>4. {u \in Users : reward[e] = u} = {}
      BY MatchingAssumption DEF Init
    <2>5. /\ status[e] = "none" /\ credit[e] = "none" /\ result[e] = Unanswered
      BY DEF Init
    <2> QED
      BY <2>2, <2>3, <2>4, <2>5 DEF Story
  <1>4. OneEach(claim)
    BY <1>2 DEF OneEach
  <1> QED
    BY <1>1, <1>3, <1>4 DEF MatchingInv, Rows

\* Steps that leave the outcomes of the claims and the other rows alone.
LEMMA QuietStep ==
    ASSUME MatchingInv, claim' \in [Pairs -> ClaimRows],
           \A p \in Pairs : claim'[p].status = claim[p].status,
           UNCHANGED <<status, result, credit, reward>>
    PROVE  MatchingInv' /\ Onward(claim, claim')
  BY QuietRows DEF MatchingInv

LEMMA UnchangedStep ==
    ASSUME MatchingInv, UNCHANGED <<claim, status, result, credit, reward>>
    PROVE  MatchingInv' /\ Onward(claim, claim')
  <1>1. claim \in [Pairs -> ClaimRows]
    BY DEF MatchingInv, Rows, RowTypes
  <1> QED
    BY <1>1, QuietStep

LEMMA TickStep ==
    ASSUME MatchingInv, Tick
    PROVE  MatchingInv' /\ Onward(claim, claim')
  <1>1. claim \in [Pairs -> ClaimRows]
    BY DEF MatchingInv, Rows, RowTypes
  <1>2. claim' = [p \in Pairs |-> [claim[p] EXCEPT !.skip = Lessen(@), !.lease = Lessen(@)]]
    BY DEF Tick
  <1>3. ASSUME NEW p \in Pairs
        PROVE  claim'[p] \in ClaimRows /\ claim'[p].status = claim[p].status
    <2>1. claim[p] \in ClaimRows
      BY <1>1
    <2>2. Lessen(claim[p].skip) \in Nat /\ Lessen(claim[p].lease) \in Nat
      BY <2>1, TermTypes DEF ClaimRows
    <2>3. claim'[p] = [claim[p] EXCEPT !.skip = Lessen(@), !.lease = Lessen(@)]
      BY <1>2
    <2> QED
      BY <2>1, <2>2, <2>3 DEF ClaimRows
  <1>4. claim' \in [Pairs -> ClaimRows]
    BY <1>2, <1>3
  <1> QED
    BY <1>3, <1>4, QuietStep DEF Tick

LEMMA ReadyStep ==
    ASSUME MatchingInv, NEW u \in Users, Ready(u)
    PROVE  MatchingInv' /\ Onward(claim, claim')
  <1>1. claim \in [Pairs -> ClaimRows]
    BY DEF MatchingInv, Rows, RowTypes
  <1>2. UNCHANGED <<status, result, credit, reward>>
    BY DEF Ready
  <1>3. \/ UNCHANGED claim
        \/ claim' = [p \in Pairs |->
                        IF p[2] = u /\ claim[p].status = "active"
                        THEN [claim[p] EXCEPT !.lease = ClaimLease] ELSE claim[p]]
    BY DEF Ready
  <1>4. \A p \in Pairs :
           /\ [claim[p] EXCEPT !.lease = ClaimLease] \in ClaimRows
           /\ [claim[p] EXCEPT !.lease = ClaimLease].status = claim[p].status
    BY <1>1, TermTypes DEF ClaimRows
  <1>5. claim' \in [Pairs -> ClaimRows] /\ \A p \in Pairs : claim'[p].status = claim[p].status
    BY <1>1, <1>3, <1>4
  <1> QED
    BY <1>2, <1>5, QuietStep

LEMMA SaveDraftStep ==
    ASSUME MatchingInv, NEW u \in Users, NEW e \in Executions, NEW r \in Revisions,
           SaveDraft(u, e, r)
    PROVE  MatchingInv' /\ Onward(claim, claim')
  <1>1. claim \in [Pairs -> ClaimRows]
    BY DEF MatchingInv, Rows, RowTypes
  <1>2. <<e, u>> \in Pairs
    BY DEF Pairs
  <1>3. claim' = [claim EXCEPT ![<<e, u>>] = SavedDraft(claim[<<e, u>>], r)]
    BY DEF SaveDraft
  <1>4. /\ SavedDraft(claim[<<e, u>>], r) \in ClaimRows
        /\ SavedDraft(claim[<<e, u>>], r).status = claim[<<e, u>>].status
    BY <1>1, <1>2, TermTypes DEF SavedDraft, ClaimRows
  <1>5. claim' \in [Pairs -> ClaimRows] /\ \A p \in Pairs : claim'[p].status = claim[p].status
    BY <1>1, <1>2, <1>3, <1>4
  <1> QED
    BY <1>5, QuietStep DEF SaveDraft

LEMMA AskStep ==
    ASSUME MatchingInv, NEW e \in Executions, Ask(e)
    PROVE  MatchingInv' /\ Onward(claim, claim')
  <1>1. RowTypes(claim, status, result, credit, reward)
    BY DEF MatchingInv, Rows
  <1>2. status' = [status EXCEPT ![e] = "queued"] /\ credit' = [credit EXCEPT ![e] = "held"]
    BY DEF Ask
  <1>3. status' \in [Executions -> Statuses] /\ credit' \in [Executions -> Credits]
    BY <1>1, <1>2 DEF RowTypes, Statuses, Credits
  <1>4. /\ status'[e] = "queued" /\ credit'[e] = "held"
        /\ \A f \in Executions \ {e} : status'[f] = status[f] /\ credit'[f] = credit[f]
    BY <1>1, <1>2 DEF RowTypes
  <1>5. status[e] = "none" /\ UNCHANGED <<claim, result, reward>>
    BY DEF Ask
  <1>6. Rows(claim, status', result, credit', reward)
    BY <1>3, <1>4, <1>5, BeganRows DEF MatchingInv
  <1> QED
    BY <1>5, <1>6 DEF MatchingInv, Onward

LEMMA CancelStep ==
    ASSUME MatchingInv, NEW e \in Executions, Cancel(e)
    PROVE  MatchingInv' /\ Onward(claim, claim')
  <1>1. RowTypes(claim, status, result, credit, reward)
        /\ Story(e, Outcomes(claim, e), status[e], result[e], credit[e], reward[e])
    BY DEF MatchingInv, Rows
  <1>2. /\ status[e] \in {"queued", "running"}
        /\ status' = [status EXCEPT ![e] = "cancelled"] /\ credit' = [credit EXCEPT ![e] = "released"]
        /\ UNCHANGED <<result, reward>>
    BY DEF Cancel
  <1>3. /\ status' \in [Executions -> Statuses] /\ credit' \in [Executions -> Credits]
        /\ status'[e] = "cancelled" /\ credit'[e] = "released"
        /\ \A f \in Executions \ {e} : status'[f] = status[f] /\ credit'[f] = credit[f]
    BY <1>1, <1>2 DEF RowTypes, Statuses, Credits
  <1>4. /\ claim' \in [Pairs -> ClaimRows]
        /\ \A p \in Pairs :
              \/ claim'[p] = claim[p]
              \/ p[1] = e /\ claim[p].status = "active" /\ claim'[p].status = "cancelled"
        /\ \A u \in Users : claim'[<<e, u>>].status # "active"
    <2>1. CASE (\A u \in Users : ~Active(e, u)) /\ UNCHANGED claim
      BY <1>1, <2>1 DEF Active, RowTypes
    <2>2. CASE \E u \in Users : Active(e, u) /\ claim' = [claim EXCEPT ![<<e, u>>] = EndClaim(@, "cancelled")]
      <3>1. PICK u \in Users : Active(e, u) /\ claim' = [claim EXCEPT ![<<e, u>>] = EndClaim(claim[<<e, u>>], "cancelled")]
        BY <2>2
      <3>2. \A v \in Users : <<e, v>> \in Pairs /\ <<e, v>>[1] = e
        BY DEF Pairs
      <3>3. /\ EndClaim(claim[<<e, u>>], "cancelled") \in ClaimRows
            /\ EndClaim(claim[<<e, u>>], "cancelled").status = "cancelled"
        BY <1>1, <3>2, EndClaimType DEF RowTypes, Ended
      <3>4. \A v \in Users : claim[<<e, v>>].status = "active" => v = u
        <4>1. \A v, w \in Users : Outcomes(claim, e)[v] = "active" /\ Outcomes(claim, e)[w] = "active" => v = w
          BY <1>1 DEF Story
        <4> QED
          BY <3>1, <4>1 DEF Outcomes, Active
      <3> QED
        BY <1>1, <3>1, <3>2, <3>3, <3>4 DEF RowTypes, Active
    <2> QED
      BY <2>1, <2>2 DEF Cancel
  <1>5. status[e] \in {"queued", "running"} /\ UNCHANGED <<result, reward>>
    BY <1>2
  <1>6. Rows(claim, status, result, credit, reward)
    BY DEF MatchingInv
  <1>7. Rows(claim', status', result, credit', reward) /\ Onward(claim, claim')
    BY <1>3, <1>4, <1>5, <1>6, CancelledRows
  <1> QED
    BY <1>5, <1>7 DEF MatchingInv

LEMMA ReleaseStep ==
    ASSUME MatchingInv, NEW u \in Users, NEW e \in Executions, InHand(u, e),
           NEW o \in {"skipped", "declined"}, Release(u, e, o)
    PROVE  MatchingInv' /\ Onward(claim, claim')
  <1>1. RowTypes(claim, status, result, credit, reward) /\ <<e, u>> \in Pairs
    BY DEF MatchingInv, Rows, Pairs
  <1>2. /\ claim' = [claim EXCEPT ![<<e, u>>] = EndClaim(claim[<<e, u>>], o)]
        /\ status' = [status EXCEPT ![e] = "queued"]
        /\ UNCHANGED <<result, credit, reward>>
    BY DEF Release, Requeue
  <1>3. EndClaim(claim[<<e, u>>], o) \in ClaimRows /\ EndClaim(claim[<<e, u>>], o).status = o
    BY <1>1, EndClaimType DEF RowTypes, Ended
  <1>4. /\ claim' \in [Pairs -> ClaimRows] /\ claim'[<<e, u>>].status = o
        /\ \A p \in Pairs \ {<<e, u>>} : claim'[p] = claim[p]
    BY <1>1, <1>2, <1>3 DEF RowTypes
  <1>5. /\ status' \in [Executions -> Statuses] /\ status'[e] = "queued"
        /\ \A f \in Executions \ {e} : status'[f] = status[f]
    BY <1>1, <1>2 DEF RowTypes, Statuses
  <1>6. claim[<<e, u>>].status = "active"
    BY DEF InHand, Active
  <1>7. Rows(claim', status', result, credit, reward) /\ Onward(claim, claim')
    BY <1>4, <1>5, <1>6, ReleasedRows DEF MatchingInv
  <1> QED
    BY <1>2, <1>7 DEF MatchingInv

LEMMA AnswerStep ==
    ASSUME MatchingInv, NEW u \in Users, NEW e \in Executions, Answer(u, e)
    PROVE  MatchingInv' /\ Onward(claim, claim')
  <1>1. RowTypes(claim, status, result, credit, reward) /\ <<e, u>> \in Pairs
    BY DEF MatchingInv, Rows, Pairs
  <1>2. /\ claim' = [claim EXCEPT ![<<e, u>>] = EndClaim(claim[<<e, u>>], "answered")]
        /\ status' = [status EXCEPT ![e] = "completed"] /\ result' = [result EXCEPT ![e] = Sent]
        /\ credit' = [credit EXCEPT ![e] = "settled"] /\ reward' = [reward EXCEPT ![e] = u]
    BY DEF Answer
  <1>3. /\ EndClaim(claim[<<e, u>>], "answered") \in ClaimRows
        /\ EndClaim(claim[<<e, u>>], "answered").status = "answered"
    BY <1>1, EndClaimType DEF RowTypes, Ended
  <1>4. /\ claim' \in [Pairs -> ClaimRows] /\ claim'[<<e, u>>].status = "answered"
        /\ \A p \in Pairs \ {<<e, u>>} : claim'[p] = claim[p]
    BY <1>1, <1>2, <1>3 DEF RowTypes
  <1>5. /\ status'[e] = "completed" /\ result'[e] = Sent /\ credit'[e] = "settled" /\ reward'[e] = u
        /\ \A f \in Executions \ {e} :
              /\ status'[f] = status[f] /\ result'[f] = result[f]
              /\ credit'[f] = credit[f] /\ reward'[f] = reward[f]
    BY <1>1, <1>2 DEF RowTypes
  <1>6. RowTypes(claim', status', result', credit', reward')
    BY <1>1, <1>2, <1>4 DEF RowTypes, Statuses, Results, Credits
  <1>7. claim[<<e, u>>].status = "active"
    BY DEF Answer, InHand, Active
  <1>8. Sent # Unanswered
    BY DEF Sent, Unanswered
  <1>9. Rows(claim', status', result', credit', reward') /\ Onward(claim, claim')
    BY <1>4, <1>5, <1>6, <1>7, <1>8, AnsweredRows DEF MatchingInv
  <1> QED
    BY <1>9 DEF MatchingInv

LEMMA MatchStep ==
    ASSUME MatchingInv, NEW lapsed \in SUBSET Pairs, \A p \in lapsed : Lapsed(p),
           MatchRound(lapsed)
    PROVE  MatchingInv' /\ Onward(claim, claim')
  <1>1. PICK C : C = ReconciledClaims(lapsed)
    OBVIOUS
  <1>2. PICK S : S = ReconciledStatus(lapsed)
    OBVIOUS
  <1>3. Rows(C, S, result', credit', reward') /\ Onward(claim, C)
    <2>1. /\ result' = [e \in Executions |->
                           IF e \in DOMAIN AnsweredBy(lapsed)
                           THEN claim[<<e, AnsweredBy(lapsed)[e]>>].draft ELSE result[e]]
          /\ credit' = [e \in Executions |->
                           IF e \in DOMAIN AnsweredBy(lapsed) THEN "settled" ELSE credit[e]]
          /\ reward' = [e \in Executions |->
                           IF e \in DOMAIN AnsweredBy(lapsed) THEN AnsweredBy(lapsed)[e] ELSE reward[e]]
      BY DEF MatchRound
    <2> QED
      BY <1>1, <1>2, <2>1, ReconciledRows
  <1>4. \/ claim' = C /\ status' = S
        \/ \E e \in Executions, u \in Users :
              /\ S[e] = "queued" /\ u # Owner[e] /\ C[<<e, u>>].status = "none"
              /\ \A f \in Executions : C[<<f, u>>].status # "active"
              /\ claim' = [C EXCEPT ![<<e, u>>] = NewClaim]
              /\ status' = [S EXCEPT ![e] = "running"]
    <2>1. ASSUME NEW m \in Offers(Fresh, C, S), NEW u \in Users, u = Fresh[m[2]].user
          PROVE  /\ m[1] \in Executions
                 /\ S[m[1]] = "queued" /\ u # Owner[m[1]] /\ C[<<m[1], u>>].status = "none"
                 /\ \A f \in Executions : C[<<f, u>>].status # "active"
      BY <2>1 DEF Offers, MayTake
    <2>2. \/ claim' = C /\ status' = S
          \/ \E m \in Offers(Fresh, C, S), u \in Users :
                /\ u = Fresh[m[2]].user
                /\ claim' = [C EXCEPT ![<<m[1], u>>] = NewClaim]
                /\ status' = [S EXCEPT ![m[1]] = "running"]
      BY <1>1, <1>2 DEF MatchRound
    <2> QED
      BY <2>1, <2>2
  <1>5. CASE claim' = C /\ status' = S
    BY <1>3, <1>5 DEF MatchingInv
  <1>6. ASSUME NEW e \in Executions, NEW u \in Users,
               S[e] = "queued", u # Owner[e], C[<<e, u>>].status = "none",
               \A f \in Executions : C[<<f, u>>].status # "active",
               claim' = [C EXCEPT ![<<e, u>>] = NewClaim],
               status' = [S EXCEPT ![e] = "running"]
        PROVE  MatchingInv' /\ Onward(claim, claim')
    <2>1. RowTypes(C, S, result', credit', reward') /\ <<e, u>> \in Pairs
      BY <1>3 DEF Rows, Pairs
    <2>2. NewClaim \in ClaimRows /\ NewClaim.status = "active"
      BY TermTypes DEF NewClaim, NoClaim, ClaimRows, ClaimStatuses
    <2>3. /\ claim' \in [Pairs -> ClaimRows] /\ claim'[<<e, u>>].status = "active"
          /\ \A p \in Pairs \ {<<e, u>>} : claim'[p] = C[p]
      BY <1>6, <2>1, <2>2 DEF RowTypes
    <2>4. /\ status' \in [Executions -> Statuses] /\ status'[e] = "running"
          /\ \A f \in Executions \ {e} : status'[f] = S[f]
      BY <1>6, <2>1 DEF RowTypes, Statuses
    <2>5. /\ S[e] = "queued" /\ u # Owner[e] /\ C[<<e, u>>].status = "none"
          /\ \A f \in Executions : C[<<f, u>>].status # "active"
      BY <1>6
    <2>6. Rows(claim', status', result', credit', reward') /\ Onward(C, claim')
      BY <1>3, <2>3, <2>4, <2>5, TakenRows
    <2> QED
      BY <1>3, <2>6 DEF MatchingInv, Onward
  <1> QED
    BY <1>4, <1>5, <1>6

\* Every step keeps the rows agreeing and the ended claims as they are.
LEMMA StepKeepsRows ==
    ASSUME MatchingInv, [Next]_vars
    PROVE  MatchingInv' /\ Onward(claim, claim')
  <1>1. CASE UNCHANGED vars
    BY <1>1, UnchangedStep DEF vars
  <1>2. CASE Tick
    BY <1>2, TickStep
  <1>3. CASE Match
    <2>1. PICK lapsed \in SUBSET Pairs : (\A p \in lapsed : Lapsed(p)) /\ MatchRound(lapsed)
      BY <1>3 DEF Match
    <2> QED
      BY <2>1, MatchStep
  <1>4. ASSUME NEW u \in Users,
               \/ Ready(u) \/ Stop(u)
               \/ \E rank \in RanksSeen : SetRank(u, rank)
               \/ BeginCall(u) \/ Refuse(u)
        PROVE  MatchingInv' /\ Onward(claim, claim')
    <2>1. CASE Ready(u)
      BY <2>1, ReadyStep
    <2>2. CASE Stop(u)
      BY <2>2, UnchangedStep DEF Stop
    <2>3. CASE \E rank \in RanksSeen : SetRank(u, rank)
      BY <2>3, UnchangedStep DEF SetRank
    <2>4. CASE BeginCall(u)
      BY <2>4, UnchangedStep DEF BeginCall
    <2>5. CASE Refuse(u)
      BY <2>5, UnchangedStep DEF Refuse
    <2> QED
      BY <1>4, <2>1, <2>2, <2>3, <2>4, <2>5
  <1>5. ASSUME NEW u \in Users, NEW e \in Executions,
               \/ Skip(u, e) \/ Decline(u, e) \/ Answer(u, e)
               \/ \E r \in Revisions : SaveDraft(u, e, r)
        PROVE  MatchingInv' /\ Onward(claim, claim')
    <2>1. CASE Skip(u, e)
      BY <2>1, ReleaseStep DEF Skip
    <2>2. CASE Decline(u, e)
      BY <2>2, ReleaseStep DEF Decline
    <2>3. CASE Answer(u, e)
      BY <2>3, AnswerStep
    <2>4. CASE \E r \in Revisions : SaveDraft(u, e, r)
      BY <2>4, SaveDraftStep
    <2> QED
      BY <1>5, <2>1, <2>2, <2>3, <2>4
  <1>6. ASSUME NEW e \in Executions, Ask(e) \/ Cancel(e) \/ Evaluate(e)
        PROVE  MatchingInv' /\ Onward(claim, claim')
    <2>1. CASE Ask(e)
      BY <2>1, AskStep
    <2>2. CASE Cancel(e)
      BY <2>2, CancelStep
    <2>3. CASE Evaluate(e)
      BY <2>3, UnchangedStep DEF Evaluate
    <2> QED
      BY <1>6, <2>1, <2>2, <2>3
  <1> QED
    BY <1>1, <1>2, <1>3, <1>4, <1>5, <1>6 DEF Next

LEMMA RowsAgreeFollows ==
    ASSUME MatchingInv
    PROVE  RowsAgree
  <1>1. ASSUME NEW e \in Executions
        PROVE  LET active == {u \in Users : Active(e, u)}
                   answered == {u \in Users : claim[e, u].status = "answered"} IN
               /\ status[e] = "running" <=> active # {}
               /\ \A u, v \in active : u = v
               /\ status[e] = "completed" <=> answered # {}
               /\ answered = {u \in Users : reward[e] = u} /\ Owner[e] \notin answered
               /\ result[e] # Unanswered <=> status[e] = "completed"
               /\ <<status[e], credit[e]>> \in
                     {<<"none", "none">>, <<"queued", "held">>, <<"running", "held">>,
                      <<"completed", "settled">>, <<"cancelled", "released">>}
    <2>1. Story(e, Outcomes(claim, e), status[e], result[e], credit[e], reward[e])
      BY DEF MatchingInv, Rows
    <2>2. /\ {u \in Users : Active(e, u)} = {u \in Users : Outcomes(claim, e)[u] = "active"}
          /\ {u \in Users : claim[e, u].status = "answered"} =
                {u \in Users : Outcomes(claim, e)[u] = "answered"}
      BY DEF Outcomes, Active
    <2> QED
      BY <2>1, <2>2 DEF Story
  <1>2. \A u \in Users : \A e, f \in Executions : Active(e, u) /\ Active(f, u) => e = f
    BY DEF MatchingInv, Rows, OneEach, Active
  <1> QED
    BY <1>1, <1>2 DEF RowsAgree

\* MatchingInv always holds.
LEMMA MatchingInvHolds == Spec => []MatchingInv
  <1>1. Init => MatchingInv
    BY InitRows
  <1>2. MatchingInv /\ [Next]_vars => MatchingInv'
    BY StepKeepsRows
  <1> QED
    BY <1>1, <1>2, PTL DEF Spec

\* The rows of a request answered by humans tell one story, whatever humans, the matcher
\* and the requester do, in whatever order, for any number of them.
THEOREM RowsAgreeHolds == Spec => []RowsAgree
  <1>1. MatchingInv => RowsAgree
    BY RowsAgreeFollows
  <1> QED
    BY <1>1, MatchingInvHolds, PTL

\* No step reopens a claim that has ended or changes how it ended: nobody is given a
\* request twice, and no late call undoes an outcome.
THEOREM EndedStaysEndedHolds == Spec => EndedStaysEnded
  <1>1. MatchingInv /\ [Next]_vars =>
           [\A p \in Pairs :
               claim[p].status \in Ended => claim'[p].status = claim[p].status]_vars
    BY StepKeepsRows DEF Onward
  <1> QED
    BY <1>1, MatchingInvHolds, PTL DEF Spec, EndedStaysEnded

---------------------------------------------------------------------------
(* Drafts *)

\* The draft of a claim is the newest revision that was acknowledged, until the claim ends
\* and it is cleared.
Drafted(c) == IF c.status = "active" THEN c.draft = c.revision ELSE c.draft = 0

\* An execution that was answered with a draft was answered with the last one of the claim.
DraftSent(claims, e, res) ==
    res \in Revisions =>
        /\ res \notin Blank
        /\ \E u \in Users : claims[<<e, u>>].status = "answered" /\ claims[<<e, u>>].revision = res

\* The inductive invariant.
DraftInv ==
    /\ MatchingInv
    /\ \A p \in Pairs : Drafted(claim[p])
    /\ \A e \in Executions : DraftSent(claim, e, result[e])

\* How a claim goes on, in a step that does not look for lapsed ones.
ClaimGoesOn(c, d) ==
    /\ Drafted(d)
    /\ c.status = "answered" => d.status = "answered" /\ d.revision = c.revision
    /\ d.status = "expired" => c.status = "expired"

\* What a step does to drafts and to the answers made of them.
DraftStep ==
    /\ \A p \in Pairs : Drafted(claim'[p])
    /\ \A p \in Pairs :
          claim[p].status = "answered" =>
              claim'[p].status = "answered" /\ claim'[p].revision = claim[p].revision
    /\ \A p \in Pairs :
          claim'[p].status = "expired" => claim[p].status = "expired" \/ ~Automatic(p)
    /\ \A e \in Executions : result'[e] = result[e] \/ DraftSent(claim', e, result'[e])

LEMMA ClaimsGoOn ==
    ASSUME DraftInv, \A p \in Pairs : ClaimGoesOn(claim[p], claim'[p]), UNCHANGED result
    PROVE  DraftStep
  BY DEF DraftStep, ClaimGoesOn

LEMMA EndedDraft ==
    ASSUME NEW c \in ClaimRows, c.status = "active", NEW o \in Ended \ {"expired"}
    PROVE  ClaimGoesOn(c, EndClaim(c, o))
  BY DEF EndClaim, NoClaim, ClaimRows, Ended, ClaimGoesOn, Drafted

\* Replacing one claim by one that goes on from it.
LEMMA OneClaimGoesOn ==
    ASSUME DraftInv, NEW p \in Pairs, NEW d, ClaimGoesOn(claim[p], d),
           claim' = [claim EXCEPT ![p] = d]
    PROVE  \A q \in Pairs : ClaimGoesOn(claim[q], claim'[q])
  <1>1. claim \in [Pairs -> ClaimRows]
    BY DEF DraftInv, MatchingInv, Rows, RowTypes
  <1>2. \A q \in Pairs : claim'[q] = IF q = p THEN d ELSE claim[q]
    BY <1>1
  <1>3. \A q \in Pairs : ClaimGoesOn(claim[q], claim[q])
    BY DEF ClaimGoesOn, DraftInv
  <1> QED
    BY <1>2, <1>3

LEMMA UnchangedDrafts ==
    ASSUME DraftInv, UNCHANGED <<claim, result>>
    PROVE  DraftStep
  BY DEF DraftStep, DraftInv

LEMMA TickDrafts ==
    ASSUME DraftInv, Tick
    PROVE  DraftStep
  <1>1. claim \in [Pairs -> ClaimRows]
    BY DEF DraftInv, MatchingInv, Rows, RowTypes
  <1>2. /\ claim' = [p \in Pairs |-> [claim[p] EXCEPT !.skip = Lessen(@), !.lease = Lessen(@)]]
        /\ UNCHANGED result
    BY DEF Tick
  <1>3. ASSUME NEW p \in Pairs
        PROVE  ClaimGoesOn(claim[p], claim'[p])
    <2>1. claim[p] \in ClaimRows /\ Drafted(claim[p])
      BY <1>1 DEF DraftInv
    <2>2. claim'[p] = [claim[p] EXCEPT !.skip = Lessen(@), !.lease = Lessen(@)]
      BY <1>2
    <2> QED
      BY <2>1, <2>2 DEF ClaimRows, ClaimGoesOn, Drafted
  <1> QED
    BY <1>2, <1>3, ClaimsGoOn

LEMMA ReadyDrafts ==
    ASSUME DraftInv, NEW u \in Users, Ready(u)
    PROVE  DraftStep
  <1>1. claim \in [Pairs -> ClaimRows]
    BY DEF DraftInv, MatchingInv, Rows, RowTypes
  <1>2. UNCHANGED result
    BY DEF Ready
  <1>3. \/ UNCHANGED claim
        \/ claim' = [p \in Pairs |->
                        IF p[2] = u /\ claim[p].status = "active"
                        THEN [claim[p] EXCEPT !.lease = ClaimLease] ELSE claim[p]]
    BY DEF Ready
  <1>4. ASSUME NEW p \in Pairs
        PROVE  ClaimGoesOn(claim[p], claim'[p])
    <2>1. claim[p] \in ClaimRows /\ Drafted(claim[p])
      BY <1>1 DEF DraftInv
    <2>2. claim'[p] = claim[p] \/ claim'[p] = [claim[p] EXCEPT !.lease = ClaimLease]
      BY <1>3
    <2> QED
      BY <2>1, <2>2 DEF ClaimRows, ClaimGoesOn, Drafted
  <1> QED
    BY <1>2, <1>4, ClaimsGoOn

LEMMA SaveDraftDrafts ==
    ASSUME DraftInv, NEW u \in Users, NEW e \in Executions, NEW r \in Revisions, SaveDraft(u, e, r)
    PROVE  DraftStep
  <1>1. <<e, u>> \in Pairs
    BY DEF Pairs
  <1>2. claim[<<e, u>>] \in ClaimRows /\ Drafted(claim[<<e, u>>])
    BY <1>1 DEF DraftInv, MatchingInv, Rows, RowTypes
  <1>3. claim[<<e, u>>].status = "active"
    BY DEF SaveDraft, InHand, Active
  <1>4. ClaimGoesOn(claim[<<e, u>>], SavedDraft(claim[<<e, u>>], r))
    BY <1>2, <1>3 DEF SavedDraft, ClaimRows, ClaimGoesOn, Drafted
  <1>5. claim' = [claim EXCEPT ![<<e, u>>] = SavedDraft(claim[<<e, u>>], r)] /\ UNCHANGED result
    BY DEF SaveDraft
  <1>6. \A q \in Pairs : ClaimGoesOn(claim[q], claim'[q])
    BY <1>1, <1>4, <1>5, OneClaimGoesOn
  <1> QED
    BY <1>5, <1>6, ClaimsGoOn

\* A claim in hand ends, and nothing is made of its draft.
LEMMA EndedDrafts ==
    ASSUME DraftInv, NEW e \in Executions, NEW u \in Users, Active(e, u),
           NEW o \in Ended \ {"expired"},
           claim' = [claim EXCEPT ![<<e, u>>] = EndClaim(claim[<<e, u>>], o)]
    PROVE  \A q \in Pairs : ClaimGoesOn(claim[q], claim'[q])
  <1>1. <<e, u>> \in Pairs
    BY DEF Pairs
  <1>2. claim[<<e, u>>] \in ClaimRows /\ claim[<<e, u>>].status = "active"
    BY <1>1 DEF DraftInv, MatchingInv, Rows, RowTypes, Active
  <1>3. ClaimGoesOn(claim[<<e, u>>], EndClaim(claim[<<e, u>>], o))
    BY <1>2, EndedDraft
  <1> QED
    BY <1>1, <1>3, OneClaimGoesOn

LEMMA CancelDrafts ==
    ASSUME DraftInv, NEW e \in Executions, Cancel(e)
    PROVE  DraftStep
  <1>1. UNCHANGED result
    BY DEF Cancel
  <1>2. CASE UNCHANGED claim
    BY <1>1, <1>2, UnchangedDrafts
  <1>3. CASE \E u \in Users : Active(e, u) /\ claim' = [claim EXCEPT ![<<e, u>>] = EndClaim(@, "cancelled")]
    <2>1. PICK u \in Users : Active(e, u) /\ claim' = [claim EXCEPT ![<<e, u>>] = EndClaim(claim[<<e, u>>], "cancelled")]
      BY <1>3
    <2>2. "cancelled" \in Ended \ {"expired"}
      BY DEF Ended
    <2>3. \A q \in Pairs : ClaimGoesOn(claim[q], claim'[q])
      BY <2>1, <2>2, EndedDrafts
    <2> QED
      BY <1>1, <2>3, ClaimsGoOn
  <1> QED
    BY <1>2, <1>3 DEF Cancel

LEMMA ReleaseDrafts ==
    ASSUME DraftInv, NEW u \in Users, NEW e \in Executions, InHand(u, e),
           NEW o \in {"skipped", "declined"}, Release(u, e, o)
    PROVE  DraftStep
  <1>1. claim' = [claim EXCEPT ![<<e, u>>] = EndClaim(claim[<<e, u>>], o)] /\ UNCHANGED result
    BY DEF Release
  <1>2. o \in Ended \ {"expired"} /\ Active(e, u)
    BY DEF Ended, InHand
  <1>3. \A q \in Pairs : ClaimGoesOn(claim[q], claim'[q])
    BY <1>1, <1>2, EndedDrafts
  <1> QED
    BY <1>1, <1>3, ClaimsGoOn

LEMMA AnswerDrafts ==
    ASSUME DraftInv, NEW u \in Users, NEW e \in Executions, Answer(u, e)
    PROVE  DraftStep
  <1>1. /\ claim' = [claim EXCEPT ![<<e, u>>] = EndClaim(claim[<<e, u>>], "answered")]
        /\ result' = [result EXCEPT ![e] = Sent]
    BY DEF Answer
  <1>2. "answered" \in Ended \ {"expired"} /\ Active(e, u)
    BY DEF Ended, Answer, InHand
  <1>3. \A q \in Pairs : ClaimGoesOn(claim[q], claim'[q])
    BY <1>1, <1>2, EndedDrafts
  <1>4. \A f \in Executions : result'[f] = result[f] \/ result'[f] \notin Revisions
    BY <1>1, TermTypes DEF DraftInv, MatchingInv, Rows, RowTypes, Sent
  <1> QED
    BY <1>3, <1>4 DEF DraftStep, ClaimGoesOn, DraftSent

\* The claims a round reconciles, before it makes a new one.
LEMMA ReconciledDrafts ==
    ASSUME DraftInv, NEW lapsed \in SUBSET Pairs, \A p \in lapsed : Lapsed(p),
           NEW C, C = ReconciledClaims(lapsed), NEW p \in Pairs
    PROVE  /\ Drafted(C[p])
           /\ claim[p].status = "answered" => C[p].status = "answered" /\ C[p].revision = claim[p].revision
           /\ C[p].status = "expired" => claim[p].status = "expired" \/ ~Automatic(p)
           /\ p \in lapsed /\ Automatic(p) =>
                 C[p].status = "answered" /\ C[p].revision = claim[p].draft
  <1>1. claim[p] \in ClaimRows /\ Drafted(claim[p])
    BY DEF DraftInv, MatchingInv, Rows, RowTypes
  <1>2. CASE p \notin lapsed
    <2>1. C[p] = claim[p]
      BY <1>2 DEF ReconciledClaims
    <2> QED
      BY <1>1, <1>2, <2>1
  <1>3. CASE p \in lapsed
    <2>1. claim[p].status = "active"
      BY <1>3 DEF Lapsed
    <2>2. C[p] = EndClaim(claim[p], IF Automatic(p) THEN "answered" ELSE "expired")
      BY <1>3 DEF ReconciledClaims
    <2>3. CASE Automatic(p)
      <3>1. C[p] = EndClaim(claim[p], "answered")
        BY <2>2, <2>3
      <3> QED
        BY <1>1, <2>1, <2>3, <3>1 DEF EndClaim, NoClaim, ClaimRows, Drafted
    <2>4. CASE ~Automatic(p)
      <3>1. C[p] = EndClaim(claim[p], "expired")
        BY <2>2, <2>4
      <3> QED
        BY <1>1, <2>1, <2>4, <3>1 DEF EndClaim, NoClaim, ClaimRows, Drafted
    <2> QED
      BY <2>3, <2>4
  <1> QED
    BY <1>2, <1>3

LEMMA MatchDrafts ==
    ASSUME DraftInv, NEW lapsed \in SUBSET Pairs, \A p \in lapsed : Lapsed(p), MatchRound(lapsed)
    PROVE  DraftStep
  <1>1. PICK C : C = ReconciledClaims(lapsed)
    OBVIOUS
  <1>2. PICK A : A = AnsweredBy(lapsed)
    OBVIOUS
  <1>3. \A p \in Pairs :
           /\ Drafted(C[p])
           /\ claim[p].status = "answered" => C[p].status = "answered" /\ C[p].revision = claim[p].revision
           /\ C[p].status = "expired" => claim[p].status = "expired" \/ ~Automatic(p)
           /\ p \in lapsed /\ Automatic(p) =>
                 C[p].status = "answered" /\ C[p].revision = claim[p].draft
    BY <1>1, ReconciledDrafts
  <1>4. C \in [Pairs -> ClaimRows]
    <2>1. claim \in [Pairs -> ClaimRows]
      BY DEF DraftInv, MatchingInv, Rows, RowTypes
    <2> QED
      BY <1>1, <2>1, EndClaimType DEF ReconciledClaims, Ended
  <1>5. \A p \in Pairs : claim'[p] = C[p] \/ (C[p].status = "none" /\ claim'[p] = NewClaim)
    <2>1. \/ claim' = C
          \/ \E m \in Offers(Fresh, C, ReconciledStatus(lapsed)), u \in Users :
                u = Fresh[m[2]].user /\ claim' = [C EXCEPT ![<<m[1], u>>] = NewClaim]
      BY <1>1 DEF MatchRound
    <2>2. ASSUME NEW m \in Offers(Fresh, C, ReconciledStatus(lapsed)), NEW u \in Users,
                 u = Fresh[m[2]].user, claim' = [C EXCEPT ![<<m[1], u>>] = NewClaim],
                 NEW p \in Pairs
          PROVE  claim'[p] = C[p] \/ (C[p].status = "none" /\ claim'[p] = NewClaim)
      <3>1. C[<<m[1], u>>].status = "none"
        BY <2>2 DEF Offers, MayTake
      <3>2. claim'[p] = IF p = <<m[1], u>> THEN NewClaim ELSE C[p]
        BY <1>4, <2>2
      <3> QED
        BY <3>1, <3>2
    <2> QED
      BY <2>1, <2>2
  <1>6. Drafted(NewClaim) /\ NewClaim.status = "active"
    BY DEF NewClaim, NoClaim, Drafted
  <1>7. ASSUME NEW e \in Executions
        PROVE  result'[e] = result[e] \/ DraftSent(claim', e, result'[e])
    <2>1. result'[e] = IF e \in DOMAIN A THEN claim[<<e, A[e]>>].draft ELSE result[e]
      BY <1>2 DEF MatchRound
    <2>2. CASE e \in DOMAIN A
      <3>1. A[e] \in Users /\ <<e, A[e]>> \in lapsed /\ Automatic(<<e, A[e]>>)
        BY <1>2, <2>2, AnsweredByFacts
      <3>2. <<e, A[e]>> \in Pairs
        BY <3>1
      <3>3. C[<<e, A[e]>>].status = "answered" /\ C[<<e, A[e]>>].revision = result'[e]
        BY <1>3, <2>1, <2>2, <3>1, <3>2
      <3>4. claim'[<<e, A[e]>>] = C[<<e, A[e]>>]
        BY <1>5, <3>2, <3>3
      <3>5. result'[e] \notin Blank
        BY <2>1, <2>2, <3>1 DEF Automatic
      <3> QED
        BY <3>1, <3>3, <3>4, <3>5 DEF DraftSent
    <2> QED
      BY <2>1, <2>2
  <1> QED
    BY <1>3, <1>5, <1>6, <1>7 DEF DraftStep

LEMMA StepKeepsDrafts ==
    ASSUME DraftInv, [Next]_vars
    PROVE  DraftStep
  <1>1. CASE UNCHANGED vars
    BY <1>1, UnchangedDrafts DEF vars
  <1>2. CASE Tick
    BY <1>2, TickDrafts
  <1>3. CASE Match
    <2>1. PICK lapsed \in SUBSET Pairs : (\A p \in lapsed : Lapsed(p)) /\ MatchRound(lapsed)
      BY <1>3 DEF Match
    <2> QED
      BY <2>1, MatchDrafts
  <1>4. ASSUME NEW u \in Users,
               \/ Ready(u) \/ Stop(u)
               \/ \E rank \in RanksSeen : SetRank(u, rank)
               \/ BeginCall(u) \/ Refuse(u)
        PROVE  DraftStep
    <2>1. CASE Ready(u)
      BY <2>1, ReadyDrafts
    <2>2. CASE Stop(u)
      BY <2>2, UnchangedDrafts DEF Stop
    <2>3. CASE \E rank \in RanksSeen : SetRank(u, rank)
      BY <2>3, UnchangedDrafts DEF SetRank
    <2>4. CASE BeginCall(u)
      BY <2>4, UnchangedDrafts DEF BeginCall
    <2>5. CASE Refuse(u)
      BY <2>5, UnchangedDrafts DEF Refuse
    <2> QED
      BY <1>4, <2>1, <2>2, <2>3, <2>4, <2>5
  <1>5. ASSUME NEW u \in Users, NEW e \in Executions,
               \/ Skip(u, e) \/ Decline(u, e) \/ Answer(u, e)
               \/ \E r \in Revisions : SaveDraft(u, e, r)
        PROVE  DraftStep
    <2>1. CASE Skip(u, e)
      BY <2>1, ReleaseDrafts DEF Skip
    <2>2. CASE Decline(u, e)
      BY <2>2, ReleaseDrafts DEF Decline
    <2>3. CASE Answer(u, e)
      BY <2>3, AnswerDrafts
    <2>4. CASE \E r \in Revisions : SaveDraft(u, e, r)
      BY <2>4, SaveDraftDrafts
    <2> QED
      BY <1>5, <2>1, <2>2, <2>3, <2>4
  <1>6. ASSUME NEW e \in Executions, Ask(e) \/ Cancel(e) \/ Evaluate(e)
        PROVE  DraftStep
    <2>1. CASE Ask(e)
      BY <2>1, UnchangedDrafts DEF Ask
    <2>2. CASE Cancel(e)
      BY <2>2, CancelDrafts
    <2>3. CASE Evaluate(e)
      BY <2>3, UnchangedDrafts DEF Evaluate
    <2> QED
      BY <1>6, <2>1, <2>2, <2>3
  <1> QED
    BY <1>1, <1>2, <1>3, <1>4, <1>5, <1>6 DEF Next

LEMMA DraftInvHolds == Spec => []DraftInv
  <1>1. Init => DraftInv
    <2> SUFFICES ASSUME Init PROVE DraftInv
      OBVIOUS
    <2>1. \A p \in Pairs : Drafted(claim[p])
      BY DEF Init, NoClaim, Drafted
    <2>2. \A e \in Executions : DraftSent(claim, e, result[e])
      BY TermTypes DEF Init, DraftSent, Unanswered
    <2> QED
      BY <2>1, <2>2, InitRows DEF DraftInv
  <1>2. DraftInv /\ [Next]_vars => DraftInv'
    <2> SUFFICES ASSUME DraftInv, [Next]_vars PROVE DraftInv'
      OBVIOUS
    <2>1. MatchingInv'
      BY StepKeepsRows DEF DraftInv
    <2>2. DraftStep
      BY StepKeepsDrafts
    <2>3. ASSUME NEW e \in Executions, result'[e] = result[e]
          PROVE  DraftSent(claim', e, result'[e])
      <3>1. DraftSent(claim, e, result[e])
        BY DEF DraftInv
      <3>2. \A u \in Users : <<e, u>> \in Pairs
        BY DEF Pairs
      <3> QED
        BY <2>2, <2>3, <3>1, <3>2 DEF DraftSent, DraftStep
    <2> QED
      BY <2>1, <2>2, <2>3 DEF DraftInv, DraftStep
  <1> QED
    BY <1>1, <1>2, PTL DEF Spec

\* What is sent in a human's name is the newest text that was acknowledged, for any order
\* in which drafts arrive and any time at which the claim lapses.
THEOREM NewestDraftIsSentHolds == Spec => []NewestDraftIsSent
  <1>1. DraftInv => NewestDraftIsSent
    BY DEF DraftInv, DraftSent, NewestDraftIsSent
  <1> QED
    BY <1>1, DraftInvHolds, PTL

\* No claim whose deadline has passed expires while it holds a text that was acknowledged:
\* the system answers with it.
THEOREM DraftOutlivesDeadlineHolds == Spec => DraftOutlivesDeadline
  <1>1. DraftInv /\ [Next]_vars =>
           [\A p \in Pairs :
               left[p[1]] = 0 /\ claim[p].draft \in Revisions \ Blank =>
                   claim'[p].status # "expired"]_vars
    <2> SUFFICES ASSUME DraftInv, [Next]_vars, NEW p \in Pairs,
                        left[p[1]] = 0, claim[p].draft \in Revisions \ Blank
                 PROVE  claim'[p].status # "expired"
      OBVIOUS
    <2>1. claim[p].draft # 0
      BY TermTypes
    <2>2. Automatic(p)
      BY <2>1 DEF Automatic
    <2>3. claim[p].status # "expired"
      BY <2>1 DEF DraftInv, Drafted
    <2> QED
      BY <2>2, <2>3, StepKeepsDrafts DEF DraftStep
  <1> QED
    BY <1>1, DraftInvHolds, PTL DEF Spec, DraftOutlivesDeadline

---------------------------------------------------------------------------
(* Conditions *)

\* Answerers and efforts in order: what a rank or an answerer allows is a beginning of it.
First(order, k) == {order[i] : i \in 1..k}

LEMMA Orders ==
    /\ DOMAIN AnswererOrder = 1..3 /\ DOMAIN EffortOrder = 1..4
    /\ \A i, j \in 1..3 : AnswererOrder[i] = AnswererOrder[j] => i = j
    /\ \A i, j \in 1..4 : EffortOrder[i] = EffortOrder[j] => i = j
    /\ Answerers = {"human-lite", "human-standard", "human-pro"}
    /\ Answerers = First(AnswererOrder, 3)
    /\ Efforts = First(EffortOrder, 4)
  <1>1. DOMAIN AnswererOrder = 1..3 /\ DOMAIN EffortOrder = 1..4
    BY DEF AnswererOrder, EffortOrder
  <1>2. /\ AnswererOrder[1] = "human-lite" /\ AnswererOrder[2] = "human-standard"
        /\ AnswererOrder[3] = "human-pro"
    BY DEF AnswererOrder
  <1>3. /\ EffortOrder[1] = "low" /\ EffortOrder[2] = "medium"
        /\ EffortOrder[3] = "high" /\ EffortOrder[4] = "xhigh"
    BY DEF EffortOrder
  <1>4. \A i \in 1..3 : i = 1 \/ i = 2 \/ i = 3
    OBVIOUS
  <1>5. \A i \in 1..4 : i = 1 \/ i = 2 \/ i = 3 \/ i = 4
    OBVIOUS
  <1>6. \A i, j \in 1..3 : AnswererOrder[i] = AnswererOrder[j] => i = j
    BY <1>2, <1>4
  <1>7. \A i, j \in 1..4 : EffortOrder[i] = EffortOrder[j] => i = j
    BY <1>3, <1>5
  <1>8. Answerers = First(AnswererOrder, 3) /\ Efforts = First(EffortOrder, 4)
    BY <1>1 DEF Answerers, Efforts, ToSet, First
  <1>9. Answerers = {"human-lite", "human-standard", "human-pro"}
    BY <1>2, <1>4, <1>8 DEF First
  <1> QED
    BY <1>1, <1>6, <1>7, <1>8, <1>9

LEMMA Required ==
    /\ RequiredRank("human-lite") = 1 /\ RequiredRank("human-standard") = 2
    /\ RequiredRank("human-pro") = 3
    /\ \A r \in Ranks : Available(r) = First(AnswererOrder, r) /\ AnswererForRank(r) \in Available(r)
  <1>1. /\ AnswererOrder[1] = "human-lite" /\ AnswererOrder[2] = "human-standard"
        /\ AnswererOrder[3] = "human-pro"
    BY DEF AnswererOrder
  <1>2. \A r \in Ranks : r = 1 \/ r = 2 \/ r = 3
    BY DEF Ranks
  <1>3. \A r \in Ranks : r \in 1..3
    BY DEF Ranks
  <1>4. \A i \in 1..3 : i \in Ranks /\ RequiredRank(AnswererOrder[i]) = i
    BY Orders DEF RequiredRank, Ranks
  <1>5. ASSUME NEW r \in Ranks
        PROVE  Available(r) = First(AnswererOrder, r)
    <2>1. First(AnswererOrder, r) \subseteq Available(r)
      <3>1. ASSUME NEW i \in 1..r
            PROVE  AnswererOrder[i] \in Available(r)
        <4>1. i \in 1..3
          BY <1>3
        <4> QED
          BY <1>4, <4>1, Orders DEF Available, First
      <3> QED
        BY <3>1 DEF First
    <2>2. Available(r) \subseteq First(AnswererOrder, r)
      BY <1>3, <1>4, Orders DEF Available, First
    <2> QED
      BY <2>1, <2>2
  <1>6. \A r \in Ranks : AnswererForRank(r) \in First(AnswererOrder, r)
    BY <1>3 DEF AnswererForRank, First
  <1>7. 1 \in 1..3 /\ 2 \in 1..3 /\ 3 \in 1..3
    OBVIOUS
  <1> QED
    BY <1>1, <1>4, <1>5, <1>6, <1>7

\* What is left of a range within a beginning of the order is a range, or nothing.
LEMMA CutRange ==
    ASSUME NEW n \in Nat, NEW order, DOMAIN order = 1..n,
           \A i, j \in 1..n : order[i] = order[j] => i = j,
           NEW S, IsRange(S, order), NEW k \in 1..n, S \cap First(order, k) # {}
    PROVE  IsRange(S \cap First(order, k), order)
  <1>1. PICK lower \in 1..n, upper \in 1..n : lower <= upper /\ S = {order[i] : i \in lower..upper}
    BY DEF IsRange
  <1>2. PICK last \in 1..n : last = IF upper <= k THEN upper ELSE k
    OBVIOUS
  <1>3. \A i \in lower..upper : i \in 1..n
    BY <1>1
  <1>4. \A i \in 1..k : i \in 1..n
    OBVIOUS
  <1>5. S \cap First(order, k) = {order[i] : i \in lower..last}
    BY <1>1, <1>2, <1>3, <1>4 DEF First
  <1>6. lower <= last
    BY <1>5
  <1> QED
    BY <1>2, <1>5, <1>6 DEF IsRange

\* What answerers support: the more, the higher they are.
LEMMA Supported ==
    /\ SupportedEfforts("human-lite") = First(EffortOrder, 1)
    /\ SupportedEfforts("human-standard") = First(EffortOrder, 3)
    /\ SupportedEfforts("human-pro") = First(EffortOrder, 4)
  <1>1. /\ EffortOrder[1] = "low" /\ EffortOrder[2] = "medium"
        /\ EffortOrder[3] = "high" /\ EffortOrder[4] = "xhigh"
    BY DEF EffortOrder
  <1>2. /\ SupportedEfforts("human-lite") = {"low"}
        /\ SupportedEfforts("human-standard") = {"low", "medium", "high"}
        /\ SupportedEfforts("human-pro") = Efforts
    <2>1. SupportedEfforts("human-lite") = {"low"}
      BY Zenon DEF SupportedEfforts
    <2>2. SupportedEfforts("human-standard") = {"low", "medium", "high"}
      BY Zenon DEF SupportedEfforts
    <2>3. SupportedEfforts("human-pro") = Efforts
      BY Zenon DEF SupportedEfforts
    <2> QED
      BY <2>1, <2>2, <2>3
  <1>3. \A i \in 1..1 : i = 1
    OBVIOUS
  <1>4. \A i \in 1..3 : i = 1 \/ i = 2 \/ i = 3
    OBVIOUS
  <1> QED
    BY <1>1, <1>2, <1>3, <1>4, Orders DEF First

LEMMA SupportedTogether ==
    ASSUME NEW A \in SUBSET Answerers, A # {}
    PROVE  \E k \in 1..4 : UNION {SupportedEfforts(a) : a \in A} = First(EffortOrder, k)
  <1>1. \A j, k \in 1..4 : j <= k => First(EffortOrder, j) \subseteq First(EffortOrder, k)
    BY DEF First
  <1>2. /\ First(EffortOrder, 1) \subseteq First(EffortOrder, 3)
        /\ First(EffortOrder, 3) \subseteq First(EffortOrder, 4)
        /\ First(EffortOrder, 1) \subseteq First(EffortOrder, 4)
    BY <1>1
  <1>3. CASE "human-pro" \in A
    <2>1. UNION {SupportedEfforts(a) : a \in A} = First(EffortOrder, 4)
      BY <1>2, <1>3, Orders, Supported
    <2> QED
      BY <2>1
  <1>4. CASE "human-pro" \notin A /\ "human-standard" \in A
    <2>1. UNION {SupportedEfforts(a) : a \in A} = First(EffortOrder, 3)
      BY <1>2, <1>4, Orders, Supported
    <2> QED
      BY <2>1
  <1>5. CASE "human-pro" \notin A /\ "human-standard" \notin A
    <2>1. A = {"human-lite"}
      <3>1. \A a \in A : a = "human-lite"
        BY <1>5, Orders
      <3> QED
        BY <3>1
    <2>2. UNION {SupportedEfforts(a) : a \in A} = First(EffortOrder, 1)
      BY <2>1, Supported
    <2> QED
      BY <2>2
  <1> QED
    BY <1>3, <1>4, <1>5

LEMMA SingleRange ==
    ASSUME NEW n \in Nat, NEW order, DOMAIN order = 1..n, NEW i \in 1..n
    PROVE  IsRange({order[i]}, order)
  <1>1. PICK x : x = order[i]
    OBVIOUS
  <1>2. \A j \in i..i : j = i
    OBVIOUS
  <1>3. \A y : y \in {order[j] : j \in i..i} <=> y = x
    BY <1>1, <1>2
  <1>4. {x} = {order[j] : j \in i..i}
    BY <1>3
  <1>5. \E lower, upper \in 1..n : lower <= upper /\ {x} = {order[j] : j \in lower..upper}
    <2>1. i <= i
      OBVIOUS
    <2> QED
      BY <1>4, <2>1, Zenon
  <1> QED
    BY <1>1, <1>5, Zenon DEF IsRange

LEMMA DefaultIsValid == DefaultConditions \in Conditions /\ ValidConditions(DefaultConditions, 1)
  <1>1. AnswererOrder[1] = "human-lite" /\ EffortOrder[1] = "low"
    BY DEF AnswererOrder, EffortOrder
  <1>2. IsRange({"human-lite"}, AnswererOrder) /\ IsRange({"low"}, EffortOrder)
    <2>1. \A i \in 1..3 : IsRange({AnswererOrder[i]}, AnswererOrder)
      BY Orders, SingleRange
    <2>2. \A i \in 1..4 : IsRange({EffortOrder[i]}, EffortOrder)
      BY Orders, SingleRange
    <2>3. 1 \in 1..3 /\ 1 \in 1..4
      OBVIOUS
    <2> QED
      BY <1>1, <2>1, <2>2, <2>3, Zenon
  <1>3. "human-lite" \in First(AnswererOrder, 1) /\ "low" \in First(EffortOrder, 1)
    BY <1>1 DEF First
  <1>4. "human-lite" \in Available(1)
    BY <1>3, Required DEF Ranks
  <1>5. "low" \in SupportedEfforts("human-lite")
    BY <1>3, Supported
  <1>6. "low" \in Efforts
    BY <1>1, Orders DEF First
  <1> QED
    BY <1>2, <1>4, <1>5, <1>6, Orders DEF DefaultConditions, Conditions, ValidConditions

\* Conditions that were valid at some rank are valid again once they are clamped to another.
LEMMA ClampIsValid ==
    ASSUME NEW c \in Conditions, NEW r \in Ranks, ValidConditions(c, r), NEW rank \in Ranks
    PROVE  Clamp(c, rank) \in Conditions /\ ValidConditions(Clamp(c, rank), rank)
  <1>1. PICK kept : kept = c.answerers \cap Available(rank)
    OBVIOUS
  <1>2. PICK A : A = IF kept = {} THEN {AnswererForRank(rank)} ELSE kept
    OBVIOUS
  <1>3. PICK U : U = UNION {SupportedEfforts(a) : a \in A}
    OBVIOUS
  <1>4. PICK E : E = c.efforts \cap U
    OBVIOUS
  <1>5. PICK highest : highest = CHOOSE a \in A : \A b \in A : RequiredRank(b) <= RequiredRank(a)
    OBVIOUS
  <1>6. PICK F : F = IF E = {} THEN {DefaultEffort(highest)} ELSE E
    OBVIOUS
  <1>7. Clamp(c, rank) = [answerers |-> A, efforts |-> F]
    BY <1>1, <1>2, <1>3, <1>4, <1>5, <1>6 DEF Clamp
  <1>8. c.answerers \in SUBSET Answerers /\ c.efforts \in SUBSET Efforts
    BY DEF Conditions
  <1>9. rank \in 1..3 /\ Available(rank) = First(AnswererOrder, rank)
        /\ AnswererForRank(rank) \in Available(rank)
        /\ Available(rank) \subseteq Answerers
    BY Required DEF Ranks, Available
  <1>10. /\ IsRange(c.answerers, AnswererOrder) /\ IsRange(c.efforts, EffortOrder)
         /\ \A a \in c.answerers : SupportedEfforts(a) \cap c.efforts # {}
    BY DEF ValidConditions
  <1>11. A # {} /\ A \subseteq Available(rank) /\ A \in SUBSET Answerers
    BY <1>1, <1>2, <1>9
  <1>12. IsRange(A, AnswererOrder)
    <2>1. CASE kept # {}
      BY <1>1, <1>2, <1>9, <1>10, <2>1, CutRange, Orders
    <2>2. CASE kept = {}
      <3>1. A = {AnswererOrder[rank]}
        BY <1>2, <2>2 DEF AnswererForRank
      <3> QED
        BY <1>9, <3>1, SingleRange, Orders
    <2> QED
      BY <2>1, <2>2
  <1>13. PICK k \in 1..4 : U = First(EffortOrder, k)
    BY <1>3, <1>11, SupportedTogether
  <1>14. CASE E # {}
    <2>1. F = E /\ IsRange(F, EffortOrder)
      BY <1>4, <1>6, <1>10, <1>13, <1>14, CutRange, Orders
    <2>2. F \subseteq U /\ F \in SUBSET Efforts
      BY <1>4, <1>8, <2>1
    <2>3. \A a \in A : SupportedEfforts(a) \cap F # {}
      <3>1. CASE kept # {}
        <4>1. \A a \in A : SupportedEfforts(a) \cap c.efforts # {} /\ SupportedEfforts(a) \subseteq U
          BY <1>1, <1>2, <1>3, <1>10, <3>1
        <4> QED
          BY <1>4, <2>1, <4>1
      <3>2. CASE kept = {}
        <4>1. \A a \in A : U = SupportedEfforts(a)
          BY <1>2, <1>3, <3>2
        <4> QED
          BY <1>14, <2>1, <2>2, <4>1
      <3> QED
        BY <3>1, <3>2
    <2> QED
      BY <1>3, <1>7, <1>11, <1>12, <2>1, <2>2, <2>3 DEF Conditions, ValidConditions
  <1>15. CASE E = {}
    <2>1. kept = {}
      <3> SUFFICES ASSUME NEW a \in kept PROVE FALSE
        OBVIOUS
      <3>1. a \in A /\ SupportedEfforts(a) \cap c.efforts # {} /\ SupportedEfforts(a) \subseteq U
        BY <1>1, <1>2, <1>3, <1>10
      <3> QED
        BY <1>4, <1>15, <3>1
    <2>2. A = {AnswererForRank(rank)} /\ highest = AnswererForRank(rank)
      <3>1. A = {AnswererForRank(rank)}
        BY <1>2, <2>1
      <3>2. RequiredRank(AnswererForRank(rank)) <= RequiredRank(AnswererForRank(rank))
        BY <1>9, Orders, Required DEF Available
      <3> QED
        BY <1>5, <3>1, <3>2
    <2>3. F = {DefaultEffort(highest)} /\ U = SupportedEfforts(highest) /\ highest \in Answerers
      BY <1>3, <1>6, <1>11, <1>15, <2>2
    <2>4. \E i \in 1..4 : DefaultEffort(highest) = EffortOrder[i]
      <3>1. "low" = EffortOrder[1] /\ "medium" = EffortOrder[2]
        BY DEF EffortOrder
      <3> QED
        BY <3>1 DEF DefaultEffort
    <2>5. DefaultEffort(highest) \in SupportedEfforts(highest)
      <3>1. "low" = EffortOrder[1] /\ "medium" = EffortOrder[2]
        BY DEF EffortOrder
      <3>2. "low" \in First(EffortOrder, 1) /\ "medium" \in First(EffortOrder, 3) /\ "medium" \in First(EffortOrder, 4)
        BY <3>1 DEF First
      <3> QED
        BY <2>3, <3>2, Orders, Supported DEF DefaultEffort
    <2>6. IsRange(F, EffortOrder)
      BY <2>3, <2>4, SingleRange, Orders
    <2>7. F \in SUBSET Efforts
      BY <2>3, <2>4, Orders DEF First
    <2>8. \A a \in A : SupportedEfforts(a) \cap F # {}
      BY <2>2, <2>3, <2>5
    <2>9. F \subseteq U
      BY <2>3, <2>5
    <2> QED
      BY <1>3, <1>7, <1>11, <1>12, <2>6, <2>7, <2>8, <2>9 DEF Conditions, ValidConditions
  <1> QED
    BY <1>14, <1>15

---------------------------------------------------------------------------
(* The line *)

Entries == [user : Users, rank : Ranks, seen : Nat]

\* Who waits does so once and is none of those with a claim in hand; his entry has his rank.
GoodLine(ln, ranks, hands) ==
    /\ ln \in Seq(Entries)
    /\ \A i, j \in DOMAIN ln : ln[i].user = ln[j].user => i = j
    /\ \A i \in DOMAIN ln : ln[i].user \notin hands /\ ln[i].rank = ranks[ln[i].user]

LEMMA LineType ==
    ASSUME NEW ln, NEW ranks, NEW hands, GoodLine(ln, ranks, hands)
    PROVE  \E n \in Nat : /\ n = Len(ln) /\ DOMAIN ln = 1..n
                          /\ \A i \in 1..n : /\ ln[i] \in Entries /\ ln[i].user \in Users
                                             /\ ln[i].rank \in Ranks /\ ln[i].seen \in Nat
  <1>1. ln \in Seq(Entries)
    BY DEF GoodLine
  <1>2. Len(ln) \in Nat /\ DOMAIN ln = 1..Len(ln) /\ \A i \in 1..Len(ln) : ln[i] \in Entries
    BY <1>1, LenProperties
  <1> QED
    BY <1>2 DEF Entries

\* Some entries of a line, in the order they had.
LEMMA LineKept ==
    ASSUME NEW ln, NEW ranks, NEW hands, GoodLine(ln, ranks, hands), NEW places
    PROVE  /\ GoodLine(Kept(ln, places), ranks, hands)
           /\ \A i \in DOMAIN Kept(ln, places) :
                 \E j \in DOMAIN ln \cap places : Kept(ln, places)[i] = ln[j]
  <1>1. ln \in Seq(Entries)
    BY DEF GoodLine
  <1>2. Kept(ln, places) \in Seq(Entries)
    BY <1>1, KeptEntries
  <1>3. PICK from : KeptFrom(Kept(ln, places), from, ln, DOMAIN ln \cap places)
    BY <1>1, KeptEntries
  <1>4. PICK kept : kept = Kept(ln, places)
    OBVIOUS
  <1>5. DOMAIN kept = 1..Len(kept)
    BY <1>2, <1>4, LenProperties
  <1>6. /\ \A i \in DOMAIN kept : from[i] \in DOMAIN ln \cap places /\ kept[i] = ln[from[i]]
        /\ \A i, j \in DOMAIN kept : from[i] = from[j] => i = j
    BY <1>3, <1>4, <1>5 DEF KeptFrom
  <1>7. GoodLine(kept, ranks, hands)
    BY <1>2, <1>4, <1>6 DEF GoodLine
  <1> QED
    BY <1>4, <1>6, <1>7

LEMMA LineWithout ==
    ASSUME NEW ln, NEW ranks, NEW hands, GoodLine(ln, ranks, hands), NEW u
    PROVE  GoodLine(Without(ln, u), ranks, hands \cup {u})
  <1>1. PICK kept : kept = Without(ln, u)
    OBVIOUS
  <1>2. /\ GoodLine(kept, ranks, hands)
        /\ \A i \in DOMAIN kept : \E j \in DOMAIN ln : ln[j].user # u /\ kept[i] = ln[j]
    BY <1>1, LineKept DEF Without
  <1> QED
    BY <1>1, <1>2 DEF GoodLine

LEMMA LineFewer ==
    ASSUME NEW ln, NEW ranks, NEW hands, GoodLine(ln, ranks, hands), NEW fewer \in SUBSET hands
    PROVE  GoodLine(ln, ranks, fewer)
  BY DEF GoodLine

\* Other instants, or other ranks.
LEMMA LineChanged ==
    ASSUME NEW ln, NEW ranks, NEW hands, GoodLine(ln, ranks, hands),
           NEW later, NEW newRanks, DOMAIN later = DOMAIN ln,
           later = [i \in DOMAIN ln |-> later[i]],
           \A i \in DOMAIN ln :
              /\ later[i] \in Entries /\ later[i].user = ln[i].user
              /\ later[i].rank = newRanks[ln[i].user]
    PROVE  GoodLine(later, newRanks, hands)
  <1>1. PICK n \in Nat : DOMAIN ln = 1..n
    BY LineType
  <1>2. later \in [1..n -> Entries]
    BY <1>1
  <1>3. later \in Seq(Entries)
    BY <1>2, SeqDef
  <1> QED
    BY <1>3 DEF GoodLine

LEMMA LineTermTypes == /\ WaitLease \in Nat /\ \A r \in RanksSeen : r \in Ranks
                       /\ \A c \in ChosenConditions : c \in Conditions
  BY MatchingAssumption

\* Who has a rank and has nothing in hand, or not any more, joins the line.
LEMMA LineEnsured ==
    ASSUME NEW ln, NEW ranks, NEW hands, GoodLine(ln, ranks, hands),
           NEW u \in Users, ranks[u] \in Ranks
    PROVE  GoodLine(EnsureWaiting(ln, u, ranks[u]), ranks, hands \ {u})
  <1>1. PICK n \in Nat : /\ n = Len(ln) /\ DOMAIN ln = 1..n
                         /\ \A i \in 1..n : /\ ln[i] \in Entries /\ ln[i].user \in Users
                                            /\ ln[i].rank \in Ranks /\ ln[i].seen \in Nat
    BY LineType
  <1>2. CASE \E i \in DOMAIN ln : ln[i].user = u /\ ln[i].seen > 0
    <2>1. PICK later : later = [i \in DOMAIN ln |-> IF ln[i].user = u THEN [ln[i] EXCEPT !.seen = WaitLease]
                                                    ELSE ln[i]]
      OBVIOUS
    <2>2. later = EnsureWaiting(ln, u, ranks[u])
      BY <1>2, <2>1 DEF EnsureWaiting
    <2>3. DOMAIN later = DOMAIN ln /\ later = [i \in DOMAIN ln |-> later[i]]
      BY <2>1
    <2>4. \A i \in DOMAIN ln : /\ later[i] \in Entries /\ later[i].user = ln[i].user
                               /\ later[i].rank = ranks[ln[i].user]
      BY <1>1, <2>1, LineTermTypes DEF Entries, GoodLine
    <2>5. GoodLine(later, ranks, hands)
      BY <2>3, <2>4, LineChanged
    <2> QED
      BY <2>2, <2>5, LineFewer
  <1>3. CASE ~ \E i \in DOMAIN ln : ln[i].user = u /\ ln[i].seen > 0
    <2>1. PICK others : others = Without(ln, u)
      OBVIOUS
    <2>2. PICK entry : entry = [user |-> u, rank |-> ranks[u], seen |-> WaitLease]
      OBVIOUS
    <2>3. EnsureWaiting(ln, u, ranks[u]) = Append(others, entry)
      BY <1>3, <2>1, <2>2, Zenon DEF EnsureWaiting
    <2>4. GoodLine(others, ranks, hands \cup {u})
      BY <2>1, LineWithout
    <2>5. PICK m \in Nat : m = Len(others) /\ DOMAIN others = 1..m
      BY <2>4, LineType
    <2>6. entry \in Entries /\ entry.user = u /\ entry.rank = ranks[u]
      BY <2>2, LineTermTypes DEF Entries
    <2>7. PICK later : later = Append(others, entry)
      OBVIOUS
    <2>8. others \in Seq(Entries)
      BY <2>4 DEF GoodLine
    <2>9. /\ later \in Seq(Entries) /\ Len(later) = m + 1 /\ later[m + 1] = entry
          /\ \A i \in 1..m : later[i] = others[i]
      BY <2>5, <2>6, <2>7, <2>8, AppendProperties
    <2>10. DOMAIN later = 1..(m + 1)
      BY <2>9, LenProperties
    <2>11. \A i \in 1..(m + 1) : i = m + 1 \/ i \in 1..m
      OBVIOUS
    <2>12. /\ \A i, j \in 1..m : others[i].user = others[j].user => i = j
           /\ \A i \in 1..m : /\ others[i].user \notin hands /\ others[i].user # u
                              /\ others[i].rank = ranks[others[i].user]
      BY <2>4, <2>5 DEF GoodLine
    <2>13. GoodLine(later, ranks, hands \ {u})
      <3>1. \A i, j \in 1..(m + 1) : later[i].user = later[j].user => i = j
        BY <2>6, <2>9, <2>11, <2>12
      <3>2. \A i \in 1..(m + 1) : later[i].user \notin hands \ {u} /\ later[i].rank = ranks[later[i].user]
        BY <2>6, <2>9, <2>11, <2>12
      <3> QED
        BY <2>9, <2>10, <3>1, <3>2 DEF GoodLine
    <2> QED
      BY <2>3, <2>7, <2>13
  <1> QED
    BY <1>2, <1>3

---------------------------------------------------------------------------
(* Profiles *)

GoodProfiles ==
    {NoProfile} \cup {p \in [rank : Ranks, accepted : Conditions] : ValidConditions(p.accepted, p.rank)}

RanksOf(profiles) == [u \in Users |-> profiles[u].rank]
InHands(claims) == {u \in Users : \E e \in Executions : claims[<<e, u>>].status = "active"}

\* Who had a rank keeps one.
StillRanked(profiles, later) ==
    /\ later \in [Users -> GoodProfiles]
    /\ \A u \in Users : profiles[u].rank \in Ranks => later[u].rank \in Ranks

\* The inductive invariant.
LinePart(profiles, ln, claims) ==
    /\ profiles \in [Users -> GoodProfiles]
    /\ GoodLine(ln, RanksOf(profiles), InHands(claims))
    /\ \A u \in InHands(claims) : profiles[u].rank \in Ranks

LineInv == MatchingInv /\ LinePart(profile, line, claim)

LEMMA ProfileTypes ==
    /\ \A p \in GoodProfiles : \/ p = NoProfile /\ p.rank = 0 /\ p.accepted = DefaultConditions
                               \/ /\ p.rank \in Ranks /\ p.accepted \in Conditions
                                  /\ ValidConditions(p.accepted, p.rank)
    /\ NoProfile \in GoodProfiles
    /\ \A r \in Ranks, c \in Conditions :
          ValidConditions(c, r) => [rank |-> r, accepted |-> c] \in GoodProfiles
    /\ 0 \notin Ranks
  <1>1. NoProfile.rank = 0 /\ NoProfile.accepted = DefaultConditions
    BY DEF NoProfile
  <1>2. 0 \notin Ranks
    BY DEF Ranks
  <1>3. \A r \in Ranks, c \in Conditions :
           /\ [rank |-> r, accepted |-> c] \in [rank : Ranks, accepted : Conditions]
           /\ [rank |-> r, accepted |-> c].rank = r /\ [rank |-> r, accepted |-> c].accepted = c
    OBVIOUS
  <1> QED
    BY <1>1, <1>2, <1>3 DEF GoodProfiles

\* Conditions that are clamped to a new rank are valid for it.
LEMMA RerankedProfile ==
    ASSUME profile \in [Users -> GoodProfiles], NEW u \in Users, NEW r \in Ranks
    PROVE  Reranked(u, r) \in GoodProfiles /\ Reranked(u, r).rank = r
  <1>1. PICK c : c = profile[u].accepted
    OBVIOUS
  <1>2. c \in Conditions /\ \E s \in Ranks : ValidConditions(c, s)
    <2>1. CASE profile[u].rank \in Ranks
      BY <1>1, <2>1, ProfileTypes
    <2>2. CASE profile[u] = NoProfile
      <3>1. c = DefaultConditions
        BY <1>1, <2>2 DEF NoProfile
      <3>2. 1 \in Ranks
        BY DEF Ranks
      <3> QED
        BY <3>1, <3>2, DefaultIsValid
    <2> QED
      BY <2>1, <2>2, ProfileTypes
  <1>3. Clamp(c, r) \in Conditions /\ ValidConditions(Clamp(c, r), r)
    BY <1>2, ClampIsValid
  <1>4. Reranked(u, r) = [rank |-> r, accepted |-> Clamp(c, r)]
    BY <1>1, Zenon DEF Reranked
  <1> QED
    BY <1>3, <1>4, ProfileTypes

LEMMA RecalculatedProfiles ==
    ASSUME profile \in [Users -> GoodProfiles], NEW users \in SUBSET Users,
           NEW ranks \in Recalculations(users), NEW ln, Recalculate(ranks, ln)
    PROVE  StillRanked(profile, profile')
  <1>1. DOMAIN ranks = users /\ \A u \in users : ranks[u] \in Ranks
    BY LineTermTypes DEF Recalculations
  <1>2. profile' = [u \in Users |-> IF u \in DOMAIN ranks /\ ranks[u] # profile[u].rank
                                    THEN Reranked(u, ranks[u]) ELSE profile[u]]
    BY DEF Recalculate
  <1>3. \A u \in Users : profile'[u] \in GoodProfiles
                         /\ (profile[u].rank \in Ranks => profile'[u].rank \in Ranks)
    <2> SUFFICES ASSUME NEW u \in Users
                 PROVE  profile'[u] \in GoodProfiles
                        /\ (profile[u].rank \in Ranks => profile'[u].rank \in Ranks)
      OBVIOUS
    <2>1. CASE u \in DOMAIN ranks /\ ranks[u] # profile[u].rank
      <3>1. profile'[u] = Reranked(u, ranks[u])
        BY <1>2, <2>1
      <3>2. ranks[u] \in Ranks
        BY <1>1, <2>1
      <3> QED
        BY <3>1, <3>2, RerankedProfile
    <2>2. CASE ~(u \in DOMAIN ranks /\ ranks[u] # profile[u].rank)
      BY <1>2, <2>2
    <2> QED
      BY <2>1, <2>2
  <1> QED
    BY <1>2, <1>3 DEF StillRanked

LEMMA HandsAsBefore ==
    ASSUME NEW claims, NEW later,
           \A p \in Pairs : later[p].status = "active" => claims[p].status = "active"
    PROVE  InHands(later) \subseteq InHands(claims)
  BY DEF InHands, Pairs

---------------------------------------------------------------------------
(* Steps *)

\* Every entry takes the rank its user has now.
LEMMA LineReranked ==
    ASSUME NEW ln, NEW profiles, NEW hands, GoodLine(ln, RanksOf(profiles), hands),
           NEW later, StillRanked(profiles, later)
    PROVE  GoodLine(LineRanked(ln, later), RanksOf(later), hands)
  <1>1. PICK n \in Nat : /\ n = Len(ln) /\ DOMAIN ln = 1..n
                         /\ \A i \in 1..n : /\ ln[i] \in Entries /\ ln[i].user \in Users
                                            /\ ln[i].rank \in Ranks /\ ln[i].seen \in Nat
    BY LineType
  <1>2. PICK new : new = LineRanked(ln, later)
    OBVIOUS
  <1>3. new = [i \in DOMAIN ln |-> [ln[i] EXCEPT !.rank = later[ln[i].user].rank]]
    BY <1>2 DEF LineRanked
  <1>4. \A i \in DOMAIN ln : later[ln[i].user].rank \in Ranks
    BY <1>1 DEF StillRanked, GoodLine, RanksOf
  <1>5. \A i \in DOMAIN ln : /\ new[i] \in Entries /\ new[i].user = ln[i].user
                             /\ new[i].rank = RanksOf(later)[ln[i].user]
    BY <1>1, <1>3, <1>4 DEF Entries, RanksOf
  <1>6. DOMAIN new = DOMAIN ln /\ new = [i \in DOMAIN ln |-> new[i]]
    BY <1>3
  <1>7. GoodLine(new, RanksOf(later), hands)
    BY <1>5, <1>6, LineChanged
  <1> QED
    BY <1>2, <1>7

LEMMA SameRanksLine ==
    ASSUME NEW ln, NEW ranks, NEW hands, GoodLine(ln, ranks, hands), NEW other,
           \A i \in DOMAIN ln : other[ln[i].user] = ranks[ln[i].user]
    PROVE  GoodLine(ln, other, hands)
  BY DEF GoodLine

LEMMA InitLine ==
    ASSUME Init
    PROVE  LinePart(profile, line, claim)
  <1>1. profile \in [Users -> GoodProfiles]
    BY ProfileTypes DEF Init
  <1>2. InHands(claim) = {}
    BY DEF Init, InHands, Pairs, NoClaim
  <1>3. line = <<>>
    BY DEF Init
  <1>4. line \in Seq(Entries) /\ DOMAIN line = {}
    BY <1>3, EmptySeq
  <1> QED
    BY <1>1, <1>2, <1>4 DEF LinePart, GoodLine

LEMMA SameLine ==
    ASSUME LinePart(profile, line, claim), UNCHANGED <<profile, line>>,
           \A p \in Pairs : claim'[p].status = "active" => claim[p].status = "active"
    PROVE  LinePart(profile', line', claim')
  <1>1. InHands(claim') \subseteq InHands(claim)
    BY HandsAsBefore
  <1> QED
    BY <1>1, LineFewer DEF LinePart

LEMMA TickLine ==
    ASSUME LineInv, Tick
    PROVE  LinePart(profile', line', claim')
  <1>1. claim \in [Pairs -> ClaimRows]
    BY DEF LineInv, MatchingInv, Rows, RowTypes
  <1>2. InHands(claim') \subseteq InHands(claim)
    <2>1. \A p \in Pairs : claim'[p].status = claim[p].status
      BY <1>1 DEF Tick, ClaimRows
    <2> QED
      BY <2>1, HandsAsBefore
  <1>3. GoodLine(line, RanksOf(profile), InHands(claim)) /\ UNCHANGED profile
    BY DEF LineInv, LinePart, Tick
  <1>4. PICK n \in Nat : /\ n = Len(line) /\ DOMAIN line = 1..n
                         /\ \A i \in 1..n : /\ line[i] \in Entries /\ line[i].user \in Users
                                            /\ line[i].rank \in Ranks /\ line[i].seen \in Nat
    BY <1>3, LineType
  <1>5. PICK later : later = line'
    OBVIOUS
  <1>6. later = [i \in DOMAIN line |-> [line[i] EXCEPT !.seen = Lessen(line[i].seen)]]
    BY <1>5 DEF Tick
  <1>7. \A k \in Nat : Lessen(k) \in Nat
    BY DEF Lessen
  <1>8. \A i \in DOMAIN line : /\ later[i] \in Entries /\ later[i].user = line[i].user
                               /\ later[i].rank = RanksOf(profile)[line[i].user]
    BY <1>3, <1>4, <1>6, <1>7 DEF Entries, GoodLine
  <1>9. DOMAIN later = DOMAIN line /\ later = [i \in DOMAIN line |-> later[i]]
    BY <1>6
  <1>10. GoodLine(later, RanksOf(profile), InHands(claim))
    BY <1>3, <1>8, <1>9, LineChanged
  <1>11. GoodLine(later, RanksOf(profile), InHands(claim'))
    BY <1>2, <1>10, LineFewer
  <1> QED
    BY <1>2, <1>3, <1>5, <1>11 DEF LineInv, LinePart

LEMMA StopLine ==
    ASSUME LineInv, NEW u \in Users, Stop(u)
    PROVE  LinePart(profile', line', claim')
  <1>1. GoodLine(line', RanksOf(profile), InHands(claim) \cup {u})
    BY LineWithout DEF LineInv, LinePart, Stop
  <1>2. GoodLine(line', RanksOf(profile), InHands(claim))
    BY <1>1, LineFewer
  <1> QED
    BY <1>2 DEF LineInv, LinePart, Stop

LEMMA ReadyLine ==
    ASSUME LineInv, NEW u \in Users, Ready(u)
    PROVE  LinePart(profile', line', claim')
  <1>1. profile \in [Users -> GoodProfiles] /\ claim \in [Pairs -> ClaimRows]
        /\ GoodLine(line, RanksOf(profile), InHands(claim))
        /\ \A v \in InHands(claim) : profile[v].rank \in Ranks
    BY DEF LineInv, LinePart, MatchingInv, Rows, RowTypes
  <1>2. PICK old : old = IF profile[u] = NoProfile THEN [NoProfile EXCEPT !.rank = 1] ELSE profile[u]
    OBVIOUS
  <1>3. PICK accepted \in ChosenConditions \cup {old.accepted} :
           /\ accepted # old.accepted => ValidConditions(accepted, old.rank)
           /\ profile' = [profile EXCEPT ![u] = [old EXCEPT !.accepted = accepted]]
           /\ \/ /\ HasClaim(u)
                 /\ claim' = [p \in Pairs |->
                                 IF p[2] = u /\ claim[p].status = "active"
                                 THEN [claim[p] EXCEPT !.lease = ClaimLease] ELSE claim[p]]
                 /\ UNCHANGED line
              \/ ~HasClaim(u) /\ line' = EnsureWaiting(line, u, old.rank) /\ UNCHANGED claim
    BY <1>2 DEF Ready
  <1>4. old \in [rank : Ranks, accepted : Conditions] /\ ValidConditions(old.accepted, old.rank)
    <2>1. CASE profile[u] = NoProfile
      <3>1. old = [rank |-> 1, accepted |-> DefaultConditions]
        BY <1>2, <2>1 DEF NoProfile
      <3>2. 1 \in Ranks
        BY DEF Ranks
      <3> QED
        BY <3>1, <3>2, DefaultIsValid
    <2>2. CASE profile[u] # NoProfile
      BY <1>1, <1>2, <2>2 DEF GoodProfiles
    <2> QED
      BY <2>1, <2>2
  <1>5. PICK r : r = old.rank
    OBVIOUS
  <1>6. r \in Ranks /\ accepted \in Conditions /\ ValidConditions(accepted, r)
    BY <1>3, <1>4, <1>5, LineTermTypes
  <1>7. [old EXCEPT !.accepted = accepted] = [rank |-> r, accepted |-> accepted]
    BY <1>4, <1>5
  <1>8. [rank |-> r, accepted |-> accepted] \in GoodProfiles
    BY <1>6, ProfileTypes
  <1>9. /\ profile' \in [Users -> GoodProfiles] /\ profile'[u].rank = r
        /\ \A v \in Users \ {u} : profile'[v] = profile[v]
    BY <1>1, <1>3, <1>7, <1>8
  <1>10. profile[u].rank \in Ranks => profile[u].rank = r
    <2>1. CASE profile[u] = NoProfile
      BY <2>1, ProfileTypes DEF NoProfile
    <2>2. CASE profile[u] # NoProfile
      BY <1>2, <1>5, <2>2
    <2> QED
      BY <2>1, <2>2
  <1>11. \A v \in Users : profile[v].rank \in Ranks => profile'[v].rank = profile[v].rank
    BY <1>9, <1>10
  <1>12. GoodLine(line, RanksOf(profile'), InHands(claim))
    <2>1. \A i \in DOMAIN line : RanksOf(profile')[line[i].user] = RanksOf(profile)[line[i].user]
      <3> SUFFICES ASSUME NEW i \in DOMAIN line
                   PROVE  RanksOf(profile')[line[i].user] = RanksOf(profile)[line[i].user]
        OBVIOUS
      <3>1. line[i].user \in Users /\ line[i].rank \in Ranks
        BY <1>1, LineType
      <3>2. line[i].rank = profile[line[i].user].rank
        BY <1>1, <3>1 DEF GoodLine, RanksOf
      <3> QED
        BY <1>11, <3>1, <3>2 DEF RanksOf
    <2> QED
      BY <1>1, <2>1, SameRanksLine
  <1>13. \A v \in InHands(claim) : profile'[v].rank \in Ranks
    BY <1>1, <1>11 DEF InHands
  <1>14. CASE HasClaim(u)
    <2>1. UNCHANGED line /\ \A p \in Pairs : claim'[p].status = claim[p].status
      BY <1>1, <1>3, <1>14 DEF ClaimRows
    <2>2. InHands(claim') \subseteq InHands(claim)
      BY <2>1, HandsAsBefore
    <2>3. GoodLine(line', RanksOf(profile'), InHands(claim'))
      BY <1>12, <2>1, <2>2, LineFewer
    <2> QED
      BY <1>9, <1>13, <2>2, <2>3 DEF LinePart
  <1>15. CASE ~HasClaim(u)
    <2>1. line' = EnsureWaiting(line, u, r) /\ UNCHANGED claim
      BY <1>3, <1>5, <1>15
    <2>2. r = RanksOf(profile')[u]
      BY <1>9 DEF RanksOf
    <2>3. GoodLine(line', RanksOf(profile'), InHands(claim) \ {u})
      BY <1>6, <1>12, <2>1, <2>2, LineEnsured
    <2>4. u \notin InHands(claim)
      BY <1>15 DEF HasClaim, Active, InHands
    <2>5. GoodLine(line', RanksOf(profile'), InHands(claim'))
      <3>1. InHands(claim) \ {u} = InHands(claim')
        BY <2>1, <2>4
      <3> QED
        BY <2>3, <3>1
    <2> QED
      BY <1>9, <1>13, <2>1, <2>5 DEF LinePart
  <1> QED
    BY <1>14, <1>15

LEMMA RecalculatedLine ==
    ASSUME NEW ln, NEW hands, profile \in [Users -> GoodProfiles], GoodLine(ln, RanksOf(profile), hands),
           NEW users \in SUBSET Users, NEW ranks \in Recalculations(users), Recalculate(ranks, ln)
    PROVE  StillRanked(profile, profile') /\ GoodLine(line', RanksOf(profile'), hands)
  <1>1. StillRanked(profile, profile')
    BY RecalculatedProfiles
  <1>2. line' = LineRanked(ln, profile')
    BY DEF Recalculate
  <1> QED
    BY <1>1, <1>2, LineReranked

LEMMA SetRankLine ==
    ASSUME LineInv, NEW u \in Users, NEW rank \in RanksSeen, SetRank(u, rank)
    PROVE  LinePart(profile', line', claim')
  <1>1. profile \in [Users -> GoodProfiles] /\ GoodLine(line, RanksOf(profile), InHands(claim))
        /\ \A v \in InHands(claim) : profile[v].rank \in Ranks
    BY DEF LineInv, LinePart
  <1>2. PICK p : p = IF rank = profile[u].rank THEN profile[u] ELSE Reranked(u, rank)
    OBVIOUS
  <1>3. p \in GoodProfiles /\ p.rank \in Ranks
    BY <1>1, <1>2, LineTermTypes, RerankedProfile
  <1>4. profile' = [profile EXCEPT ![u] = p]
    BY <1>2 DEF SetRank
  <1>5. StillRanked(profile, profile')
    BY <1>1, <1>3, <1>4 DEF StillRanked
  <1>6. line' = LineRanked(line, profile') /\ UNCHANGED claim
    BY DEF SetRank
  <1>7. GoodLine(line', RanksOf(profile'), InHands(claim'))
    BY <1>1, <1>5, <1>6, LineReranked
  <1> QED
    BY <1>1, <1>5, <1>6, <1>7 DEF LinePart, StillRanked, InHands

LEMMA EvaluateLine ==
    ASSUME LineInv, NEW e \in Executions, Evaluate(e)
    PROVE  LinePart(profile', line', claim')
  <1>1. profile \in [Users -> GoodProfiles] /\ GoodLine(line, RanksOf(profile), InHands(claim))
        /\ \A v \in InHands(claim) : profile[v].rank \in Ranks
    BY DEF LineInv, LinePart
  <1>2. UNCHANGED claim
    BY DEF Evaluate
  <1>3. PICK u \in Users : \E ranks \in Recalculations({u}) : Recalculate(ranks, line)
    BY Zenon DEF Evaluate
  <1>4. StillRanked(profile, profile') /\ GoodLine(line', RanksOf(profile'), InHands(claim))
    BY <1>1, <1>3, RecalculatedLine
  <1> QED
    BY <1>1, <1>2, <1>4 DEF LinePart, StillRanked, InHands

\* u has ended the one claim he had.
LEMMA HandsLess ==
    ASSUME MatchingInv, NEW later, NEW e \in Executions, NEW u \in Users,
           claim[<<e, u>>].status = "active", later[<<e, u>>].status # "active",
           \A p \in Pairs \ {<<e, u>>} : later[p] = claim[p]
    PROVE  InHands(later) \subseteq InHands(claim) \ {u} /\ u \in InHands(claim)
  <1>1. \A f \in Executions : claim[<<f, u>>].status = "active" => f = e
    BY DEF MatchingInv, Rows, OneEach
  <1>2. \A f \in Executions, v \in Users : <<f, v>> \in Pairs /\ (<<f, v>> = <<e, u>> => f = e /\ v = u)
    BY DEF Pairs
  <1> QED
    BY <1>1, <1>2 DEF InHands

LEMMA EndedLine ==
    ASSUME LineInv, NEW e \in Executions, NEW u \in Users, claim[<<e, u>>].status = "active",
           NEW o \in Ended, claim' = [claim EXCEPT ![<<e, u>>] = EndClaim(claim[<<e, u>>], o)]
    PROVE  /\ UNCHANGED profile /\ line' = EnsureWaiting(line, u, profile[u].rank) =>
                 LinePart(profile', line', claim')
           /\ InHands(claim') \subseteq InHands(claim)
  <1>1. claim \in [Pairs -> ClaimRows] /\ <<e, u>> \in Pairs
    BY DEF LineInv, MatchingInv, Rows, RowTypes, Pairs
  <1>2. EndClaim(claim[<<e, u>>], o).status = o /\ o # "active"
    BY <1>1, EndClaimType DEF Ended
  <1>3. claim'[<<e, u>>].status # "active" /\ \A p \in Pairs \ {<<e, u>>} : claim'[p] = claim[p]
    BY <1>1, <1>2
  <1>4. InHands(claim') \subseteq InHands(claim) \ {u} /\ u \in InHands(claim)
    BY <1>3, HandsLess DEF LineInv
  <1>5. ASSUME UNCHANGED profile, line' = EnsureWaiting(line, u, profile[u].rank)
        PROVE  LinePart(profile', line', claim')
    <2>1. profile[u].rank \in Ranks /\ profile[u].rank = RanksOf(profile)[u]
      BY <1>4 DEF LineInv, LinePart, RanksOf
    <2>2. GoodLine(line, RanksOf(profile), InHands(claim))
      BY DEF LineInv, LinePart
    <2>3. GoodLine(line', RanksOf(profile), InHands(claim) \ {u})
      BY <1>5, <2>1, <2>2, LineEnsured
    <2>4. GoodLine(line', RanksOf(profile), InHands(claim'))
      BY <1>4, <2>3, LineFewer
    <2> QED
      BY <1>4, <1>5, <2>4 DEF LineInv, LinePart
  <1> QED
    BY <1>4, <1>5

LEMMA CancelLine ==
    ASSUME LineInv, NEW e \in Executions, Cancel(e)
    PROVE  LinePart(profile', line', claim')
  <1>1. CASE UNCHANGED <<claim, line>>
    <2>1. UNCHANGED profile
      BY DEF Cancel
    <2> QED
      BY <1>1, <2>1, SameLine DEF LineInv
  <1>2. ASSUME NEW u \in Users, Active(e, u),
               claim' = [claim EXCEPT ![<<e, u>>] = EndClaim(claim[<<e, u>>], "cancelled")],
               line' = EnsureWaiting(line, u, profile[u].rank)
        PROVE  LinePart(profile', line', claim')
    <2>1. claim[<<e, u>>].status = "active"
      BY <1>2 DEF Active
    <2>2. UNCHANGED profile /\ "cancelled" \in Ended
      BY DEF Cancel, Ended
    <2> QED
      BY <1>2, <2>1, <2>2, EndedLine
  <1>3. \/ UNCHANGED <<claim, line>>
        \/ \E u \in Users :
              /\ Active(e, u)
              /\ claim' = [claim EXCEPT ![<<e, u>>] = EndClaim(claim[<<e, u>>], "cancelled")]
              /\ line' = EnsureWaiting(line, u, profile[u].rank)
    BY DEF Cancel
  <1> QED
    BY <1>1, <1>2, <1>3

LEMMA ReleaseLine ==
    ASSUME LineInv, NEW u \in Users, NEW e \in Executions, InHand(u, e),
           NEW o \in {"skipped", "declined"}, Release(u, e, o)
    PROVE  LinePart(profile', line', claim')
  <1>1. claim[<<e, u>>].status = "active"
    BY DEF InHand, Active
  <1>2. /\ claim' = [claim EXCEPT ![<<e, u>>] = EndClaim(claim[<<e, u>>], o)]
        /\ line' = EnsureWaiting(line, u, profile[u].rank)
        /\ UNCHANGED profile /\ o \in Ended
    BY DEF Release, Ended
  <1> QED
    BY <1>1, <1>2, EndedLine

LEMMA SaveDraftLine ==
    ASSUME LineInv, NEW u \in Users, NEW e \in Executions, NEW r \in Revisions, SaveDraft(u, e, r)
    PROVE  LinePart(profile', line', claim')
  <1>1. claim \in [Pairs -> ClaimRows] /\ <<e, u>> \in Pairs
    BY DEF LineInv, MatchingInv, Rows, RowTypes, Pairs
  <1>2. claim' = [claim EXCEPT ![<<e, u>>] = SavedDraft(claim[<<e, u>>], r)]
        /\ UNCHANGED <<profile, line>>
    BY DEF SaveDraft
  <1>3. SavedDraft(claim[<<e, u>>], r).status = claim[<<e, u>>].status
    BY <1>1 DEF SavedDraft, ClaimRows
  <1>4. \A p \in Pairs : claim'[p].status = "active" => claim[p].status = "active"
    BY <1>1, <1>2, <1>3
  <1> QED
    BY <1>2, <1>4, SameLine DEF LineInv

LEMMA AnswerLine ==
    ASSUME LineInv, NEW u \in Users, NEW e \in Executions, Answer(u, e)
    PROVE  LinePart(profile', line', claim')
  <1>1. claim[<<e, u>>].status = "active"
    BY DEF Answer, InHand, Active
  <1>2. claim' = [claim EXCEPT ![<<e, u>>] = EndClaim(claim[<<e, u>>], "answered")]
        /\ "answered" \in Ended
    BY DEF Answer, Ended
  <1>3. InHands(claim') \subseteq InHands(claim)
    BY <1>1, <1>2, EndedLine
  <1>4. profile \in [Users -> GoodProfiles] /\ GoodLine(line, RanksOf(profile), InHands(claim))
        /\ \A v \in InHands(claim) : profile[v].rank \in Ranks
    BY DEF LineInv, LinePart
  <1>5. \E ranks \in Recalculations({u}) : Recalculate(ranks, line)
    BY DEF Answer
  <1>6. StillRanked(profile, profile') /\ GoodLine(line', RanksOf(profile'), InHands(claim))
    BY <1>4, <1>5, RecalculatedLine
  <1>7. GoodLine(line', RanksOf(profile'), InHands(claim'))
    BY <1>3, <1>6, LineFewer
  <1>8. \A v \in InHands(claim') : profile'[v].rank \in Ranks
    BY <1>3, <1>4, <1>6 DEF StillRanked, InHands
  <1> QED
    BY <1>6, <1>7, <1>8 DEF LinePart, StillRanked

---------------------------------------------------------------------------
(* A matching round *)

LEMMA MatchLine ==
    ASSUME LineInv, NEW lapsed \in SUBSET Pairs, \A p \in lapsed : Lapsed(p), MatchRound(lapsed)
    PROVE  LinePart(profile', line', claim')
  <1>1. PICK C : C = ReconciledClaims(lapsed)
    OBVIOUS
  <1>3. profile \in [Users -> GoodProfiles] /\ GoodLine(line, RanksOf(profile), InHands(claim))
        /\ (\A v \in InHands(claim) : profile[v].rank \in Ranks)
        /\ claim \in [Pairs -> ClaimRows]
    BY DEF LineInv, LinePart, MatchingInv, Rows, RowTypes
  <1>4. C \in [Pairs -> ClaimRows] /\ InHands(C) \subseteq InHands(claim)
    <2>1. \A p \in Pairs : C[p] = IF p \in lapsed
                                  THEN EndClaim(claim[p], IF Automatic(p) THEN "answered" ELSE "expired")
                                  ELSE claim[p]
      BY <1>1 DEF ReconciledClaims
    <2>2. \A p \in Pairs : C[p] \in ClaimRows /\ (C[p].status = "active" => claim[p].status = "active")
      <3> SUFFICES ASSUME NEW p \in Pairs
                   PROVE  C[p] \in ClaimRows /\ (C[p].status = "active" => claim[p].status = "active")
        OBVIOUS
      <3>1. PICK o : o = IF Automatic(p) THEN "answered" ELSE "expired"
        OBVIOUS
      <3>2. o \in Ended
        BY <3>1 DEF Ended
      <3>3. claim[p] \in ClaimRows
        BY <1>3
      <3>4. EndClaim(claim[p], o) \in ClaimRows /\ EndClaim(claim[p], o).status = o
        BY <3>2, <3>3, EndClaimType
      <3>5. o # "active"
        BY <3>1
      <3> QED
        BY <2>1, <3>1, <3>3, <3>4, <3>5
    <2>3. InHands(C) \subseteq InHands(claim)
      BY <2>2, HandsAsBefore
    <2>4. C = [p \in Pairs |-> C[p]]
      BY <1>1 DEF ReconciledClaims
    <2> QED
      BY <2>2, <2>3, <2>4
  <1>6. GoodLine(Fresh, RanksOf(profile), InHands(C))
    <2>1. GoodLine(Fresh, RanksOf(profile), InHands(claim))
      BY <1>3, LineKept DEF Fresh
    <2> QED
      BY <1>4, <2>1, LineFewer
  <1>8. {p[2] : p \in lapsed} \in SUBSET Users
    BY DEF Pairs
  <1>9. PICK ranks \in Recalculations({p[2] : p \in lapsed}) :
           \/ /\ Offers(Fresh, ReconciledClaims(lapsed), ReconciledStatus(lapsed)) = {}
              /\ Recalculate(ranks, Fresh)
              /\ claim' = ReconciledClaims(lapsed) /\ status' = ReconciledStatus(lapsed)
              /\ left' = [e \in Executions |-> IF \E u \in Users : <<e, u>> \in lapsed THEN 0 ELSE left[e]]
           \/ \E m \in Offers(Fresh, ReconciledClaims(lapsed), ReconciledStatus(lapsed)), u \in Users :
                 /\ \A n \in Offers(Fresh, ReconciledClaims(lapsed), ReconciledStatus(lapsed)) :
                       m[1] < n[1] \/ (m[1] = n[1] /\ m[2] <= n[2])
                 /\ u = Fresh[m[2]].user
                 /\ Recalculate(ranks, Without(Fresh, u))
                 /\ claim' = [ReconciledClaims(lapsed) EXCEPT ![<<m[1], u>>] = NewClaim]
                 /\ status' = [ReconciledStatus(lapsed) EXCEPT ![m[1]] = "running"]
                 /\ left' = [[e \in Executions |->
                                 IF \E v \in Users : <<e, v>> \in lapsed THEN 0 ELSE left[e]]
                              EXCEPT ![m[1]] = TimeLimit[Asked[m[1]].effort]]
    BY ZenonT(60) DEF MatchRound
  <1>10. CASE Recalculate(ranks, Fresh) /\ claim' = ReconciledClaims(lapsed)
    <2>1. StillRanked(profile, profile') /\ GoodLine(line', RanksOf(profile'), InHands(C))
      BY <1>3, <1>6, <1>8, <1>10, RecalculatedLine
    <2>2. \A v \in InHands(claim') : profile'[v].rank \in Ranks
      BY <1>1, <1>3, <1>4, <1>10, <2>1 DEF StillRanked, InHands
    <2> QED
      BY <1>1, <1>10, <2>1, <2>2 DEF LinePart, StillRanked
  <1>11. ASSUME NEW m \in Offers(Fresh, ReconciledClaims(lapsed), ReconciledStatus(lapsed)), NEW u \in Users, u = Fresh[m[2]].user,
                Recalculate(ranks, Without(Fresh, u)),
                claim' = [ReconciledClaims(lapsed) EXCEPT ![<<m[1], u>>] = NewClaim]
         PROVE  LinePart(profile', line', claim')
    <2>1. m[1] \in Executions /\ m[2] \in DOMAIN Fresh
      BY DEF Offers
    <2>2. GoodLine(Without(Fresh, u), RanksOf(profile), InHands(C) \cup {u})
      BY <1>6, LineWithout
    <2>3. StillRanked(profile, profile') /\ GoodLine(line', RanksOf(profile'), InHands(C) \cup {u})
      BY <1>3, <1>8, <1>11, <2>2, RecalculatedLine
    <2>4. InHands(claim') \subseteq InHands(C) \cup {u}
      <3>1. \A f \in Executions, v \in Users : <<f, v>> \in Pairs /\ (<<f, v>> = <<m[1], u>> => v = u)
        BY DEF Pairs
      <3>2. \A p \in Pairs : p # <<m[1], u>> => claim'[p] = C[p]
        BY <1>1, <1>4, <1>11
      <3> QED
        BY <3>1, <3>2 DEF InHands
    <2>5. GoodLine(line', RanksOf(profile'), InHands(claim'))
      BY <2>3, <2>4, LineFewer
    <2>6. profile[u].rank \in Ranks
      <3>1. Fresh[m[2]].rank = RanksOf(profile)[u]
        BY <1>6, <1>11, <2>1 DEF GoodLine
      <3>2. Fresh[m[2]].rank \in Ranks
        BY <1>6, <2>1, LineType
      <3> QED
        BY <3>1, <3>2 DEF RanksOf
    <2>7. \A v \in InHands(claim') : profile'[v].rank \in Ranks
      BY <1>3, <1>4, <2>3, <2>4, <2>6 DEF StillRanked, InHands
    <2> QED
      BY <2>3, <2>5, <2>7 DEF LinePart, StillRanked
  <1> QED
    BY <1>9, <1>10, <1>11

\* Every step keeps the line, the profiles and the claims agreeing.
LEMMA StepKeepsLine ==
    ASSUME LineInv, [Next]_vars
    PROVE  LineInv'
  <1>1. MatchingInv'
    BY StepKeepsRows DEF LineInv
  <1> SUFFICES LinePart(profile', line', claim')
    BY <1>1 DEF LineInv
  <1>2. ASSUME UNCHANGED <<profile, line, claim>>
        PROVE  LinePart(profile', line', claim')
    BY <1>2, SameLine DEF LineInv
  <1>3. CASE UNCHANGED vars
    BY <1>2, <1>3 DEF vars
  <1>4. CASE Tick
    BY <1>4, TickLine
  <1>5. CASE Match
    <2>1. PICK lapsed \in SUBSET Pairs : (\A p \in lapsed : Lapsed(p)) /\ MatchRound(lapsed)
      BY <1>5 DEF Match
    <2> QED
      BY <2>1, MatchLine
  <1>6. ASSUME NEW u \in Users,
               \/ Ready(u) \/ Stop(u)
               \/ \E rank \in RanksSeen : SetRank(u, rank)
               \/ BeginCall(u) \/ Refuse(u)
        PROVE  LinePart(profile', line', claim')
    <2>1. CASE Ready(u)
      BY <2>1, ReadyLine
    <2>2. CASE Stop(u)
      BY <2>2, StopLine
    <2>3. CASE \E rank \in RanksSeen : SetRank(u, rank)
      BY <2>3, SetRankLine
    <2>4. CASE BeginCall(u)
      BY <1>2, <2>4 DEF BeginCall
    <2>5. CASE Refuse(u)
      BY <1>2, <2>5 DEF Refuse
    <2> QED
      BY <1>6, <2>1, <2>2, <2>3, <2>4, <2>5
  <1>7. ASSUME NEW u \in Users, NEW e \in Executions,
               \/ Skip(u, e) \/ Decline(u, e) \/ Answer(u, e)
               \/ \E r \in Revisions : SaveDraft(u, e, r)
        PROVE  LinePart(profile', line', claim')
    <2>1. CASE Skip(u, e)
      BY <2>1, ReleaseLine DEF Skip
    <2>2. CASE Decline(u, e)
      BY <2>2, ReleaseLine DEF Decline
    <2>3. CASE Answer(u, e)
      BY <2>3, AnswerLine
    <2>4. CASE \E r \in Revisions : SaveDraft(u, e, r)
      BY <2>4, SaveDraftLine
    <2> QED
      BY <1>7, <2>1, <2>2, <2>3, <2>4
  <1>8. ASSUME NEW e \in Executions, Ask(e) \/ Cancel(e) \/ Evaluate(e)
        PROVE  LinePart(profile', line', claim')
    <2>1. CASE Ask(e)
      BY <1>2, <2>1 DEF Ask
    <2>2. CASE Cancel(e)
      BY <2>2, CancelLine
    <2>3. CASE Evaluate(e)
      BY <2>3, EvaluateLine
    <2> QED
      BY <1>8, <2>1, <2>2, <2>3
  <1> QED
    BY <1>3, <1>4, <1>5, <1>6, <1>7, <1>8 DEF Next

LEMMA ProfilesAgreeFollows ==
    ASSUME LineInv
    PROVE  ProfilesAgree
  <1>1. profile \in [Users -> GoodProfiles] /\ GoodLine(line, RanksOf(profile), InHands(claim))
    BY DEF LineInv, LinePart
  <1>2. \A i, j \in DOMAIN line : line[i].user = line[j].user => i = j
    BY <1>1 DEF GoodLine
  <1>3. \A u \in Users : HasClaim(u) => ~Waits(line, u)
    <2>1. \A u \in Users : HasClaim(u) => u \in InHands(claim)
      BY DEF HasClaim, Active, InHands
    <2> QED
      BY <1>1, <2>1 DEF GoodLine, Waits
  <1>4. \A i \in DOMAIN line : line[i].rank = profile[line[i].user].rank
    <2> SUFFICES ASSUME NEW i \in DOMAIN line PROVE line[i].rank = profile[line[i].user].rank
      OBVIOUS
    <2>1. line[i].user \in Users
      BY <1>1, LineType
    <2> QED
      BY <1>1, <2>1 DEF GoodLine, RanksOf
  <1>5. \A u \in Users :
           profile[u] # NoProfile => ValidConditions(profile[u].accepted, profile[u].rank)
    BY <1>1, ProfileTypes
  <1> QED
    BY <1>2, <1>3, <1>4, <1>5 DEF ProfilesAgree

\* Who waits does so once, has nothing in hand and is listed with the rank he has, and the
\* conditions of every human are valid for his rank: through whatever readiness, matches,
\* answers, ratings and changes of rank, for any number of humans and requests
\* (_ensure_wait_entry, _update_waiting_rank, clamp_human_answer_conditions).
THEOREM ProfilesAgreeHolds == Spec => []ProfilesAgree
  <1>1. Init => LineInv
    BY InitRows, InitLine DEF LineInv
  <1>2. LineInv /\ [Next]_vars => LineInv'
    BY StepKeepsLine
  <1>3. LineInv => ProfilesAgree
    BY ProfilesAgreeFollows
  <1> QED
    BY <1>1, <1>2, <1>3, PTL DEF Spec
==============================================================================
