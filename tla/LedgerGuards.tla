------------------------------- MODULE LedgerGuards -------------------------------
(***************************************************************************)
(* The triggers with which the database checks every transaction of the    *)
(* ledger when it commits (migrations 0003, 0007, 0009 and 0010), and the  *)
(* operator's audit.  They compute on their own what the repository        *)
(* computed, from the rows; a legal request on which the two disagree is   *)
(* refused.                                                                *)
(*                                                                         *)
(* A guard is a predicate of one new or changed row and the tables as they *)
(* are at commit.                                                          *)
(***************************************************************************)
EXTENDS CreditStatement

AtLeast(n, m) == IF n >= m THEN n ELSE m

Posting(t, a) == IF a \in DOMAIN t.postings THEN t.postings[a] ELSE 0

---------------------------------------------------------------------------
(* Transactions *)

\* assert_credit_transaction_balanced
Balanced(t) ==
    /\ Cardinality(DOMAIN t.postings) >= 2
    /\ Total(LAMBDA a : t.postings[a], DOMAIN t.postings) = 0

\* assert_credit_account_nonnegative, of every account the transaction posts to
Nonnegative(t) == \A a \in DOMAIN t.postings \ {"issuance"} : Balance(a) >= 0

\* The lots a transaction issued: credit_lots.issuance_transaction_id
IssuedBy(t) ==
    {l \in DOMAIN lots :
        /\ lots[l].origin = t.of
        /\ \/ lots[l].reference = t.reference /\ t.kind = "grant"
           \/ lots[l].reference = "reward" /\ t.kind = "settle" /\ t.reference = "execution"}

\* assert_credit_grant_consistent: a grant issues a lot of what it posts, an allowance one
\* of exactly its duration; a settlement may issue what its performer earned.
GrantConsistent(t) ==
    /\ t.kind = "grant" =>
          \E l \in IssuedBy(t) :
              /\ lots[l].reference \in {"grant", "allowance"}
              /\ lots[l].reference = "allowance" =>
                    lots[l].expires - lots[l].issued = AllowanceDuration
              /\ lots[l].issued = t.at
              /\ t.postings = [a \in {"issuance", lots[l].owner} |->
                                  IF a = "issuance" THEN -lots[l].amount ELSE lots[l].amount]
    /\ t.kind = "settle" =>
          \A l \in IssuedBy(t) :
              /\ lots[l].expires # Never
              /\ lots[l].issued = t.at
              /\ Posting(t, lots[l].owner) = lots[l].amount

\* assert_credit_expiration_consistent: only what had expired by then, all of it from the
\* lot the transaction is for.
ExpirationConsistent(t) ==
    t.kind = "expire" =>
        LET consumed == {c \in taken : c.by = "sweep" /\ c.lot = t.of}
            amount == Total(LAMBDA c : c.amount, consumed)
        IN
        /\ t.reference = "lot"
        /\ lots[t.of].expires <= t.at
        /\ amount > 0
        /\ \A c \in consumed : c.kind = "expire"
        /\ t.postings = [a \in {"expired", lots[t.of].owner} |->
                            IF a = "expired" THEN amount ELSE -amount]

---------------------------------------------------------------------------
(* Lots *)

\* assert_credit_lot_conserved
LotConserved(l) ==
    LET holding == {e \in Executions : /\ reservation[e].status = "held"
                                       /\ l \in DOMAIN reservation[e].allocation}
    IN  Total(LAMBDA c : c.amount, {c \in taken : c.lot = l})
          + Total(LAMBDA e : reservation[e].allocation[l], holding) <= lots[l].amount

---------------------------------------------------------------------------
(* Reservations *)

\* The transaction a reservation names: reserve_transaction_id, final_transaction_id
TransactionOf(e, kinds) ==
    CHOOSE t \in journal : t.reference = "execution" /\ t.of = e /\ t.kind \in kinds

\* assert_billing_registration_consistent: a model execution holds its tariff's maximum.
Registered(e) ==
    LET r == reservation[e] IN
    IF r.human THEN r.amount > 0 ELSE r.amount = Tariff.maximum

\* The window ORDER BY expires_at NULLS LAST, issued_at, id: what precedes a row.
Preceding(S, l) ==
    {k \in S : \/ lots[k].expires < lots[l].expires
               \/ lots[k].expires = lots[l].expires /\ lots[k].issued < lots[l].issued
               \/ /\ lots[k].expires = lots[l].expires /\ lots[k].issued = lots[l].issued
                  /\ k < l}

\* What the other reservations and what was taken leave of a lot when e was reserved.
Capacity(e, l) ==
    LET now == reservation[e].created
        others == {f \in Executions \ {e} :
                      /\ l \in DOMAIN reservation[f].allocation
                      /\ reservation[f].created <= now
                      /\ reservation[f].finalized > now}
    IN  AtLeast(lots[l].amount
                  - Total(LAMBDA c : c.amount, {c \in taken : c.lot = l /\ c.at <= now})
                  - Total(LAMBDA f : reservation[f].allocation[l], others), 0)

\* assert_credit_reservation_allocated: of each usable lot, what the lots that expire before
\* it leave of the price.
Allocated(e) ==
    LET r == reservation[e]
        t == TransactionOf(e, {"reserve"})
        usable == {l \in DOMAIN lots : /\ lots[l].owner = r.owner
                                       /\ lots[l].issued <= r.created
                                       /\ r.created < lots[l].expires}
        capacity(l) == Capacity(e, l)
        expected(l) == AtLeast(AtMost(capacity(l),
                                      r.amount - Total(capacity, Preceding(usable, l))), 0)
    IN
    /\ DOMAIN r.allocation \subseteq usable
    /\ Total(LAMBDA l : r.allocation[l], DOMAIN r.allocation) = r.amount
    /\ \A l \in usable :
          expected(l) = IF l \in DOMAIN r.allocation THEN r.allocation[l] ELSE 0
    /\ t.at = r.created
    /\ t.postings = [a \in {"reserve", r.owner} |-> IF a = "reserve" THEN r.amount ELSE -r.amount]

\* What the end of e took from a lot.
TakenAtEnd(e, l, kind) ==
    Total(LAMBDA c : c.amount, {c \in taken : c.by = e /\ c.lot = l /\ c.kind = kind})

\* assert_credit_reservation_finalized, the postings: the reserve is emptied and what it held
\* is the charge, the performer's share of it, what expired and what returns.
EndPosted(e) ==
    LET r == reservation[e]
        t == TransactionOf(e, {"settle", "release"})
        rewards == IssuedBy(t)
        reward == Total(LAMBDA l : lots[l].amount, rewards)
    IN
    /\ t.kind = IF r.settled > 0 THEN "settle" ELSE "release"
    /\ r.status = IF r.settled > 0 THEN "settled" ELSE "released"
    /\ r.finalized = t.at
    /\ DOMAIN t.postings \subseteq {"reserve", "revenue", "expired", r.owner}
                                     \cup {lots[l].owner : l \in rewards}
    /\ \A l \in rewards : lots[l].owner # r.owner
    /\ Total(LAMBDA l : Posting(t, lots[l].owner), rewards) = reward
    /\ Posting(t, "reserve") = -r.amount
    /\ Posting(t, "revenue") + reward = r.settled
    /\ Posting(t, r.owner) + Posting(t, "expired") + r.settled = r.amount
    /\ Posting(t, "expired")
         = Total(LAMBDA l : TakenAtEnd(e, l, "expire"), DOMAIN r.allocation)

\* assert_credit_reservation_finalized, the lots: the charge is taken from the allocations in
\* the order they expire, and the rest of an allocation expires exactly if its lot has.
EndTaken(e) ==
    LET r == reservation[e]
        held(l) == r.allocation[l]
        expected(l) == AtLeast(AtMost(held(l),
                          r.settled - Total(held, Preceding(DOMAIN r.allocation, l))), 0)
    IN
    /\ {c.lot : c \in {d \in taken : d.by = e}} \subseteq DOMAIN r.allocation
    /\ Total(LAMBDA l : TakenAtEnd(e, l, "settle"), DOMAIN r.allocation) = r.settled
    /\ \A l \in DOMAIN r.allocation :
          /\ TakenAtEnd(e, l, "settle") = expected(l)
          /\ TakenAtEnd(e, l, "expire")
               = IF lots[l].expires <= r.finalized THEN held(l) - TakenAtEnd(e, l, "settle")
                 ELSE 0

\* assert_inference_usage_consistent, for what ends a model execution
UsageConsistent(e) ==
    LET r == reservation[e] IN
    ~r.human => r.settled = ExpectedUsage(Tariff, r.usage).charge

\* protect_credit_reservation_lifecycle, assert_credit_allocation_open: a reservation ends
\* once, and nothing else of it changes.
EndsOnce(e) ==
    LET same(r) == [r EXCEPT !.status = "held", !.settled = 0, !.finalized = Never,
                             !.usage = NoUsage]
    IN  /\ reservation[e].status = "held"
        /\ reservation[e]'.status \in {"settled", "released"}
        /\ same(reservation[e]') = same(reservation[e])

\* reject_immutable_credit_record
Immutable ==
    /\ IsPrefix(lots, lots')
    /\ taken \subseteq taken'
    /\ journal \subseteq journal'

---------------------------------------------------------------------------
(* The audit: CreditAuditService *)

EarnedLots == {l \in DOMAIN lots : lots[l].reference = "reward"}

\* _audit_reward: the end of a paid human execution issued one lot, of the performer's share.
RewardIsExplained(e) ==
    LET r == reservation[e]
        t == TransactionOf(e, {"settle", "release"})
        rewards == IssuedBy(t)
    IN
    /\ Cardinality(rewards) = 1
    /\ \A l \in rewards :
          /\ lots[l].owner # r.owner
          /\ lots[l].amount = Reward(r.settled)
          /\ lots[l].expires = lots[l].issued + EarnedDuration
          /\ Posting(t, lots[l].owner) = Reward(r.settled)
          /\ Posting(t, "revenue") = r.settled - Reward(r.settled)

\* audit: the earned lots and the human reservations it would report.
AuditIssues ==
    {l \in EarnedLots : lots[l].expires # lots[l].issued + EarnedDuration}
    \cup {e \in Executions :
            /\ reservation[e].human
            /\ \/ reservation[e].status = "released" /\ reservation[e].settled # 0
               \/ reservation[e].status = "settled" /\ ~RewardIsExplained(e)}

---------------------------------------------------------------------------
(* Properties *)

\* The database never refuses what the repository does: every transaction of the program,
\* in every order, passes all the triggers that fire when it commits.  A disagreement would
\* be a request that fails for no reason the user could know.
GuardsAccept ==
    [][ /\ Immutable
        /\ \A t \in journal' \ journal :
              /\ Balanced(t)
              /\ Nonnegative(t)'
              /\ GrantConsistent(t)'
              /\ ExpirationConsistent(t)'
        /\ \A c \in taken' \ taken : LotConserved(c.lot)'
        /\ \A e \in {f \in Executions : reservation'[f] # reservation[f]} :
              IF reservation[e] = NoReservation
              THEN /\ Registered(e)'
                   /\ Allocated(e)'
                   /\ \A l \in DOMAIN reservation'[e].allocation : LotConserved(l)'
              ELSE /\ EndsOnce(e)
                   /\ EndPosted(e)'
                   /\ EndTaken(e)'
                   /\ UsageConsistent(e)' ]_vars

\* The audit, which looks at earned lots and at what human executions cost and paid, has
\* nothing to report, whatever expired or was granted in between.
AuditFindsNothing == AuditIssues = {}

=============================================================================
