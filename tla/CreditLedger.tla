------------------------------ MODULE CreditLedger ------------------------------
(***************************************************************************)
(* The credit ledger (backend/app/repositories/credits.py): users own lots *)
(* of credits, some with an expiration; a paid request holds credits of    *)
(* its requester's lots until its execution is settled or released; an     *)
(* operator's command moves what expired to an account of its own.         *)
(*                                                                         *)
(* Money is kept twice: as the postings of a journal of balanced           *)
(* transactions between accounts, and as lots with what was taken from     *)
(* them, from which everything the program decides is derived.  Past facts *)
(* are read "as of" an instant, so that a transaction sees the ledger as   *)
(* it was at the time it believes it is.                                   *)
(*                                                                         *)
(* One step is one database transaction: the wallet lock it holds keeps    *)
(* the others from the wallet's lots.  Only the expiry command reads the   *)
(* clock and the lots before it has the lock, and is two steps.            *)
(***************************************************************************)
EXTENDS InferenceBilling, Sequences, FiniteSets, FiniteSetsExt, SequencesExt

CONSTANTS
    Users, Executions,
    GrantKeys,         \* idempotency keys of the operator's grants
    Sweepers,          \* concurrent runs of the expiry command
    GrantAmount,
    AllowanceAmount,   \* FREE_CREDIT_ALLOWANCE_POLICY.amount
    AllowanceDuration, \* and its 168 hours
    EarnedDuration,    \* the 90 days of a performer's reward
    Tariff,            \* of a model execution, which reserves its maximum
    ModelUsages,       \* how model executions end
    HumanPrice,        \* what a human execution reserves and is charged
    SweepLimit,        \* lots one run of the expiry command takes
    MaxTime            \* bound: the clock

ASSUME SetsAssumption ==
    /\ IsFiniteSet(Executions) /\ "sweep" \notin Executions
    /\ Users \cap {"issuance", "reserve", "revenue", "expired", "none"} = {}

ASSUME AmountsAssumption ==
    /\ {GrantAmount, AllowanceAmount, AllowanceDuration, EarnedDuration, HumanPrice,
        SweepLimit} \subseteq Nat \ {0}
    /\ IsTariff(Tariff) /\ Tariff.maximum > 0
    /\ ModelUsages \subseteq Usages
    /\ HumanPrice % 10 = 0
    /\ MaxTime \in Nat

VARIABLES
    clock,
    lots,        \* the lots, in order of issue
    reservation, \* the reservation of each execution, with its allocations
    taken,       \* consumptions: what was finally taken from a lot
    journal,     \* the credit transactions with their postings
    sweep        \* runs of the expiry command

vars == <<clock, lots, reservation, taken, journal, sweep>>

Accounts == Users \cup {"issuance", "reserve", "revenue", "expired"}

\* Stands for a missing expiration, or an end that has not come: later than everything.
Never == MaxTime + AllowanceDuration + EarnedDuration + 1
Times == 0..Never

References == {"grant", "allowance", "reward"}
Lots ==
    [owner : Users, reference : References, origin : GrantKeys \cup Executions,
     amount : Nat \ {0}, issued : 0..MaxTime, expires : Times]

NoUsage == [outcome |-> "none", input |-> Absent, output |-> Absent]

NoReservation ==
    [status |-> "none", owner |-> "none", human |-> FALSE, amount |-> 0, settled |-> 0,
     created |-> Never, finalized |-> Never, allocation |-> <<>>, usage |-> NoUsage]

IsReservation(r) ==
    /\ r.status \in {"held", "settled", "released"}
    /\ r.owner \in Users /\ r.human \in BOOLEAN
    /\ r.amount \in Nat \ {0} /\ r.settled \in 0..r.amount
    /\ r.created \in 0..MaxTime /\ r.finalized \in r.created..Never
    /\ (r.status = "held") = (r.finalized = Never)
    /\ DOMAIN r.allocation \subseteq DOMAIN lots
    /\ \A l \in DOMAIN r.allocation : r.allocation[l] \in Nat \ {0}
    /\ r.usage \in Usages \cup {NoUsage}

NoSweep == [now |-> Never, candidates |-> {}]

\* The end of an execution takes from a lot in its own transaction, the expiry command in
\* one transaction per lot, whose idempotency key is the lot's.
Consumptions ==
    [lot : DOMAIN lots, kind : {"settle", "expire"}, amount : Nat \ {0}, at : 0..MaxTime,
     by : Executions \cup {"sweep"}]

\* The key of a transaction, which makes it unique, is its kind and what it is for: a grant
\* by the operator's key, an allowance or an end by the execution, an expiry by the lot.
IsTransaction(t) ==
    /\ t.kind \in {"grant", "reserve", "settle", "release", "expire"}
    /\ \/ t.reference = "grant" /\ t.of \in GrantKeys
       \/ t.reference \in {"allowance", "execution"} /\ t.of \in Executions
       \/ t.reference = "lot" /\ t.of \in DOMAIN lots
    /\ t.at \in 0..MaxTime
    /\ \A a \in DOMAIN t.postings : a \in Accounts /\ t.postings[a] \in Int \ {0}

TypeOK ==
    /\ clock \in 0..MaxTime
    /\ lots \in Seq(Lots)
    /\ \A e \in Executions :
          reservation[e] = NoReservation \/ IsReservation(reservation[e])
    /\ taken \subseteq Consumptions
    /\ \A t \in journal : IsTransaction(t)
    /\ \A s \in Sweepers :
          sweep[s].now \in Times /\ sweep[s].candidates \subseteq DOMAIN lots

Init ==
    /\ clock = 0
    /\ lots = <<>>
    /\ reservation = [e \in Executions |-> NoReservation]
    /\ taken = {}
    /\ journal = {}
    /\ sweep = [s \in Sweepers |-> NoSweep]

\* _append_transaction drops the postings of nothing, and refuses what does not balance.
Transaction(kind, reference, of, at, postings) ==
    [kind |-> kind, reference |-> reference, of |-> of, at |-> at,
     postings |-> [a \in {b \in DOMAIN postings : postings[b] # 0} |-> postings[a]]]

Total(f(_), S) == SumFunction([x \in S |-> f(x)])

IsBalanced(t) ==
    /\ Cardinality(DOMAIN t.postings) >= 2
    /\ SumFunction(t.postings) = 0

Post(transactions) ==
    /\ \A t \in transactions : IsBalanced(t)
    /\ journal' = journal \cup transactions

Tick ==
    /\ clock < MaxTime
    /\ clock' = clock + 1
    /\ UNCHANGED <<lots, reservation, taken, journal, sweep>>

---------------------------------------------------------------------------
(* What the ledger knows as of an instant: _lot_usage *)

UsedAt(l, now) ==
    Total(LAMBDA c : c.amount, {c \in taken : c.lot = l /\ c.at <= now})

\* Faulty variant: a reservation still holds at the instant it is finalized.
HoldsThroughEnd(e, l, now) ==
    /\ l \in DOMAIN reservation[e].allocation
    /\ reservation[e].created <= now /\ now <= reservation[e].finalized

Holds(e, l, now) ==
    /\ l \in DOMAIN reservation[e].allocation
    /\ reservation[e].created <= now /\ now < reservation[e].finalized

HeldAt(l, now) ==
    Total(LAMBDA e : reservation[e].allocation[l], {e \in Executions : Holds(e, l, now)})

AvailableAt(lot, l, now) == lot.amount - UsedAt(l, now) - HeldAt(l, now)

Current(lot, now) == lot.issued <= now /\ now < lot.expires

\* Faulty variant: lots are spent in the order they were issued.
SpentInOrderOfIssue(ls, k, l) == k < l

\* expires_at nulls last, issued_at, id (a fixed order among lots of the same instants).
SpentBefore(ls, k, l) ==
    \/ ls[k].expires < ls[l].expires
    \/ ls[k].expires = ls[l].expires /\ ls[k].issued < ls[l].issued
    \/ ls[k].expires = ls[l].expires /\ ls[k].issued = ls[l].issued /\ k < l

SpentLast(ls, S) == CHOOSE l \in S : \A k \in S \ {l} : SpentBefore(ls, k, l)

\* A loop over lots in the order they are spent: what step makes of the last of them and of
\* the result for the others.
InSpendOrder(ls, S, start, step(_, _)) ==
    MapThenFoldSet(step, start, LAMBDA l : l, LAMBDA T : SpentLast(ls, T), S)

---------------------------------------------------------------------------
(* Granting *)

\* grant: a lot and its postings; a key that was used is replayed or refused.
Grant(key, u, term) ==
    /\ \A l \in DOMAIN lots : lots[l].reference = "grant" => lots[l].origin # key
    /\ lots' = Append(lots, [owner |-> u, reference |-> "grant", origin |-> key,
                             amount |-> GrantAmount, issued |-> clock,
                             expires |-> IF term = Never THEN Never ELSE clock + term])
    /\ Post({Transaction("grant", "grant", key, clock,
                         [a \in {"issuance", u} |->
                             IF a = u THEN GrantAmount ELSE -GrantAmount])})
    /\ UNCHANGED <<clock, reservation, taken, sweep>>

Allowance(u, e) ==
    [owner |-> u, reference |-> "allowance", origin |-> e, amount |-> AllowanceAmount,
     issued |-> clock, expires |-> clock + AllowanceDuration]

\* Faulty variant: an allowance started at this very instant is overlooked.
HasEarlierAllowance(u) ==
    \E l \in DOMAIN lots :
        /\ lots[l].owner = u /\ lots[l].reference = "allowance"
        /\ lots[l].issued < clock /\ clock < lots[l].expires

\* active_free_allowance
HasAllowance(u) ==
    \E l \in DOMAIN lots :
        lots[l].owner = u /\ lots[l].reference = "allowance" /\ Current(lots[l], clock)

---------------------------------------------------------------------------
(* Reserving for a request: start_for_request, reserve_inference *)

\* Faulty variant: lots with nothing available are allocated too.
AllocateEmpty(ls, S, amount) ==
    InSpendOrder(ls, S, [rest |-> amount, from |-> <<>>],
        LAMBDA l, acc :
            LET n == Min({acc.rest, AvailableAt(ls[l], l, clock)}) IN
            [rest |-> acc.rest - n,
             from |-> [k \in DOMAIN acc.from \cup {l} |-> IF k = l THEN n ELSE acc.from[k]]])

\* _allocate_lots: takes from the lots in order until the amount is covered.
Allocate(ls, S, amount) ==
    InSpendOrder(ls, S, [rest |-> amount, from |-> <<>>],
        LAMBDA l, acc :
            LET n == Min({acc.rest, AvailableAt(ls[l], l, clock)}) IN
            IF n <= 0 THEN acc
            ELSE [rest |-> acc.rest - n,
                  from |-> [k \in DOMAIN acc.from \cup {l} |-> IF k = l THEN n ELSE acc.from[k]]])

\* A paid request starts an allowance unless one is active, and reserves its price, in the
\* transaction that creates the execution; when the credits do not suffice, nothing of it
\* happens.
Reserve(e, u, human, price) ==
    LET funded == IF HasAllowance(u) THEN lots ELSE Append(lots, Allowance(u, e))
        spendable == {l \in DOMAIN funded : funded[l].owner = u /\ Current(funded[l], clock)}
        allocated == Allocate(funded, spendable, price)
        grant == Transaction("grant", "allowance", e, clock,
                             [a \in {"issuance", u} |->
                                 IF a = u THEN AllowanceAmount ELSE -AllowanceAmount])
        reserve == Transaction("reserve", "execution", e, clock,
                               [a \in {u, "reserve"} |-> IF a = u THEN -price ELSE price])
    IN
    /\ reservation[e] = NoReservation
    /\ Total(LAMBDA l : AvailableAt(funded[l], l, clock), spendable) >= price
    /\ allocated.rest = 0
    /\ lots' = funded
    /\ reservation' = [reservation EXCEPT ![e] =
          [status |-> "held", owner |-> u, human |-> human, amount |-> price, settled |-> 0,
           created |-> clock, finalized |-> Never, allocation |-> allocated.from,
           usage |-> NoUsage]]
    /\ Post(IF HasAllowance(u) THEN {reserve} ELSE {grant, reserve})
    /\ UNCHANGED <<clock, taken, sweep>>

---------------------------------------------------------------------------
(* Settling and releasing: _finalize_reservation *)

\* Faulty variant: a lot that expires at this instant is still good.
LapsedLater(lot, now) == lot.expires < now

Lapsed(lot, now) == lot.expires <= now

\* How much of each allocation the charge takes, in the order lots are spent.
Settle(r, charge) ==
    InSpendOrder(lots, DOMAIN r.allocation,
        [rest |-> charge, of |-> [l \in DOMAIN r.allocation |-> 0]],
        LAMBDA l, acc :
            LET n == Min({r.allocation[l], acc.rest}) IN
            [rest |-> acc.rest - n, of |-> [acc.of EXCEPT ![l] = n]]).of

\* HumanCreditTerms: the platform keeps ten percent.
Reward(charge) == charge - charge \div 10

\* Faulty variant: what is left of lapsed lots goes back to the requester.
FinalPostingsReturned(r, charge, reward, performer, lapsed) ==
    [a \in {"reserve", "revenue", "expired", r.owner, performer} |->
        CASE a = "reserve" -> -r.amount
          [] a = "revenue" -> charge - reward
          [] a = "expired" -> 0
          [] a = r.owner -> r.amount - charge
          [] OTHER -> reward]

\* Faulty variant: the platform keeps the whole charge.
FinalPostingsUnshared(r, charge, reward, performer, lapsed) ==
    [a \in {"reserve", "revenue", "expired", r.owner} |->
        CASE a = "reserve" -> -r.amount
          [] a = "revenue" -> charge
          [] a = "expired" -> lapsed
          [] OTHER -> r.amount - charge - lapsed]

FinalPostings(r, charge, reward, performer, lapsed) ==
    [a \in {"reserve", "revenue", "expired", r.owner, performer} |->
        CASE a = "reserve" -> -r.amount
          [] a = "revenue" -> charge - reward
          [] a = "expired" -> lapsed
          [] a = r.owner -> r.amount - charge - lapsed
          [] OTHER -> reward]

\* The charge is taken; what is left returns to the lots, or expires with them.  The one
\* who answered a human request earns a lot.  Later calls for the execution change nothing.
Finalize(e, charge, performer, usage) ==
    LET r == reservation[e]
        reward == IF r.human /\ charge > 0 THEN Reward(charge) ELSE 0
        settled == Settle(r, charge)
        left == [l \in DOMAIN settled |->
                    IF Lapsed(lots[l], clock) THEN r.allocation[l] - settled[l] ELSE 0]
        consumption(kind, amounts) ==
            {[lot |-> l, kind |-> kind, amount |-> amounts[l], at |-> clock, by |-> e] :
                l \in {k \in DOMAIN amounts : amounts[k] > 0}}
        lapsed == SumFunction(left)
    IN
    /\ r.status = "held"
    /\ reward > 0 => performer # r.owner
    /\ taken' = taken \cup consumption("settle", settled) \cup consumption("expire", left)
    /\ lots' = IF reward > 0
               THEN Append(lots, [owner |-> performer, reference |-> "reward", origin |-> e,
                                  amount |-> reward, issued |-> clock,
                                  expires |-> clock + EarnedDuration])
               ELSE lots
    /\ reservation' = [reservation EXCEPT
          ![e].status = IF charge > 0 THEN "settled" ELSE "released",
          ![e].settled = charge, ![e].finalized = clock, ![e].usage = usage]
    /\ Post({Transaction(IF charge > 0 THEN "settle" ELSE "release", "execution", e, clock,
                         FinalPostings(r, charge, reward, performer, lapsed))})
    /\ UNCHANGED <<clock, sweep>>

---------------------------------------------------------------------------
(* The expiry command: expire_due *)

\* The instant is taken, and the lots are looked for, before any lock.
BeginSweep(s) ==
    LET due == {l \in DOMAIN lots :
                   lots[l].expires <= clock /\ AvailableAt(lots[l], l, clock) > 0}
        earlier(k, l) == \/ lots[k].expires < lots[l].expires
                         \/ lots[k].expires = lots[l].expires /\ k < l
    IN
    /\ sweep[s] = NoSweep
    /\ due # {}
    /\ \E first \in SUBSET due :
          /\ Cardinality(first) = Min({SweepLimit, Cardinality(due)})
          /\ \A k \in first, l \in due \ first : earlier(k, l)
          /\ sweep' = [sweep EXCEPT ![s] = [now |-> clock, candidates |-> first]]
    /\ UNCHANGED <<clock, lots, reservation, taken, journal>>

\* The candidates that still have something to expire, as of the instant of the run.
Due(s) ==
    {l \in sweep[s].candidates : AvailableAt(lots[l], l, sweep[s].now) > 0}

\* The idempotency key of the lot's expiry is in use.
Swept(l) == \E t \in journal : t.reference = "lot" /\ t.of = l

\* With the wallets locked, what is available is computed again.
CommitSweep(s) ==
    LET amount(l) == AvailableAt(lots[l], l, sweep[s].now) IN
    /\ sweep[s] # NoSweep
    /\ \A l \in Due(s) : ~Swept(l)
    /\ taken' = taken \cup
          {[lot |-> l, kind |-> "expire", amount |-> amount(l), at |-> sweep[s].now,
            by |-> "sweep"] : l \in Due(s)}
    /\ Post({Transaction("expire", "lot", l, sweep[s].now,
                         [a \in {"expired", lots[l].owner} |->
                             IF a = "expired" THEN amount(l) ELSE -amount(l)]) : l \in Due(s)})
    /\ sweep' = [sweep EXCEPT ![s] = NoSweep]
    /\ UNCHANGED <<clock, lots, reservation>>

\* The unique index refuses the second expiry of a lot, and with it the whole run.
SweepRefused(s) ==
    /\ sweep[s] # NoSweep
    /\ \E l \in Due(s) : Swept(l)
    /\ sweep' = [sweep EXCEPT ![s] = NoSweep]
    /\ UNCHANGED <<clock, lots, reservation, taken, journal>>

---------------------------------------------------------------------------

Next ==
    \/ Tick
    \/ \E key \in GrantKeys, u \in Users, term \in {1, Never} : Grant(key, u, term)
    \/ \E e \in Executions, u \in Users :
          Reserve(e, u, FALSE, Tariff.maximum) \/ Reserve(e, u, TRUE, HumanPrice)
    \/ \E e \in Executions, usage \in ModelUsages :
          /\ reservation[e].status = "held" /\ ~reservation[e].human
          /\ Finalize(e, Settlement(Tariff, usage).charge, reservation[e].owner, usage)
    \/ \E e \in Executions, charge \in {0, HumanPrice}, u \in Users :
          reservation[e].human /\ Finalize(e, charge, u, NoUsage)
    \/ \E s \in Sweepers : BeginSweep(s) \/ CommitSweep(s) \/ SweepRefused(s)

Spec == Init /\ [][Next]_vars

---------------------------------------------------------------------------
(* Properties *)

\* What is neither taken from a lot nor held.
Open(l) == AvailableAt(lots[l], l, clock)

Balance(a) ==
    Total(LAMBDA t : t.postings[a], {t \in journal : a \in DOMAIN t.postings})

\* The two ways the ledger keeps money agree: a wallet's postings add up to what is left of
\* its lots, the reserve to what is held, and every credit issued or earned is somewhere.
\* The program decides by the lots, the database refuses by the postings; if they drift, a
\* legal request fails (assert_credit_account_nonnegative).
BooksAgree ==
    LET held(e) == IF reservation[e].status = "held" THEN reservation[e].amount ELSE 0
        ofKind(kind) == {c \in taken : c.kind = kind}
        rewards == {l \in DOMAIN lots : lots[l].reference = "reward"}
        amount(l) == lots[l].amount
        consumed(c) == c.amount
    IN
    /\ \A u \in Users : Balance(u) = Total(Open, {l \in DOMAIN lots : lots[l].owner = u})
    /\ Balance("reserve") = Total(held, Executions)
    /\ Balance("expired") = Total(consumed, ofKind("expire"))
    /\ Balance("revenue") = Total(consumed, ofKind("settle")) - Total(amount, rewards)
    /\ Balance("issuance") = -Total(amount, DOMAIN lots \ rewards)

\* Expired credits never come back: once its lot has expired, what is open of it can only
\* be moved away, whatever was held and is given back afterwards (docs/architecture/
\* credits.md:87).
ExpiredStaysExpired ==
    [][\A l \in DOMAIN lots : lots[l].expires <= clock => Open(l)' <= Open(l)]_vars

\* A user has at most one running allowance, and the next starts when it has ended, at that
\* instant or later, however much is left of it (start_for_request).
OneAllowanceAtATime ==
    \A k, l \in DOMAIN lots :
        (/\ k < l /\ lots[k].owner = lots[l].owner
         /\ lots[k].reference = "allowance" /\ lots[l].reference = "allowance")
        => lots[k].expires <= lots[l].issued

---------------------------------------------------------------------------
(* Claims of the documentation that the code does not keep *)

\* docs/architecture/credits.md:91 - the expiry command is idempotent: run again while or
\* after another run expired a lot, it finds nothing left to do.
ExpiryIsIdempotent ==
    \A s \in Sweepers : \A l \in Due(s) : ~Swept(l)

=============================================================================
