---------------------------- MODULE CreditLedgerProofs ----------------------------
(***************************************************************************)
(* Safety of the credit ledger for every set of users, executions, grants  *)
(* and runs of the expiry command, every tariff, price and horizon: its    *)
(* books, what it shows to users and to the audit, and that the triggers   *)
(* of the database accept it.                                              *)
(*                                                                         *)
(* The lots are the first part: allowances do not overlap (LotInv).        *)
(*                                                                         *)
(* The second compares the two books the ledger keeps.  For an account,    *)
(* Posted sums what the journal posted to it, and Issued, Consumed and     *)
(* Reserved sum what the lots, the consumptions and the reservations say   *)
(* should have been; Books says that they are equal.  LedgerInv adds what  *)
(* a step needs to keep them so: what each record looks like, and on what  *)
(* it depends, so that nothing is posted or consumed twice.  From it       *)
(* follow BooksAgree, TypeOK and ExpiredStaysExpired.                      *)
(*                                                                         *)
(* The past is the third part: what is left of a lot as of any instant is  *)
(* never negative, although the expiry command writes into the past.  It   *)
(* needs that nothing comes back to an expired lot (NothingComesBack): an  *)
(* expiry takes what was left at its instant, and at least as much is left *)
(* at any later one.                                                       *)
(*                                                                         *)
(* The statement is the fourth: what the pages add up to for a user is     *)
(* what he holds in reservations, negated (StatementInv), and the balance  *)
(* he is shown follows, since his wallet agrees with his lots.             *)
(*                                                                         *)
(* The audit is the fifth: a reward and the end of the execution it was    *)
(* earned by determine each other (RewardsInv), so that what the audit     *)
(* looks for is there and is the only one.                                 *)
(*                                                                         *)
(* The triggers are the last.  The program allocates and settles lot by    *)
(* lot in a loop, a trigger computes the share of each lot by what the     *)
(* lots before it cover: the two are one function (AllocateShares,         *)
(* SettleShares).  What else the triggers recompute is found in the rows:  *)
(* for each of them a rule says what has to be known of a transaction      *)
(* (AllocatedRule, EndPostedRule, EndTakenRule), and the steps supply it.  *)
(*                                                                         *)
(* The locks of the transactions, a model of their own (LedgerLocks), come *)
(* at the end: on one wallet no sessions wait for each other in a circle.  *)
(* Every transaction locks the wallet before all it shares with others,    *)
(* save the key of admission control (ProgramsAreGuarded), so that the     *)
(* session that has the wallet, or else the one that has the key, waits    *)
(* for nobody.                                                             *)
(***************************************************************************)
EXTENDS LedgerGuards, LedgerLocks, DataInduction, SequenceTheorems, TLAPS

\* Lots are issued now, never ahead of the clock.
IssuedByNow == \A l \in DOMAIN lots : lots[l].issued <= clock

LotInv ==
    /\ clock \in 0..MaxTime
    /\ lots \in Seq(Lots)
    /\ IssuedByNow
    /\ OneAllowanceAtATime

\* The performer of a paid answer always earns something.
LEMMA RewardIsPositive ==
    ASSUME NEW charge \in Nat \ {0}
    PROVE  Reward(charge) \in Nat \ {0}
  BY DEF Reward

\* What appending one lot keeps: an allowance only has to start after the others ended.
LEMMA AppendKeepsLots ==
    ASSUME LotInv, NEW lot \in Lots, lot.issued = clock,
           lot.reference = "allowance" =>
               \A l \in DOMAIN lots :
                   (lots[l].owner = lot.owner /\ lots[l].reference = "allowance")
                     => lots[l].expires <= clock,
           lots' = Append(lots, lot), clock' = clock
    PROVE  LotInv'
  <1>1. lots \in Seq(Lots) /\ lots' \in Seq(Lots) /\ clock \in Int
    BY DEF LotInv
  <1>2. DOMAIN lots = 1..Len(lots) /\ DOMAIN lots' = 1..(Len(lots) + 1)
    BY <1>1
  <1>3. /\ \A l \in 1..Len(lots) : lots'[l] = lots[l]
        /\ lots'[Len(lots) + 1] = lot
    BY <1>1
  <1>4. IssuedByNow'
    <2> SUFFICES ASSUME NEW l \in DOMAIN lots' PROVE lots'[l].issued <= clock
      BY DEF IssuedByNow
    <2>1. CASE l \in 1..Len(lots)
      BY <2>1, <1>2, <1>3 DEF LotInv, IssuedByNow
    <2>2. CASE l = Len(lots) + 1
      BY <2>2, <1>1, <1>3
    <2> QED
      BY <2>1, <2>2, <1>1, <1>2
  <1>5. OneAllowanceAtATime'
    <2> SUFFICES ASSUME NEW k \in DOMAIN lots', NEW l \in DOMAIN lots',
                        k < l, lots'[k].owner = lots'[l].owner,
                        lots'[k].reference = "allowance", lots'[l].reference = "allowance"
                 PROVE  lots'[k].expires <= lots'[l].issued
      BY DEF OneAllowanceAtATime
    <2>1. k \in 1..Len(lots)
      BY <1>1, <1>2
    <2>2. CASE l \in 1..Len(lots)
      BY <2>1, <2>2, <1>2, <1>3 DEF LotInv, OneAllowanceAtATime
    <2>3. CASE l = Len(lots) + 1
      BY <2>1, <2>3, <1>2, <1>3
    <2> QED
      BY <2>2, <2>3, <1>1, <1>2
  <1> QED
    BY <1>1, <1>4, <1>5 DEF LotInv

\* A metered amount is never negative, and never more than the tariff's maximum.
LEMMA ChargeIsBounded ==
    ASSUME NEW t, IsTariff(t), NEW input \in Nat, NEW output \in Nat
    PROVE  Charge(t, input, output) \in 0..t.maximum
  <1>1. t.fixed \in Nat /\ t.inputRate \in Nat /\ t.outputRate \in Nat /\ t.maximum \in Nat
    BY DEF IsTariff
  <1>2. input * t.inputRate \in Nat /\ output * t.outputRate \in Nat
    BY <1>1
  <1>3. t.fixed + input * t.inputRate + output * t.outputRate \in Nat
    BY <1>1, <1>2
  <1> QED
    BY <1>1, <1>3 DEF Charge, AtMost

\* Whatever is known of a model execution when it ends, its charge is covered by what was
\* held for it: finalize never fails because the charge exceeds the reservation.
THEOREM SettlementIsCovered ==
    ASSUME NEW t, IsTariff(t), NEW u \in Usages
    PROVE  Settlement(t, u).charge \in 0..t.maximum
  <1>1. t.maximum \in Nat /\ t.unmetered \in 0..t.maximum
    BY DEF IsTariff
  <1>2. /\ u.outcome \in {"completed", "failed", "cancelled"}
        /\ u.input # Absent => u.input \in Nat
        /\ u.output # Absent => u.output \in Nat
    BY DEF Usages, TokenCounts
  <1>3. CASE u.outcome = "failed"
    BY <1>1, <1>3 DEF Settlement
  <1>4. CASE u.outcome = "cancelled"
    <2> DEFINE output == IF u.output = Absent THEN 0 ELSE u.output
    <2>1. output \in Nat
      BY <1>2
    <2>2. u.input # Absent => Charge(t, u.input, output) \in 0..t.maximum
      BY <1>2, <2>1, ChargeIsBounded
    <2>3. Settlement(t, u).charge = IF u.input = Absent THEN 0 ELSE Charge(t, u.input, output)
      BY <1>4 DEF Settlement
    <2> QED
      BY <1>1, <2>2, <2>3
  <1>5. CASE u.outcome = "completed"
    <2>1. (u.input # Absent /\ u.output # Absent)
            => Charge(t, u.input, u.output) \in 0..t.maximum
      BY <1>2, ChargeIsBounded
    <2>2. Settlement(t, u).charge =
            IF t.maximum = 0 THEN 0
            ELSE IF u.input = Absent \/ u.output = Absent THEN t.unmetered
            ELSE Charge(t, u.input, u.output)
      BY <1>5 DEF Settlement
    <2> QED
      BY <1>1, <2>1, <2>2
  <1> QED
    BY <1>2, <1>3, <1>4, <1>5

\* The charge the application computes is the one the database expects, reason included, for
\* every tariff and every usage: assert_inference_usage_consistent never refuses one.
THEOREM UsageIsAccepted ==
    ASSUME NEW t, IsTariff(t), NEW u \in Usages
    PROVE  Settlement(t, u) = ExpectedUsage(t, u)
  <1>1. t.maximum \in Nat
    BY DEF IsTariff
  <1>2. ASSUME NEW input \in Nat, NEW output \in Nat
        PROVE  LET amount == t.fixed + input * t.inputRate + output * t.outputRate
               IN  Charge(t, input, output) = IF t.maximum < amount THEN t.maximum ELSE amount
    <2> DEFINE amount == t.fixed + input * t.inputRate + output * t.outputRate
    <2>1. input * t.inputRate \in Int /\ output * t.outputRate \in Int /\ t.fixed \in Int
      BY DEF IsTariff
    <2>2. amount \in Int
      BY <2>1
    <2> HIDE DEF amount
    <2>3. Charge(t, input, output) = AtMost(t.maximum, amount)
      BY DEF Charge, amount
    <2>4. Charge(t, input, output) = IF t.maximum < amount THEN t.maximum ELSE amount
      BY <1>1, <2>2, <2>3 DEF AtMost
    <2> QED
      BY <2>4 DEF amount
  <1>3. /\ u.outcome \in {"completed", "failed", "cancelled"}
        /\ u.input # Absent => u.input \in Nat
        /\ u.output # Absent => u.output \in Nat
    BY DEF Usages, TokenCounts
  <1>4. CASE u.outcome = "failed"
    BY <1>4 DEF Settlement, ExpectedUsage
  <1>5. CASE u.outcome = "cancelled"
    <2> DEFINE output == IF u.output = Absent THEN 0 ELSE u.output
    <2>1. output \in Nat
      BY <1>3
    <2>2. CASE u.input = Absent
      BY <1>5, <2>2 DEF Settlement, ExpectedUsage
    <2>3. CASE u.input # Absent
      BY <1>2, <1>3, <1>5, <2>1, <2>3 DEF Settlement, ExpectedUsage
    <2> QED
      BY <2>2, <2>3
  <1>6. CASE u.outcome = "completed"
    <2>1. CASE u.input = Absent \/ u.output = Absent
      BY <1>6, <2>1 DEF Settlement, ExpectedUsage
    <2>2. CASE u.input # Absent /\ u.output # Absent
      BY <1>2, <1>3, <1>6, <2>2 DEF Settlement, ExpectedUsage
    <2> QED
      BY <2>1, <2>2
  <1> QED
    BY <1>3, <1>4, <1>5, <1>6

\* Nothing is issued at first.
LEMMA LotInit == Init => LotInv
  BY AmountsAssumption DEF Init, LotInv, IssuedByNow, OneAllowanceAtATime

\* One step per action; only a grant, a paid request and a rewarded answer issue lots.
LEMMA LotStep ==
    ASSUME LotInv, [Next]_vars
    PROVE  LotInv'
  <1>a. /\ AllowanceDuration \in Nat \ {0} /\ EarnedDuration \in Nat \ {0}
        /\ GrantAmount \in Nat \ {0} /\ AllowanceAmount \in Nat \ {0}
        /\ HumanPrice \in Nat \ {0} /\ MaxTime \in Nat
    BY AmountsAssumption
  <1>b. clock \in 0..MaxTime
    BY DEF LotInv
  <1>0. /\ AllowanceDuration \in Nat \ {0} /\ EarnedDuration \in Nat \ {0}
        /\ GrantAmount \in Nat \ {0} /\ AllowanceAmount \in Nat \ {0}
        /\ HumanPrice \in Nat \ {0} /\ MaxTime \in Nat
        /\ clock \in 0..MaxTime /\ Never \in Nat
        /\ clock + 1 \in Times /\ Never \in Times
        /\ clock + AllowanceDuration \in Times /\ clock + EarnedDuration \in Times
    BY <1>a, <1>b DEF Never, Times
  <1>1. CASE Tick
    <2>1. clock' \in 0..MaxTime /\ clock' = clock + 1 /\ lots' = lots
      BY <1>1, <1>0 DEF Tick
    <2>2. ASSUME NEW l \in DOMAIN lots PROVE lots[l].issued \in Int /\ lots[l].issued <= clock
      <3>1. lots[l] \in Lots
        BY DEF LotInv
      <3> QED
        BY <3>1, <1>0 DEF LotInv, IssuedByNow, Lots
    <2>3. IssuedByNow'
      BY <2>1, <2>2, <1>0 DEF IssuedByNow
    <2>4. OneAllowanceAtATime'
      BY <2>1 DEF LotInv, OneAllowanceAtATime
    <2>5. (lots \in Seq(Lots))'
      BY <2>1 DEF LotInv, Lots, Times, Never
    <2> QED
      BY <2>1, <2>3, <2>4, <2>5 DEF LotInv
  <1>2. ASSUME NEW key \in GrantKeys, NEW u \in Users, NEW term \in {1, Never},
               Grant(key, u, term)
        PROVE  LotInv'
    <2> DEFINE lot == [owner |-> u, reference |-> "grant", origin |-> key,
                       amount |-> GrantAmount, issued |-> clock,
                       expires |-> IF term = Never THEN Never ELSE clock + term]
    <2>1. lot \in Lots
      BY <1>0 DEF Lots, References
    <2>2. lots' = Append(lots, lot) /\ clock' = clock
      BY <1>2 DEF Grant
    <2> QED
      BY <2>1, <2>2, AppendKeepsLots
  <1>3. ASSUME NEW e \in Executions, NEW u \in Users, NEW human, NEW price,
               Reserve(e, u, human, price)
        PROVE  LotInv'
    <2>0. clock' = clock
      BY <1>3 DEF Reserve
    <2>1. CASE HasAllowance(u)
      <3>1. lots' = lots
        BY <1>3, <2>1 DEF Reserve
      <3> QED
        BY <2>0, <3>1 DEF LotInv, IssuedByNow, OneAllowanceAtATime
    <2>2. CASE ~HasAllowance(u)
      <3>1. lots' = Append(lots, Allowance(u, e))
        BY <1>3, <2>2 DEF Reserve
      <3>2. Allowance(u, e) \in Lots
        BY <1>0 DEF Allowance, Lots, References
      <3>3. ASSUME NEW l \in DOMAIN lots, lots[l].owner = u,
                   lots[l].reference = "allowance"
            PROVE  lots[l].expires <= clock
        <4>0. lots[l] \in Lots
          BY DEF LotInv
        <4>1. lots[l].issued \in Int /\ lots[l].expires \in Int
          BY <4>0, <1>0 DEF Lots, Times
        <4>2. lots[l].issued <= clock
          BY DEF LotInv, IssuedByNow
        <4> QED
          BY <4>1, <4>2, <3>3, <2>2, <1>0 DEF HasAllowance, Current
      <3>4. Allowance(u, e).issued = clock /\ Allowance(u, e).owner = u
        BY DEF Allowance
      <3> QED
        BY <2>0, <3>1, <3>2, <3>3, <3>4, AppendKeepsLots
    <2> QED
      BY <2>1, <2>2
  <1>4. ASSUME NEW e \in Executions, NEW charge \in Nat, NEW u, NEW usage,
               reservation[e].human => u \in Users,
               Finalize(e, charge, u, usage)
        PROVE  LotInv'
    <2>0. clock' = clock
      BY <1>4 DEF Finalize
    <2>1. CASE reservation[e].human /\ charge > 0
      <3>0. Reward(charge) > 0 /\ u \in Users
        BY <1>4, <2>1, RewardIsPositive
      <3> DEFINE lot == [owner |-> u, reference |-> "reward", origin |-> e,
                         amount |-> Reward(charge), issued |-> clock,
                         expires |-> clock + EarnedDuration]
      <3>1. lots' = Append(lots, lot)
        BY <1>4, <2>1, <3>0 DEF Finalize
      <3>2. lot \in Lots
        BY <1>0, <2>1, <3>0, RewardIsPositive DEF Lots, References
      <3> QED
        BY <2>0, <3>1, <3>2, AppendKeepsLots
    <2>2. CASE ~(reservation[e].human /\ charge > 0)
      <3>1. lots' = lots
        BY <1>4, <2>2 DEF Finalize
      <3> QED
        BY <2>0, <3>1 DEF LotInv, IssuedByNow, OneAllowanceAtATime
    <2> QED
      BY <2>1, <2>2
  <1>5. ASSUME NEW s \in Sweepers, BeginSweep(s) \/ CommitSweep(s) \/ SweepRefused(s)
        PROVE  LotInv'
    BY <1>5 DEF BeginSweep, CommitSweep, SweepRefused, LotInv, IssuedByNow,
                OneAllowanceAtATime
  <1>6. CASE UNCHANGED vars
    BY <1>6 DEF vars, LotInv, IssuedByNow, OneAllowanceAtATime
  <1>7. {0, HumanPrice} \subseteq Nat
    BY AmountsAssumption
  <1>8. ASSUME NEW usage \in ModelUsages
        PROVE  Settlement(Tariff, usage).charge \in Nat
    <2>1. Tariff.maximum \in Nat
      BY AmountsAssumption DEF IsTariff
    <2> QED
      BY <2>1, AmountsAssumption, SettlementIsCovered
  <1> QED
    BY <1>1, <1>2, <1>3, <1>4, <1>5, <1>6, <1>7, <1>8 DEF Next

\* However many requests of a user come together, and whatever grants, rewards and expiries
\* happen in between, the user's allowances never overlap (start_for_request).
THEOREM AllowancesNeverOverlap == Spec => []OneAllowanceAtATime
  <1>1. LotInv => OneAllowanceAtATime
    BY DEF LotInv
  <1> QED
    BY LotInit, LotStep, <1>1, PTL DEF Spec

---------------------------------------------------------------------------
(* The order lots are spent in *)

\* The lesser of two numbers.
LEMMA LesserOfTwo ==
    ASSUME NEW a \in Int, NEW b \in Int
    PROVE  Min({a, b}) = IF a <= b THEN a ELSE b
  <1> DEFINE m == IF a <= b THEN a ELSE b
  <1>1. m \in {a, b} /\ \A y \in {a, b} : m <= y
    OBVIOUS
  <1>2. \A n \in {a, b} : (\A y \in {a, b} : n <= y) => n = m
    OBVIOUS
  <1> HIDE DEF m
  <1>3. Min({a, b}) = m
    BY <1>1, <1>2 DEF Min
  <1> QED
    BY <1>3 DEF m

\* Any lots have one that is spent last: the order is total.
LEMMA OneIsSpentLast ==
    ASSUME NEW ls, NEW S, IsFiniteSet(S),
           \A l \in S : l \in Int /\ ls[l].expires \in Int /\ ls[l].issued \in Int,
           NEW s \in SUBSET S, s # {}
    PROVE  SpentLast(ls, s) \in s
  <1>1. PICK B : B = {p \in S \X S : SpentBefore(ls, p[1], p[2])}
    OBVIOUS
  <1>2. \A k, l \in S : <<k, l>> \in B <=> SpentBefore(ls, k, l)
    BY <1>1
  <1>3. \A k, l \in S : k = l \/ SpentBefore(ls, k, l) \/ SpentBefore(ls, l, k)
    BY DEF SpentBefore
  <1>4. \A k, l, m \in S : SpentBefore(ls, k, l) /\ SpentBefore(ls, l, m) => SpentBefore(ls, k, m)
    BY DEF SpentBefore
  <1>5. TotallyOrders(B, s)
    BY <1>2, <1>3, <1>4 DEF TotallyOrders
  <1>6. \E l \in s : \A k \in s \ {l} : <<k, l>> \in B
    <2>1. IsFiniteSet(s)
      BY FS_Subset
    <2> QED
      BY <1>5, <2>1, LastOne
  <1>7. \E l \in s : \A k \in s \ {l} : SpentBefore(ls, k, l)
    BY <1>2, <1>6
  <1> QED
    BY <1>7, Zenon DEF SpentLast

---------------------------------------------------------------------------
(* Allocating *)

\* What is still to be allocated after the lots s, and from which of them how much was taken.
Took(acc, l, n) ==
    [rest |-> acc.rest - n,
     from |-> [k \in DOMAIN acc.from \cup {l} |-> IF k = l THEN n ELSE acc.from[k]]]

Allocations(S) == [rest : Int, from : UNION {[D -> Int] : D \in SUBSET S}]

TakenFrom(acc, s, amount, available) ==
    /\ acc.rest \in Nat /\ DOMAIN acc.from \in SUBSET s
    /\ \A l \in DOMAIN acc.from : acc.from[l] \in Nat \ {0} /\ acc.from[l] <= available[l]
    /\ acc.rest + SumFunctionOnSet(acc.from, DOMAIN acc.from) = amount

\* What one more lot adds to what was taken from the others.
LEMMA TakenFromOneMore ==
    ASSUME NEW S, IsFiniteSet(S), NEW amount \in Nat, NEW available \in [S -> Int],
           NEW s \in SUBSET S, NEW l \in s, NEW acc, TakenFrom(acc, s \ {l}, amount, available),
           NEW n, n = (IF acc.rest <= available[l] THEN acc.rest ELSE available[l]), n > 0
    PROVE  TakenFrom(Took(acc, l, n), s, amount, available)
  <1>1. PICK D : D = DOMAIN acc.from
    OBVIOUS
  <1>2. PICK g : g = [k \in D \cup {l} |-> IF k = l THEN n ELSE acc.from[k]]
    OBVIOUS
  <1>3. /\ D \in SUBSET (s \ {l}) /\ IsFiniteSet(D) /\ acc.rest \in Nat
        /\ \A k \in D : acc.from[k] \in Nat \ {0} /\ acc.from[k] <= available[k]
        /\ acc.rest + SumFunctionOnSet(acc.from, D) = amount
    BY <1>1, FS_Subset DEF TakenFrom
  <1>4. Took(acc, l, n) = [rest |-> acc.rest - n, from |-> g]
    BY <1>1, <1>2 DEF Took
  <1>5. n \in Nat \ {0} /\ n <= acc.rest /\ n <= available[l]
    BY <1>3
  <1>6. /\ DOMAIN g = D \cup {l} /\ \A k \in D : g[k] = acc.from[k]
        /\ g[l] = n /\ l \notin D
    BY <1>2, <1>3
  <1>7. SumFunctionOnSet(g, D) = SumFunctionOnSet(acc.from, D)
    BY <1>3, <1>6, SumOfSame DEF IntegersOn
  <1>8. SumFunctionOnSet(g, D \cup {l}) = SumFunctionOnSet(g, D) + n
    BY <1>3, <1>5, <1>6, SumWithOne DEF IntegersOn
  <1>9. SumFunctionOnSet(acc.from, D) \in Int
    BY <1>3, SumIsInteger DEF IntegersOn
  <1>10. PICK x : x = SumFunctionOnSet(acc.from, D)
    OBVIOUS
  <1>11. /\ DOMAIN g \in SUBSET s
         /\ \A k \in DOMAIN g : g[k] \in Nat \ {0} /\ g[k] <= available[k]
    BY <1>3, <1>5, <1>6
  <1>12. acc.rest - n \in Nat
    BY <1>3, <1>5
  <1>13. (acc.rest - n) + SumFunctionOnSet(g, DOMAIN g) = amount
    BY <1>3, <1>5, <1>6, <1>7, <1>8, <1>9
  <1> QED
    BY <1>4, <1>11, <1>12, <1>13 DEF TakenFrom

\* h says how far the loop is after some of the lots.
Allocates(h, ls, S, amount, available) ==
    /\ Allocate(ls, S, amount) = h[S]
    /\ h[{}] = [rest |-> amount, from |-> <<>>]
    /\ \A s \in SUBSET S : s # {} =>
          LET l == SpentLast(ls, s)
              n == Min({h[s \ {l}].rest, available[l]})
          IN  h[s] = IF n <= 0 THEN h[s \ {l}] ELSE Took(h[s \ {l}], l, n)

\* The allocation, lot by lot.
LEMMA AllocateFold ==
    ASSUME NEW ls, NEW S, IsFiniteSet(S), NEW amount \in Nat, NEW available \in [S -> Int],
           \A l \in S : AvailableAt(ls[l], l, clock) = available[l],
           \A s \in SUBSET S : s # {} => SpentLast(ls, s) \in s
    PROVE  \E h : Allocates(h, ls, S, amount, available)
  <1> DEFINE Take(a, l) == LET n == Min({a.rest, AvailableAt(ls[l], l, clock)})
                           IN  IF n <= 0 THEN a ELSE Took(a, l, n)
             Solves(h) == h = [s \in SUBSET S |->
                                  IF s = {} THEN [rest |-> amount, from |-> <<>>]
                                  ELSE Take(h[s \ {SpentLast(ls, s)}], SpentLast(ls, s))]
  <1>1. Allocate(ls, S, amount) = (CHOOSE h : Solves(h))[S]
    BY Zenon DEF Allocate, InSpendOrder, MapThenFoldSet, Took
  <1>2. PICK pick : pick = [s \in SUBSET S |-> SpentLast(ls, s)]
    OBVIOUS
  <1>3. PICK step : step = [p \in S \X Allocations(S) |-> Take(p[2], p[1])]
    OBVIOUS
  <1>4. Picks(pick, S)
    BY <1>2 DEF Picks
  <1>5. \A l \in S, a \in Allocations(S) : Take(a, l) \in Allocations(S)
    <2> SUFFICES ASSUME NEW l \in S, NEW a \in Allocations(S) PROVE Take(a, l) \in Allocations(S)
      OBVIOUS
    <2>0. a.rest \in Int /\ \E D \in SUBSET S : a.from \in [D -> Int]
      BY DEF Allocations
    <2>1. PICK D \in SUBSET S : a.from \in [D -> Int]
      BY <2>0
    <2>2. PICK n \in Int : n = Min({a.rest, AvailableAt(ls[l], l, clock)})
      BY <2>0, LesserOfTwo
    <2>3. [k \in D \cup {l} |-> IF k = l THEN n ELSE a.from[k]] \in [D \cup {l} -> Int]
      BY <2>1, <2>2
    <2>4. D \cup {l} \in SUBSET S
      OBVIOUS
    <2>5. Took(a, l, n)
            = [rest |-> a.rest - n, from |-> [k \in D \cup {l} |-> IF k = l THEN n ELSE a.from[k]]]
      BY <2>1 DEF Took
    <2>6. Took(a, l, n) \in Allocations(S)
      <3>1. a.rest - n \in Int
        BY <2>0, <2>2
      <3> QED
        BY <2>3, <2>4, <2>5, <3>1 DEF Allocations
    <2> QED
      BY <2>2, <2>6
  <1>6. [rest |-> amount, from |-> <<>>] \in Allocations(S)
    <2>1. PICK none : none = <<>>
      OBVIOUS
    <2>2. none \in [{} -> Int] /\ {} \in SUBSET S
      BY <2>1
    <2>3. none \in UNION {[D -> Int] : D \in SUBSET S} /\ amount \in Int
      BY <2>2
    <2> QED
      BY <2>1, <2>3 DEF Allocations
  <1>7. Steps(step, S, Allocations(S))
    BY <1>3, <1>5 DEF Steps
  <1>8. PICK f : TakesApart(f, S, Allocations(S), [rest |-> amount, from |-> <<>>], pick, step)
    BY <1>4, <1>6, <1>7, SubsetRecursion
  <1>9. Solves(f)
    <2>1. ASSUME NEW s \in SUBSET S, s # {}
          PROVE  f[s] = Take(f[s \ {SpentLast(ls, s)}], SpentLast(ls, s))
      <3> HIDE DEF Take
      <3>1. PICK l : l = SpentLast(ls, s)
        OBVIOUS
      <3>2. pick[s] = l /\ l \in S
        BY <1>2, <2>1, <3>1
      <3>3. f[s \ {l}] \in Allocations(S)
        BY <1>8 DEF TakesApart
      <3>4. f[s] = step[<<l, f[s \ {l}]>>]
        BY <1>8, <2>1, <3>2 DEF TakesApart
      <3> QED
        BY <1>3, <3>1, <3>2, <3>3, <3>4
    <2>2. f[{}] = [rest |-> amount, from |-> <<>>] /\ f = [s \in SUBSET S |-> f[s]]
      BY <1>8 DEF TakesApart
    <2> HIDE DEF Take
    <2> QED
      BY <2>1, <2>2
  <1>10. PICK h : h = CHOOSE g : Solves(g)
    OBVIOUS
  <1>11. Solves(h)
    <2> HIDE DEF Solves
    <2> QED
      BY <1>9, <1>10, Zenon
  <1>12. h[{}] = [rest |-> amount, from |-> <<>>]
    BY <1>11
  <1>13. ASSUME NEW s \in SUBSET S, s # {}
         PROVE  LET l == SpentLast(ls, s)
                    n == Min({h[s \ {l}].rest, available[l]})
                IN  h[s] = IF n <= 0 THEN h[s \ {l}] ELSE Took(h[s \ {l}], l, n)
    <2>1. h[s] = Take(h[s \ {SpentLast(ls, s)}], SpentLast(ls, s))
      <3> HIDE DEF Take
      <3> QED
        BY <1>11, <1>13
    <2>2. AvailableAt(ls[SpentLast(ls, s)], SpentLast(ls, s), clock) = available[SpentLast(ls, s)]
      BY <1>13
    <2> QED
      BY <2>1, <2>2, Zenon
  <1> QED
    <2>1. Allocate(ls, S, amount) = h[S]
      BY <1>1, <1>10
    <2>2. Allocates(h, ls, S, amount, available)
      BY <1>12, <1>13, <2>1, Zenon DEF Allocates
    <2> QED
      BY <2>2

\* What is allocated and what is missing add up to the price, and nothing is allocated that
\* is not available.
LEMMA AllocateTakes ==
    ASSUME NEW ls, NEW S, IsFiniteSet(S), NEW amount \in Nat, NEW available \in [S -> Int],
           \A l \in S : AvailableAt(ls[l], l, clock) = available[l],
           \A s \in SUBSET S : s # {} => SpentLast(ls, s) \in s
    PROVE  TakenFrom(Allocate(ls, S, amount), S, amount, available)
  <1>1. PICK h : Allocates(h, ls, S, amount, available)
    BY AllocateFold, Zenon
  <1> DEFINE T == {s \in SUBSET S : TakenFrom(h[s], s, amount, available)}
  <1>2. {} \in T
    <2>1. PICK acc : acc = h[{}]
      OBVIOUS
    <2>2. acc.rest = amount /\ DOMAIN acc.from = {}
      BY <1>1, <2>1 DEF Allocates
    <2>3. TakenFrom(acc, {}, amount, available)
      BY <2>2, SumOfNone DEF TakenFrom
    <2> QED
      BY <2>1, <2>3
  <1>3. PICK pick : pick = [s \in SUBSET S |-> SpentLast(ls, s)]
    OBVIOUS
  <1>4. ASSUME NEW s \in SUBSET S, s # {}, s \ {pick[s]} \in T
        PROVE  s \in T
    <2>1. PICK l : l = SpentLast(ls, s)
      OBVIOUS
    <2>2. l \in s /\ pick[s] = l
      BY <1>3, <1>4, <2>1
    <2>3. PICK acc : acc = h[s \ {l}]
      OBVIOUS
    <2>4. TakenFrom(acc, s \ {l}, amount, available)
      BY <1>4, <2>2, <2>3
    <2>5. acc.rest \in Nat /\ available[l] \in Int
      BY <2>2, <2>4 DEF TakenFrom
    <2>6. PICK n : n = Min({acc.rest, available[l]})
      OBVIOUS
    <2>7. n = IF acc.rest <= available[l] THEN acc.rest ELSE available[l]
      BY <2>5, <2>6, LesserOfTwo
    <2>8. h[s] = IF n <= 0 THEN acc ELSE Took(acc, l, n)
      BY <1>1, <1>4, <2>1, <2>3, <2>6, Zenon DEF Allocates
    <2>9. CASE n <= 0
      <3>1. TakenFrom(acc, s, amount, available)
        BY <2>4 DEF TakenFrom
      <3> QED
        BY <2>8, <2>9, <3>1
    <2>10. CASE ~(n <= 0)
      <3>1. n > 0
        BY <2>5, <2>7, <2>10
      <3>2. TakenFrom(Took(acc, l, n), s, amount, available)
        BY <2>2, <2>4, <2>7, <3>1, TakenFromOneMore
      <3> QED
        BY <2>8, <2>10, <3>2
    <2> QED
      BY <2>9, <2>10
  <1>5. Picks(pick, S)
    BY <1>3 DEF Picks
  <1>6. S \in T
    <2> HIDE DEF T
    <2>1. Shrinks(T, S, pick)
      BY <1>2, <1>4, <1>5 DEF Shrinks
    <2> QED
      BY <2>1, PickInduction
  <1> QED
    BY <1>1, <1>6 DEF Allocates

---------------------------------------------------------------------------
(* Settling *)

Charged(acc, l, n) == [rest |-> acc.rest - n, of |-> [acc.of EXCEPT ![l] = n]]

\* What the lots s have covered of the charge: the rest, unless there is none, took all they
\* held.
Covered(acc, s, allocation, D, charge) ==
    /\ acc.rest \in Nat /\ acc.of \in [D -> Int]
    /\ \A l \in D : acc.of[l] \in 0..allocation[l] /\ (l \notin s => acc.of[l] = 0)
    /\ acc.rest + SumFunctionOnSet(acc.of, D) = charge
    /\ acc.rest = 0 \/ \A l \in s : acc.of[l] = allocation[l]

\* One more lot covers its part of the rest.
LEMMA CoveredByOneMore ==
    ASSUME NEW D, IsFiniteSet(D), NEW charge \in Nat, NEW allocation, \A k \in D : allocation[k] \in Nat,
           NEW s \in SUBSET D, NEW l \in s, NEW acc, Covered(acc, s \ {l}, allocation, D, charge),
           NEW n, n = (IF allocation[l] <= acc.rest THEN allocation[l] ELSE acc.rest)
    PROVE  Covered(Charged(acc, l, n), s, allocation, D, charge)
  <1>1. /\ acc.rest \in Nat /\ acc.of \in [D -> Int]
        /\ \A k \in D : acc.of[k] \in 0..allocation[k]
        /\ \A k \in D : k \notin s \ {l} => acc.of[k] = 0
        /\ acc.rest + SumFunctionOnSet(acc.of, D) = charge
        /\ acc.rest = 0 \/ \A k \in s \ {l} : acc.of[k] = allocation[k]
    BY DEF Covered
  <1>2. n \in Nat /\ n <= acc.rest /\ n <= allocation[l] /\ l \in D /\ acc.of[l] = 0
    BY <1>1
  <1>3. PICK g : g = [acc.of EXCEPT ![l] = n]
    OBVIOUS
  <1>4. g \in [D -> Int] /\ g[l] = n /\ \A k \in D \ {l} : g[k] = acc.of[k]
    BY <1>1, <1>2, <1>3
  <1>5. SumFunctionOnSet(g, D) = SumFunctionOnSet(acc.of, D) - acc.of[l] + g[l]
    BY <1>1, <1>2, <1>4, SumChanged DEF IntegersOn
  <1>6. SumFunctionOnSet(acc.of, D) \in Int
    BY <1>1, SumIsInteger DEF IntegersOn
  <1>7. (acc.rest - n) + SumFunctionOnSet(g, D) = charge /\ acc.rest - n \in Nat
    BY <1>1, <1>2, <1>4, <1>5, <1>6
  <1>8. acc.rest - n = 0 \/ \A k \in s : g[k] = allocation[k]
    BY <1>1, <1>2, <1>4
  <1>9. \A k \in D : g[k] \in 0..allocation[k] /\ (k \notin s => g[k] = 0)
    BY <1>1, <1>2, <1>4
  <1>10. Charged(acc, l, n) = [rest |-> acc.rest - n, of |-> g]
    BY <1>3 DEF Charged
  <1> QED
    BY <1>4, <1>7, <1>8, <1>9, <1>10 DEF Covered

\* h says how far the loop is after some of the lots.
Settles(h, r, D, charge) ==
    /\ Settle(r, charge) = h[D].of
    /\ h[{}] = [rest |-> charge, of |-> [l \in D |-> 0]]
    /\ \A s \in SUBSET D : s # {} =>
          LET l == SpentLast(lots, s)
              n == Min({r.allocation[l], h[s \ {l}].rest})
          IN  h[s] = Charged(h[s \ {l}], l, n)

\* The settlement, lot by lot.
LEMMA SettleFold ==
    ASSUME NEW r, NEW D, IsFiniteSet(D), D = DOMAIN r.allocation, NEW charge \in Nat,
           \A l \in D : r.allocation[l] \in Int,
           \A s \in SUBSET D : s # {} => SpentLast(lots, s) \in s
    PROVE  \E h : Settles(h, r, D, charge)
  <1> DEFINE Take(a, l) == LET n == Min({r.allocation[l], a.rest}) IN Charged(a, l, n)
             Accs == [rest : Int, of : [D -> Int]]
             Solves(h) == h = [s \in SUBSET DOMAIN r.allocation |->
                 IF s = {} THEN [rest |-> charge, of |-> [l \in DOMAIN r.allocation |-> 0]]
                 ELSE Take(h[s \ {SpentLast(lots, s)}], SpentLast(lots, s))]
  <1>1. Settle(r, charge) = (CHOOSE h : Solves(h))[DOMAIN r.allocation].of
    BY Zenon DEF Settle, InSpendOrder, MapThenFoldSet, Charged
  <1>2. PICK pick : pick = [s \in SUBSET D |-> SpentLast(lots, s)]
    OBVIOUS
  <1>3. PICK step : step = [p \in D \X Accs |-> Take(p[2], p[1])]
    OBVIOUS
  <1>4. Picks(pick, D)
    BY <1>2 DEF Picks
  <1>5. \A l \in D, a \in Accs : Take(a, l) \in Accs
    <2> SUFFICES ASSUME NEW l \in D, NEW a \in Accs PROVE Take(a, l) \in Accs
      OBVIOUS
    <2>1. PICK n \in Int : n = Min({r.allocation[l], a.rest})
      BY LesserOfTwo
    <2>2. a.rest - n \in Int /\ [a.of EXCEPT ![l] = n] \in [D -> Int]
      BY <2>1
    <2>3. Charged(a, l, n) \in Accs
      BY <2>2 DEF Charged
    <2> QED
      BY <2>1, <2>3
  <1>6. [rest |-> charge, of |-> [l \in D |-> 0]] \in Accs
    OBVIOUS
  <1>7. Steps(step, D, Accs)
    BY <1>3, <1>5 DEF Steps
  <1>8. PICK f : TakesApart(f, D, Accs, [rest |-> charge, of |-> [l \in D |-> 0]], pick, step)
    <2> HIDE DEF Accs
    <2> QED
      BY <1>4, <1>6, <1>7, SubsetRecursion
  <1>9. Solves(f)
    <2> HIDE DEF Accs, Take
    <2>1. ASSUME NEW s \in SUBSET D, s # {}
          PROVE  f[s] = Take(f[s \ {SpentLast(lots, s)}], SpentLast(lots, s))
      <3>1. PICK l : l = SpentLast(lots, s)
        OBVIOUS
      <3>2. pick[s] = l /\ l \in D
        BY <1>2, <2>1, <3>1
      <3>3. f[s \ {l}] \in Accs
        BY <1>8 DEF TakesApart
      <3>4. f[s] = step[<<l, f[s \ {l}]>>]
        BY <1>8, <2>1, <3>2 DEF TakesApart
      <3> QED
        BY <1>3, <3>1, <3>2, <3>3, <3>4
    <2>2. /\ f[{}] = [rest |-> charge, of |-> [l \in D |-> 0]]
          /\ f = [s \in SUBSET D |-> f[s]]
      BY <1>8 DEF TakesApart
    <2> QED
      BY <2>1, <2>2
  <1>10. PICK h : h = CHOOSE g : Solves(g)
    OBVIOUS
  <1>11. Solves(h)
    <2> HIDE DEF Solves
    <2> QED
      BY <1>9, <1>10, Zenon
  <1>12. h[{}] = [rest |-> charge, of |-> [l \in D |-> 0]]
    BY <1>11
  <1>13. ASSUME NEW s \in SUBSET D, s # {}
         PROVE  h[s] = Take(h[s \ {SpentLast(lots, s)}], SpentLast(lots, s))
    <2> HIDE DEF Take
    <2> QED
      BY <1>11, <1>13
  <1>14. Settle(r, charge) = h[D].of
    BY <1>1, <1>10
  <1>15. Settles(h, r, D, charge)
    BY <1>12, <1>13, <1>14, Zenon DEF Settles
  <1> QED
    BY <1>15

\* A charge that is not more than what is held is taken from the lots it is held of,
\* completely, and of none more than it held.
LEMMA SettleCharges ==
    ASSUME NEW r, NEW D, IsFiniteSet(D), D = DOMAIN r.allocation, NEW charge \in Nat,
           \A l \in D : r.allocation[l] \in Nat,
           \A s \in SUBSET D : s # {} => SpentLast(lots, s) \in s,
           charge <= SumFunctionOnSet(r.allocation, D)
    PROVE  /\ Settle(r, charge) \in [D -> Int]
           /\ \A l \in D : Settle(r, charge)[l] \in 0..r.allocation[l]
           /\ SumFunctionOnSet(Settle(r, charge), D) = charge
  <1>1. PICK h : Settles(h, r, D, charge)
    <2>1. \A l \in D : r.allocation[l] \in Int
      OBVIOUS
    <2> QED
      BY <2>1, SettleFold, Zenon
  <1>2. PICK allocation : allocation = r.allocation
    OBVIOUS
  <1> DEFINE T == {s \in SUBSET D : Covered(h[s], s, allocation, D, charge)}
  <1>3. {} \in T
    <2>1. PICK acc : acc = h[{}]
      OBVIOUS
    <2>2. acc.rest = charge /\ acc.of \in [D -> Int] /\ \A l \in D : acc.of[l] = 0
      BY <1>1, <2>1 DEF Settles
    <2>3. SumFunctionOnSet(acc.of, D) = 0
      BY <2>2, SumOfZeros
    <2>4. Covered(acc, {}, allocation, D, charge)
      BY <1>2, <2>2, <2>3 DEF Covered
    <2> QED
      BY <2>1, <2>4
  <1>4. PICK pick : pick = [s \in SUBSET D |-> SpentLast(lots, s)]
    OBVIOUS
  <1>5. ASSUME NEW s \in SUBSET D, s # {}, s \ {pick[s]} \in T
        PROVE  s \in T
    <2>1. PICK l : l = SpentLast(lots, s)
      OBVIOUS
    <2>2. l \in s /\ pick[s] = l
      BY <1>4, <1>5, <2>1
    <2>3. PICK acc : acc = h[s \ {l}]
      OBVIOUS
    <2>4. Covered(acc, s \ {l}, allocation, D, charge)
      BY <1>5, <2>2, <2>3
    <2>5. acc.rest \in Nat /\ allocation[l] \in Int
      BY <1>2, <2>2, <2>4 DEF Covered
    <2>6. PICK n : n = Min({allocation[l], acc.rest})
      OBVIOUS
    <2>7. n = IF allocation[l] <= acc.rest THEN allocation[l] ELSE acc.rest
      BY <2>5, <2>6, LesserOfTwo
    <2>8. h[s] = Charged(acc, l, n)
      BY <1>1, <1>2, <1>5, <2>1, <2>3, <2>6, Zenon DEF Settles
    <2>9. Covered(Charged(acc, l, n), s, allocation, D, charge)
      BY <1>2, <2>2, <2>4, <2>7, CoveredByOneMore
    <2> QED
      BY <2>8, <2>9
  <1>6. Picks(pick, D)
    BY <1>4 DEF Picks
  <1>7. D \in T
    <2> HIDE DEF T
    <2>1. Shrinks(T, D, pick)
      BY <1>3, <1>5, <1>6 DEF Shrinks
    <2> QED
      BY <2>1, PickInduction
  <1>8. PICK acc : acc = h[D]
    OBVIOUS
  <1>9. Covered(acc, D, allocation, D, charge) /\ Settle(r, charge) = acc.of
    BY <1>1, <1>7, <1>8 DEF Settles
  <1>10. acc.rest = 0
    <2>1. CASE \A l \in D : acc.of[l] = allocation[l]
      <3>1. SumFunctionOnSet(acc.of, D) = SumFunctionOnSet(allocation, D)
        BY <1>2, <2>1, SumOfSame DEF IntegersOn
      <3>2. SumFunctionOnSet(allocation, D) \in Int
        BY <1>2, SumIsInteger DEF IntegersOn
      <3>3. acc.rest + SumFunctionOnSet(acc.of, D) = charge /\ acc.rest \in Nat
        BY <1>9 DEF Covered
      <3>4. charge <= SumFunctionOnSet(allocation, D)
        BY <1>2
      <3> QED
        BY <3>1, <3>2, <3>3, <3>4
    <2> QED
      BY <1>9, <2>1 DEF Covered
  <1>11. SumFunctionOnSet(acc.of, D) \in Int
    BY <1>9, SumIsInteger DEF IntegersOn, Covered
  <1>12. SumFunctionOnSet(acc.of, D) = charge
    BY <1>9, <1>10, <1>11 DEF Covered
  <1> QED
    BY <1>2, <1>9, <1>12 DEF Covered

---------------------------------------------------------------------------
(* The two books *)

\* What a transaction posts to an account, and what a lot, a consumption and a reservation
\* say should have been posted to it.
Entry(t, a) == IF a \in DOMAIN t.postings THEN t.postings[a] ELSE 0

LotPart(a, lot) ==
    IF a = lot.owner THEN lot.amount
    ELSE IF a = (IF lot.reference = "reward" THEN "revenue" ELSE "issuance") THEN -lot.amount
    ELSE 0

TakenPart(a, owner, c) ==
    IF a = owner THEN -c.amount
    ELSE IF a = (IF c.kind = "expire" THEN "expired" ELSE "revenue") THEN c.amount
    ELSE 0

HeldPart(a, r) ==
    IF r.status # "held" THEN 0
    ELSE IF a = r.owner THEN -r.amount
    ELSE IF a = "reserve" THEN r.amount
    ELSE 0

Posted(a) == SumFunctionOnSet([t \in journal |-> Entry(t, a)], journal)
Issued(a) == SumFunctionOnSet([l \in DOMAIN lots |-> LotPart(a, lots[l])], DOMAIN lots)
Consumed(a) == SumFunctionOnSet([c \in taken |-> TakenPart(a, lots[c.lot].owner, c)], taken)
Reserved(a) == SumFunctionOnSet([e \in Executions |-> HeldPart(a, reservation[e])], Executions)

Books(a) == Posted(a) = Issued(a) + Consumed(a) + Reserved(a)

GoodReservation(r) ==
    /\ r = [status |-> r.status, owner |-> r.owner, human |-> r.human, amount |-> r.amount,
            settled |-> r.settled, created |-> r.created, finalized |-> r.finalized,
            allocation |-> r.allocation, usage |-> r.usage]
    /\ r.status \in {"held", "settled", "released"}
    /\ r.owner \in Users /\ r.human \in BOOLEAN
    /\ r.amount \in Nat \ {0} /\ r.amount = (IF r.human THEN HumanPrice ELSE Tariff.maximum)
    /\ r.settled \in 0..r.amount
    /\ r.created \in 0..clock
    /\ IF r.status = "held" THEN r.finalized = Never ELSE r.finalized \in r.created..clock
    /\ DOMAIN r.allocation \subseteq DOMAIN lots
    /\ \A l \in DOMAIN r.allocation : r.allocation[l] \in Nat \ {0} /\ lots[l].owner = r.owner
    /\ SumFunctionOnSet(r.allocation, DOMAIN r.allocation) = r.amount
    /\ r.usage \in Usages \cup {NoUsage}

ReservationInv ==
    /\ reservation = [e \in Executions |-> reservation[e]]
    /\ \A e \in Executions : reservation[e] = NoReservation \/ GoodReservation(reservation[e])

\* An execution takes from its lots when it ends, and no lot is expired twice.
IsConsumed(c) ==
    /\ c \in Consumptions /\ c.at <= clock
    /\ IF c.by = "sweep" THEN Swept(c.lot)
       ELSE reservation[c.by].status \in {"settled", "released"}

TakenInv ==
    /\ IsFiniteSet(taken)
    /\ \A c \in taken : IsConsumed(c)

\* What a transaction is for has happened, so that none is posted twice.
IsPosted(t) ==
    /\ IsTransaction(t)
    /\ t.reference = "grant" =>
          \E l \in DOMAIN lots : lots[l].reference = "grant" /\ lots[l].origin = t.of
    /\ t.reference \in {"allowance", "execution"} => reservation[t.of].status # "none"
    /\ t.kind \in {"settle", "release"} =>
          t.reference = "execution" /\ reservation[t.of].status \in {"settled", "released"}

JournalInv ==
    /\ IsFiniteSet(journal)
    /\ \A t \in journal : IsPosted(t)

IsSweep(p) == p = NoSweep \/ (p.now \in 0..clock /\ p.candidates \subseteq DOMAIN lots)

SweepInv ==
    /\ sweep = [s \in Sweepers |-> sweep[s]]
    /\ \A s \in Sweepers : IsSweep(sweep[s])

LedgerInv ==
    /\ LotInv /\ ReservationInv /\ TakenInv /\ JournalInv /\ SweepInv
    /\ \A a \in Accounts : Books(a)

---------------------------------------------------------------------------
(* The terms are integers *)

\* What the assumptions say, ready to be cited.
LEMMA Facts ==
    /\ AllowanceDuration \in Nat \ {0} /\ EarnedDuration \in Nat \ {0}
    /\ GrantAmount \in Nat \ {0} /\ AllowanceAmount \in Nat \ {0}
    /\ HumanPrice \in Nat \ {0} /\ MaxTime \in Nat /\ SweepLimit \in Nat \ {0}
    /\ Tariff.maximum \in Nat \ {0}
    /\ Never \in Nat /\ Never > MaxTime + AllowanceDuration /\ Never > MaxTime + EarnedDuration
    /\ IsFiniteSet(Executions) /\ "sweep" \notin Executions
    /\ {"issuance", "reserve", "revenue", "expired", "none"} \cap Users = {}
  BY AmountsAssumption, SetsAssumption DEF Never, IsTariff

\* What LotInv says of each lot.
LEMMA LotsAre ==
    ASSUME LotInv
    PROVE  /\ clock \in 0..MaxTime /\ clock \in Nat
           /\ DOMAIN lots = 1..Len(lots) /\ Len(lots) \in Nat /\ IsFiniteSet(DOMAIN lots)
           /\ \A l \in DOMAIN lots :
                 /\ l \in Int /\ lots[l] \in Lots /\ lots[l].owner \in Users
                 /\ lots[l].amount \in Nat \ {0} /\ lots[l].issued \in 0..clock
                 /\ lots[l].expires \in Nat /\ lots[l].expires <= Never
                 /\ lots[l].reference \in References
                 /\ lots[l].origin \in GrantKeys \cup Executions
  <1>1. lots \in Seq(Lots) /\ clock \in 0..MaxTime /\ MaxTime \in Nat /\ Never \in Nat
    BY Facts DEF LotInv
  <1>2. DOMAIN lots = 1..Len(lots) /\ Len(lots) \in Nat /\ \A l \in DOMAIN lots : lots[l] \in Lots
    BY <1>1
  <1>3. IsFiniteSet(1..Len(lots))
    BY <1>2, FS_Interval
  <1>4. \A l \in DOMAIN lots : lots[l].issued <= clock
    BY DEF LotInv, IssuedByNow
  <1>5. clock \in Nat
    BY <1>1
  <1>6. ASSUME NEW l \in DOMAIN lots
        PROVE  /\ l \in Int /\ lots[l] \in Lots /\ lots[l].owner \in Users
               /\ lots[l].amount \in Nat \ {0} /\ lots[l].issued \in 0..clock
               /\ lots[l].expires \in Nat /\ lots[l].expires <= Never
               /\ lots[l].reference \in References
               /\ lots[l].origin \in GrantKeys \cup Executions
    <2>1. lots[l] \in Lots /\ l \in Int
      BY <1>2
    <2>2. lots[l].issued \in 0..MaxTime /\ lots[l].expires \in 0..Never
      BY <2>1 DEF Lots, Times
    <2>3. /\ lots[l].owner \in Users /\ lots[l].amount \in Nat \ {0}
          /\ lots[l].reference \in References /\ lots[l].origin \in GrantKeys \cup Executions
      BY <2>1 DEF Lots
    <2> QED
      BY <1>1, <1>4, <2>1, <2>2, <2>3
  <1> QED
    BY <1>1, <1>2, <1>3, <1>5, <1>6

\* What shows in an account is a number of credits.
LEMMA TermsAreIntegers ==
    ASSUME LotInv, ReservationInv, TakenInv, JournalInv, NEW a
    PROVE  /\ \A t \in journal : Entry(t, a) \in Int
           /\ \A l \in DOMAIN lots : LotPart(a, lots[l]) \in Int
           /\ \A c \in taken : TakenPart(a, lots[c.lot].owner, c) \in Int
           /\ \A e \in Executions : HeldPart(a, reservation[e]) \in Int
  <1>1. \A t \in journal : Entry(t, a) \in Int
    BY DEF JournalInv, IsPosted, IsTransaction, Entry
  <1>2. \A l \in DOMAIN lots : LotPart(a, lots[l]) \in Int
    BY LotsAre DEF LotPart
  <1>3. \A c \in taken : TakenPart(a, lots[c.lot].owner, c) \in Int
    BY DEF TakenPart, TakenInv, IsConsumed, Consumptions
  <1>4. \A e \in Executions : HeldPart(a, reservation[e]) \in Int
    BY DEF HeldPart, ReservationInv, GoodReservation, NoReservation
  <1> QED
    BY <1>1, <1>2, <1>3, <1>4

\* The sums are integers.
LEMMA SumsAreIntegers ==
    ASSUME LotInv, ReservationInv, TakenInv, JournalInv, NEW a
    PROVE  Posted(a) \in Int /\ Issued(a) \in Int /\ Consumed(a) \in Int /\ Reserved(a) \in Int
  <1>1. PICK f : f = [t \in journal |-> Entry(t, a)]
    OBVIOUS
  <1>2. PICK g : g = [l \in DOMAIN lots |-> LotPart(a, lots[l])]
    OBVIOUS
  <1>3. PICK h : h = [c \in taken |-> TakenPart(a, lots[c.lot].owner, c)]
    OBVIOUS
  <1>4. PICK k : k = [e \in Executions |-> HeldPart(a, reservation[e])]
    OBVIOUS
  <1>5. /\ IntegersOn(f, journal) /\ IntegersOn(g, DOMAIN lots) /\ IntegersOn(h, taken)
        /\ IntegersOn(k, Executions)
    BY <1>1, <1>2, <1>3, <1>4, TermsAreIntegers DEF IntegersOn
  <1>6. IsFiniteSet(journal) /\ IsFiniteSet(DOMAIN lots) /\ IsFiniteSet(taken) /\ IsFiniteSet(Executions)
    BY LotsAre, Facts DEF JournalInv, TakenInv
  <1>7. SumFunctionOnSet(f, journal) \in Int /\ SumFunctionOnSet(g, DOMAIN lots) \in Int
    BY <1>5, <1>6, SumIsInteger
  <1>8. SumFunctionOnSet(h, taken) \in Int /\ SumFunctionOnSet(k, Executions) \in Int
    BY <1>5, <1>6, SumIsInteger
  <1> QED
    BY <1>1, <1>2, <1>3, <1>4, <1>7, <1>8, Zenon DEF Posted, Issued, Consumed, Reserved

---------------------------------------------------------------------------
(* How the sums change *)

\* What a transaction shows: its postings without those of nothing.
LEMMA TransactionIs ==
    ASSUME NEW kind, NEW reference, NEW of, NEW at, NEW p, NEW t,
           t = Transaction(kind, reference, of, at, p)
    PROVE  /\ t.kind = kind /\ t.reference = reference /\ t.of = of /\ t.at = at
           /\ \A a \in DOMAIN t.postings :
                 a \in DOMAIN p /\ t.postings[a] = p[a] /\ t.postings[a] # 0
           /\ \A a : Entry(t, a) = IF a \in DOMAIN p THEN p[a] ELSE 0
  <1>1. PICK q : q = [a \in {b \in DOMAIN p : p[b] # 0} |-> p[a]]
    OBVIOUS
  <1>2. t = [kind |-> kind, reference |-> reference, of |-> of, at |-> at, postings |-> q]
    BY <1>1 DEF Transaction
  <1>3. DOMAIN q = {b \in DOMAIN p : p[b] # 0} /\ \A a \in DOMAIN q : q[a] = p[a]
    BY <1>1
  <1>4. \A a : Entry(t, a) = IF a \in DOMAIN q THEN q[a] ELSE 0
    BY <1>2 DEF Entry
  <1> QED
    BY <1>2, <1>3, <1>4

\* New transactions add what they post.
LEMMA PostedMore ==
    ASSUME NEW a, IsFiniteSet(journal), \A t \in journal : Entry(t, a) \in Int,
           NEW E, IsFiniteSet(E), journal \cap E = {}, \A t \in E : Entry(t, a) \in Int,
           journal' = journal \cup E
    PROVE  Posted(a)' = Posted(a) + SumFunctionOnSet([t \in E |-> Entry(t, a)], E)
  <1>1. PICK f : f = [t \in journal |-> Entry(t, a)]
    OBVIOUS
  <1>2. PICK g : g = [t \in E |-> Entry(t, a)]
    OBVIOUS
  <1>3. PICK J : J = journal \cup E
    OBVIOUS
  <1>4. PICK h : h = [t \in J |-> Entry(t, a)]
    OBVIOUS
  <1>5. IntegersOn(f, journal) /\ IntegersOn(g, E)
    BY <1>1, <1>2 DEF IntegersOn
  <1>6. \A t \in journal : h[t] = f[t]
    BY <1>1, <1>3, <1>4
  <1>7. \A t \in E : h[t] = g[t]
    BY <1>2, <1>3, <1>4
  <1>8. SumFunctionOnSet(h, J) = SumFunctionOnSet(f, journal) + SumFunctionOnSet(g, E)
    BY <1>3, <1>5, <1>6, <1>7, SumOfUnion
  <1>9. Posted(a)' = SumFunctionOnSet(h, J)
    <2>1. journal' = J
      BY <1>3
    <2>2. h = [t \in journal' |-> Entry(t, a)]
      BY <1>4, <2>1
    <2> QED
      BY <2>1, <2>2, Zenon DEF Posted
  <1> QED
    BY <1>1, <1>2, <1>8, <1>9, Zenon DEF Posted

\* One new transaction.
LEMMA PostedOne ==
    ASSUME NEW a, IsFiniteSet(journal), \A t \in journal : Entry(t, a) \in Int,
           NEW t, t \notin journal, Entry(t, a) \in Int, journal' = journal \cup {t}
    PROVE  Posted(a)' = Posted(a) + Entry(t, a)
  <1>1. PICK g : g = [x \in {t} |-> Entry(x, a)]
    OBVIOUS
  <1>2. IsFiniteSet({t}) /\ journal \cap {t} = {}
    BY FS_Singleton
  <1>3. Posted(a)' = Posted(a) + SumFunctionOnSet([x \in {t} |-> Entry(x, a)], {t})
    BY <1>2, PostedMore
  <1>4. SumFunctionOnSet(g, {t}) = g[t]
    <2>1. SumFunctionOnSet(g, {}) = 0 /\ IsFiniteSet({}) /\ IntegersOn(g, {})
      BY SumOfNone, FS_EmptySet DEF IntegersOn
    <2>2. SumFunctionOnSet(g, {} \cup {t}) = SumFunctionOnSet(g, {}) + g[t]
      <3>1. g[t] \in Int /\ t \notin {}
        BY <1>1
      <3> QED
        BY <2>1, <3>1, SumWithOne, Zenon
    <2>3. {} \cup {t} = {t} /\ g[t] \in Int
      BY <1>1
    <2>4. SumFunctionOnSet(g, {t}) = SumFunctionOnSet(g, {}) + g[t]
      BY <2>2, <2>3, Zenon
    <2> QED
      BY <2>1, <2>3, <2>4
  <1>5. SumFunctionOnSet([x \in {t} |-> Entry(x, a)], {t}) = Entry(t, a)
    <2>1. g[t] = Entry(t, a)
      BY <1>1
    <2> QED
      BY <1>1, <1>4, <2>1, Zenon
  <1> QED
    BY <1>3, <1>5, Zenon

\* New consumptions add what was taken; lots keep their owners.
LEMMA ConsumedMore ==
    ASSUME NEW a, IsFiniteSet(taken), \A c \in taken : TakenPart(a, lots[c.lot].owner, c) \in Int,
           NEW C, IsFiniteSet(C), taken \cap C = {},
           \A c \in C : TakenPart(a, lots[c.lot].owner, c) \in Int,
           taken' = taken \cup C, \A c \in taken \cup C : lots'[c.lot].owner = lots[c.lot].owner
    PROVE  Consumed(a)' = Consumed(a)
               + SumFunctionOnSet([c \in C |-> TakenPart(a, lots[c.lot].owner, c)], C)
  <1>1. PICK f : f = [c \in taken |-> TakenPart(a, lots[c.lot].owner, c)]
    OBVIOUS
  <1>2. PICK g : g = [c \in C |-> TakenPart(a, lots[c.lot].owner, c)]
    OBVIOUS
  <1>3. PICK T : T = taken \cup C
    OBVIOUS
  <1>4. PICK h : h = [c \in T |-> TakenPart(a, lots'[c.lot].owner, c)]
    OBVIOUS
  <1>5. IntegersOn(f, taken) /\ IntegersOn(g, C)
    BY <1>1, <1>2 DEF IntegersOn
  <1>6. \A c \in taken : h[c] = f[c]
    BY <1>1, <1>3, <1>4
  <1>7. \A c \in C : h[c] = g[c]
    BY <1>2, <1>3, <1>4
  <1>8. SumFunctionOnSet(h, T) = SumFunctionOnSet(f, taken) + SumFunctionOnSet(g, C)
    BY <1>3, <1>5, <1>6, <1>7, SumOfUnion
  <1>9. Consumed(a)' = SumFunctionOnSet(h, T)
    <2>1. taken' = T
      BY <1>3
    <2>2. h = [c \in taken' |-> TakenPart(a, lots'[c.lot].owner, c)]
      BY <1>4, <2>1
    <2> QED
      BY <2>1, <2>2, Zenon DEF Consumed
  <1> QED
    BY <1>1, <1>2, <1>8, <1>9, Zenon DEF Consumed

\* Without a new consumption nothing more was consumed.
LEMMA ConsumedSame ==
    ASSUME NEW a, IsFiniteSet(taken), \A c \in taken : TakenPart(a, lots[c.lot].owner, c) \in Int,
           taken' = taken, \A c \in taken : lots'[c.lot].owner = lots[c.lot].owner
    PROVE  Consumed(a)' = Consumed(a)
  <1>1. [c \in taken' |-> TakenPart(a, lots'[c.lot].owner, c)]
          = [c \in taken |-> TakenPart(a, lots[c.lot].owner, c)]
    OBVIOUS
  <1> QED
    BY <1>1, Zenon DEF Consumed

\* One new lot.
LEMMA IssuedOne ==
    ASSUME NEW a, LotInv, NEW lot, LotPart(a, lot) \in Int, lots' = Append(lots, lot)
    PROVE  Issued(a)' = Issued(a) + LotPart(a, lot)
  <1>1. PICK n \in Nat : n = Len(lots) /\ DOMAIN lots = 1..n
    BY LotsAre
  <1>2. lots \in Seq(Lots) /\ \A l \in DOMAIN lots : LotPart(a, lots[l]) \in Int
    BY LotsAre DEF LotInv, LotPart
  <1>3. /\ DOMAIN lots' = (1..n) \cup {n + 1} /\ n + 1 \notin 1..n
        /\ lots'[n + 1] = lot /\ \A l \in 1..n : lots'[l] = lots[l]
    BY <1>1, <1>2
  <1>4. PICK f : f = [l \in DOMAIN lots |-> LotPart(a, lots[l])]
    OBVIOUS
  <1>5. PICK h : h = [l \in DOMAIN lots' |-> LotPart(a, lots'[l])]
    OBVIOUS
  <1>6. IntegersOn(h, 1..n) /\ \A l \in 1..n : h[l] = f[l]
    BY <1>1, <1>2, <1>3, <1>4, <1>5 DEF IntegersOn
  <1>7. h[n + 1] = LotPart(a, lot)
    BY <1>3, <1>5
  <1>8. IsFiniteSet(1..n)
    BY <1>1, FS_Interval
  <1>9. SumFunctionOnSet(h, (1..n) \cup {n + 1}) = SumFunctionOnSet(h, 1..n) + h[n + 1]
    <2>1. PICK m : m = n + 1
      OBVIOUS
    <2>2. PICK D : D = 1..n
      OBVIOUS
    <2>3. h[m] \in Int /\ m \notin D
      BY <1>3, <1>7, <2>1, <2>2
    <2>4. IsFiniteSet(D) /\ IntegersOn(h, D)
      BY <1>6, <1>8, <2>2
    <2>5. SumFunctionOnSet(h, D \cup {m}) = SumFunctionOnSet(h, D) + h[m]
      BY <2>3, <2>4, SumWithOne, Zenon
    <2> QED
      BY <2>1, <2>2, <2>5, Zenon
  <1>10. SumFunctionOnSet(f, 1..n) = SumFunctionOnSet(h, 1..n)
    BY <1>6, <1>8, SumOfSame
  <1>11. Issued(a)' = SumFunctionOnSet(h, (1..n) \cup {n + 1})
    BY <1>3, <1>5, Zenon DEF Issued
  <1>12. Issued(a) = SumFunctionOnSet(f, 1..n)
    BY <1>1, <1>4, Zenon DEF Issued
  <1> QED
    BY <1>7, <1>9, <1>10, <1>11, <1>12

\* One reservation that changes.
LEMMA ReservedOne ==
    ASSUME NEW a, \A e \in Executions : HeldPart(a, reservation[e]) \in Int,
           NEW e \in Executions, NEW r, HeldPart(a, r) \in Int,
           reservation = [x \in Executions |-> reservation[x]],
           reservation' = [reservation EXCEPT ![e] = r]
    PROVE  Reserved(a)' = Reserved(a) - HeldPart(a, reservation[e]) + HeldPart(a, r)
  <1>1. PICK f : f = [x \in Executions |-> HeldPart(a, reservation[x])]
    OBVIOUS
  <1>2. PICK h : h = [x \in Executions |-> HeldPart(a, reservation'[x])]
    OBVIOUS
  <1>3. reservation'[e] = r /\ \A x \in Executions \ {e} : reservation'[x] = reservation[x]
    BY Zenon
  <1>4. /\ IntegersOn(f, Executions) /\ IntegersOn(h, Executions)
        /\ f[e] = HeldPart(a, reservation[e]) /\ h[e] = HeldPart(a, r)
        /\ \A x \in Executions \ {e} : h[x] = f[x]
    BY <1>1, <1>2, <1>3 DEF IntegersOn
  <1>5. SumFunctionOnSet(h, Executions) = SumFunctionOnSet(f, Executions) - f[e] + h[e]
    BY <1>4, Facts, SumChanged
  <1> QED
    BY <1>1, <1>2, <1>4, <1>5, Zenon DEF Reserved

\* What a step leaves alone.
LEMMA PostedSame == ASSUME NEW a, journal' = journal PROVE Posted(a)' = Posted(a)
  <1>1. [t \in journal' |-> Entry(t, a)] = [t \in journal |-> Entry(t, a)]
    OBVIOUS
  <1> QED
    BY <1>1, Zenon DEF Posted

\* Without a new lot nothing more was issued.
LEMMA IssuedSame == ASSUME NEW a, lots' = lots PROVE Issued(a)' = Issued(a)
  <1>1. [l \in DOMAIN lots' |-> LotPart(a, lots'[l])] = [l \in DOMAIN lots |-> LotPart(a, lots[l])]
    OBVIOUS
  <1> QED
    BY <1>1, Zenon DEF Issued

\* Without a change of a reservation nothing more is reserved.
LEMMA ReservedSame == ASSUME NEW a, reservation' = reservation PROVE Reserved(a)' = Reserved(a)
  <1>1. [e \in Executions |-> HeldPart(a, reservation'[e])]
          = [e \in Executions |-> HeldPart(a, reservation[e])]
    OBVIOUS
  <1> QED
    BY <1>1, Zenon DEF Reserved

---------------------------------------------------------------------------
(* What is used and held *)

\* What is used and held of a lot is a natural number, as of any instant.
LEMMA UseIsInteger ==
    ASSUME ReservationInv, TakenInv, NEW l, NEW now
    PROVE  UsedAt(l, now) \in Nat /\ HeldAt(l, now) \in Nat
  <1>1. PICK C : C = {c \in taken : c.lot = l /\ c.at <= now}
    OBVIOUS
  <1>2. PICK f : f = [c \in C |-> c.amount]
    OBVIOUS
  <1>3. IsFiniteSet(C) /\ \A c \in C : f[c] \in Nat
    <2>1. C \subseteq taken
      BY <1>1
    <2>2. IsFiniteSet(C)
      BY <2>1, FS_Subset DEF TakenInv
    <2>3. \A c \in C : c.amount \in Nat
      BY <2>1 DEF TakenInv, IsConsumed, Consumptions
    <2> QED
      BY <1>2, <2>2, <2>3
  <1>4. UsedAt(l, now) = SumFunctionOnSet(f, C)
    <2>1. DOMAIN f = C
      BY <1>2
    <2>2. UsedAt(l, now) = SumFunctionOnSet(f, DOMAIN f)
      BY <1>1, <1>2, Zenon DEF UsedAt, Total, SumFunction
    <2> QED
      BY <2>1, <2>2, Zenon
  <1>5. PICK E : E = {e \in Executions : Holds(e, l, now)}
    OBVIOUS
  <1>6. PICK g : g = [e \in E |-> reservation[e].allocation[l]]
    OBVIOUS
  <1>7. IsFiniteSet(E) /\ \A e \in E : g[e] \in Nat
    <2>1. E \subseteq Executions
      BY <1>5
    <2>2. IsFiniteSet(E)
      BY <2>1, Facts, FS_Subset
    <2>3. ASSUME NEW e \in E PROVE reservation[e].allocation[l] \in Nat
      <3>1. l \in DOMAIN reservation[e].allocation /\ e \in Executions
        BY <1>5 DEF Holds
      <3>2. reservation[e] # NoReservation
        BY <3>1 DEF NoReservation
      <3> QED
        BY <3>1, <3>2 DEF ReservationInv, GoodReservation
    <2> QED
      BY <1>6, <2>2, <2>3
  <1>8. HeldAt(l, now) = SumFunctionOnSet(g, E)
    <2>1. DOMAIN g = E
      BY <1>6
    <2>2. HeldAt(l, now) = SumFunctionOnSet(g, DOMAIN g)
      BY <1>5, <1>6, Zenon DEF HeldAt, Total, SumFunction
    <2> QED
      BY <2>1, <2>2, Zenon
  <1> QED
    BY <1>3, <1>4, <1>7, <1>8, SumIsNatural

---------------------------------------------------------------------------
(* What stays true of the past *)

\* A step that only adds lots, transactions and ends.
Onward ==
    /\ clock' \in Nat /\ clock <= clock'
    /\ \A l \in DOMAIN lots : l \in DOMAIN lots' /\ lots'[l] = lots[l]
    /\ \A e \in Executions :
          /\ reservation[e].status # "none" => reservation'[e].status # "none"
          /\ reservation[e].status \in {"settled", "released"}
                => reservation'[e].status \in {"settled", "released"}
    /\ journal \subseteq journal'

\* What was good before such a step is good after it.
LEMMA ThePastStays ==
    ASSUME LotInv, Onward
    PROVE  /\ \A r : GoodReservation(r) => GoodReservation(r)'
           /\ \A c : IsConsumed(c) => IsConsumed(c)'
           /\ \A t : IsPosted(t) => IsPosted(t)'
           /\ \A p : IsSweep(p) => IsSweep(p)'
  <1>1. clock \in Nat /\ clock' \in Nat /\ clock <= clock'
    BY LotsAre DEF Onward
  <1>2. \A l \in DOMAIN lots : l \in DOMAIN lots' /\ lots'[l] = lots[l]
    BY DEF Onward
  <1>3. DOMAIN lots \subseteq DOMAIN lots'
    BY <1>2
  <1>4. ASSUME NEW r, GoodReservation(r)
        PROVE  GoodReservation(r)'
    <2>1. r.created \in 0..clock'
      BY <1>1, <1>4 DEF GoodReservation
    <2>2. IF r.status = "held" THEN r.finalized = Never ELSE r.finalized \in r.created..clock'
      <3>1. r.created \in Nat
        BY <1>4 DEF GoodReservation
      <3> QED
        BY <1>1, <1>4, <3>1 DEF GoodReservation
    <2>3. DOMAIN r.allocation \subseteq DOMAIN lots'
      BY <1>3, <1>4 DEF GoodReservation
    <2>4. \A l \in DOMAIN r.allocation : r.allocation[l] \in Nat \ {0} /\ lots'[l].owner = r.owner
      BY <1>2, <1>4 DEF GoodReservation
    <2> QED
      BY <1>4, <2>1, <2>2, <2>3, <2>4 DEF GoodReservation
  <1>5. ASSUME NEW c, IsConsumed(c)
        PROVE  IsConsumed(c)'
    <2>1. c \in Consumptions'
      BY <1>3, <1>5 DEF IsConsumed, Consumptions
    <2>2. c.at <= clock'
      <3>1. c.at \in Int /\ c.at <= clock
        BY <1>5, Facts DEF IsConsumed, Consumptions
      <3> QED
        BY <1>1, <3>1
    <2>3. c.by = "sweep" \/ c.by \in Executions
      BY <1>5 DEF IsConsumed, Consumptions
    <2>4. Swept(c.lot) => Swept(c.lot)'
      BY DEF Swept, Onward
    <2> QED
      BY <1>5, <2>1, <2>2, <2>3, <2>4 DEF IsConsumed, Onward
  <1>6. ASSUME NEW t, IsPosted(t)
        PROVE  IsPosted(t)'
    <2>1. IsTransaction(t)'
      BY <1>3, <1>6 DEF IsPosted, IsTransaction
    <2>2. t.reference = "grant" =>
             \E l \in DOMAIN lots' : lots'[l].reference = "grant" /\ lots'[l].origin = t.of
      BY <1>2, <1>6 DEF IsPosted
    <2>3. t.reference \in {"allowance", "execution"} => t.of \in Executions
      BY <1>6 DEF IsPosted, IsTransaction
    <2>4. t.reference \in {"allowance", "execution"} => reservation'[t.of].status # "none"
      BY <1>6, <2>3 DEF IsPosted, Onward
    <2>5. t.kind \in {"settle", "release"} =>
             t.reference = "execution" /\ reservation'[t.of].status \in {"settled", "released"}
      BY <1>6, <2>3 DEF IsPosted, Onward
    <2> QED
      BY <2>1, <2>2, <2>4, <2>5 DEF IsPosted
  <1>7. ASSUME NEW p, IsSweep(p)
        PROVE  IsSweep(p)'
    <2>1. 0..clock \subseteq 0..clock'
      BY <1>1
    <2> QED
      BY <1>3, <1>7, <2>1 DEF IsSweep
  <1> QED
    BY <1>4, <1>5, <1>6, <1>7

\* A new lot leaves the others where they are.
LEMMA AppendStays ==
    ASSUME LotInv, NEW lot, lots' = Append(lots, lot)
    PROVE  /\ \A l \in DOMAIN lots : l \in DOMAIN lots' /\ lots'[l] = lots[l]
           /\ Len(lots) + 1 \in DOMAIN lots' /\ lots'[Len(lots) + 1] = lot
  <1>1. lots \in Seq(Lots) /\ Len(lots) \in Nat /\ DOMAIN lots = 1..Len(lots)
    BY LotsAre DEF LotInv
  <1> QED
    BY <1>1

---------------------------------------------------------------------------
(* Every step keeps the books *)

\* What has to be shown of a step: it goes onward, and what it adds is good.
LEMMA GoodStep ==
    ASSUME LedgerInv, Onward, LotInv',
           reservation' = [e \in Executions |-> reservation'[e]],
           \A e \in Executions :
              reservation'[e] = reservation[e] \/ GoodReservation(reservation[e])',
           IsFiniteSet(taken'), \A c \in taken' \ taken : IsConsumed(c)',
           IsFiniteSet(journal'), \A t \in journal' \ journal : IsPosted(t)',
           sweep' = [s \in Sweepers |-> sweep'[s]],
           \A s \in Sweepers : sweep'[s] = sweep[s] \/ IsSweep(sweep[s])',
           \A a \in Accounts : Books(a)'
    PROVE  LedgerInv'
  <1>0. LotInv
    BY DEF LedgerInv
  <1>1. ReservationInv'
    <2>1. \A e \in Executions : reservation[e] = NoReservation \/ GoodReservation(reservation[e])
      BY DEF LedgerInv, ReservationInv
    <2>2. \A r : GoodReservation(r) => GoodReservation(r)'
      BY <1>0, ThePastStays
    <2>3. ASSUME NEW e \in Executions
          PROVE  reservation'[e] = NoReservation \/ GoodReservation(reservation[e])'
      <3>1. PICK r : r = reservation'[e]
        OBVIOUS
      <3>2. CASE r = reservation[e]
        <4>1. r = NoReservation \/ GoodReservation(r)'
          BY <2>1, <2>2, <3>2
        <4> QED
          BY <3>1, <4>1 DEF GoodReservation
      <3> QED
        BY <3>1, <3>2
    <2> QED
      BY <2>3 DEF ReservationInv
  <1>2. TakenInv'
    <2>1. \A c \in taken : IsConsumed(c)'
      BY <1>0, ThePastStays DEF LedgerInv, TakenInv
    <2> QED
      BY <2>1 DEF TakenInv
  <1>3. JournalInv'
    <2>1. \A t \in journal : IsPosted(t)'
      BY <1>0, ThePastStays DEF LedgerInv, JournalInv
    <2> QED
      BY <2>1 DEF JournalInv
  <1>4. SweepInv'
    <2>1. \A s \in Sweepers : IsSweep(sweep[s])
      BY DEF LedgerInv, SweepInv
    <2>2. \A p : IsSweep(p) => IsSweep(p)'
      BY <1>0, ThePastStays
    <2>3. ASSUME NEW s \in Sweepers
          PROVE  IsSweep(sweep[s])'
      <3>1. PICK p : p = sweep'[s]
        OBVIOUS
      <3>2. CASE p = sweep[s]
        <4>1. IsSweep(p)'
          BY <2>1, <2>2, <3>2
        <4> QED
          BY <3>1, <4>1 DEF IsSweep
      <3> QED
        BY <3>1, <3>2
    <2> QED
      BY <2>3 DEF SweepInv
  <1> QED
    BY <1>1, <1>2, <1>3, <1>4 DEF LedgerInv

\* The clock does not go back while it stands still.
LEMMA ClockStays == ASSUME LotInv, clock' = clock PROVE clock' \in Nat /\ clock <= clock'
  BY LotsAre

\* The lots that were taken from keep their owners.
LEMMA OwnersStay ==
    ASSUME LotInv, TakenInv, Onward
    PROVE  \A c \in taken : c.lot \in DOMAIN lots /\ lots'[c.lot].owner = lots[c.lot].owner
  BY DEF TakenInv, IsConsumed, Consumptions, Onward

\* Time passing.
LEMMA TickStep ==
    ASSUME LedgerInv, Tick, LotInv'
    PROVE  LedgerInv'
  <1>0. LotInv /\ ReservationInv /\ TakenInv /\ JournalInv /\ SweepInv /\ \A a \in Accounts : Books(a)
    BY DEF LedgerInv
  <1>1. /\ clock' = clock + 1 /\ lots' = lots /\ reservation' = reservation
        /\ taken' = taken /\ journal' = journal /\ sweep' = sweep
    BY DEF Tick
  <1>2. Onward
    <2>1. clock' \in Nat /\ clock <= clock'
      BY <1>0, <1>1, LotsAre
    <2> QED
      BY <1>1, <2>1 DEF Onward
  <1>3. ASSUME NEW a \in Accounts
        PROVE  Books(a)'
    <2>1. Consumed(a)' = Consumed(a)
      BY <1>0, <1>1, <1>2, OwnersStay, TermsAreIntegers, ConsumedSame DEF TakenInv
    <2>2. Posted(a)' = Posted(a) /\ Issued(a)' = Issued(a) /\ Reserved(a)' = Reserved(a)
      BY <1>1, PostedSame, IssuedSame, ReservedSame
    <2> QED
      BY <1>0, <2>1, <2>2 DEF Books
  <1> QED
    BY <1>0, <1>1, <1>2, <1>3, GoodStep DEF ReservationInv, TakenInv, JournalInv, SweepInv

\* The transaction that issues a lot of the platform.
LEMMA IssuingEntries ==
    ASSUME NEW u \in Users, NEW amount \in Nat \ {0}, NEW t, NEW reference, NEW of, NEW at,
           t = Transaction("grant", reference, of, at,
                           [a \in {"issuance", u} |-> IF a = u THEN amount ELSE -amount]),
           NEW lot, lot.owner = u, lot.amount = amount, lot.reference # "reward"
    PROVE  /\ t.kind = "grant" /\ t.reference = reference /\ t.of = of /\ t.at = at
           /\ \A a \in DOMAIN t.postings : a \in Accounts /\ t.postings[a] \in Int \ {0}
           /\ \A a : Entry(t, a) = LotPart(a, lot) /\ Entry(t, a) \in Int
  <1>1. PICK p : p = [a \in {"issuance", u} |-> IF a = u THEN amount ELSE -amount]
    OBVIOUS
  <1>2. /\ DOMAIN p = {"issuance", u} /\ p[u] = amount /\ p["issuance"] = -amount /\ u # "issuance"
    BY <1>1, Facts
  <1>3. t = Transaction("grant", reference, of, at, p)
    BY <1>1
  <1>4. /\ t.kind = "grant" /\ t.reference = reference /\ t.of = of /\ t.at = at
        /\ \A a \in DOMAIN t.postings :
              a \in DOMAIN p /\ t.postings[a] = p[a] /\ t.postings[a] # 0
        /\ \A a : Entry(t, a) = IF a \in DOMAIN p THEN p[a] ELSE 0
    BY <1>3, TransactionIs
  <1>5. \A a \in DOMAIN t.postings : a \in Accounts /\ t.postings[a] \in Int \ {0}
    BY <1>2, <1>4 DEF Accounts
  <1>6. \A a : Entry(t, a) = LotPart(a, lot) /\ Entry(t, a) \in Int
    BY <1>2, <1>4 DEF LotPart
  <1> QED
    BY <1>4, <1>5, <1>6

\* A grant of the operator.
LEMMA GrantStep ==
    ASSUME LedgerInv, LotInv', NEW key \in GrantKeys, NEW u \in Users, NEW term \in {1, Never},
           Grant(key, u, term)
    PROVE  LedgerInv'
  <1>0. LotInv /\ ReservationInv /\ TakenInv /\ JournalInv /\ SweepInv /\ \A a \in Accounts : Books(a)
    BY DEF LedgerInv
  <1>1. PICK lot : lot = [owner |-> u, reference |-> "grant", origin |-> key,
                          amount |-> GrantAmount, issued |-> clock,
                          expires |-> IF term = Never THEN Never ELSE clock + term]
    OBVIOUS
  <1>2. PICK t : t = Transaction("grant", "grant", key, clock,
                         [a \in {"issuance", u} |-> IF a = u THEN GrantAmount ELSE -GrantAmount])
    OBVIOUS
  <1>3. /\ lots' = Append(lots, lot) /\ journal' = journal \cup {t}
        /\ clock' = clock /\ reservation' = reservation /\ taken' = taken /\ sweep' = sweep
        /\ \A l \in DOMAIN lots : lots[l].reference = "grant" => lots[l].origin # key
    BY <1>1, <1>2 DEF Grant, Post
  <1>4. lot.owner = u /\ lot.amount = GrantAmount /\ lot.reference = "grant" /\ lot.origin = key
    BY <1>1
  <1>5. /\ t.kind = "grant" /\ t.reference = "grant" /\ t.of = key /\ t.at = clock
        /\ \A a \in DOMAIN t.postings : a \in Accounts /\ t.postings[a] \in Int \ {0}
        /\ \A a : Entry(t, a) = LotPart(a, lot) /\ Entry(t, a) \in Int
    BY <1>2, <1>4, Facts, IssuingEntries
  <1>6. t \notin journal
    BY <1>0, <1>3, <1>5 DEF JournalInv, IsPosted
  <1>7. /\ \A l \in DOMAIN lots : l \in DOMAIN lots' /\ lots'[l] = lots[l]
        /\ Len(lots) + 1 \in DOMAIN lots' /\ lots'[Len(lots) + 1] = lot
    BY <1>0, <1>3, AppendStays
  <1>8. Onward
    BY <1>0, <1>3, <1>7, ClockStays DEF Onward
  <1>9. IsPosted(t)'
    <2>1. IsTransaction(t)'
      BY <1>0, <1>5, LotsAre DEF IsTransaction
    <2>2. \E l \in DOMAIN lots' : lots'[l].reference = "grant" /\ lots'[l].origin = key
      BY <1>4, <1>7
    <2> QED
      BY <1>5, <2>1, <2>2 DEF IsPosted
  <1>10. ASSUME NEW a \in Accounts
         PROVE  Books(a)'
    <2>1. Consumed(a)' = Consumed(a)
      BY <1>0, <1>3, <1>8, OwnersStay, TermsAreIntegers, ConsumedSame DEF TakenInv
    <2>2. Reserved(a)' = Reserved(a)
      BY <1>3, ReservedSame
    <2>3. Posted(a)' = Posted(a) + Entry(t, a)
      BY <1>0, <1>3, <1>5, <1>6, TermsAreIntegers, PostedOne DEF JournalInv
    <2>4. Issued(a)' = Issued(a) + LotPart(a, lot)
      BY <1>0, <1>3, <1>5, IssuedOne
    <2>5. Posted(a) \in Int /\ Issued(a) \in Int /\ Consumed(a) \in Int /\ Reserved(a) \in Int
      BY <1>0, SumsAreIntegers
    <2> QED
      BY <1>0, <1>5, <2>1, <2>2, <2>3, <2>4, <2>5 DEF Books
  <1>11. IsFiniteSet(journal')
    BY <1>0, <1>3, FS_AddElement DEF JournalInv
  <1> QED
    BY <1>0, <1>3, <1>8, <1>9, <1>10, <1>11, GoodStep DEF ReservationInv, TakenInv, SweepInv

---------------------------------------------------------------------------
(* Reserving *)

\* Two new transactions.
LEMMA PostedTwo ==
    ASSUME NEW a, IsFiniteSet(journal), \A t \in journal : Entry(t, a) \in Int,
           NEW t, t \notin journal, Entry(t, a) \in Int,
           NEW r, r \notin journal, Entry(r, a) \in Int, t # r, journal' = journal \cup {t, r}
    PROVE  Posted(a)' = Posted(a) + Entry(t, a) + Entry(r, a)
  <1>1. PICK E : E = {t, r}
    OBVIOUS
  <1>2. PICK g : g = [x \in E |-> Entry(x, a)]
    OBVIOUS
  <1>3. IsFiniteSet({t}) /\ IsFiniteSet(E) /\ journal \cap E = {} /\ E = {t} \cup {r} /\ {} \cup {t} = {t}
    <2>1. IsFiniteSet({t}) /\ E = {t} \cup {r}
      BY <1>1, FS_Singleton
    <2> QED
      BY <1>1, <2>1, FS_AddElement
  <1>4. Posted(a)' = Posted(a) + SumFunctionOnSet(g, E)
    <2>1. journal' = journal \cup E /\ \A x \in E : Entry(x, a) \in Int
      BY <1>1
    <2>2. Posted(a)' = Posted(a) + SumFunctionOnSet([x \in E |-> Entry(x, a)], E)
      BY <1>3, <2>1, PostedMore
    <2> QED
      BY <1>2, <2>2, Zenon
  <1>5. g[t] = Entry(t, a) /\ g[r] = Entry(r, a)
    BY <1>1, <1>2
  <1>6. SumFunctionOnSet(g, {}) = 0 /\ IsFiniteSet({}) /\ IntegersOn(g, {}) /\ IntegersOn(g, {t})
    BY <1>5, SumOfNone, FS_EmptySet DEF IntegersOn
  <1>7. g[t] \in Int /\ g[r] \in Int /\ t \notin {} /\ r \notin {t}
    BY <1>5
  <1>8. SumFunctionOnSet(g, {} \cup {t}) = SumFunctionOnSet(g, {}) + g[t]
    BY <1>6, <1>7, SumWithOne, Zenon
  <1>9. SumFunctionOnSet(g, {t} \cup {r}) = SumFunctionOnSet(g, {t}) + g[r]
    BY <1>3, <1>6, <1>7, SumWithOne, Zenon
  <1>10. SumFunctionOnSet(g, {t}) = SumFunctionOnSet(g, {}) + g[t]
    BY <1>3, <1>8, Zenon
  <1>11. SumFunctionOnSet(g, E) = SumFunctionOnSet(g, {t}) + g[r]
    BY <1>3, <1>9, Zenon
  <1>12. SumFunctionOnSet(g, E) = Entry(t, a) + Entry(r, a)
    BY <1>5, <1>6, <1>7, <1>10, <1>11
  <1>13. PICK p : p = Posted(a)
    OBVIOUS
  <1>14. IsFiniteSet(journal) /\ Posted(a) \in Int
    <2>1. PICK f : f = [x \in journal |-> Entry(x, a)]
      OBVIOUS
    <2>2. IntegersOn(f, journal)
      BY <2>1 DEF IntegersOn
    <2>3. SumFunctionOnSet(f, journal) \in Int
      BY <2>2, SumIsInteger
    <2> QED
      BY <2>1, <2>3, Zenon DEF Posted
  <1> QED
    BY <1>4, <1>12, <1>14

\* The transaction that moves the price to the reserve.
LEMMA ReservingEntries ==
    ASSUME NEW u \in Users, NEW price \in Nat \ {0}, NEW e, NEW at, NEW t,
           t = Transaction("reserve", "execution", e, at,
                           [a \in {u, "reserve"} |-> IF a = u THEN -price ELSE price]),
           NEW r, r.status = "held", r.owner = u, r.amount = price
    PROVE  /\ t.kind = "reserve" /\ t.reference = "execution" /\ t.of = e /\ t.at = at
           /\ \A a \in DOMAIN t.postings : a \in Accounts /\ t.postings[a] \in Int \ {0}
           /\ \A a : Entry(t, a) = HeldPart(a, r) /\ Entry(t, a) \in Int
  <1>1. PICK p : p = [a \in {u, "reserve"} |-> IF a = u THEN -price ELSE price]
    OBVIOUS
  <1>2. /\ DOMAIN p = {u, "reserve"} /\ p[u] = -price /\ p["reserve"] = price /\ u # "reserve"
    BY <1>1, Facts
  <1>3. t = Transaction("reserve", "execution", e, at, p)
    BY <1>1
  <1>4. /\ t.kind = "reserve" /\ t.reference = "execution" /\ t.of = e /\ t.at = at
        /\ \A a \in DOMAIN t.postings :
              a \in DOMAIN p /\ t.postings[a] = p[a] /\ t.postings[a] # 0
        /\ \A a : Entry(t, a) = IF a \in DOMAIN p THEN p[a] ELSE 0
    BY <1>3, TransactionIs
  <1>5. \A a \in DOMAIN t.postings : a \in Accounts /\ t.postings[a] \in Int \ {0}
    BY <1>2, <1>4 DEF Accounts
  <1>6. \A a : Entry(t, a) = HeldPart(a, r) /\ Entry(t, a) \in Int
    BY <1>2, <1>4 DEF HeldPart
  <1> QED
    BY <1>4, <1>5, <1>6

AreLots(ls) ==
    /\ IsFiniteSet(DOMAIN ls)
    /\ \A l \in DOMAIN ls : /\ l \in Int /\ ls[l].expires \in Int
                             /\ ls[l].issued \in Int /\ ls[l].amount \in Int

SpendableLots(ls, u) == {l \in DOMAIN ls : ls[l].owner = u /\ Current(ls[l], clock)}

IsAllocated(acc, S, price) ==
    /\ DOMAIN acc.from \subseteq S
    /\ \A l \in DOMAIN acc.from : acc.from[l] \in Nat \ {0}
    /\ SumFunctionOnSet(acc.from, DOMAIN acc.from) = price

\* A reservation takes its price from lots of the requester that are not lapsed.
LEMMA AllocationIs ==
    ASSUME LotInv, ReservationInv, TakenInv, NEW ls, NEW u, NEW price \in Nat, NEW S,
           S = SpendableLots(ls, u), AreLots(ls),
           NEW acc, acc = Allocate(ls, S, price), acc.rest = 0
    PROVE  /\ IsAllocated(acc, S, price)
           /\ \A l \in DOMAIN acc.from : acc.from[l] <= AvailableAt(ls[l], l, clock)
  <1>1. IsFiniteSet(S) /\ S \subseteq DOMAIN ls
    BY FS_Subset DEF AreLots, SpendableLots
  <1>2. \A l \in S : l \in Int /\ ls[l].expires \in Int /\ ls[l].issued \in Int
    BY <1>1 DEF AreLots
  <1>3. \A s \in SUBSET S : s # {} => SpentLast(ls, s) \in s
    BY <1>1, <1>2, OneIsSpentLast
  <1>4. \A l \in S : AvailableAt(ls[l], l, clock) \in Int
    <2> SUFFICES ASSUME NEW l \in S PROVE AvailableAt(ls[l], l, clock) \in Int
      OBVIOUS
    <2>1. UsedAt(l, clock) \in Nat /\ HeldAt(l, clock) \in Nat
      BY UseIsInteger
    <2>2. ls[l].amount \in Int
      BY <1>1 DEF AreLots
    <2> QED
      BY <2>1, <2>2 DEF AvailableAt
  <1>5. PICK available : available = [l \in S |-> AvailableAt(ls[l], l, clock)]
    OBVIOUS
  <1>6. available \in [S -> Int] /\ \A l \in S : AvailableAt(ls[l], l, clock) = available[l]
    BY <1>4, <1>5
  <1>7. TakenFrom(acc, S, price, available)
    BY <1>1, <1>3, <1>6, AllocateTakes
  <1>8. SumFunctionOnSet(acc.from, DOMAIN acc.from) \in Int
    <2>1. IsFiniteSet(DOMAIN acc.from) /\ IntegersOn(acc.from, DOMAIN acc.from)
      BY <1>1, <1>7, FS_Subset DEF TakenFrom, IntegersOn
    <2> QED
      BY <2>1, SumIsInteger
  <1>9. /\ DOMAIN acc.from \in SUBSET S
        /\ \A l \in DOMAIN acc.from : acc.from[l] \in Nat \ {0}
        /\ 0 + SumFunctionOnSet(acc.from, DOMAIN acc.from) = price
    BY <1>7, Zenon DEF TakenFrom
  <1>10. PICK n \in Int : n = SumFunctionOnSet(acc.from, DOMAIN acc.from)
    BY <1>8
  <1>11. n = price
    BY <1>9, <1>10
  <1>12. IsAllocated(acc, S, price)
    BY <1>9, <1>10, <1>11, Zenon DEF IsAllocated
  <1>13. \A l \in DOMAIN acc.from : acc.from[l] <= AvailableAt(ls[l], l, clock)
    BY <1>6, <1>7 DEF TakenFrom
  <1> QED
    BY <1>12, <1>13

\* What a request changes, with everything it computes named.
Begins(e, u, human, price, S, acc, grant, reserve, r) ==
    /\ S = {l \in DOMAIN lots' : lots'[l].owner = u /\ Current(lots'[l], clock)}
    /\ acc = Allocate(lots', S, price) /\ acc.rest = 0
    /\ grant = Transaction("grant", "allowance", e, clock,
                 [a \in {"issuance", u} |-> IF a = u THEN AllowanceAmount ELSE -AllowanceAmount])
    /\ reserve = Transaction("reserve", "execution", e, clock,
                 [a \in {u, "reserve"} |-> IF a = u THEN -price ELSE price])
    /\ r = [status |-> "held", owner |-> u, human |-> human, amount |-> price, settled |-> 0,
            created |-> clock, finalized |-> Never, allocation |-> acc.from, usage |-> NoUsage]
    /\ reservation[e] = NoReservation
    /\ lots' = IF HasAllowance(u) THEN lots ELSE Append(lots, Allowance(u, e))
    /\ reservation' = [reservation EXCEPT ![e] = r]
    /\ journal' = journal \cup (IF HasAllowance(u) THEN {reserve} ELSE {grant, reserve})
    /\ clock' = clock /\ taken' = taken /\ sweep' = sweep

\* A request is one of those steps.
LEMMA ReserveBegins ==
    ASSUME NEW e, NEW u, NEW human, NEW price, Reserve(e, u, human, price)
    PROVE  \E S, acc, grant, reserve, r : Begins(e, u, human, price, S, acc, grant, reserve, r)
  <1>2. PICK S : S = {l \in DOMAIN lots' : lots'[l].owner = u /\ Current(lots'[l], clock)}
    OBVIOUS
  <1>3. PICK acc : acc = Allocate(lots', S, price)
    OBVIOUS
  <1>4. PICK grant : grant = Transaction("grant", "allowance", e, clock,
                 [a \in {"issuance", u} |-> IF a = u THEN AllowanceAmount ELSE -AllowanceAmount])
    OBVIOUS
  <1>5. PICK reserve : reserve = Transaction("reserve", "execution", e, clock,
                 [a \in {u, "reserve"} |-> IF a = u THEN -price ELSE price])
    OBVIOUS
  <1>6. PICK r : r = [status |-> "held", owner |-> u, human |-> human, amount |-> price, settled |-> 0,
                      created |-> clock, finalized |-> Never, allocation |-> acc.from,
                      usage |-> NoUsage]
    OBVIOUS
  <1>7. /\ reservation[e] = NoReservation
        /\ lots' = IF HasAllowance(u) THEN lots ELSE Append(lots, Allowance(u, e))
        /\ acc.rest = 0
        /\ reservation' = [reservation EXCEPT ![e] = r]
        /\ journal' = journal \cup (IF HasAllowance(u) THEN {reserve} ELSE {grant, reserve})
        /\ clock' = clock /\ taken' = taken /\ sweep' = sweep
    <2>1. lots' = IF HasAllowance(u) THEN lots ELSE Append(lots, Allowance(u, e))
      BY DEF Reserve
    <2>2. PICK funded : funded = IF HasAllowance(u) THEN lots ELSE Append(lots, Allowance(u, e))
      OBVIOUS
    <2>3. /\ Allocate(funded, {l \in DOMAIN funded : funded[l].owner = u /\ Current(funded[l], clock)},
                      price).rest = 0
          /\ reservation' = [reservation EXCEPT ![e] =
                [status |-> "held", owner |-> u, human |-> human, amount |-> price, settled |-> 0,
                 created |-> clock, finalized |-> Never,
                 allocation |-> Allocate(funded,
                    {l \in DOMAIN funded : funded[l].owner = u /\ Current(funded[l], clock)},
                    price).from,
                 usage |-> NoUsage]]
      BY <2>2, Zenon DEF Reserve
    <2>4. /\ reservation[e] = NoReservation
          /\ journal' = journal \cup (IF HasAllowance(u) THEN {reserve} ELSE {grant, reserve})
          /\ clock' = clock /\ taken' = taken /\ sweep' = sweep
      BY <1>4, <1>5 DEF Reserve, Post
    <2>5. funded = lots'
      BY <2>1, <2>2
    <2>6. S = {l \in DOMAIN funded : funded[l].owner = u /\ Current(funded[l], clock)}
      BY <1>2, <2>5
    <2>7. acc = Allocate(funded, {l \in DOMAIN funded : funded[l].owner = u /\ Current(funded[l], clock)}, price)
      BY <1>3, <2>5, <2>6, Zenon
    <2>8. reservation' = [reservation EXCEPT ![e] = r]
      BY <1>6, <2>3, <2>7, Zenon
    <2> QED
      BY <2>1, <2>3, <2>4, <2>7, <2>8
  <1>8. Begins(e, u, human, price, S, acc, grant, reserve, r)
    BY <1>2, <1>3, <1>4, <1>5, <1>6, <1>7, Zenon DEF Begins
  <1> QED
    BY <1>8

\* What it reserves is the price, taken from what is available of the requester's lots.
LEMMA AllocationOfRequest ==
    ASSUME LotInv, ReservationInv, TakenInv, LotInv', NEW e, NEW u, NEW human, NEW price \in Nat,
           NEW S, NEW acc, NEW grant, NEW reserve, NEW r,
           Begins(e, u, human, price, S, acc, grant, reserve, r)
    PROVE  /\ IsAllocated(acc, S, price)
           /\ \A l \in DOMAIN acc.from : acc.from[l] <= AvailableAt(lots'[l], l, clock)
  <1>1. PICK ls : ls = lots'
    OBVIOUS
  <1>2. AreLots(ls)
    <2>1. lots' \in Seq(Lots)
      BY DEF LotInv
    <2>2. /\ DOMAIN lots' = 1..Len(lots') /\ Len(lots') \in Nat
          /\ \A l \in DOMAIN lots' : l \in Int /\ lots'[l] \in Lots
      BY <2>1
    <2>3. \A lot \in Lots : lot.expires \in Int /\ lot.issued \in Int /\ lot.amount \in Int
      BY Facts DEF Lots, Times
    <2>4. IsFiniteSet(1..Len(lots'))
      BY <2>2, FS_Interval
    <2>5. IsFiniteSet(DOMAIN lots')
      BY <2>2, <2>4
    <2>6. \A l \in DOMAIN lots' : l \in Int /\ lots'[l] \in Lots
      BY <2>2
    <2> QED
      BY <1>1, <2>3, <2>5, <2>6 DEF AreLots
  <1>3. S = SpendableLots(ls, u) /\ acc = Allocate(ls, S, price) /\ acc.rest = 0
    BY <1>1, Zenon DEF Begins, SpendableLots
  <1>4. /\ IsAllocated(acc, S, price)
        /\ \A l \in DOMAIN acc.from : acc.from[l] <= AvailableAt(ls[l], l, clock)
    BY <1>2, <1>3, AllocationIs
  <1> QED
    BY <1>1, <1>4

\* A request that reserves its price.
LEMMA ReserveStep ==
    ASSUME LedgerInv, LotInv', NEW e \in Executions, NEW u \in Users, NEW human \in BOOLEAN,
           NEW price, price = (IF human THEN HumanPrice ELSE Tariff.maximum),
           Reserve(e, u, human, price)
    PROVE  LedgerInv'
  <1>0. LotInv /\ ReservationInv /\ TakenInv /\ JournalInv /\ SweepInv /\ \A a \in Accounts : Books(a)
    BY DEF LedgerInv
  <1>1. price \in Nat \ {0}
    BY Facts
  <1>2. PICK S, acc, grant, reserve, r : Begins(e, u, human, price, S, acc, grant, reserve, r)
    BY ReserveBegins
  <1>3. S = {l \in DOMAIN lots' : lots'[l].owner = u /\ Current(lots'[l], clock)}
    BY <1>2 DEF Begins
  <1>4. grant = Transaction("grant", "allowance", e, clock,
                 [a \in {"issuance", u} |-> IF a = u THEN AllowanceAmount ELSE -AllowanceAmount])
    BY <1>2 DEF Begins
  <1>5. reserve = Transaction("reserve", "execution", e, clock,
                 [a \in {u, "reserve"} |-> IF a = u THEN -price ELSE price])
    BY <1>2 DEF Begins
  <1>6. r = [status |-> "held", owner |-> u, human |-> human, amount |-> price, settled |-> 0,
             created |-> clock, finalized |-> Never, allocation |-> acc.from, usage |-> NoUsage]
    BY <1>2 DEF Begins
  <1>7. /\ reservation[e] = NoReservation
        /\ lots' = IF HasAllowance(u) THEN lots ELSE Append(lots, Allowance(u, e))
        /\ reservation' = [reservation EXCEPT ![e] = r]
        /\ journal' = journal \cup (IF HasAllowance(u) THEN {reserve} ELSE {grant, reserve})
        /\ clock' = clock /\ taken' = taken /\ sweep' = sweep
    BY <1>2 DEF Begins
  <1>8. Allowance(u, e).owner = u /\ Allowance(u, e).amount = AllowanceAmount
        /\ Allowance(u, e).reference = "allowance"
    BY DEF Allowance
  <1>9. \A l \in DOMAIN lots : l \in DOMAIN lots' /\ lots'[l] = lots[l]
    BY <1>0, <1>7, AppendStays
  <1>10. reservation'[e] = r /\ \A x \in Executions \ {e} : reservation'[x] = reservation[x]
    BY <1>0, <1>7 DEF ReservationInv
  <1>11. Onward
    <2>1. journal \subseteq journal'
      BY <1>7
    <2>2. reservation[e].status = "none"
      BY <1>7 DEF NoReservation
    <2> QED
      BY <1>0, <1>7, <1>9, <1>10, <2>1, <2>2, ClockStays DEF Onward
  <1>13. /\ DOMAIN acc.from \subseteq S
         /\ \A l \in DOMAIN acc.from : acc.from[l] \in Nat \ {0}
         /\ SumFunctionOnSet(acc.from, DOMAIN acc.from) = price
    <2>1. price \in Nat
      BY <1>1
    <2>2. IsAllocated(acc, S, price)
      BY <1>0, <1>2, <2>1, AllocationOfRequest, Zenon
    <2> QED
      BY <2>2 DEF IsAllocated
  <1>14. /\ grant.kind = "grant" /\ grant.reference = "allowance" /\ grant.of = e /\ grant.at = clock
         /\ \A a \in DOMAIN grant.postings : a \in Accounts /\ grant.postings[a] \in Int \ {0}
         /\ \A a : Entry(grant, a) = LotPart(a, Allowance(u, e)) /\ Entry(grant, a) \in Int
    <2>1. PICK lot : lot = Allowance(u, e)
      OBVIOUS
    <2>2. lot.owner = u /\ lot.amount = AllowanceAmount /\ lot.reference = "allowance"
      BY <1>8, <2>1
    <2>3. AllowanceAmount \in Nat \ {0}
      BY Facts
    <2>4. /\ grant.kind = "grant" /\ grant.reference = "allowance" /\ grant.of = e /\ grant.at = clock
          /\ \A a \in DOMAIN grant.postings : a \in Accounts /\ grant.postings[a] \in Int \ {0}
          /\ \A a : Entry(grant, a) = LotPart(a, lot) /\ Entry(grant, a) \in Int
      BY <1>4, <2>2, <2>3, IssuingEntries
    <2> QED
      BY <2>1, <2>4
  <1>15. /\ reserve.kind = "reserve" /\ reserve.reference = "execution" /\ reserve.of = e
         /\ reserve.at = clock
         /\ \A a \in DOMAIN reserve.postings : a \in Accounts /\ reserve.postings[a] \in Int \ {0}
         /\ \A a : Entry(reserve, a) = HeldPart(a, r) /\ Entry(reserve, a) \in Int
    <2>1. r.status = "held" /\ r.owner = u /\ r.amount = price
      BY <1>6
    <2> QED
      BY <1>1, <1>5, <2>1, ReservingEntries
  <1>16. grant \notin journal /\ reserve \notin journal /\ grant # reserve
    <2>1. reservation[e].status = "none"
      BY <1>7 DEF NoReservation
    <2> QED
      BY <1>0, <1>14, <1>15, <2>1 DEF JournalInv, IsPosted
  <1>17. GoodReservation(reservation[e])'
    <2>1. /\ r.status = "held" /\ r.owner = u /\ r.human = human /\ r.amount = price /\ r.settled = 0
          /\ r.created = clock /\ r.finalized = Never /\ r.allocation = acc.from /\ r.usage = NoUsage
          /\ r = [status |-> r.status, owner |-> r.owner, human |-> r.human, amount |-> r.amount,
                  settled |-> r.settled, created |-> r.created, finalized |-> r.finalized,
                  allocation |-> r.allocation, usage |-> r.usage]
      BY <1>6
    <2>2. \A l \in DOMAIN acc.from : l \in DOMAIN lots' /\ lots'[l].owner = u
      BY <1>3, <1>13
    <2>3. clock' = clock /\ clock \in Nat
      BY <1>0, <1>7, LotsAre
    <2>4. GoodReservation(r)'
      BY <1>1, <1>13, <2>1, <2>2, <2>3 DEF GoodReservation
    <2> QED
      BY <1>10, <2>4 DEF GoodReservation
  <1>18. \A x \in Executions : reservation'[x] = reservation[x] \/ GoodReservation(reservation[x])'
    <2> SUFFICES ASSUME NEW x \in Executions, x # e PROVE reservation'[x] = reservation[x]
      BY <1>17
    <2> QED
      BY <1>10
  <1>19. clock \in 0..MaxTime
    BY <1>0, LotsAre
  <1>20. IsPosted(grant)' /\ IsPosted(reserve)'
    <2>1. reservation'[e].status = "held"
      BY <1>6, <1>10
    <2>2. IsTransaction(grant)' /\ IsTransaction(reserve)'
      BY <1>14, <1>15, <1>19 DEF IsTransaction
    <2> QED
      BY <1>14, <1>15, <2>1, <2>2 DEF IsPosted
  <1>21. IsFiniteSet(journal')
    <2>1. IsFiniteSet({reserve}) /\ IsFiniteSet({grant, reserve})
      <3>1. IsFiniteSet({reserve}) /\ {grant, reserve} = {reserve} \cup {grant}
        BY FS_Singleton
      <3> QED
        BY <3>1, FS_AddElement
    <2> QED
      BY <1>0, <1>7, <2>1, FS_Union DEF JournalInv
  <1>22. ASSUME NEW a \in Accounts
         PROVE  Books(a)'
    <2>1. Consumed(a)' = Consumed(a)
      BY <1>0, <1>7, <1>11, OwnersStay, TermsAreIntegers, ConsumedSame DEF TakenInv
    <2>2. Reserved(a)' = Reserved(a) + HeldPart(a, r)
      <3>1. HeldPart(a, reservation[e]) = 0
        BY <1>7 DEF HeldPart, NoReservation
      <3>2. HeldPart(a, r) \in Int /\ \A x \in Executions : HeldPart(a, reservation[x]) \in Int
        BY <1>0, <1>15, TermsAreIntegers
      <3>3. Reserved(a)' = Reserved(a) - HeldPart(a, reservation[e]) + HeldPart(a, r)
        BY <1>0, <1>7, <3>2, ReservedOne DEF ReservationInv
      <3> QED
        BY <1>0, <3>1, <3>2, <3>3, SumsAreIntegers
    <2>3. Posted(a) \in Int /\ Issued(a) \in Int /\ Consumed(a) \in Int /\ Reserved(a) \in Int
      BY <1>0, SumsAreIntegers
    <2>4. \A t \in journal : Entry(t, a) \in Int
      BY <1>0, TermsAreIntegers
    <2>5. CASE HasAllowance(u)
      <3>1. Posted(a)' = Posted(a) + Entry(reserve, a)
        BY <1>0, <1>7, <1>15, <1>16, <2>4, <2>5, PostedOne DEF JournalInv
      <3>2. Issued(a)' = Issued(a)
        BY <1>7, <2>5, IssuedSame
      <3> QED
        BY <1>0, <1>15, <2>1, <2>2, <2>3, <3>1, <3>2 DEF Books
    <2>6. CASE ~HasAllowance(u)
      <3>1. Posted(a)' = Posted(a) + Entry(grant, a) + Entry(reserve, a)
        BY <1>0, <1>7, <1>14, <1>15, <1>16, <2>4, <2>6, PostedTwo DEF JournalInv
      <3>2. Issued(a)' = Issued(a) + LotPart(a, Allowance(u, e))
        BY <1>0, <1>7, <1>14, <2>6, IssuedOne
      <3> QED
        BY <1>0, <1>14, <1>15, <2>1, <2>2, <2>3, <3>1, <3>2 DEF Books
    <2> QED
      BY <2>5, <2>6
  <1>23. /\ reservation' = [x \in Executions |-> reservation'[x]]
         /\ \A t \in journal' \ journal : IsPosted(t)'
    BY <1>0, <1>7, <1>20 DEF ReservationInv
  <1> QED
    BY <1>0, <1>7, <1>11, <1>18, <1>21, <1>22, <1>23, GoodStep DEF TakenInv, SweepInv

---------------------------------------------------------------------------
(* Ending an execution *)

Consumption(D, m, kind, at, e) ==
    {[lot |-> l, kind |-> kind, amount |-> m[l], at |-> at, by |-> e] : l \in {k \in D : m[k] > 0}}

OwnedBy(ls, D, owner) == \A l \in D : ls[l].owner = owner

Shows(f, C, ls, a) == \A c \in C : f[c] = TakenPart(a, ls[c.lot].owner, c)

ShowsIn(f, C, a, owner, kind, total) ==
    /\ IsFiniteSet(C) /\ IntegersOn(f, C)
    /\ SumFunctionOnSet(f, C)
         = IF a = owner THEN -total
           ELSE IF a = (IF kind = "expire" THEN "expired" ELSE "revenue") THEN total
           ELSE 0

\* What an end takes from lots of one owner, as it shows in the account a.
LEMMA SumOfConsumption ==
    ASSUME NEW D, IsFiniteSet(D), NEW m \in [D -> Nat], NEW kind, NEW e, NEW at, NEW C,
           C = Consumption(D, m, kind, at, e), NEW owner, NEW ls, OwnedBy(ls, D, owner),
           NEW a, NEW f, Shows(f, C, ls, a)
    PROVE  ShowsIn(f, C, a, owner, kind, SumFunctionOnSet(m, D))
  <1> USE DEF Consumption, OwnedBy, Shows, ShowsIn
  <1>1. PICK P : P = {k \in D : m[k] > 0}
    OBVIOUS
  <1>2. PICK h : h = [l \in P |-> [lot |-> l, kind |-> kind, amount |-> m[l], at |-> at, by |-> e]]
    OBVIOUS
  <1>3. \A l \in P : h[l].lot = l /\ h[l].kind = kind /\ h[l].amount = m[l] /\ h[l] \in C
    BY <1>1, <1>2
  <1>4. C = {h[l] : l \in P}
    BY <1>1, <1>2
  <1>5. IsFiniteSet(P) /\ P \in SUBSET D
    BY <1>1, FS_Subset
  <1>6. PICK g : g = [l \in P |-> IF a = owner THEN -m[l]
                                  ELSE IF a = (IF kind = "expire" THEN "expired" ELSE "revenue")
                                       THEN m[l]
                                  ELSE 0]
    OBVIOUS
  <1>7. \A l \in P : f[h[l]] = g[l]
    BY <1>3, <1>5, <1>6 DEF TakenPart
  <1>8. \A l \in P : m[l] \in Int /\ g[l] \in Int
    BY <1>5, <1>6
  <1>9. IsFiniteSet(C)
    BY <1>4, <1>5, ImageIsFinite
  <1>10. IntegersOn(f, C)
    BY <1>4, <1>7, <1>8 DEF IntegersOn
  <1>11. SumFunctionOnSet(f, C) = SumFunctionOnSet(g, P)
    <2>1. IntegersOn(g, P)
      BY <1>8 DEF IntegersOn
    <2>2. \A x, y \in P : h[x] = h[y] => x = y
      BY <1>3
    <2>3. SumFunctionOnSet(f, {h[l] : l \in P}) = SumFunctionOnSet(g, P)
      BY <1>5, <1>7, <2>1, <2>2, SumOfImage
    <2> QED
      BY <1>4, <2>3
  <1>12. SumFunctionOnSet(m, P) = SumFunctionOnSet(m, D)
    <2>1. IntegersOn(m, D)
      BY DEF IntegersOn
    <2>2. \A x \in D \ P : m[x] = 0
      BY <1>1
    <2> QED
      BY <1>5, <2>1, <2>2, SumOfSome
  <1>13. IntegersOn(m, P)
    BY <1>8 DEF IntegersOn
  <1>14. CASE a = owner
    <2>1. \A l \in P : g[l] = -m[l]
      BY <1>6, <1>14
    <2>2. SumFunctionOnSet(g, P) = -SumFunctionOnSet(m, P)
      BY <1>5, <1>13, <2>1, SumOfNegated
    <2> QED
      BY <1>9, <1>10, <1>11, <1>12, <1>14, <2>2
  <1>15. CASE a # owner /\ a = (IF kind = "expire" THEN "expired" ELSE "revenue")
    <2>1. \A l \in P : g[l] = m[l]
      BY <1>6, <1>15
    <2>2. SumFunctionOnSet(g, P) = SumFunctionOnSet(m, P)
      BY <1>5, <1>13, <2>1, SumOfSame
    <2> QED
      BY <1>9, <1>10, <1>11, <1>12, <1>15, <2>2
  <1>16. CASE a # owner /\ a # (IF kind = "expire" THEN "expired" ELSE "revenue")
    <2>1. \A l \in P : g[l] = 0
      BY <1>6, <1>16
    <2>2. SumFunctionOnSet(g, P) = 0
      BY <1>5, <2>1, SumOfZeros
    <2> QED
      BY <1>9, <1>10, <1>11, <1>12, <1>16, <2>2
  <1> QED
    BY <1>14, <1>15, <1>16

IsFinal(t, kind, e, at, r, charge, reward, performer, lapsed) ==
    /\ t.kind = kind /\ t.reference = "execution" /\ t.of = e /\ t.at = at
    /\ \A a \in DOMAIN t.postings : a \in Accounts /\ t.postings[a] \in Int \ {0}
    /\ \A a : Entry(t, a) \in Int
    /\ \A a : Entry(t, a) = IF a = "reserve" THEN -r.amount
                            ELSE IF a = "revenue" THEN charge - reward
                            ELSE IF a = "expired" THEN lapsed
                            ELSE IF a = r.owner THEN r.amount - charge - lapsed
                            ELSE IF a = performer THEN reward
                            ELSE 0

\* The transaction of an end.
LEMMA FinalEntries ==
    ASSUME NEW r, r.owner \in Users, r.amount \in Nat, NEW charge \in Nat, NEW reward \in Nat,
           NEW performer \in Users, NEW lapsed \in Nat, NEW kind, NEW e, NEW at, NEW t,
           t = Transaction(kind, "execution", e, at,
                           FinalPostings(r, charge, reward, performer, lapsed))
    PROVE  IsFinal(t, kind, e, at, r, charge, reward, performer, lapsed)
  <1>1. PICK p : p = FinalPostings(r, charge, reward, performer, lapsed)
    OBVIOUS
  <1>2. p = [a \in {"reserve", "revenue", "expired", r.owner, performer} |->
                IF a = "reserve" THEN -r.amount
                ELSE IF a = "revenue" THEN charge - reward
                ELSE IF a = "expired" THEN lapsed
                ELSE IF a = r.owner THEN r.amount - charge - lapsed
                ELSE reward]
    <2>1. p = [a \in {"reserve", "revenue", "expired", r.owner, performer} |->
                  CASE a = "reserve" -> -r.amount
                    [] a = "revenue" -> charge - reward
                    [] a = "expired" -> lapsed
                    [] a = r.owner -> r.amount - charge - lapsed
                    [] OTHER -> reward]
      BY <1>1, Zenon DEF FinalPostings
    <2>2. /\ "reserve" # "revenue" /\ "reserve" # "expired" /\ "revenue" # "expired"
          /\ r.owner # "reserve" /\ r.owner # "revenue" /\ r.owner # "expired"
      BY Facts
    <2>3. ASSUME NEW a
          PROVE  (CASE a = "reserve" -> -r.amount
                    [] a = "revenue" -> charge - reward
                    [] a = "expired" -> lapsed
                    [] a = r.owner -> r.amount - charge - lapsed
                    [] OTHER -> reward)
                 = IF a = "reserve" THEN -r.amount
                   ELSE IF a = "revenue" THEN charge - reward
                   ELSE IF a = "expired" THEN lapsed
                   ELSE IF a = r.owner THEN r.amount - charge - lapsed
                   ELSE reward
      <3>1. CASE a = "reserve"
        BY <2>2, <3>1, Zenon
      <3>2. CASE a = "revenue"
        BY <2>2, <3>2, Zenon
      <3>3. CASE a = "expired"
        BY <2>2, <3>3, Zenon
      <3>4. CASE a = r.owner
        BY <2>2, <3>4, Zenon
      <3>5. CASE a \notin {"reserve", "revenue", "expired", r.owner}
        BY <2>2, <3>5, Zenon
      <3> QED
        BY <3>1, <3>2, <3>3, <3>4, <3>5
    <2> QED
      BY <2>1, <2>3, Zenon
  <1>3. t = Transaction(kind, "execution", e, at, p)
    BY <1>1
  <1>4. /\ t.kind = kind /\ t.reference = "execution" /\ t.of = e /\ t.at = at
        /\ \A a \in DOMAIN t.postings :
              a \in DOMAIN p /\ t.postings[a] = p[a] /\ t.postings[a] # 0
        /\ \A a : Entry(t, a) = IF a \in DOMAIN p THEN p[a] ELSE 0
    BY <1>3, TransactionIs
  <1>5. \A a \in DOMAIN p : p[a] \in Int /\ a \in Accounts
    BY <1>2 DEF Accounts
  <1>6. \A a \in DOMAIN t.postings : a \in Accounts /\ t.postings[a] \in Int \ {0}
    BY <1>4, <1>5
  <1>7. \A a : Entry(t, a) \in Int
    BY <1>4, <1>5
  <1>8. \A a : Entry(t, a) = IF a = "reserve" THEN -r.amount
                             ELSE IF a = "revenue" THEN charge - reward
                             ELSE IF a = "expired" THEN lapsed
                             ELSE IF a = r.owner THEN r.amount - charge - lapsed
                             ELSE IF a = performer THEN reward
                             ELSE 0
    BY <1>2, <1>4
  <1> QED
    BY <1>4, <1>6, <1>7, <1>8 DEF IsFinal

\* What the lots of a reservation yield when it ends.
LEMMA SettlementIs ==
    ASSUME LotInv, NEW r, GoodReservation(r), NEW charge \in 0..r.amount,
           NEW D, D = DOMAIN r.allocation, NEW settled, settled = Settle(r, charge),
           NEW left, left = [l \in DOMAIN settled |->
                                IF Lapsed(lots[l], clock) THEN r.allocation[l] - settled[l] ELSE 0]
    PROVE  /\ IsFiniteSet(D) /\ D \subseteq DOMAIN lots
           /\ settled \in [D -> Nat] /\ left \in [D -> Nat]
           /\ \A l \in D : settled[l] <= r.allocation[l]
           /\ \A l \in D : left[l] = IF lots[l].expires <= clock THEN r.allocation[l] - settled[l]
                                     ELSE 0
           /\ SumFunctionOnSet(settled, D) = charge
           /\ SumFunction(left) = SumFunctionOnSet(left, D)
  <1>1. IsFiniteSet(D) /\ D \subseteq DOMAIN lots
    <2>1. D \subseteq DOMAIN lots
      BY DEF GoodReservation
    <2> QED
      BY <2>1, LotsAre, FS_Subset
  <1>2. \A l \in D : r.allocation[l] \in Nat /\ l \in Int /\ lots[l].expires \in Int /\ lots[l].issued \in Int
    BY <1>1, LotsAre DEF GoodReservation
  <1>3. \A s \in SUBSET D : s # {} => SpentLast(lots, s) \in s
    BY <1>1, <1>2, OneIsSpentLast
  <1>4. SumFunctionOnSet(r.allocation, D) = r.amount /\ r.amount \in Nat
    BY DEF GoodReservation
  <1>5. charge \in Nat /\ charge <= SumFunctionOnSet(r.allocation, D)
    BY <1>4
  <1>6. /\ settled \in [D -> Int]
        /\ \A l \in D : settled[l] \in 0..r.allocation[l]
        /\ SumFunctionOnSet(settled, D) = charge
    BY <1>1, <1>2, <1>3, <1>5, SettleCharges
  <1>7. settled \in [D -> Nat] /\ \A l \in D : settled[l] <= r.allocation[l]
    <2>1. \A l \in D : settled[l] \in Nat /\ settled[l] <= r.allocation[l]
      BY <1>2, <1>6
    <2> QED
      BY <1>6, <2>1
  <1>8. /\ left \in [D -> Nat]
        /\ \A l \in D : left[l] = IF lots[l].expires <= clock THEN r.allocation[l] - settled[l]
                                  ELSE 0
    BY <1>2, <1>7 DEF Lapsed
  <1>9. SumFunction(left) = SumFunctionOnSet(left, D)
    <2>1. DOMAIN left = D
      BY <1>8
    <2> QED
      BY <2>1, Zenon DEF SumFunction
  <1> QED
    BY <1>1, <1>6, <1>7, <1>8, <1>9

\* What an end changes, with everything it computes named.
Ends(e, charge, performer, usage, r, r2, reward, settled, left, t, lot) ==
    /\ r = reservation[e] /\ r.status = "held"
    /\ reward = (IF r.human /\ charge > 0 THEN Reward(charge) ELSE 0)
    /\ reward > 0 => performer # r.owner
    /\ settled = Settle(r, charge)
    /\ left = [l \in DOMAIN settled |->
                  IF Lapsed(lots[l], clock) THEN r.allocation[l] - settled[l] ELSE 0]
    /\ taken' = taken \cup (Consumption(DOMAIN settled, settled, "settle", clock, e)
                            \cup Consumption(DOMAIN left, left, "expire", clock, e))
    /\ lot = [owner |-> performer, reference |-> "reward", origin |-> e, amount |-> reward,
              issued |-> clock, expires |-> clock + EarnedDuration]
    /\ lots' = IF reward > 0 THEN Append(lots, lot) ELSE lots
    /\ r2 = [r EXCEPT !.status = IF charge > 0 THEN "settled" ELSE "released",
                      !.settled = charge, !.finalized = clock, !.usage = usage]
    /\ reservation' = [reservation EXCEPT ![e] = r2]
    /\ t = Transaction(IF charge > 0 THEN "settle" ELSE "release", "execution", e, clock,
                       FinalPostings(r, charge, reward, performer, SumFunction(left)))
    /\ journal' = journal \cup {t}
    /\ clock' = clock /\ sweep' = sweep

\* An end is one of those steps.
LEMMA FinalizeEnds ==
    ASSUME reservation = [x \in Executions |-> reservation[x]],
           NEW e \in Executions, NEW charge, NEW performer, NEW usage,
           Finalize(e, charge, performer, usage)
    PROVE  \E r, r2, reward, settled, left, t, lot :
              Ends(e, charge, performer, usage, r, r2, reward, settled, left, t, lot)
  <1>1. PICK r : r = reservation[e]
    OBVIOUS
  <1>2. PICK reward : reward = IF r.human /\ charge > 0 THEN Reward(charge) ELSE 0
    OBVIOUS
  <1>3. PICK settled : settled = Settle(r, charge)
    OBVIOUS
  <1>4. PICK left : left = [l \in DOMAIN settled |->
                               IF Lapsed(lots[l], clock) THEN r.allocation[l] - settled[l] ELSE 0]
    OBVIOUS
  <1>5. PICK lot : lot = [owner |-> performer, reference |-> "reward", origin |-> e,
                          amount |-> reward, issued |-> clock, expires |-> clock + EarnedDuration]
    OBVIOUS
  <1>6. PICK r2 : r2 = [r EXCEPT !.status = IF charge > 0 THEN "settled" ELSE "released",
                                 !.settled = charge, !.finalized = clock, !.usage = usage]
    OBVIOUS
  <1>7. PICK t : t = Transaction(IF charge > 0 THEN "settle" ELSE "release", "execution", e, clock,
                                 FinalPostings(r, charge, reward, performer, SumFunction(left)))
    OBVIOUS
  <1>8. /\ r.status = "held"
        /\ reward > 0 => performer # r.owner
        /\ clock' = clock /\ sweep' = sweep
    BY <1>1, <1>2 DEF Finalize
  <1>9. lots' = IF reward > 0 THEN Append(lots, lot) ELSE lots
    BY <1>1, <1>2, <1>5, Zenon DEF Finalize
  <1>10. taken' = taken \cup (Consumption(DOMAIN settled, settled, "settle", clock, e)
                              \cup Consumption(DOMAIN left, left, "expire", clock, e))
    <2>1. taken' = taken \cup Consumption(DOMAIN settled, settled, "settle", clock, e)
                         \cup Consumption(DOMAIN left, left, "expire", clock, e)
      BY <1>1, <1>3, <1>4, ZenonT(60) DEF Finalize, Consumption
    <2> QED
      BY <2>1
  <1>11. reservation' = [reservation EXCEPT ![e] = r2]
    <2>1. reservation' = [reservation EXCEPT
                ![e].status = IF charge > 0 THEN "settled" ELSE "released",
                ![e].settled = charge, ![e].finalized = clock, ![e].usage = usage]
      BY DEF Finalize
    <2> QED
      BY <1>1, <1>6, <2>1
  <1>12. journal' = journal \cup {t}
    BY <1>1, <1>2, <1>3, <1>4, <1>7, ZenonT(60) DEF Finalize, Post
  <1>13. Ends(e, charge, performer, usage, r, r2, reward, settled, left, t, lot)
    BY <1>1, <1>2, <1>3, <1>4, <1>5, <1>6, <1>7, <1>8, <1>9, <1>10, <1>11, <1>12, Zenon DEF Ends
  <1> QED
    BY <1>13

\* The end of an execution.
LEMMA FinalizeStep ==
    ASSUME LedgerInv, LotInv', NEW e \in Executions, NEW charge \in Nat,
           charge <= reservation[e].amount,
           NEW performer \in Users, NEW usage \in Usages \cup {NoUsage},
           Finalize(e, charge, performer, usage)
    PROVE  LedgerInv'
  <1>0. LotInv /\ ReservationInv /\ TakenInv /\ JournalInv /\ SweepInv /\ \A a \in Accounts : Books(a)
    BY DEF LedgerInv
  <1>1. PICK r, r2, reward, settled, left, t, lot :
           Ends(e, charge, performer, usage, r, r2, reward, settled, left, t, lot)
    <2>1. reservation = [x \in Executions |-> reservation[x]]
      BY <1>0 DEF ReservationInv
    <2> QED
      BY <2>1, FinalizeEnds
  <1>2. /\ r = reservation[e] /\ r.status = "held" /\ (reward > 0 => performer # r.owner)
        /\ lots' = IF reward > 0 THEN Append(lots, lot) ELSE lots
        /\ reservation' = [reservation EXCEPT ![e] = r2]
        /\ journal' = journal \cup {t} /\ clock' = clock /\ sweep' = sweep
    BY <1>1 DEF Ends
  <1>3. GoodReservation(r)
    BY <1>0, <1>2 DEF ReservationInv, NoReservation
  <1>4. PICK D : D = DOMAIN r.allocation
    OBVIOUS
  <1>5. /\ IsFiniteSet(D) /\ D \subseteq DOMAIN lots
        /\ settled \in [D -> Nat] /\ left \in [D -> Nat]
        /\ SumFunctionOnSet(settled, D) = charge
        /\ SumFunction(left) = SumFunctionOnSet(left, D)
    <2>1. charge \in 0..r.amount
      BY <1>2, <1>3 DEF GoodReservation
    <2>2. /\ settled = Settle(r, charge)
          /\ left = [l \in DOMAIN settled |->
                        IF Lapsed(lots[l], clock) THEN r.allocation[l] - settled[l] ELSE 0]
      BY <1>1 DEF Ends
    <2> QED
      BY <1>0, <1>3, <1>4, <2>1, <2>2, SettlementIs
  <1>6. PICK lapsed \in Nat : lapsed = SumFunction(left) /\ lapsed = SumFunctionOnSet(left, D)
    <2>1. \A l \in D : left[l] \in Nat
      BY <1>5
    <2>2. SumFunctionOnSet(left, D) \in Nat
      BY <1>5, <2>1, SumIsNatural
    <2> QED
      BY <1>5, <2>2
  <1>7. reward \in Nat /\ r.owner \in Users /\ r.amount \in Nat /\ r.owner \in Accounts
    <2>1. reward = IF r.human /\ charge > 0 THEN Reward(charge) ELSE 0
      BY <1>1 DEF Ends
    <2> QED
      BY <1>3, <2>1, RewardIsPositive DEF GoodReservation, Accounts
  <1>8. /\ lot.owner = performer /\ lot.amount = reward /\ lot.reference = "reward"
    BY <1>1 DEF Ends
  <1>9. /\ t.kind \in {"settle", "release"} /\ t.reference = "execution" /\ t.of = e /\ t.at = clock
        /\ \A a \in DOMAIN t.postings : a \in Accounts /\ t.postings[a] \in Int \ {0}
        /\ \A a : Entry(t, a) \in Int
        /\ \A a : Entry(t, a) = IF a = "reserve" THEN -r.amount
                                ELSE IF a = "revenue" THEN charge - reward
                                ELSE IF a = "expired" THEN lapsed
                                ELSE IF a = r.owner THEN r.amount - charge - lapsed
                                ELSE IF a = performer THEN reward
                                ELSE 0
    <2>1. t = Transaction(IF charge > 0 THEN "settle" ELSE "release", "execution", e, clock,
                          FinalPostings(r, charge, reward, performer, lapsed))
      BY <1>1, <1>6 DEF Ends
    <2>2. PICK kind : kind = IF charge > 0 THEN "settle" ELSE "release"
      OBVIOUS
    <2>3. t = Transaction(kind, "execution", e, clock, FinalPostings(r, charge, reward, performer, lapsed))
      BY <2>1, <2>2
    <2> QED
      <3>1. r.owner \in Users /\ r.amount \in Nat /\ reward \in Nat
        BY <1>7
      <3>2. IsFinal(t, kind, e, clock, r, charge, reward, performer, lapsed)
        BY <2>3, <3>1, FinalEntries
      <3> QED
        BY <2>2, <3>2 DEF IsFinal
  <1>10. /\ r2.status = (IF charge > 0 THEN "settled" ELSE "released")
         /\ r2 = [status |-> r2.status, owner |-> r.owner, human |-> r.human, amount |-> r.amount,
                  settled |-> charge, created |-> r.created, finalized |-> clock,
                  allocation |-> r.allocation, usage |-> usage]
    <2>1. r2 = [r EXCEPT !.status = IF charge > 0 THEN "settled" ELSE "released",
                         !.settled = charge, !.finalized = clock, !.usage = usage]
      BY <1>1 DEF Ends
    <2>2. r = [status |-> r.status, owner |-> r.owner, human |-> r.human, amount |-> r.amount,
               settled |-> r.settled, created |-> r.created, finalized |-> r.finalized,
               allocation |-> r.allocation, usage |-> r.usage]
      BY <1>3, Zenon DEF GoodReservation
    <2> QED
      BY <2>1, <2>2
  <1>11. reservation'[e] = r2 /\ \A x \in Executions \ {e} : reservation'[x] = reservation[x]
    BY <1>0, <1>2 DEF ReservationInv
  <1>12. \A l \in DOMAIN lots : l \in DOMAIN lots' /\ lots'[l] = lots[l]
    BY <1>0, <1>2, AppendStays
  <1>13. Onward
    <2>1. journal \subseteq journal'
      BY <1>2
    <2>2. reservation'[e].status \in {"settled", "released"}
      BY <1>10, <1>11
    <2> QED
      BY <1>0, <1>2, <1>11, <1>12, <2>1, <2>2, ClockStays DEF Onward
  <1>14. clock \in Nat /\ clock \in 0..MaxTime /\ r.created \in 0..clock
    BY <1>0, <1>3, LotsAre DEF GoodReservation
  <1>15. GoodReservation(reservation[e])'
    <2>1. /\ r2.status \in {"settled", "released"} /\ r2.owner = r.owner /\ r2.human = r.human
          /\ r2.amount = r.amount /\ r2.settled = charge /\ r2.created = r.created
          /\ r2.finalized = clock /\ r2.allocation = r.allocation /\ r2.usage = usage
      BY <1>10
    <2>2. /\ r.owner \in Users /\ r.human \in BOOLEAN
          /\ r.amount \in Nat \ {0} /\ r.amount = (IF r.human THEN HumanPrice ELSE Tariff.maximum)
          /\ DOMAIN r.allocation \subseteq DOMAIN lots'
          /\ \A l \in DOMAIN r.allocation : r.allocation[l] \in Nat \ {0} /\ lots'[l].owner = r.owner
          /\ SumFunctionOnSet(r.allocation, DOMAIN r.allocation) = r.amount
      BY <1>3, <1>12 DEF GoodReservation
    <2>3. charge \in 0..r.amount /\ clock' = clock /\ clock \in r.created..clock
      BY <1>2, <1>7, <1>14
    <2>4. r2 = [status |-> r2.status, owner |-> r2.owner, human |-> r2.human, amount |-> r2.amount,
                settled |-> r2.settled, created |-> r2.created, finalized |-> r2.finalized,
                allocation |-> r2.allocation, usage |-> r2.usage]
      BY <1>10
    <2>5. GoodReservation(r2)'
      BY <1>14, <2>1, <2>2, <2>3, <2>4 DEF GoodReservation
    <2> QED
      BY <1>11, <2>5 DEF GoodReservation
  <1>16. \A x \in Executions : reservation'[x] = reservation[x] \/ GoodReservation(reservation[x])'
    <2> SUFFICES ASSUME NEW x \in Executions, x # e PROVE reservation'[x] = reservation[x]
      BY <1>15
    <2> QED
      BY <1>11
  <1>17. PICK S : S = Consumption(D, settled, "settle", clock, e)
    OBVIOUS
  <1>18. PICK X : X = Consumption(D, left, "expire", clock, e)
    OBVIOUS
  <1>19. taken' = taken \cup (S \cup X)
    <2>1. DOMAIN settled = D /\ DOMAIN left = D
      BY <1>5
    <2>2. taken' = taken \cup (Consumption(DOMAIN settled, settled, "settle", clock, e)
                               \cup Consumption(DOMAIN left, left, "expire", clock, e))
      BY <1>1 DEF Ends
    <2> QED
      BY <1>17, <1>18, <2>1, <2>2, Zenon
  <1>20. /\ \A c \in S : /\ c.lot \in D /\ c.kind = "settle" /\ c.at = clock /\ c.by = e
                         /\ c.amount \in Nat \ {0}
                         /\ c = [lot |-> c.lot, kind |-> c.kind, amount |-> c.amount, at |-> c.at, by |-> c.by]
         /\ \A c \in X : /\ c.lot \in D /\ c.kind = "expire" /\ c.at = clock /\ c.by = e
                         /\ c.amount \in Nat \ {0}
                         /\ c = [lot |-> c.lot, kind |-> c.kind, amount |-> c.amount, at |-> c.at, by |-> c.by]
    BY <1>5, <1>17, <1>18 DEF Consumption
  <1>21. e # "sweep"
    BY Facts
  <1>22. \A c \in S \cup X : IsConsumed(c)'
    <2> SUFFICES ASSUME NEW c \in S \cup X PROVE IsConsumed(c)'
      OBVIOUS
    <2>1. /\ c.lot \in DOMAIN lots' /\ c.kind \in {"settle", "expire"} /\ c.at = clock /\ c.by = e
          /\ c.amount \in Nat \ {0}
          /\ c = [lot |-> c.lot, kind |-> c.kind, amount |-> c.amount, at |-> c.at, by |-> c.by]
      BY <1>5, <1>12, <1>20
    <2>2. c \in Consumptions'
      BY <1>14, <2>1 DEF Consumptions
    <2>3. reservation'[e].status \in {"settled", "released"}
      BY <1>10, <1>11
    <2> QED
      BY <1>2, <1>14, <1>21, <2>1, <2>2, <2>3 DEF IsConsumed
  <1>23. taken \cap (S \cup X) = {} /\ S \cap X = {}
    BY <1>0, <1>2, <1>20, <1>21 DEF TakenInv, IsConsumed
  <1>24. t \notin journal
    BY <1>0, <1>2, <1>9 DEF JournalInv, IsPosted
  <1>25. IsPosted(t)'
    <2>1. IsTransaction(t)'
      BY <1>9, <1>14 DEF IsTransaction
    <2>2. reservation'[e].status \in {"settled", "released"}
      BY <1>10, <1>11
    <2> QED
      BY <1>9, <2>1, <2>2 DEF IsPosted
  <1>26. \A l \in D : lots[l].owner = r.owner
    BY <1>3, <1>4 DEF GoodReservation
  <1>27. IsFiniteSet(S) /\ IsFiniteSet(X)
    <2>1. ASSUME NEW m \in [D -> Nat], NEW kind, NEW C, C = Consumption(D, m, kind, clock, e)
          PROVE  IsFiniteSet(C)
      <3>1. PICK f : f = [c \in C |-> TakenPart("none", lots[c.lot].owner, c)]
        OBVIOUS
      <3>2. Shows(f, C, lots, "none") /\ OwnedBy(lots, D, r.owner)
        BY <1>26, <3>1 DEF Shows, OwnedBy
      <3>3. ShowsIn(f, C, "none", r.owner, kind, SumFunctionOnSet(m, D))
        BY <1>5, <2>1, <3>2, SumOfConsumption
      <3> QED
        BY <3>3 DEF ShowsIn
    <2> QED
      BY <1>5, <1>17, <1>18, <2>1
  <1>28. ASSUME NEW a \in Accounts
         PROVE  Books(a)'
    <2>0. /\ \A x \in journal : Entry(x, a) \in Int
          /\ \A c \in taken : TakenPart(a, lots[c.lot].owner, c) \in Int
          /\ \A x \in Executions : HeldPart(a, reservation[x]) \in Int
          /\ Posted(a) \in Int /\ Issued(a) \in Int /\ Consumed(a) \in Int /\ Reserved(a) \in Int
      BY <1>0, TermsAreIntegers, SumsAreIntegers
    <2>1. Posted(a)' = Posted(a) + Entry(t, a)
      BY <1>0, <1>2, <1>9, <1>24, <2>0, PostedOne DEF JournalInv
    <2>2. Reserved(a)' = Reserved(a) - HeldPart(a, r)
      <3>1. HeldPart(a, r2) = 0
        BY <1>10 DEF HeldPart
      <3>2. Reserved(a)' = Reserved(a) - HeldPart(a, reservation[e]) + HeldPart(a, r2)
        BY <1>0, <1>2, <2>0, <3>1, ReservedOne DEF ReservationInv
      <3>3. HeldPart(a, r) \in Int
        BY <1>2, <2>0
      <3> QED
        BY <1>2, <2>0, <3>1, <3>2, <3>3
    <2>3. Issued(a)' = Issued(a) + IF reward > 0 THEN LotPart(a, lot) ELSE 0
      <3>1. CASE reward > 0
        <4>1. LotPart(a, lot) \in Int
          BY <1>7, <1>8 DEF LotPart
        <4>2. Issued(a)' = Issued(a) + LotPart(a, lot)
          BY <1>0, <1>2, <3>1, <4>1, IssuedOne
        <4> QED
          BY <3>1, <4>2
      <3>2. CASE ~(reward > 0)
        <4>1. Issued(a)' = Issued(a)
          BY <1>2, <3>2, IssuedSame
        <4> QED
          BY <2>0, <3>2, <4>1
      <3> QED
        BY <3>1, <3>2
    <2>4. Consumed(a)' = Consumed(a) + IF a = r.owner THEN -charge - lapsed
                                       ELSE IF a = "revenue" THEN charge
                                       ELSE IF a = "expired" THEN lapsed
                                       ELSE 0
      <3>1. PICK C : C = S \cup X
        OBVIOUS
      <3>2. PICK f : f = [c \in C |-> TakenPart(a, lots[c.lot].owner, c)]
        OBVIOUS
      <3>3. Shows(f, S, lots, a) /\ Shows(f, X, lots, a) /\ OwnedBy(lots, D, r.owner)
        BY <1>26, <3>1, <3>2 DEF Shows, OwnedBy
      <3>4. /\ IntegersOn(f, S)
            /\ SumFunctionOnSet(f, S) = IF a = r.owner THEN -charge
                                        ELSE IF a = "revenue" THEN charge ELSE 0
        <4>1. ShowsIn(f, S, a, r.owner, "settle", SumFunctionOnSet(settled, D))
          BY <1>5, <1>17, <3>3, SumOfConsumption
        <4> QED
          BY <1>5, <4>1 DEF ShowsIn
      <3>5. /\ IntegersOn(f, X)
            /\ SumFunctionOnSet(f, X) = IF a = r.owner THEN -lapsed
                                        ELSE IF a = "expired" THEN lapsed ELSE 0
        <4>1. ShowsIn(f, X, a, r.owner, "expire", SumFunctionOnSet(left, D))
          BY <1>5, <1>18, <3>3, SumOfConsumption
        <4> QED
          BY <1>6, <4>1 DEF ShowsIn
      <3>6. SumFunctionOnSet(f, C) = SumFunctionOnSet(f, S) + SumFunctionOnSet(f, X)
        BY <1>23, <1>27, <3>1, <3>4, <3>5, SumOfBoth
      <3>7. IsFiniteSet(C) /\ IntegersOn(f, C) /\ taken \cap C = {} /\ taken' = taken \cup C
        <4>1. IsFiniteSet(C)
          BY <1>27, <3>1, FS_Union
        <4> QED
          BY <1>19, <1>23, <3>1, <3>4, <3>5, <4>1 DEF IntegersOn
      <3>8. \A c \in C : TakenPart(a, lots[c.lot].owner, c) \in Int
        BY <3>2, <3>7 DEF IntegersOn
      <3>9. \A c \in taken \cup C : lots'[c.lot].owner = lots[c.lot].owner
        <4>1. \A c \in taken : lots'[c.lot].owner = lots[c.lot].owner
          BY <1>0, <1>13, OwnersStay
        <4>2. \A c \in C : lots'[c.lot].owner = lots[c.lot].owner
          BY <1>5, <1>12, <1>20, <3>1
        <4> QED
          BY <4>1, <4>2
      <3>10. Consumed(a)' = Consumed(a) + SumFunctionOnSet(f, C)
        <4>1. Consumed(a)' = Consumed(a)
                 + SumFunctionOnSet([c \in C |-> TakenPart(a, lots[c.lot].owner, c)], C)
          BY <1>0, <2>0, <3>7, <3>8, <3>9, ConsumedMore DEF TakenInv
        <4> QED
          BY <3>2, <4>1, Zenon
      <3>11. r.owner # "revenue" /\ r.owner # "expired"
        BY <1>7, Facts
      <3> QED
        BY <1>6, <2>0, <3>4, <3>5, <3>6, <3>10, <3>11
    <2>5. HeldPart(a, r) = IF a = r.owner THEN -r.amount ELSE IF a = "reserve" THEN r.amount ELSE 0
      BY <1>2 DEF HeldPart
    <2>6. LotPart(a, lot) = IF a = performer THEN reward ELSE IF a = "revenue" THEN -reward ELSE 0
      BY <1>8 DEF LotPart
    <2>7. /\ r.owner \notin {"reserve", "revenue", "expired"}
          /\ performer \notin {"reserve", "revenue", "expired"}
      BY <1>7, Facts
    <2>8. Posted(a) = Issued(a) + Consumed(a) + Reserved(a)
      BY <1>0 DEF Books
    <2>9. Posted(a)' = Issued(a)' + Consumed(a)' + Reserved(a)'
      <3>1. Entry(t, a) = IF a = "reserve" THEN -r.amount
                          ELSE IF a = "revenue" THEN charge - reward
                          ELSE IF a = "expired" THEN lapsed
                          ELSE IF a = r.owner THEN r.amount - charge - lapsed
                          ELSE IF a = performer THEN reward
                          ELSE 0
        BY <1>9
      <3>2. reward > 0 => performer # r.owner
        BY <1>2
      <3>3. r.amount \in Nat /\ reward \in Nat
        BY <1>7
      <3>4. CASE reward > 0
        BY <1>6, <2>0, <2>1, <2>2, <2>3, <2>4, <2>5, <2>6, <2>7, <2>8, <3>1, <3>2, <3>3, <3>4
      <3>5. CASE reward = 0
        BY <1>6, <2>0, <2>1, <2>2, <2>3, <2>4, <2>5, <2>7, <2>8, <3>1, <3>3, <3>5
      <3> QED
        BY <3>3, <3>4, <3>5
    <2> QED
      BY <2>9 DEF Books
  <1>29. IsFiniteSet(taken') /\ \A c \in taken' \ taken : IsConsumed(c)'
    <2>1. IsFiniteSet(S \cup X)
      BY <1>27, FS_Union
    <2>2. IsFiniteSet(taken \cup (S \cup X))
      BY <1>0, <2>1, FS_Union DEF TakenInv
    <2> QED
      BY <1>19, <1>22, <2>2
  <1>30. IsFiniteSet(journal') /\ \A x \in journal' \ journal : IsPosted(x)'
    <2>1. IsFiniteSet(journal')
      BY <1>0, <1>2, FS_AddElement DEF JournalInv
    <2> QED
      BY <1>2, <1>25, <2>1
  <1>31. reservation' = [x \in Executions |-> reservation'[x]]
    BY <1>0, <1>2 DEF ReservationInv
  <1> QED
    BY <1>0, <1>2, <1>13, <1>16, <1>28, <1>29, <1>30, <1>31, GoodStep DEF SweepInv

---------------------------------------------------------------------------
(* Expiring *)

\* The transaction that expires a lot.
IsExpiry(t, l, owner, amount, at) ==
    /\ t.kind = "expire" /\ t.reference = "lot" /\ t.of = l /\ t.at = at
    /\ \A a \in DOMAIN t.postings : a \in Accounts /\ t.postings[a] \in Int \ {0}
    /\ \A a : Entry(t, a) = IF a = owner THEN -amount ELSE IF a = "expired" THEN amount ELSE 0

\* It takes from the owner what it posts as expired.
LEMMA ExpiryEntries ==
    ASSUME NEW owner \in Users, NEW amount \in Nat \ {0}, NEW l, NEW at, NEW t,
           t = Transaction("expire", "lot", l, at,
                           [a \in {"expired", owner} |-> IF a = "expired" THEN amount ELSE -amount])
    PROVE  IsExpiry(t, l, owner, amount, at)
  <1>1. PICK p : p = [a \in {"expired", owner} |-> IF a = "expired" THEN amount ELSE -amount]
    OBVIOUS
  <1>2. /\ DOMAIN p = {"expired", owner} /\ p[owner] = -amount /\ p["expired"] = amount
        /\ owner # "expired"
    BY <1>1, Facts
  <1>3. t = Transaction("expire", "lot", l, at, p)
    BY <1>1
  <1>4. /\ t.kind = "expire" /\ t.reference = "lot" /\ t.of = l /\ t.at = at
        /\ \A a \in DOMAIN t.postings :
              a \in DOMAIN p /\ t.postings[a] = p[a] /\ t.postings[a] # 0
        /\ \A a : Entry(t, a) = IF a \in DOMAIN p THEN p[a] ELSE 0
    BY <1>3, TransactionIs
  <1>5. \A a \in DOMAIN t.postings : a \in Accounts /\ t.postings[a] \in Int \ {0}
    BY <1>2, <1>4 DEF Accounts
  <1>6. \A a : Entry(t, a) = IF a = owner THEN -amount ELSE IF a = "expired" THEN amount ELSE 0
    BY <1>2, <1>4
  <1> QED
    BY <1>4, <1>5, <1>6 DEF IsExpiry

\* A run of the expiry command that goes through.
LEMMA CommitStep ==
    ASSUME LedgerInv, LotInv', NEW s \in Sweepers, CommitSweep(s)
    PROVE  LedgerInv'
  <1>0. LotInv /\ ReservationInv /\ TakenInv /\ JournalInv /\ SweepInv /\ \A a \in Accounts : Books(a)
    BY DEF LedgerInv
  <1>1. PICK now : now = sweep[s].now
    OBVIOUS
  <1>2. PICK D : D = Due(s)
    OBVIOUS
  <1>3. PICK m : m = [l \in D |-> AvailableAt(lots[l], l, now)]
    OBVIOUS
  <1>4. PICK ht : ht = [l \in D |-> Transaction("expire", "lot", l, now,
                           [a \in {"expired", lots[l].owner} |-> IF a = "expired" THEN m[l] ELSE -m[l]])]
    OBVIOUS
  <1>5. PICK hc : hc = [l \in D |-> [lot |-> l, kind |-> "expire", amount |-> m[l], at |-> now,
                                     by |-> "sweep"]]
    OBVIOUS
  <1>6. PICK E : E = {ht[l] : l \in D}
    OBVIOUS
  <1>7. PICK C : C = {hc[l] : l \in D}
    OBVIOUS
  <1>8. /\ sweep[s] # NoSweep /\ \A l \in D : ~Swept(l)
        /\ taken' = taken \cup C /\ journal' = journal \cup E
        /\ sweep' = [sweep EXCEPT ![s] = NoSweep]
        /\ clock' = clock /\ lots' = lots /\ reservation' = reservation
    <2>1. taken' = taken \cup C
      <3>1. taken' = taken \cup
              {[lot |-> l, kind |-> "expire", amount |-> AvailableAt(lots[l], l, now), at |-> now,
                by |-> "sweep"] : l \in D}
        BY <1>1, <1>2, Zenon DEF CommitSweep
      <3>2. C = {[lot |-> l, kind |-> "expire", amount |-> AvailableAt(lots[l], l, now), at |-> now,
                  by |-> "sweep"] : l \in D}
        BY <1>3, <1>5, <1>7
      <3> QED
        BY <3>1, <3>2
    <2>2. journal' = journal \cup E
      <3>1. journal' = journal \cup
              {Transaction("expire", "lot", l, now,
                  [a \in {"expired", lots[l].owner} |->
                      IF a = "expired" THEN AvailableAt(lots[l], l, now)
                      ELSE -AvailableAt(lots[l], l, now)]) : l \in D}
        BY <1>1, <1>2, Zenon DEF CommitSweep, Post
      <3>2. ASSUME NEW l \in D
            PROVE  ht[l] = Transaction("expire", "lot", l, now,
                      [a \in {"expired", lots[l].owner} |->
                          IF a = "expired" THEN AvailableAt(lots[l], l, now)
                          ELSE -AvailableAt(lots[l], l, now)])
        <4>1. m[l] = AvailableAt(lots[l], l, now)
          BY <1>3
        <4>2. ht[l] = Transaction("expire", "lot", l, now,
                 [a \in {"expired", lots[l].owner} |-> IF a = "expired" THEN m[l] ELSE -m[l]])
          BY <1>4
        <4> QED
          BY <4>1, <4>2, Zenon
      <3>3. E = {Transaction("expire", "lot", l, now,
                  [a \in {"expired", lots[l].owner} |->
                      IF a = "expired" THEN AvailableAt(lots[l], l, now)
                      ELSE -AvailableAt(lots[l], l, now)]) : l \in D}
        BY <1>6, <3>2, Zenon
      <3> QED
        BY <3>1, <3>3
    <2> QED
      BY <1>2, <2>1, <2>2 DEF CommitSweep
  <1>9. /\ now \in 0..clock /\ sweep[s].candidates \subseteq DOMAIN lots
        /\ D \subseteq DOMAIN lots /\ IsFiniteSet(D) /\ \A l \in D : AvailableAt(lots[l], l, now) > 0
    <2>1. now \in 0..clock /\ sweep[s].candidates \subseteq DOMAIN lots
      BY <1>0, <1>1, <1>8 DEF SweepInv, IsSweep
    <2>2. D \subseteq DOMAIN lots /\ \A l \in D : AvailableAt(lots[l], l, now) > 0
      BY <1>1, <1>2, <2>1 DEF Due
    <2> QED
      BY <1>0, <2>1, <2>2, LotsAre, FS_Subset
  <1>10. \A l \in D : m[l] \in Nat \ {0} /\ lots[l].owner \in Users /\ l \in DOMAIN lots
    <2> SUFFICES ASSUME NEW l \in D
                 PROVE  m[l] \in Nat \ {0} /\ lots[l].owner \in Users /\ l \in DOMAIN lots
      OBVIOUS
    <2>1. UsedAt(l, now) \in Nat /\ HeldAt(l, now) \in Nat
      BY <1>0, UseIsInteger
    <2>2. lots[l].amount \in Nat /\ lots[l].owner \in Users
      BY <1>0, <1>9, LotsAre
    <2>3. AvailableAt(lots[l], l, now) \in Int
      BY <2>1, <2>2 DEF AvailableAt
    <2> QED
      BY <1>3, <1>9, <2>2, <2>3
  <1>11. \A l \in D : IsExpiry(ht[l], l, lots[l].owner, m[l], now)
    <2> SUFFICES ASSUME NEW l \in D PROVE IsExpiry(ht[l], l, lots[l].owner, m[l], now)
      OBVIOUS
    <2>1. PICK owner \in Users : owner = lots[l].owner
      BY <1>10
    <2>2. PICK amount \in Nat \ {0} : amount = m[l]
      BY <1>10
    <2>3. ht[l] = Transaction("expire", "lot", l, now,
                     [a \in {"expired", owner} |-> IF a = "expired" THEN amount ELSE -amount])
      BY <1>4, <2>1, <2>2
    <2>4. IsExpiry(ht[l], l, owner, amount, now)
      BY <2>3, ExpiryEntries
    <2> QED
      BY <2>1, <2>2, <2>4
  <1>12. \A l \in D : /\ hc[l].lot = l /\ hc[l].kind = "expire" /\ hc[l].amount = m[l]
                      /\ hc[l].at = now /\ hc[l].by = "sweep"
                      /\ hc[l] = [lot |-> l, kind |-> "expire", amount |-> m[l], at |-> now,
                                  by |-> "sweep"]
    BY <1>5
  <1>13. IsFiniteSet(E) /\ IsFiniteSet(C)
    BY <1>6, <1>7, <1>9, ImageIsFinite
  <1>14. journal \cap E = {}
    <2> SUFFICES ASSUME NEW l \in D, ht[l] \in journal PROVE FALSE
      BY <1>6
    <2>1. ht[l].reference = "lot" /\ ht[l].of = l
      BY <1>11 DEF IsExpiry
    <2> QED
      BY <1>8, <2>1 DEF Swept
  <1>15. taken \cap C = {}
    <2> SUFFICES ASSUME NEW l \in D, hc[l] \in taken PROVE FALSE
      BY <1>7
    <2>1. Swept(l)
      BY <1>0, <1>12 DEF TakenInv, IsConsumed
    <2> QED
      BY <1>8, <2>1
  <1>16. Onward
    <2>1. journal \subseteq journal'
      BY <1>8
    <2> QED
      BY <1>0, <1>8, <2>1, ClockStays DEF Onward
  <1>17. clock \in Nat /\ clock \in 0..MaxTime /\ now \in 0..MaxTime /\ now <= clock
    BY <1>0, <1>9, LotsAre, Facts
  <1>18. \A t \in E : IsPosted(t)'
    <2> SUFFICES ASSUME NEW l \in D, NEW t, t = ht[l] PROVE IsPosted(t)'
      BY <1>6
    <2>1. /\ t.kind = "expire" /\ t.reference = "lot" /\ t.of = l /\ t.at = now
          /\ \A a \in DOMAIN t.postings : a \in Accounts /\ t.postings[a] \in Int \ {0}
      BY <1>11 DEF IsExpiry
    <2>2. IsTransaction(t)'
      BY <1>8, <1>10, <1>17, <2>1 DEF IsTransaction
    <2> QED
      BY <2>1, <2>2 DEF IsPosted
  <1>19. \A c \in C : IsConsumed(c)'
    <2> SUFFICES ASSUME NEW l \in D, NEW c, c = hc[l] PROVE IsConsumed(c)'
      BY <1>7
    <2>1. /\ c.lot = l /\ c.at = now /\ c.by = "sweep"
          /\ c = [lot |-> l, kind |-> "expire", amount |-> m[l], at |-> now, by |-> "sweep"]
      BY <1>12
    <2>2. c \in Consumptions'
      BY <1>8, <1>10, <1>17, <2>1 DEF Consumptions
    <2>3. Swept(l)'
      <3>1. ht[l] \in journal' /\ ht[l].reference = "lot" /\ ht[l].of = l
        BY <1>6, <1>8, <1>11 DEF IsExpiry
      <3> QED
        BY <3>1 DEF Swept
    <2>4. Swept(c.lot)'
      BY <2>1, <2>3
    <2> QED
      BY <1>8, <1>17, <2>1, <2>2, <2>4 DEF IsConsumed
  <1>20. ASSUME NEW a \in Accounts
         PROVE  Books(a)'
    <2>0. /\ \A x \in journal : Entry(x, a) \in Int
          /\ \A c \in taken : TakenPart(a, lots[c.lot].owner, c) \in Int
          /\ Posted(a) \in Int /\ Issued(a) \in Int /\ Consumed(a) \in Int /\ Reserved(a) \in Int
      BY <1>0, TermsAreIntegers, SumsAreIntegers
    <2>1. PICK g : g = [l \in D |-> IF a = lots[l].owner THEN -m[l]
                                    ELSE IF a = "expired" THEN m[l] ELSE 0]
      OBVIOUS
    <2>2. IntegersOn(g, D)
      BY <1>10, <2>1 DEF IntegersOn
    <2>3. PICK f : f = [t \in E |-> Entry(t, a)]
      OBVIOUS
    <2>4. PICK k : k = [c \in C |-> TakenPart(a, lots[c.lot].owner, c)]
      OBVIOUS
    <2>5. \A l \in D : f[ht[l]] = g[l]
      <3> SUFFICES ASSUME NEW l \in D PROVE f[ht[l]] = g[l]
        OBVIOUS
      <3>1. PICK t : t = ht[l]
        OBVIOUS
      <3>2. t \in E
        BY <1>6, <3>1
      <3>3. f[t] = Entry(t, a)
        BY <2>3, <3>2
      <3>4. IsExpiry(t, l, lots[l].owner, m[l], now)
        BY <1>11, <3>1
      <3>5. Entry(t, a) = IF a = lots[l].owner THEN -m[l] ELSE IF a = "expired" THEN m[l] ELSE 0
        BY <3>4 DEF IsExpiry
      <3>6. g[l] = IF a = lots[l].owner THEN -m[l] ELSE IF a = "expired" THEN m[l] ELSE 0
        BY <2>1
      <3>7. f[t] = g[l]
        BY <3>3, <3>5, <3>6, Zenon
      <3> QED
        BY <3>1, <3>7, Zenon
    <2>6. \A l \in D : k[hc[l]] = g[l]
      BY <1>7, <1>12, <2>1, <2>4 DEF TakenPart
    <2>7. \A x, y \in D : ht[x] = ht[y] => x = y
      <3>1. \A l \in D : ht[l].of = l
        BY <1>11 DEF IsExpiry
      <3> QED
        BY <3>1
    <2>8. \A x, y \in D : hc[x] = hc[y] => x = y
      <3>1. \A l \in D : hc[l].lot = l
        BY <1>12
      <3> QED
        BY <3>1
    <2>9. SumFunctionOnSet(f, E) = SumFunctionOnSet(g, D)
      <3>1. SumFunctionOnSet(f, {ht[l] : l \in D}) = SumFunctionOnSet(g, D)
        BY <1>9, <2>2, <2>5, <2>7, SumOfImage
      <3> QED
        BY <1>6, <3>1
    <2>10. SumFunctionOnSet(k, C) = SumFunctionOnSet(g, D)
      <3>1. SumFunctionOnSet(k, {hc[l] : l \in D}) = SumFunctionOnSet(g, D)
        BY <1>9, <2>2, <2>6, <2>8, SumOfImage
      <3> QED
        BY <1>7, <3>1
    <2>11. \A t \in E : Entry(t, a) \in Int
      BY <1>6, <2>2, <2>3, <2>5 DEF IntegersOn
    <2>12. \A c \in C : TakenPart(a, lots[c.lot].owner, c) \in Int
      BY <1>7, <2>2, <2>4, <2>6 DEF IntegersOn
    <2>13. Posted(a)' = Posted(a) + SumFunctionOnSet(g, D)
      <3>1. Posted(a)' = Posted(a) + SumFunctionOnSet([t \in E |-> Entry(t, a)], E)
        BY <1>0, <1>8, <1>13, <1>14, <2>0, <2>11, PostedMore DEF JournalInv
      <3> QED
        BY <2>3, <2>9, <3>1, Zenon
    <2>14. Consumed(a)' = Consumed(a) + SumFunctionOnSet(g, D)
      <3>1. Consumed(a)' = Consumed(a)
               + SumFunctionOnSet([c \in C |-> TakenPart(a, lots[c.lot].owner, c)], C)
        BY <1>0, <1>8, <1>13, <1>15, <2>0, <2>12, ConsumedMore DEF TakenInv
      <3> QED
        BY <2>4, <2>10, <3>1, Zenon
    <2>15. Issued(a)' = Issued(a) /\ Reserved(a)' = Reserved(a)
      BY <1>8, IssuedSame, ReservedSame
    <2>16. SumFunctionOnSet(g, D) \in Int
      BY <1>9, <2>2, SumIsInteger
    <2> QED
      BY <1>0, <2>0, <2>13, <2>14, <2>15, <2>16 DEF Books
  <1>21. IsFiniteSet(taken') /\ IsFiniteSet(journal')
    BY <1>0, <1>8, <1>13, FS_Union DEF TakenInv, JournalInv
  <1>22. /\ sweep' = [x \in Sweepers |-> sweep'[x]]
         /\ \A x \in Sweepers : sweep'[x] = sweep[x] \/ IsSweep(sweep[x])'
    <2>1. sweep = [x \in Sweepers |-> sweep[x]]
      BY <1>0 DEF SweepInv
    <2>2. sweep' = [x \in Sweepers |-> sweep'[x]]
      BY <1>8, <2>1
    <2>3. sweep'[s] = NoSweep /\ \A x \in Sweepers \ {s} : sweep'[x] = sweep[x]
      BY <1>8, <2>1
    <2>4. IsSweep(sweep[s])'
      BY <2>3 DEF IsSweep, NoSweep
    <2> QED
      BY <2>2, <2>3, <2>4
  <1>23. /\ \A c \in taken' \ taken : IsConsumed(c)'
         /\ \A t \in journal' \ journal : IsPosted(t)'
    BY <1>8, <1>18, <1>19
  <1>24. /\ reservation' = [e \in Executions |-> reservation'[e]]
         /\ \A e \in Executions :
               reservation'[e] = reservation[e] \/ GoodReservation(reservation[e])'
    BY <1>0, <1>8 DEF ReservationInv
  <1>25. \A a \in Accounts : Books(a)'
    BY <1>20
  <1> QED
    BY <1>16, <1>21, <1>22, <1>23, <1>24, <1>25, GoodStep

\* A run that looks for lots, or is refused.
LEMMA SweepStep ==
    ASSUME LedgerInv, LotInv', NEW s \in Sweepers, BeginSweep(s) \/ SweepRefused(s)
    PROVE  LedgerInv'
  <1>0. LotInv /\ ReservationInv /\ TakenInv /\ JournalInv /\ SweepInv /\ \A a \in Accounts : Books(a)
    BY DEF LedgerInv
  <1>1. /\ clock' = clock /\ lots' = lots /\ reservation' = reservation
        /\ taken' = taken /\ journal' = journal
    BY DEF BeginSweep, SweepRefused
  <1>2. \E p : sweep' = [sweep EXCEPT ![s] = p] /\ IsSweep(p)
    <2>1. CASE BeginSweep(s)
      <3>1. \E first \in SUBSET DOMAIN lots :
               sweep' = [sweep EXCEPT ![s] = [now |-> clock, candidates |-> first]]
        BY <2>1 DEF BeginSweep
      <3>2. PICK first \in SUBSET DOMAIN lots :
               sweep' = [sweep EXCEPT ![s] = [now |-> clock, candidates |-> first]]
        BY <3>1
      <3>3. IsSweep([now |-> clock, candidates |-> first])
        BY <1>0, LotsAre DEF IsSweep
      <3> QED
        BY <3>2, <3>3
    <2>2. CASE SweepRefused(s)
      <3>1. IsSweep(NoSweep)
        BY DEF IsSweep
      <3>2. sweep' = [sweep EXCEPT ![s] = NoSweep]
        BY <2>2 DEF SweepRefused
      <3> QED
        BY <3>1, <3>2
    <2> QED
      BY <2>1, <2>2
  <1>3. PICK p : sweep' = [sweep EXCEPT ![s] = p] /\ IsSweep(p)
    BY <1>2
  <1>4. Onward
    BY <1>0, <1>1, ClockStays DEF Onward
  <1>5. /\ sweep' = [x \in Sweepers |-> sweep'[x]]
        /\ \A x \in Sweepers : sweep'[x] = sweep[x] \/ IsSweep(sweep[x])'
    BY <1>0, <1>1, <1>3 DEF SweepInv, IsSweep
  <1>6. ASSUME NEW a \in Accounts
        PROVE  Books(a)'
    <2>1. Consumed(a)' = Consumed(a)
      BY <1>0, <1>1, <1>4, OwnersStay, TermsAreIntegers, ConsumedSame DEF TakenInv
    <2>2. Posted(a)' = Posted(a) /\ Issued(a)' = Issued(a) /\ Reserved(a)' = Reserved(a)
      BY <1>1, PostedSame, IssuedSame, ReservedSame
    <2> QED
      BY <1>0, <2>1, <2>2 DEF Books
  <1> QED
    BY <1>0, <1>1, <1>4, <1>5, <1>6, GoodStep DEF ReservationInv, TakenInv, JournalInv

\* Every step keeps the invariant.
LEMMA LedgerStep ==
    ASSUME LedgerInv, [Next]_vars
    PROVE  LedgerInv'
  <1>0. LotInv /\ LotInv'
    BY LotStep DEF LedgerInv
  <1>1. CASE Tick
    BY <1>0, <1>1, TickStep
  <1>2. ASSUME NEW key \in GrantKeys, NEW u \in Users, NEW term \in {1, Never},
               Grant(key, u, term)
        PROVE  LedgerInv'
    BY <1>0, <1>2, GrantStep
  <1>3. ASSUME NEW e \in Executions, NEW u \in Users,
               Reserve(e, u, FALSE, Tariff.maximum) \/ Reserve(e, u, TRUE, HumanPrice)
        PROVE  LedgerInv'
    BY <1>0, <1>3, ReserveStep
  <1>4. ASSUME NEW e \in Executions, NEW usage \in ModelUsages,
               reservation[e].status = "held", ~reservation[e].human,
               Finalize(e, Settlement(Tariff, usage).charge, reservation[e].owner, usage)
        PROVE  LedgerInv'
    <2>1. IsTariff(Tariff) /\ usage \in Usages
      BY AmountsAssumption
    <2>2. Settlement(Tariff, usage).charge \in 0..Tariff.maximum
      BY <2>1, SettlementIsCovered
    <2>3. GoodReservation(reservation[e])
      BY <1>4 DEF LedgerInv, ReservationInv, NoReservation
    <2>4. reservation[e].amount = Tariff.maximum /\ reservation[e].owner \in Users
      BY <1>4, <2>3 DEF GoodReservation
    <2>5. PICK charge : charge = Settlement(Tariff, usage).charge
      OBVIOUS
    <2>6. PICK performer \in Users : performer = reservation[e].owner
      BY <2>4
    <2>7. Finalize(e, charge, performer, usage)
      BY <1>4, <2>5, <2>6
    <2>8. charge \in Nat /\ charge <= reservation[e].amount /\ usage \in Usages \cup {NoUsage}
      BY <2>1, <2>2, <2>4, <2>5, Facts
    <2> QED
      BY <1>0, <2>7, <2>8, FinalizeStep
  <1>5. ASSUME NEW e \in Executions, NEW charge \in {0, HumanPrice}, NEW u \in Users,
               reservation[e].human, Finalize(e, charge, u, NoUsage)
        PROVE  LedgerInv'
    <2>1. GoodReservation(reservation[e])
      BY <1>5 DEF LedgerInv, ReservationInv, NoReservation
    <2>2. charge \in Nat /\ charge <= reservation[e].amount
      BY <1>5, <2>1, Facts DEF GoodReservation
    <2> QED
      BY <1>0, <1>5, <2>2, FinalizeStep
  <1>6. ASSUME NEW s \in Sweepers, BeginSweep(s) \/ CommitSweep(s) \/ SweepRefused(s)
        PROVE  LedgerInv'
    BY <1>0, <1>6, CommitStep, SweepStep
  <1>7. CASE UNCHANGED vars
    <2>0. LotInv /\ ReservationInv /\ TakenInv /\ JournalInv /\ SweepInv /\ \A a \in Accounts : Books(a)
      BY DEF LedgerInv
    <2>1. /\ clock' = clock /\ lots' = lots /\ reservation' = reservation
          /\ taken' = taken /\ journal' = journal /\ sweep' = sweep
      BY <1>7 DEF vars
    <2>2. Onward
      BY <2>0, <2>1, ClockStays DEF Onward
    <2>3. ASSUME NEW a \in Accounts
          PROVE  Books(a)'
      <3>1. Consumed(a)' = Consumed(a)
        BY <2>0, <2>1, <2>2, OwnersStay, TermsAreIntegers, ConsumedSame DEF TakenInv
      <3>2. Posted(a)' = Posted(a) /\ Issued(a)' = Issued(a) /\ Reserved(a)' = Reserved(a)
        BY <2>1, PostedSame, IssuedSame, ReservedSame
      <3> QED
        BY <2>0, <3>1, <3>2 DEF Books
    <2> QED
      BY <1>0, <2>0, <2>1, <2>2, <2>3, GoodStep DEF ReservationInv, TakenInv, JournalInv, SweepInv
  <1> QED
    BY <1>1, <1>2, <1>3, <1>4, <1>5, <1>6, <1>7 DEF Next

\* The invariant holds of an empty ledger.
LEMMA LedgerInit == Init => LedgerInv
  <1> SUFFICES ASSUME Init PROVE LedgerInv
    OBVIOUS
  <1>1. LotInv
    BY LotInit
  <1>2. /\ reservation = [e \in Executions |-> NoReservation] /\ taken = {} /\ journal = {}
        /\ sweep = [s \in Sweepers |-> NoSweep] /\ lots = <<>>
    BY DEF Init
  <1>3. ReservationInv /\ SweepInv
    <2>1. \A e \in Executions : reservation[e] = NoReservation
      BY <1>2
    <2>2. reservation = [e \in Executions |-> reservation[e]]
      BY <1>2
    <2>3. \A s \in Sweepers : IsSweep(sweep[s])
      BY <1>2 DEF IsSweep
    <2>4. sweep = [s \in Sweepers |-> sweep[s]]
      BY <1>2
    <2> QED
      BY <2>1, <2>2, <2>3, <2>4 DEF ReservationInv, SweepInv
  <1>4. TakenInv /\ JournalInv
    BY <1>2, FS_EmptySet DEF TakenInv, JournalInv
  <1>5. ASSUME NEW a \in Accounts
        PROVE  Books(a)
    <2>1. Posted(a) = 0
      BY <1>2, SumOfNone, Zenon DEF Posted
    <2>2. Consumed(a) = 0
      BY <1>2, SumOfNone, Zenon DEF Consumed
    <2>3. Issued(a) = 0
      <3>1. DOMAIN lots = {}
        BY <1>2
      <3> QED
        BY <3>1, SumOfNone, Zenon DEF Issued
    <2>4. Reserved(a) = 0
      <3>1. PICK f : f = [e \in Executions |-> HeldPart(a, reservation[e])]
        OBVIOUS
      <3>2. \A e \in Executions : f[e] = 0
        BY <1>2, <3>1 DEF HeldPart, NoReservation
      <3>3. SumFunctionOnSet(f, Executions) = 0
        BY <3>2, Facts, SumOfZeros
      <3> QED
        BY <3>1, <3>3, Zenon DEF Reserved
    <2> QED
      BY <2>1, <2>2, <2>3, <2>4 DEF Books
  <1> QED
    BY <1>1, <1>3, <1>4, <1>5 DEF LedgerInv

---------------------------------------------------------------------------
(* The books by lot *)

\* What was taken from a lot so far, and what is held of it now.
HeldOn(l, r) == IF r.status = "held" /\ l \in DOMAIN r.allocation THEN r.allocation[l] ELSE 0
Use(l) == [c \in taken |-> IF c.lot = l THEN c.amount ELSE 0]
Hold(l) == [e \in Executions |-> HeldOn(l, reservation[e])]
UsedOf(l) == SumFunctionOnSet(Use(l), taken)
HeldOf(l) == SumFunctionOnSet(Hold(l), Executions)

\* The two sums are natural numbers.
LEMMA LotSumsAreNatural ==
    ASSUME LedgerInv, NEW l
    PROVE  /\ \A c \in taken : Use(l)[c] \in Nat
           /\ \A e \in Executions : Hold(l)[e] \in Nat
           /\ UsedOf(l) \in Nat /\ HeldOf(l) \in Nat
  <1>1. PICK f : f = Use(l)
    OBVIOUS
  <1>2. PICK g : g = Hold(l)
    OBVIOUS
  <1>3. IsFiniteSet(taken) /\ IsFiniteSet(Executions)
    BY Facts DEF LedgerInv, TakenInv
  <1>4. \A c \in taken : f[c] \in Nat
    BY <1>1 DEF Use, LedgerInv, TakenInv, IsConsumed, Consumptions
  <1>5. \A e \in Executions : g[e] \in Nat
    <2> SUFFICES ASSUME NEW e \in Executions PROVE HeldOn(l, reservation[e]) \in Nat
      BY <1>2 DEF Hold
    <2>1. CASE reservation[e] = NoReservation
      BY <2>1 DEF HeldOn, NoReservation
    <2>2. CASE GoodReservation(reservation[e])
      BY <2>2 DEF HeldOn, GoodReservation
    <2> QED
      BY <2>1, <2>2 DEF LedgerInv, ReservationInv
  <1>6. SumFunctionOnSet(f, taken) \in Nat /\ SumFunctionOnSet(g, Executions) \in Nat
    BY <1>3, <1>4, <1>5, SumIsNatural
  <1> QED
    BY <1>1, <1>2, <1>4, <1>5, <1>6, Zenon DEF UsedOf, HeldOf

\* What is open of a lot, with everything that is known now.
LEMMA OpenIs ==
    ASSUME LedgerInv, NEW l
    PROVE  /\ Open(l) = lots[l].amount - UsedOf(l) - HeldOf(l)
           /\ UsedAt(l, clock) = UsedOf(l) /\ HeldAt(l, clock) = HeldOf(l)
  <1>0. ReservationInv /\ TakenInv /\ clock \in Nat /\ clock \in 0..MaxTime
    BY LotsAre DEF LedgerInv
  <1>1. UsedAt(l, clock) = UsedOf(l)
    <2>1. PICK C : C = {c \in taken : c.lot = l /\ c.at <= clock}
      OBVIOUS
    <2>2. PICK f : f = [c \in C |-> c.amount]
      OBVIOUS
    <2>3. PICK g : g = Use(l)
      OBVIOUS
    <2>4. UsedAt(l, clock) = SumFunctionOnSet(f, C)
      <3>1. DOMAIN f = C
        BY <2>2
      <3>2. UsedAt(l, clock) = SumFunctionOnSet(f, DOMAIN f)
        BY <2>1, <2>2, Zenon DEF UsedAt, Total, SumFunction
      <3> QED
        BY <3>1, <3>2, Zenon
    <2>5. C \in SUBSET taken /\ \A c \in taken \ C : g[c] = 0
      BY <1>0, <2>1, <2>3 DEF Use, TakenInv, IsConsumed
    <2>6. \A c \in C : f[c] = g[c]
      BY <2>1, <2>2, <2>3 DEF Use
    <2>7. IntegersOn(g, taken) /\ IsFiniteSet(taken)
      BY <1>0, <2>3, LotSumsAreNatural DEF IntegersOn, TakenInv
    <2>8. SumFunctionOnSet(g, taken) = SumFunctionOnSet(g, C)
      BY <2>5, <2>7, SumOfSome
    <2>9. IsFiniteSet(C) /\ IntegersOn(g, C)
      BY <2>5, <2>7, FS_Subset DEF IntegersOn
    <2>10. SumFunctionOnSet(f, C) = SumFunctionOnSet(g, C)
      BY <2>6, <2>9, SumOfSame
    <2> QED
      BY <2>3, <2>4, <2>8, <2>10, Zenon DEF UsedOf
  <1>2. HeldAt(l, clock) = HeldOf(l)
    <2>1. PICK E : E = {e \in Executions : Holds(e, l, clock)}
      OBVIOUS
    <2>2. PICK f : f = [e \in E |-> reservation[e].allocation[l]]
      OBVIOUS
    <2>3. PICK g : g = Hold(l)
      OBVIOUS
    <2>4. HeldAt(l, clock) = SumFunctionOnSet(f, E)
      <3>1. DOMAIN f = E
        BY <2>2
      <3>2. HeldAt(l, clock) = SumFunctionOnSet(f, DOMAIN f)
        BY <2>1, <2>2, Zenon DEF HeldAt, Total, SumFunction
      <3> QED
        BY <3>1, <3>2, Zenon
    <2>5. ASSUME NEW e \in Executions
          PROVE  Holds(e, l, clock) <=> reservation[e].status = "held" /\ l \in DOMAIN reservation[e].allocation
      <3>1. CASE reservation[e] = NoReservation
        BY <3>1 DEF Holds, NoReservation
      <3>2. CASE GoodReservation(reservation[e])
        <4>1. reservation[e].created <= clock
          BY <1>0, <3>2 DEF GoodReservation
        <4>2. clock < reservation[e].finalized <=> reservation[e].status = "held"
          BY <1>0, <3>2, Facts DEF GoodReservation
        <4> QED
          BY <4>1, <4>2 DEF Holds
      <3> QED
        BY <1>0, <3>1, <3>2 DEF ReservationInv
    <2>6. E \in SUBSET Executions /\ \A e \in Executions \ E : g[e] = 0
      BY <2>1, <2>3, <2>5 DEF Hold, HeldOn
    <2>7. \A e \in E : f[e] = g[e]
      BY <2>1, <2>2, <2>3, <2>5 DEF Hold, HeldOn
    <2>8. IntegersOn(g, Executions) /\ IsFiniteSet(Executions)
      BY <2>3, LotSumsAreNatural, Facts DEF IntegersOn
    <2>9. SumFunctionOnSet(g, Executions) = SumFunctionOnSet(g, E)
      BY <2>6, <2>8, SumOfSome
    <2>10. IsFiniteSet(E) /\ IntegersOn(g, E)
      BY <2>6, <2>8, FS_Subset DEF IntegersOn
    <2>11. SumFunctionOnSet(f, E) = SumFunctionOnSet(g, E)
      BY <2>7, <2>10, SumOfSame
    <2> QED
      BY <2>3, <2>4, <2>9, <2>11, Zenon DEF HeldOf
  <1> QED
    BY <1>1, <1>2, Zenon DEF Open, AvailableAt

\* The balance of an account is what was posted to it.
LEMMA BalanceIs ==
    ASSUME LedgerInv, NEW a
    PROVE  Balance(a) = Posted(a) /\ Posted(a) \in Int
  <1>0. LotInv /\ ReservationInv /\ TakenInv /\ JournalInv
    BY DEF LedgerInv
  <1>1. PICK J : J = {t \in journal : a \in DOMAIN t.postings}
    OBVIOUS
  <1>2. PICK f : f = [t \in J |-> t.postings[a]]
    OBVIOUS
  <1>3. PICK g : g = [t \in journal |-> Entry(t, a)]
    OBVIOUS
  <1>4. Balance(a) = SumFunctionOnSet(f, J)
    <2>1. DOMAIN f = J
      BY <1>2
    <2>2. Balance(a) = SumFunctionOnSet(f, DOMAIN f)
      BY <1>1, <1>2, Zenon DEF Balance, Total, SumFunction
    <2> QED
      BY <2>1, <2>2, Zenon
  <1>5. J \in SUBSET journal /\ \A t \in journal \ J : g[t] = 0
    BY <1>1, <1>3 DEF Entry
  <1>6. \A t \in J : f[t] = g[t]
    BY <1>1, <1>2, <1>3 DEF Entry
  <1>7. IntegersOn(g, journal) /\ IsFiniteSet(journal)
    BY <1>0, <1>3, TermsAreIntegers DEF IntegersOn, JournalInv
  <1>8. SumFunctionOnSet(g, journal) = SumFunctionOnSet(g, J)
    BY <1>5, <1>7, SumOfSome
  <1>9. IsFiniteSet(J) /\ IntegersOn(g, J)
    BY <1>5, <1>7, FS_Subset DEF IntegersOn
  <1>10. SumFunctionOnSet(f, J) = SumFunctionOnSet(g, J)
    BY <1>6, <1>9, SumOfSame
  <1>11. Balance(a) = Posted(a)
    BY <1>3, <1>4, <1>8, <1>10, Zenon DEF Posted
  <1> QED
    BY <1>0, <1>11, SumsAreIntegers

\* What was consumed of the lots of a user, lot by lot.
LEMMA ConsumedByLot ==
    ASSUME LedgerInv, NEW u \in Users, NEW M, M = {l \in DOMAIN lots : lots[l].owner = u},
           NEW used, \A l \in M : used[l] = UsedOf(l)
    PROVE  Consumed(u) = -SumFunctionOnSet(used, M)
  <1>0. LotInv /\ TakenInv
    BY DEF LedgerInv
  <1>1. IsFiniteSet(M) /\ IsFiniteSet(taken)
    <2>1. IsFiniteSet(DOMAIN lots) /\ M \subseteq DOMAIN lots
      BY <1>0, LotsAre
    <2> QED
      BY <1>0, <2>1, FS_Subset DEF TakenInv
  <1>2. PICK m : m = [l \in M |-> Use(l)]
    OBVIOUS
  <1>3. PICK part : part = [c \in taken |-> IF c.lot \in M THEN c.amount ELSE 0]
    OBVIOUS
  <1>4. \A c \in taken : c.amount \in Nat /\ c.lot \in DOMAIN lots
    BY <1>0 DEF TakenInv, IsConsumed, Consumptions
  <1>5. TableSums(m, M, taken, used, part)
    <2>1. \A l \in M, c \in taken : m[l][c] = IF c.lot = l THEN c.amount ELSE 0
      BY <1>2 DEF Use
    <2>2. \A l \in M, c \in taken : m[l][c] \in Int
      BY <1>4, <2>1
    <2>3. \A l \in M : used[l] = SumFunctionOnSet(m[l], taken)
      BY <1>2, Zenon DEF UsedOf
    <2>4. ASSUME NEW c \in taken
          PROVE  part[c] = SumFunctionOnSet([l \in M |-> m[l][c]], M)
      <3>1. PICK g : g = [l \in M |-> m[l][c]]
        OBVIOUS
      <3>2. PICK x : x = c.lot
        OBVIOUS
      <3>3. PICK v : v = c.amount
        OBVIOUS
      <3>4. v \in Int /\ IsOnlyAt(g, M, x, v)
        BY <1>4, <2>1, <3>1, <3>2, <3>3 DEF IsOnlyAt
      <3>5. SumFunctionOnSet(g, M) = IF x \in M THEN v ELSE 0
        BY <1>1, <3>4, SumOfOne
      <3>6. part[c] = IF x \in M THEN v ELSE 0
        BY <1>3, <3>2, <3>3
      <3> QED
        BY <3>1, <3>5, <3>6, Zenon
    <2> QED
      BY <2>2, <2>3, <2>4 DEF TableSums
  <1>6. SumFunctionOnSet(used, M) = SumFunctionOnSet(part, taken)
    BY <1>1, <1>5, SumOfTable
  <1>7. PICK g : g = [c \in taken |-> TakenPart(u, lots[c.lot].owner, c)]
    OBVIOUS
  <1>8. IntegersOn(part, taken)
    BY <1>3, <1>4 DEF IntegersOn
  <1>9. \A c \in taken : g[c] = -part[c]
    <2> SUFFICES ASSUME NEW c \in taken PROVE TakenPart(u, lots[c.lot].owner, c) = -part[c]
      BY <1>7
    <2>1. u # "expired" /\ u # "revenue"
      BY Facts
    <2>2. c.lot \in M <=> lots[c.lot].owner = u
      BY <1>4
    <2>3. \A n \in Int : -n = 0 - n
      OBVIOUS
    <2> QED
      BY <1>3, <1>4, <2>1, <2>2, <2>3 DEF TakenPart
  <1>10. SumFunctionOnSet(g, taken) = -SumFunctionOnSet(part, taken)
    BY <1>1, <1>8, <1>9, SumOfNegated
  <1> QED
    BY <1>6, <1>7, <1>10, Zenon DEF Consumed

\* What is reserved of the lots of a user, lot by lot.
LEMMA ReservedByLot ==
    ASSUME LedgerInv, NEW u \in Users, NEW M, M = {l \in DOMAIN lots : lots[l].owner = u},
           NEW held, \A l \in M : held[l] = HeldOf(l)
    PROVE  Reserved(u) = -SumFunctionOnSet(held, M)
  <1>0. LotInv /\ ReservationInv
    BY DEF LedgerInv
  <1>1. IsFiniteSet(M) /\ IsFiniteSet(Executions)
    <2>1. IsFiniteSet(DOMAIN lots) /\ M \subseteq DOMAIN lots
      BY <1>0, LotsAre
    <2> QED
      BY <2>1, Facts, FS_Subset
  <1>2. PICK m : m = [l \in M |-> Hold(l)]
    OBVIOUS
  <1>3. PICK part : part = [e \in Executions |->
            IF reservation[e].status = "held" /\ reservation[e].owner = u
            THEN reservation[e].amount ELSE 0]
    OBVIOUS
  <1>4. \A e \in Executions : part[e] \in Int
    <2> SUFFICES ASSUME NEW e \in Executions PROVE part[e] \in Int
      OBVIOUS
    <2>1. CASE reservation[e] = NoReservation
      BY <1>3, <2>1 DEF NoReservation
    <2>2. CASE GoodReservation(reservation[e])
      BY <1>3, <2>2 DEF GoodReservation
    <2> QED
      BY <1>0, <2>1, <2>2 DEF ReservationInv
  <1>5. TableSums(m, M, Executions, held, part)
    <2>1. \A l \in M, e \in Executions : m[l][e] = HeldOn(l, reservation[e])
      BY <1>2 DEF Hold
    <2>2. \A l \in M, e \in Executions : m[l][e] \in Int
      <3> SUFFICES ASSUME NEW l \in M, NEW e \in Executions PROVE m[l][e] \in Int
        OBVIOUS
      <3>1. Hold(l)[e] \in Nat
        BY LotSumsAreNatural
      <3> QED
        BY <1>2, <3>1
    <2>3. \A l \in M : held[l] = SumFunctionOnSet(m[l], Executions)
      BY <1>2, Zenon DEF HeldOf
    <2>4. ASSUME NEW e \in Executions
          PROVE  part[e] = SumFunctionOnSet([l \in M |-> m[l][e]], M)
      <3>1. PICK g : g = [l \in M |-> m[l][e]]
        OBVIOUS
      <3>2. PICK r : r = reservation[e]
        OBVIOUS
      <3>3. \A l \in M : g[l] = HeldOn(l, r)
        BY <2>1, <3>1, <3>2
      <3>4. CASE r.status # "held"
        <4>1. \A l \in M : g[l] = 0
          BY <3>3, <3>4 DEF HeldOn
        <4>2. SumFunctionOnSet(g, M) = 0
          BY <1>1, <4>1, SumOfZeros
        <4>3. part[e] = 0
          BY <1>3, <3>2, <3>4
        <4> QED
          BY <3>1, <4>2, <4>3, Zenon
      <3>5. CASE r.status = "held"
        <4>1. GoodReservation(r)
          BY <1>0, <3>2, <3>5 DEF ReservationInv, NoReservation
        <4>2. PICK D : D = DOMAIN r.allocation
          OBVIOUS
        <4>3. PICK q : q = r.allocation
          OBVIOUS
        <4>4. /\ D \subseteq DOMAIN lots /\ \A l \in D : q[l] \in Int /\ lots[l].owner = r.owner
              /\ SumFunctionOnSet(q, D) = r.amount
          <5>1. SumFunctionOnSet(r.allocation, DOMAIN r.allocation) = r.amount
            BY <4>1 DEF GoodReservation
          <5>2. SumFunctionOnSet(q, D) = r.amount
            BY <4>2, <4>3, <5>1, Zenon
          <5> QED
            BY <4>1, <4>2, <4>3, <5>2 DEF GoodReservation
        <4>5. \A l \in M : g[l] = IF l \in D THEN q[l] ELSE 0
          BY <3>3, <3>5, <4>2, <4>3 DEF HeldOn
        <4>6. CASE r.owner = u
          <5>1. D \in SUBSET M
            BY <4>4, <4>6
          <5>2. IntegersOn(g, M) /\ \A l \in M \ D : g[l] = 0
            BY <4>4, <4>5 DEF IntegersOn
          <5>3. SumFunctionOnSet(g, M) = SumFunctionOnSet(g, D)
            BY <1>1, <5>1, <5>2, SumOfSome
          <5>4. IsFiniteSet(D) /\ IntegersOn(q, D) /\ \A l \in D : g[l] = q[l]
            BY <1>1, <4>4, <4>5, <5>1, FS_Subset DEF IntegersOn
          <5>5. SumFunctionOnSet(g, D) = SumFunctionOnSet(q, D)
            BY <5>4, SumOfSame
          <5>6. part[e] = r.amount
            BY <1>3, <3>2, <3>5, <4>6
          <5>7. SumFunctionOnSet(g, M) = part[e]
            BY <4>4, <5>3, <5>5, <5>6, Zenon
          <5> QED
            BY <3>1, <5>7, Zenon
        <4>7. CASE r.owner # u
          <5>1. \A l \in M : g[l] = 0
            BY <4>4, <4>5, <4>7
          <5>2. SumFunctionOnSet(g, M) = 0
            BY <1>1, <5>1, SumOfZeros
          <5>3. part[e] = 0
            BY <1>3, <3>2, <4>7
          <5> QED
            BY <3>1, <5>2, <5>3, Zenon
        <4> QED
          BY <4>6, <4>7
      <3> QED
        BY <3>4, <3>5
    <2> QED
      BY <2>2, <2>3, <2>4 DEF TableSums
  <1>6. SumFunctionOnSet(held, M) = SumFunctionOnSet(part, Executions)
    BY <1>1, <1>5, SumOfTable
  <1>7. PICK g : g = [e \in Executions |-> HeldPart(u, reservation[e])]
    OBVIOUS
  <1>8. IntegersOn(part, Executions)
    BY <1>4 DEF IntegersOn
  <1>9. \A e \in Executions : g[e] = -part[e]
    <2> SUFFICES ASSUME NEW e \in Executions PROVE HeldPart(u, reservation[e]) = -part[e]
      BY <1>7
    <2>1. u # "reserve"
      BY Facts
    <2>2. \A n \in Int : -n = 0 - n
      OBVIOUS
    <2> QED
      BY <1>3, <2>1, <2>2 DEF HeldPart
  <1>10. SumFunctionOnSet(g, Executions) = -SumFunctionOnSet(part, Executions)
    BY <1>1, <1>8, <1>9, SumOfNegated
  <1> QED
    BY <1>6, <1>7, <1>10, Zenon DEF Reserved

\* A wallet is what is open of its lots.
LEMMA WalletsAgree ==
    ASSUME LedgerInv, NEW u \in Users, NEW M, M = {l \in DOMAIN lots : lots[l].owner = u}
    PROVE  Balance(u) = SumFunction([l \in M |-> Open(l)])
  <1>0. LotInv
    BY DEF LedgerInv
  <1>1. M \in SUBSET DOMAIN lots /\ IsFiniteSet(DOMAIN lots) /\ IsFiniteSet(M)
    <2>1. M \in SUBSET DOMAIN lots /\ IsFiniteSet(DOMAIN lots)
      BY <1>0, LotsAre
    <2> QED
      BY <2>1, FS_Subset
  <1>2. PICK open : open = [l \in M |-> Open(l)]
    OBVIOUS
  <1>3. PICK amount : amount = [l \in M |-> lots[l].amount]
    OBVIOUS
  <1>4. PICK used : used = [l \in M |-> UsedOf(l)]
    OBVIOUS
  <1>5. PICK held : held = [l \in M |-> HeldOf(l)]
    OBVIOUS
  <1>6. PICK gone : gone = [l \in M |-> used[l] + held[l]]
    OBVIOUS
  <1>7. \A l \in M : /\ amount[l] \in Int /\ used[l] \in Int /\ held[l] \in Int
                     /\ open[l] = amount[l] - used[l] - held[l]
    <2> SUFFICES ASSUME NEW l \in M
                 PROVE  /\ amount[l] \in Int /\ used[l] \in Int /\ held[l] \in Int
                        /\ open[l] = amount[l] - used[l] - held[l]
      OBVIOUS
    <2>1. UsedOf(l) \in Nat /\ HeldOf(l) \in Nat
      BY LotSumsAreNatural
    <2>2. Open(l) = lots[l].amount - UsedOf(l) - HeldOf(l)
      BY OpenIs
    <2>3. lots[l].amount \in Int
      BY <1>0, <1>1, LotsAre
    <2> QED
      BY <1>2, <1>3, <1>4, <1>5, <2>1, <2>2, <2>3
  <1>8. /\ IntegersOn(open, M) /\ IntegersOn(amount, M) /\ IntegersOn(used, M)
        /\ IntegersOn(held, M) /\ IntegersOn(gone, M)
        /\ \A l \in M : gone[l] = used[l] + held[l]
        /\ \A l \in M : amount[l] = open[l] + gone[l]
    BY <1>6, <1>7 DEF IntegersOn
  <1>9. SumFunctionOnSet(gone, M) = SumFunctionOnSet(used, M) + SumFunctionOnSet(held, M)
    BY <1>1, <1>8, SumOfSums
  <1>10. SumFunctionOnSet(amount, M) = SumFunctionOnSet(open, M) + SumFunctionOnSet(gone, M)
    BY <1>1, <1>8, SumOfSums
  <1>11. Issued(u) = SumFunctionOnSet(amount, M)
    <2>1. PICK g : g = [l \in DOMAIN lots |-> LotPart(u, lots[l])]
      OBVIOUS
    <2>2. u # "issuance" /\ u # "revenue"
      BY Facts
    <2>3. \A l \in M : g[l] = amount[l]
      BY <1>3, <2>1 DEF LotPart
    <2>4. \A l \in DOMAIN lots \ M : g[l] = 0
      BY <2>1, <2>2 DEF LotPart
    <2>5. IntegersOn(g, DOMAIN lots)
      BY <1>8, <2>3, <2>4 DEF IntegersOn
    <2>6. SumFunctionOnSet(g, DOMAIN lots) = SumFunctionOnSet(g, M)
      BY <1>1, <2>4, <2>5, SumOfSome
    <2>7. SumFunctionOnSet(g, M) = SumFunctionOnSet(amount, M)
      BY <1>1, <1>8, <2>3, SumOfSame
    <2> QED
      BY <2>1, <2>6, <2>7, Zenon DEF Issued
  <1>12. Consumed(u) = -SumFunctionOnSet(used, M)
    BY <1>4, ConsumedByLot
  <1>13. Reserved(u) = -SumFunctionOnSet(held, M)
    BY <1>5, ReservedByLot
  <1>14. Balance(u) = Issued(u) + Consumed(u) + Reserved(u)
    BY BalanceIs DEF LedgerInv, Books, Accounts
  <1>15. /\ SumFunctionOnSet(open, M) \in Int /\ SumFunctionOnSet(used, M) \in Int
         /\ SumFunctionOnSet(held, M) \in Int
    BY <1>1, <1>8, SumIsInteger
  <1>16. Balance(u) = SumFunctionOnSet(open, M)
    BY <1>9, <1>10, <1>11, <1>12, <1>13, <1>14, <1>15
  <1>17. SumFunction(open) = SumFunctionOnSet(open, M)
    <2>1. DOMAIN open = M
      BY <1>2
    <2> QED
      BY <2>1, SumFunctionIs
  <1> QED
    BY <1>2, <1>16, <1>17, Zenon

\* The reserve is what is held.
LEMMA ReserveAgrees ==
    ASSUME LedgerInv
    PROVE  Balance("reserve")
             = SumFunction([e \in Executions |->
                   IF reservation[e].status = "held" THEN reservation[e].amount ELSE 0])
  <1>0. LotInv /\ ReservationInv /\ TakenInv /\ "reserve" \in Accounts /\ "reserve" \notin Users
    BY Facts DEF LedgerInv, Accounts
  <1>1. Balance("reserve") = Issued("reserve") + Consumed("reserve") + Reserved("reserve")
    BY <1>0, BalanceIs DEF LedgerInv, Books
  <1>2. Issued("reserve") = 0
    <2>1. PICK g : g = [l \in DOMAIN lots |-> LotPart("reserve", lots[l])]
      OBVIOUS
    <2>2. IsFiniteSet(DOMAIN lots) /\ \A l \in DOMAIN lots : g[l] = 0
      BY <1>0, <2>1, LotsAre DEF LotPart
    <2>3. SumFunctionOnSet(g, DOMAIN lots) = 0
      BY <2>2, SumOfZeros
    <2> QED
      BY <2>1, <2>3, Zenon DEF Issued
  <1>3. Consumed("reserve") = 0
    <2>1. PICK g : g = [c \in taken |-> TakenPart("reserve", lots[c.lot].owner, c)]
      OBVIOUS
    <2>2. \A c \in taken : lots[c.lot].owner \in Users
      BY <1>0, LotsAre DEF TakenInv, IsConsumed, Consumptions
    <2>3. IsFiniteSet(taken) /\ \A c \in taken : g[c] = 0
      BY <1>0, <2>1, <2>2 DEF TakenPart, TakenInv
    <2>4. SumFunctionOnSet(g, taken) = 0
      BY <2>3, SumOfZeros
    <2> QED
      BY <2>1, <2>4, Zenon DEF Consumed
  <1>4. PICK f : f = [e \in Executions |->
                        IF reservation[e].status = "held" THEN reservation[e].amount ELSE 0]
    OBVIOUS
  <1>5. PICK g : g = [e \in Executions |-> HeldPart("reserve", reservation[e])]
    OBVIOUS
  <1>6. \A e \in Executions : g[e] \in Int /\ f[e] = g[e]
    <2> SUFFICES ASSUME NEW e \in Executions PROVE g[e] \in Int /\ f[e] = g[e]
      OBVIOUS
    <2>1. CASE reservation[e] = NoReservation
      BY <1>4, <1>5, <2>1 DEF HeldPart, NoReservation
    <2>2. CASE GoodReservation(reservation[e])
      <3>1. reservation[e].owner # "reserve" /\ reservation[e].amount \in Nat
        BY <1>0, <2>2 DEF GoodReservation
      <3> QED
        BY <1>4, <1>5, <3>1 DEF HeldPart
    <2> QED
      BY <1>0, <2>1, <2>2 DEF ReservationInv
  <1>7. SumFunctionOnSet(f, Executions) = SumFunctionOnSet(g, Executions)
    BY <1>6, Facts, SumOfSame DEF IntegersOn
  <1>8. Reserved("reserve") = SumFunctionOnSet(f, Executions)
    BY <1>5, <1>7, Zenon DEF Reserved
  <1>9. SumFunctionOnSet(f, Executions) \in Int
    <2>1. IntegersOn(f, Executions)
      BY <1>6 DEF IntegersOn
    <2> QED
      BY <2>1, Facts, SumIsInteger
  <1>10. SumFunction(f) = SumFunctionOnSet(f, Executions)
    <2>1. DOMAIN f = Executions
      BY <1>4
    <2> QED
      BY <2>1, SumFunctionIs
  <1>11. Balance("reserve") = SumFunction(f)
    BY <1>1, <1>2, <1>3, <1>8, <1>9, <1>10
  <1> QED
    BY <1>4, <1>11, Zenon

\* What is in an account of the platform that holds nothing.
LEMMA NothingReserved ==
    ASSUME LedgerInv, NEW a, a \notin Users, a # "reserve"
    PROVE  Reserved(a) = 0
  <1>1. PICK g : g = [e \in Executions |-> HeldPart(a, reservation[e])]
    OBVIOUS
  <1>2. \A e \in Executions : g[e] = 0
    <2> SUFFICES ASSUME NEW e \in Executions PROVE g[e] = 0
      OBVIOUS
    <2>1. CASE reservation[e] = NoReservation
      BY <1>1, <2>1 DEF HeldPart, NoReservation
    <2>2. CASE GoodReservation(reservation[e])
      BY <1>1, <2>2 DEF HeldPart, GoodReservation
    <2> QED
      BY <2>1, <2>2 DEF LedgerInv, ReservationInv
  <1>3. SumFunctionOnSet(g, Executions) = 0
    BY <1>2, Facts, SumOfZeros
  <1> QED
    BY <1>1, <1>3, Zenon DEF Reserved

\* What was consumed shows in the account of its kind.
LEMMA ConsumedByKind ==
    ASSUME LedgerInv, NEW a, a \notin Users, NEW C,
           C = {c \in taken : a = IF c.kind = "expire" THEN "expired" ELSE "revenue"}
    PROVE  /\ Consumed(a) = SumFunction([c \in C |-> c.amount])
           /\ Consumed(a) \in Int
  <1>0. LotInv /\ TakenInv
    BY DEF LedgerInv
  <1>1. PICK g : g = [c \in taken |-> TakenPart(a, lots[c.lot].owner, c)]
    OBVIOUS
  <1>2. PICK f : f = [c \in C |-> c.amount]
    OBVIOUS
  <1>3. \A c \in taken : c.amount \in Nat /\ lots[c.lot].owner # a
    BY <1>0, LotsAre DEF TakenInv, IsConsumed, Consumptions
  <1>4. IsFiniteSet(taken) /\ IntegersOn(g, taken)
    BY <1>0, <1>1, <1>3 DEF TakenInv, IntegersOn, TakenPart
  <1>5. C \in SUBSET taken /\ \A c \in taken \ C : g[c] = 0
    BY <1>1, <1>3 DEF TakenPart
  <1>6. \A c \in C : f[c] = g[c]
    BY <1>1, <1>2, <1>3 DEF TakenPart
  <1>7. SumFunctionOnSet(g, taken) = SumFunctionOnSet(g, C)
    BY <1>4, <1>5, SumOfSome
  <1>8. IsFiniteSet(C) /\ IntegersOn(g, C)
    BY <1>4, <1>5, FS_Subset DEF IntegersOn
  <1>9. SumFunctionOnSet(f, C) = SumFunctionOnSet(g, C)
    BY <1>6, <1>8, SumOfSame
  <1>10. SumFunction(f) = SumFunctionOnSet(f, C)
    <2>1. DOMAIN f = C
      BY <1>2
    <2> QED
      BY <2>1, SumFunctionIs
  <1>11. SumFunctionOnSet(g, taken) \in Int
    BY <1>4, SumIsInteger
  <1> QED
    BY <1>1, <1>2, <1>7, <1>9, <1>10, <1>11, Zenon DEF Consumed

\* What was issued shows in the account it came from.
LEMMA IssuedBySource ==
    ASSUME LedgerInv, NEW a, a \notin Users, NEW L,
           L = {l \in DOMAIN lots :
                   a = IF lots[l].reference = "reward" THEN "revenue" ELSE "issuance"}
    PROVE  /\ Issued(a) = -SumFunction([l \in L |-> lots[l].amount])
           /\ SumFunction([l \in L |-> lots[l].amount]) \in Int
  <1>0. LotInv
    BY DEF LedgerInv
  <1>1. PICK g : g = [l \in DOMAIN lots |-> LotPart(a, lots[l])]
    OBVIOUS
  <1>2. PICK f : f = [l \in L |-> lots[l].amount]
    OBVIOUS
  <1>3. /\ IsFiniteSet(DOMAIN lots)
        /\ \A l \in DOMAIN lots : lots[l].amount \in Nat /\ lots[l].owner # a
    BY <1>0, LotsAre
  <1>4. IntegersOn(g, DOMAIN lots)
    BY <1>1, <1>3 DEF IntegersOn, LotPart
  <1>5. L \in SUBSET DOMAIN lots /\ \A l \in DOMAIN lots \ L : g[l] = 0
    BY <1>1, <1>3 DEF LotPart
  <1>6. IntegersOn(f, L) /\ \A l \in L : g[l] = -f[l]
    BY <1>1, <1>2, <1>3 DEF LotPart, IntegersOn
  <1>7. SumFunctionOnSet(g, DOMAIN lots) = SumFunctionOnSet(g, L)
    BY <1>3, <1>4, <1>5, SumOfSome
  <1>8. IsFiniteSet(L)
    BY <1>3, <1>5, FS_Subset
  <1>9. SumFunctionOnSet(g, L) = -SumFunctionOnSet(f, L)
    BY <1>6, <1>8, SumOfNegated
  <1>10. SumFunction(f) = SumFunctionOnSet(f, L)
    <2>1. DOMAIN f = L
      BY <1>2
    <2> QED
      BY <2>1, SumFunctionIs
  <1>11. SumFunctionOnSet(f, L) \in Int
    BY <1>6, <1>8, SumIsInteger
  <1>12. Issued(a) = -SumFunction(f) /\ SumFunction(f) \in Int
    BY <1>1, <1>7, <1>9, <1>10, <1>11, Zenon DEF Issued
  <1> QED
    BY <1>2, <1>12, Zenon

---------------------------------------------------------------------------
(* The theorems of the books *)

\* The invariant is stronger than the property the runs check.
LEMMA LedgerBalances == LedgerInv => BooksAgree
  <1> SUFFICES ASSUME LedgerInv PROVE BooksAgree
    OBVIOUS
  <1>0. /\ {"expired", "revenue", "issuance", "reserve"} \cap Users = {}
        /\ "expired" \in Accounts /\ "revenue" \in Accounts /\ "issuance" \in Accounts
    BY Facts DEF Accounts
  <1>1. ASSUME NEW a \in Accounts, a \notin Users, a # "reserve"
        PROVE  Balance(a) = Issued(a) + Consumed(a)
    <2>1. Balance(a) = Issued(a) + Consumed(a) + Reserved(a) /\ Reserved(a) = 0
      BY <1>1, BalanceIs, NothingReserved DEF LedgerInv, Books
    <2>2. Issued(a) \in Int /\ Consumed(a) \in Int
      BY SumsAreIntegers DEF LedgerInv
    <2> QED
      BY <2>1, <2>2
  <1>2. PICK rewards : rewards = {l \in DOMAIN lots : lots[l].reference = "reward"}
    OBVIOUS
  <1>3. PICK expired : expired = {c \in taken : c.kind = "expire"}
    OBVIOUS
  <1>4. PICK settled : settled = {c \in taken : c.kind = "settle"}
    OBVIOUS
  <1>5. \A c \in taken : c.kind \in {"settle", "expire"}
    BY DEF LedgerInv, TakenInv, IsConsumed, Consumptions
  <1>6. Consumed("expired") = SumFunction([c \in expired |-> c.amount])
    <2>1. expired = {c \in taken : "expired" = IF c.kind = "expire" THEN "expired" ELSE "revenue"}
      BY <1>3
    <2> QED
      BY <1>0, <2>1, ConsumedByKind
  <1>7. /\ Consumed("revenue") = SumFunction([c \in settled |-> c.amount])
        /\ Consumed("revenue") \in Int
    <2>1. settled = {c \in taken : "revenue" = IF c.kind = "expire" THEN "expired" ELSE "revenue"}
      BY <1>4, <1>5
    <2> QED
      BY <1>0, <2>1, ConsumedByKind
  <1>8. Consumed("issuance") = 0
    <2>1. PICK C : C = {c \in taken : "issuance" = IF c.kind = "expire" THEN "expired" ELSE "revenue"}
      OBVIOUS
    <2>2. C = {}
      BY <2>1
    <2>3. Consumed("issuance") = SumFunction([c \in C |-> c.amount])
      BY <1>0, <2>1, ConsumedByKind
    <2>4. PICK f : f = [c \in C |-> c.amount]
      OBVIOUS
    <2>5. SumFunction(f) = SumFunctionOnSet(f, {})
      <3>1. DOMAIN f = {}
        BY <2>2, <2>4
      <3> QED
        BY <3>1, SumFunctionIs
    <2>6. SumFunction(f) = 0
      BY <2>5, SumOfNone
    <2> QED
      BY <2>3, <2>4, <2>6, Zenon
  <1>9. Issued("expired") = 0
    <2>1. PICK g : g = [l \in DOMAIN lots |-> LotPart("expired", lots[l])]
      OBVIOUS
    <2>2. IsFiniteSet(DOMAIN lots) /\ \A l \in DOMAIN lots : lots[l].owner # "expired"
      BY <1>0, LotsAre DEF LedgerInv
    <2>3. \A l \in DOMAIN lots : g[l] = 0
      BY <2>1, <2>2 DEF LotPart
    <2>4. SumFunctionOnSet(g, DOMAIN lots) = 0
      BY <2>2, <2>3, SumOfZeros
    <2> QED
      BY <2>1, <2>4, Zenon DEF Issued
  <1>10. /\ Issued("revenue") = -SumFunction([l \in rewards |-> lots[l].amount])
         /\ SumFunction([l \in rewards |-> lots[l].amount]) \in Int
    <2>1. rewards = {l \in DOMAIN lots :
                        "revenue" = IF lots[l].reference = "reward" THEN "revenue" ELSE "issuance"}
      BY <1>2
    <2> QED
      BY <1>0, <2>1, IssuedBySource
  <1>11. /\ Issued("issuance") = -SumFunction([l \in DOMAIN lots \ rewards |-> lots[l].amount])
         /\ Issued("issuance") \in Int
    <2>1. DOMAIN lots \ rewards
            = {l \in DOMAIN lots :
                  "issuance" = IF lots[l].reference = "reward" THEN "revenue" ELSE "issuance"}
      BY <1>2
    <2>2. Issued("issuance") \in Int
      BY SumsAreIntegers DEF LedgerInv
    <2> QED
      BY <1>0, <2>1, <2>2, IssuedBySource
  <1>12. Balance("expired") = SumFunction([c \in expired |-> c.amount])
    <2>1. Balance("expired") = Issued("expired") + Consumed("expired") /\ Consumed("expired") \in Int
      BY <1>0, <1>1, SumsAreIntegers DEF LedgerInv
    <2>2. Balance("expired") = Consumed("expired")
      BY <1>9, <2>1
    <2> QED
      BY <1>6, <2>2, Zenon
  <1>13. Balance("revenue") = SumFunction([c \in settled |-> c.amount])
                                - SumFunction([l \in rewards |-> lots[l].amount])
    <2>1. Balance("revenue") = Issued("revenue") + Consumed("revenue")
      BY <1>0, <1>1
    <2>2. PICK n \in Int : n = SumFunction([l \in rewards |-> lots[l].amount])
      BY <1>10
    <2>3. Balance("revenue") = Consumed("revenue") - n
      BY <1>7, <1>10, <2>1, <2>2
    <2> QED
      BY <1>7, <2>2, <2>3, Zenon
  <1>14. Balance("issuance") = -SumFunction([l \in DOMAIN lots \ rewards |-> lots[l].amount])
    <2>1. Balance("issuance") = Issued("issuance") + Consumed("issuance")
      BY <1>0, <1>1
    <2>2. Balance("issuance") = Issued("issuance")
      BY <1>8, <1>11, <2>1
    <2> QED
      BY <1>11, <2>2, Zenon
  <1>15. \A u \in Users :
            Balance(u) = SumFunction([l \in {k \in DOMAIN lots : lots[k].owner = u} |-> Open(l)])
    <2> SUFFICES ASSUME NEW u \in Users
                 PROVE  Balance(u) = SumFunction([l \in {k \in DOMAIN lots : lots[k].owner = u} |-> Open(l)])
      OBVIOUS
    <2>1. PICK M : M = {l \in DOMAIN lots : lots[l].owner = u}
      OBVIOUS
    <2>2. Balance(u) = SumFunction([l \in M |-> Open(l)])
      BY <2>1, WalletsAgree
    <2> QED
      BY <2>1, <2>2, Zenon
  <1> QED
    BY <1>2, <1>3, <1>4, <1>12, <1>13, <1>14, <1>15, ReserveAgrees, ZenonT(60) DEF BooksAgree, Total

\* The invariant gives the types.
LEMMA LedgerTypes == LedgerInv => TypeOK
  <1> SUFFICES ASSUME LedgerInv PROVE TypeOK
    OBVIOUS
  <1>0. LotInv /\ ReservationInv /\ TakenInv /\ JournalInv /\ SweepInv
    BY DEF LedgerInv
  <1>1. clock \in 0..MaxTime /\ MaxTime \in Nat /\ Never \in Nat /\ Never > MaxTime
    BY <1>0, LotsAre, Facts
  <1>2. ASSUME NEW r, GoodReservation(r)
        PROVE  IsReservation(r)
    <2>1. r.created \in 0..MaxTime
      BY <1>1, <1>2 DEF GoodReservation
    <2>2. r.finalized \in r.created..Never
      BY <1>1, <1>2 DEF GoodReservation
    <2>3. r.status = "held" <=> r.finalized = Never
      BY <1>1, <1>2 DEF GoodReservation
    <2>4. /\ r.status \in {"held", "settled", "released"}
          /\ r.owner \in Users /\ r.human \in BOOLEAN
          /\ r.amount \in Nat \ {0} /\ r.settled \in 0..r.amount
          /\ DOMAIN r.allocation \subseteq DOMAIN lots
          /\ \A l \in DOMAIN r.allocation : r.allocation[l] \in Nat \ {0}
          /\ r.usage \in Usages \cup {NoUsage}
      BY <1>2 DEF GoodReservation
    <2>5. (r.status = "held") = (r.finalized = Never)
      BY <2>3
    <2> QED
      BY <2>1, <2>2, <2>4, <2>5 DEF IsReservation
  <1>3. \A e \in Executions : reservation[e] = NoReservation \/ IsReservation(reservation[e])
    BY <1>0, <1>2 DEF ReservationInv
  <1>4. \A s \in Sweepers : sweep[s].now \in Times /\ sweep[s].candidates \subseteq DOMAIN lots
    <2> SUFFICES ASSUME NEW s \in Sweepers
                 PROVE  sweep[s].now \in Times /\ sweep[s].candidates \subseteq DOMAIN lots
      OBVIOUS
    <2>1. CASE sweep[s] = NoSweep
      BY <1>1, <2>1 DEF NoSweep, Times
    <2>2. CASE sweep[s] # NoSweep
      BY <1>0, <1>1, <2>2 DEF SweepInv, IsSweep, Times
    <2> QED
      BY <2>1, <2>2
  <1> QED
    BY <1>0, <1>1, <1>3, <1>4 DEF TypeOK, LotInv, TakenInv, IsConsumed, JournalInv, IsPosted

\* Every state of the ledger satisfies the inductive invariant: the lots, the reservations,
\* the consumptions, the journal and the runs of the expiry command are well formed and
\* depend on one another as they should, and in every account the postings are what lots,
\* consumptions and reservations say.
THEOREM LedgerInvHolds == Spec => []LedgerInv
  BY LedgerInit, LedgerStep, PTL DEF Spec

\* The postings and the lots never drift apart, however requests, answers, grants and expiries
\* come together: each wallet is what is open of its lots, the reserve what is held, and the
\* accounts of the platform what was expired, settled, earned and issued
\* (_append_transaction, _finalize_reservation, expire_due).
THEOREM BooksAgreeHolds == Spec => []BooksAgree
  BY LedgerInvHolds, LedgerBalances, PTL

\* The state of the ledger has its type: an ended reservation has the instant of its end, what
\* was taken was taken from a lot that exists, and every posting is of an account.
THEOREM LedgerTypeOK == Spec => []TypeOK
  BY LedgerInvHolds, LedgerTypes, PTL

---------------------------------------------------------------------------
(* What is open of a lot, from one step to the next *)

OpenBySums == \A l : Open(l) = lots[l].amount - UsedOf(l) - HeldOf(l)

\* What is open of a lot, in a state and in the next one.
LEMMA OpenNow == LedgerInv => OpenBySums
  <1> SUFFICES ASSUME LedgerInv, NEW l PROVE Open(l) = lots[l].amount - UsedOf(l) - HeldOf(l)
    BY DEF OpenBySums
  <1> QED
    BY OpenIs

\* The same in the next state.
LEMMA OpenNext == LedgerInv' => OpenBySums'
  BY OpenNow, PTL

LotSums == \A l : UsedOf(l) \in Nat /\ HeldOf(l) \in Nat

\* The same for the sums.
LEMMA LotSumsNow == LedgerInv => LotSums
  <1> SUFFICES ASSUME LedgerInv, NEW l PROVE UsedOf(l) \in Nat /\ HeldOf(l) \in Nat
    BY DEF LotSums
  <1> QED
    BY LotSumsAreNatural

\* The same in the next state.
LEMMA LotSumsNext == LedgerInv' => LotSums'
  BY LotSumsNow, PTL

\* How it compares: no more is open if no less is used and held.
LEMMA OpenFalls ==
    ASSUME LedgerInv, LedgerInv', NEW l, lots[l].amount \in Int, lots'[l] = lots[l],
           UsedOf(l) + HeldOf(l) <= UsedOf(l)' + HeldOf(l)'
    PROVE  Open(l)' <= Open(l)
  <1>1. Open(l) = lots[l].amount - UsedOf(l) - HeldOf(l)
    BY OpenNow DEF OpenBySums
  <1>2. Open(l)' = lots'[l].amount - UsedOf(l)' - HeldOf(l)'
    BY OpenNext DEF OpenBySums
  <1>3. /\ UsedOf(l) \in Nat /\ HeldOf(l) \in Nat /\ UsedOf(l)' \in Nat /\ HeldOf(l)' \in Nat
    BY LotSumsNow, LotSumsNext DEF LotSums
  <1> QED
    BY <1>1, <1>2, <1>3

\* What a step leaves alone.
LEMMA UsedSame == ASSUME NEW l, taken' = taken PROVE UsedOf(l)' = UsedOf(l)
  <1>1. [c \in taken' |-> IF c.lot = l THEN c.amount ELSE 0]
          = [c \in taken |-> IF c.lot = l THEN c.amount ELSE 0]
    OBVIOUS
  <1> QED
    BY <1>1, Zenon DEF UsedOf, Use

\* Without a change of a reservation nothing more is held.
LEMMA HeldSame == ASSUME NEW l, reservation' = reservation PROVE HeldOf(l)' = HeldOf(l)
  <1>1. [e \in Executions |-> HeldOn(l, reservation'[e])]
          = [e \in Executions |-> HeldOn(l, reservation[e])]
    OBVIOUS
  <1> QED
    BY <1>1, Zenon DEF HeldOf, Hold

\* A consumption adds to what is used of its lot.
LEMMA UsedMore ==
    ASSUME LedgerInv, NEW l, NEW C, IsFiniteSet(C), taken \cap C = {}, taken' = taken \cup C,
           \A c \in C : c.amount \in Int
    PROVE  UsedOf(l)' = UsedOf(l)
               + SumFunctionOnSet([c \in C |-> IF c.lot = l THEN c.amount ELSE 0], C)
  <1>1. PICK f : f = Use(l)
    OBVIOUS
  <1>2. PICK g : g = [c \in C |-> IF c.lot = l THEN c.amount ELSE 0]
    OBVIOUS
  <1>3. PICK T : T = taken \cup C
    OBVIOUS
  <1>4. PICK h : h = [c \in T |-> IF c.lot = l THEN c.amount ELSE 0]
    OBVIOUS
  <1>5. IntegersOn(f, taken) /\ IntegersOn(g, C)
    BY <1>1, <1>2, LotSumsAreNatural DEF IntegersOn
  <1>6. \A c \in taken : h[c] = f[c]
    BY <1>1, <1>3, <1>4 DEF Use
  <1>7. \A c \in C : h[c] = g[c]
    BY <1>2, <1>3, <1>4
  <1>8. IsFiniteSet(taken)
    BY DEF LedgerInv, TakenInv
  <1>9. SumFunctionOnSet(h, T) = SumFunctionOnSet(f, taken) + SumFunctionOnSet(g, C)
    BY <1>3, <1>5, <1>6, <1>7, <1>8, SumOfUnion
  <1>10. UsedOf(l)' = SumFunctionOnSet(h, T)
    <2>1. taken' = T
      BY <1>3
    <2>2. h = [c \in taken' |-> IF c.lot = l THEN c.amount ELSE 0]
      BY <1>4, <2>1
    <2> QED
      BY <2>1, <2>2, Zenon DEF UsedOf, Use
  <1> QED
    BY <1>1, <1>2, <1>9, <1>10, Zenon DEF UsedOf

\* What changes of what is held with one reservation.
LEMMA HeldOne ==
    ASSUME LedgerInv, NEW l, NEW e \in Executions, NEW r, HeldOn(l, r) \in Int,
           reservation' = [reservation EXCEPT ![e] = r]
    PROVE  HeldOf(l)' = HeldOf(l) - HeldOn(l, reservation[e]) + HeldOn(l, r)
  <1>1. PICK f : f = Hold(l)
    OBVIOUS
  <1>2. PICK h : h = [x \in Executions |-> HeldOn(l, reservation'[x])]
    OBVIOUS
  <1>3. reservation'[e] = r /\ \A x \in Executions \ {e} : reservation'[x] = reservation[x]
    <2>1. reservation = [x \in Executions |-> reservation[x]]
      BY DEF LedgerInv, ReservationInv
    <2> QED
      BY <2>1, Zenon
  <1>4. /\ IntegersOn(f, Executions) /\ IntegersOn(h, Executions)
        /\ f[e] = HeldOn(l, reservation[e]) /\ h[e] = HeldOn(l, r)
        /\ \A x \in Executions \ {e} : h[x] = f[x]
    <2>1. \A x \in Executions : f[x] = HeldOn(l, reservation[x]) /\ f[x] \in Int
      BY <1>1, LotSumsAreNatural DEF Hold
    <2> QED
      BY <1>2, <1>3, <2>1 DEF IntegersOn
  <1>5. SumFunctionOnSet(h, Executions) = SumFunctionOnSet(f, Executions) - f[e] + h[e]
    BY <1>4, Facts, SumChanged
  <1>6. HeldOf(l)' = SumFunctionOnSet(h, Executions)
    BY <1>2, Zenon DEF HeldOf, Hold
  <1> QED
    BY <1>1, <1>4, <1>5, <1>6, Zenon DEF HeldOf

\* An end takes from finitely many lots.
LEMMA ConsumptionIsFinite ==
    ASSUME NEW D, IsFiniteSet(D), NEW m, NEW kind, NEW at, NEW e
    PROVE  IsFiniteSet(Consumption(D, m, kind, at, e))
  <1>1. PICK P : P = {k \in D : m[k] > 0}
    OBVIOUS
  <1>2. PICK h : h = [k \in P |-> [lot |-> k, kind |-> kind, amount |-> m[k], at |-> at, by |-> e]]
    OBVIOUS
  <1>3. Consumption(D, m, kind, at, e) = {h[k] : k \in P}
    BY <1>1, <1>2 DEF Consumption
  <1>4. IsFiniteSet(P)
    BY <1>1, FS_Subset
  <1> QED
    BY <1>3, <1>4, ImageIsFinite

\* What an end takes from one lot.
LEMMA TakenFromLot ==
    ASSUME NEW D, IsFiniteSet(D), NEW m \in [D -> Nat], NEW kind, NEW at, NEW e, NEW C,
           C = Consumption(D, m, kind, at, e), NEW l \in D, NEW f,
           \A c \in C : f[c] = IF c.lot = l THEN c.amount ELSE 0
    PROVE  IsFiniteSet(C) /\ IntegersOn(f, C) /\ SumFunctionOnSet(f, C) = m[l]
  <1>1. PICK P : P = {k \in D : m[k] > 0}
    OBVIOUS
  <1>2. PICK h : h = [k \in P |-> [lot |-> k, kind |-> kind, amount |-> m[k], at |-> at, by |-> e]]
    OBVIOUS
  <1>3. \A k \in P : h[k] = [lot |-> k, kind |-> kind, amount |-> m[k], at |-> at, by |-> e]
    BY <1>2
  <1>4. \A k \in P : h[k].lot = k /\ h[k].amount = m[k]
    BY <1>2
  <1>5. C = {h[k] : k \in P}
    BY <1>1, <1>3 DEF Consumption
  <1>6. IsFiniteSet(P)
    BY <1>1, FS_Subset
  <1>7. IsFiniteSet(C)
    BY <1>5, <1>6, ImageIsFinite
  <1>8. PICK x : x = [lot |-> l, kind |-> kind, amount |-> m[l], at |-> at, by |-> e]
    OBVIOUS
  <1>9. m[l] \in Nat /\ (x \in C <=> m[l] > 0)
    <2>1. m[l] \in Nat
      OBVIOUS
    <2>2. CASE m[l] > 0
      <3>1. l \in P /\ h[l] = x
        BY <1>1, <1>3, <1>8, <2>2
      <3> QED
        BY <1>5, <2>1, <2>2, <3>1
    <2>3. CASE ~(m[l] > 0)
      <3>1. x.lot = l /\ l \notin P
        BY <1>1, <1>8, <2>3
      <3> QED
        BY <1>5, <1>4, <2>1, <2>3, <3>1
    <2> QED
      BY <2>2, <2>3
  <1>10. IsOnlyAt(f, C, x, m[l])
    <2> SUFFICES ASSUME NEW k \in P PROVE f[h[k]] = IF x = h[k] THEN m[l] ELSE 0
      BY <1>5 DEF IsOnlyAt
    <2>1. PICK c : c = h[k]
      OBVIOUS
    <2>2. c \in C /\ c.lot = k /\ c.amount = m[k]
      BY <1>5, <1>4, <2>1
    <2>3. f[c] = IF k = l THEN m[k] ELSE 0
      BY <2>2
    <2>4. x = c <=> k = l
      <3>1. c = [lot |-> k, kind |-> kind, amount |-> m[k], at |-> at, by |-> e]
        BY <1>3, <2>1
      <3>2. x.lot = l
        BY <1>8
      <3> QED
        BY <1>8, <2>2, <3>1, <3>2
    <2>5. f[c] = IF x = c THEN m[l] ELSE 0
      BY <2>3, <2>4
    <2> QED
      BY <2>1, <2>5, Zenon
  <1>11. PICK v \in Nat : v = m[l]
    BY <1>9
  <1>12. IsOnlyAt(f, C, x, v)
    BY <1>10, <1>11
  <1>13. SumFunctionOnSet(f, C) = IF x \in C THEN v ELSE 0
    BY <1>7, <1>11, <1>12, SumOfOne
  <1>14. IntegersOn(f, C)
    BY <1>11, <1>12 DEF IsOnlyAt, IntegersOn
  <1> QED
    BY <1>7, <1>9, <1>11, <1>13, <1>14

---------------------------------------------------------------------------
(* Expired credits never come back *)

StaysExpired == \A l \in DOMAIN lots : lots[l].expires <= clock => Open(l)' <= Open(l)

\* What an end of an execution does with the lots it was allocated.
LEMMA FinalizeMoves ==
    ASSUME LedgerInv, LedgerInv', NEW e \in Executions, NEW charge \in Nat,
           charge <= reservation[e].amount, NEW performer, NEW usage,
           Finalize(e, charge, performer, usage), NEW l \in DOMAIN lots
    PROVE  /\ lots'[l] = lots[l]
           /\ HeldOf(l)' = HeldOf(l) - HeldOn(l, reservation[e])
           /\ HeldOn(l, reservation[e]) \in Nat
           /\ \E n \in 0..HeldOn(l, reservation[e]) :
                 /\ UsedOf(l)' = UsedOf(l) + n
                 /\ lots[l].expires <= clock => n = HeldOn(l, reservation[e])
  <1>0. LotInv /\ ReservationInv /\ TakenInv
    BY DEF LedgerInv
  <1>1. PICK r, r2, reward, settled, left, t, lot :
           Ends(e, charge, performer, usage, r, r2, reward, settled, left, t, lot)
    <2>1. reservation = [x \in Executions |-> reservation[x]]
      BY <1>0 DEF ReservationInv
    <2> QED
      BY <2>1, FinalizeEnds
  <1>2. /\ r = reservation[e] /\ r.status = "held" /\ reservation' = [reservation EXCEPT ![e] = r2]
        /\ lots' = IF reward > 0 THEN Append(lots, lot) ELSE lots
    BY <1>1 DEF Ends
  <1>3. GoodReservation(r)
    BY <1>0, <1>2 DEF ReservationInv, NoReservation
  <1>4. PICK D : D = DOMAIN r.allocation
    OBVIOUS
  <1>5. /\ IsFiniteSet(D) /\ settled \in [D -> Nat] /\ left \in [D -> Nat]
        /\ \A k \in D : settled[k] <= r.allocation[k]
        /\ \A k \in D : left[k] = IF lots[k].expires <= clock THEN r.allocation[k] - settled[k] ELSE 0
    <2>1. charge \in 0..r.amount
      BY <1>2, <1>3 DEF GoodReservation
    <2>2. /\ settled = Settle(r, charge)
          /\ left = [k \in DOMAIN settled |->
                        IF Lapsed(lots[k], clock) THEN r.allocation[k] - settled[k] ELSE 0]
      BY <1>1 DEF Ends
    <2> QED
      BY <1>0, <1>3, <1>4, <2>1, <2>2, SettlementIs
  <1>6. lots'[l] = lots[l]
    BY <1>0, <1>2, AppendStays
  <1>7. HeldOn(l, r) \in Nat /\ HeldOn(l, r) = IF l \in D THEN r.allocation[l] ELSE 0
    BY <1>2, <1>3, <1>4 DEF HeldOn, GoodReservation
  <1>8. HeldOf(l)' = HeldOf(l) - HeldOn(l, reservation[e])
    <2>1. r2 = [r EXCEPT !.status = IF charge > 0 THEN "settled" ELSE "released",
                         !.settled = charge, !.finalized = clock, !.usage = usage]
      BY <1>1 DEF Ends
    <2>2. r = [status |-> r.status, owner |-> r.owner, human |-> r.human, amount |-> r.amount,
               settled |-> r.settled, created |-> r.created, finalized |-> r.finalized,
               allocation |-> r.allocation, usage |-> r.usage]
      BY <1>3, Zenon DEF GoodReservation
    <2>3. r2.status # "held"
      BY <2>1, <2>2
    <2>4. HeldOn(l, r2) = 0 /\ HeldOn(l, r2) \in Int
      BY <2>3 DEF HeldOn
    <2>5. HeldOf(l)' = HeldOf(l) - HeldOn(l, reservation[e]) + HeldOn(l, r2)
      BY <1>2, <2>4, HeldOne, Zenon
    <2>6. HeldOf(l) \in Nat
      BY LotSumsAreNatural
    <2> QED
      BY <1>2, <1>7, <2>4, <2>5, <2>6
  <1>9. PICK S : S = Consumption(D, settled, "settle", clock, e)
    OBVIOUS
  <1>10. PICK X : X = Consumption(D, left, "expire", clock, e)
    OBVIOUS
  <1>11. PICK C : C = S \cup X
    OBVIOUS
  <1>12. taken' = taken \cup C
    <2>1. DOMAIN settled = D /\ DOMAIN left = D
      BY <1>5
    <2>2. taken' = taken \cup (Consumption(DOMAIN settled, settled, "settle", clock, e)
                               \cup Consumption(DOMAIN left, left, "expire", clock, e))
      BY <1>1 DEF Ends
    <2> QED
      BY <1>9, <1>10, <1>11, <2>1, <2>2, Zenon
  <1>13. /\ \A c \in S : c.lot \in D /\ c.kind = "settle" /\ c.by = e /\ c.amount \in Nat
         /\ \A c \in X : c.lot \in D /\ c.kind = "expire" /\ c.by = e /\ c.amount \in Nat
    BY <1>5, <1>9, <1>10 DEF Consumption
  <1>14. taken \cap C = {} /\ S \cap X = {}
    <2>1. e # "sweep"
      BY Facts
    <2> QED
      BY <1>0, <1>2, <1>11, <1>13, <2>1 DEF TakenInv, IsConsumed
  <1>15. PICK f : f = [c \in C |-> IF c.lot = l THEN c.amount ELSE 0]
    OBVIOUS
  <1>16. /\ IsFiniteSet(C) /\ SumFunctionOnSet(f, C) \in 0..HeldOn(l, r)
         /\ lots[l].expires <= clock => SumFunctionOnSet(f, C) = HeldOn(l, r)
    <2>1. \A c \in S : f[c] = IF c.lot = l THEN c.amount ELSE 0
      BY <1>11, <1>15
    <2>2. \A c \in X : f[c] = IF c.lot = l THEN c.amount ELSE 0
      BY <1>11, <1>15
    <2>3. IsFiniteSet(S) /\ IsFiniteSet(X)
      BY <1>5, <1>9, <1>10, ConsumptionIsFinite
    <2>4. IsFiniteSet(C) /\ IntegersOn(f, S) /\ IntegersOn(f, X)
      <3>1. IsFiniteSet(C)
        BY <1>11, <2>3, FS_Union
      <3>2. IntegersOn(f, S) /\ IntegersOn(f, X)
        BY <1>13, <2>1, <2>2 DEF IntegersOn
      <3> QED
        BY <3>1, <3>2
    <2>5. SumFunctionOnSet(f, C) = SumFunctionOnSet(f, S) + SumFunctionOnSet(f, X)
      BY <1>11, <1>14, <2>3, <2>4, SumOfBoth
    <2>6. CASE l \in D
      <3>1. SumFunctionOnSet(f, S) = settled[l]
        BY <1>5, <1>9, <2>1, <2>6, TakenFromLot
      <3>2. SumFunctionOnSet(f, X) = left[l]
        BY <1>5, <1>10, <2>2, <2>6, TakenFromLot
      <3>3. /\ left[l] = IF lots[l].expires <= clock THEN r.allocation[l] - settled[l] ELSE 0
            /\ settled[l] \in Nat /\ r.allocation[l] \in Nat /\ settled[l] <= r.allocation[l]
        BY <1>5, <1>7, <2>6
      <3> QED
        BY <1>7, <2>4, <2>5, <2>6, <3>1, <3>2, <3>3
    <2>7. CASE l \notin D
      <3>1. (\A c \in S : f[c] = 0) /\ (\A c \in X : f[c] = 0)
        BY <1>13, <2>1, <2>2, <2>7
      <3>2. SumFunctionOnSet(f, S) = 0 /\ SumFunctionOnSet(f, X) = 0
        BY <2>3, <3>1, SumOfZeros
      <3> QED
        BY <1>7, <2>4, <2>5, <2>7, <3>2
    <2> QED
      BY <2>6, <2>7
  <1>17. \A c \in C : c.amount \in Int
    BY <1>11, <1>13
  <1>18. UsedOf(l)' = UsedOf(l) + SumFunctionOnSet([c \in C |-> IF c.lot = l THEN c.amount ELSE 0], C)
    BY <1>12, <1>14, <1>16, <1>17, UsedMore
  <1>19. PICK n : n = SumFunctionOnSet(f, C)
    OBVIOUS
  <1>20. UsedOf(l)' = UsedOf(l) + n
    BY <1>15, <1>18, <1>19, Zenon
  <1>21. n \in 0..HeldOn(l, r) /\ (lots[l].expires <= clock => n = HeldOn(l, r))
    BY <1>16, <1>19
  <1> QED
    BY <1>2, <1>6, <1>7, <1>8, <1>20, <1>21

\* An end takes all that is left of a lot that expired.
LEMMA FinalizeStaysExpired ==
    ASSUME LedgerInv, LedgerInv', NEW e \in Executions, NEW charge \in Nat,
           charge <= reservation[e].amount, NEW performer, NEW usage,
           Finalize(e, charge, performer, usage)
    PROVE  StaysExpired
  <1> SUFFICES ASSUME NEW l \in DOMAIN lots, lots[l].expires <= clock
               PROVE  Open(l)' <= Open(l)
    BY DEF StaysExpired
  <1>1. /\ lots'[l] = lots[l]
        /\ HeldOf(l)' = HeldOf(l) - HeldOn(l, reservation[e])
        /\ HeldOn(l, reservation[e]) \in Nat
        /\ UsedOf(l)' = UsedOf(l) + HeldOn(l, reservation[e])
    BY FinalizeMoves
  <1>2. UsedOf(l) \in Nat /\ HeldOf(l) \in Nat
    BY LotSumsAreNatural
  <1>3. lots[l].amount \in Int
    BY LotsAre DEF LedgerInv
  <1>4. UsedOf(l) + HeldOf(l) <= UsedOf(l)' + HeldOf(l)'
    BY <1>1, <1>2
  <1> QED
    BY <1>1, <1>3, <1>4, OpenFalls

\* A request only holds more.
LEMMA ReserveStaysExpired ==
    ASSUME LedgerInv, LedgerInv', NEW e \in Executions, NEW u, NEW human, NEW price,
           Reserve(e, u, human, price)
    PROVE  StaysExpired
  <1> SUFFICES ASSUME NEW l \in DOMAIN lots, lots[l].expires <= clock
               PROVE  Open(l)' <= Open(l)
    BY DEF StaysExpired
  <1>0. LotInv
    BY DEF LedgerInv
  <1>1. /\ reservation[e] = NoReservation /\ taken' = taken
        /\ lots' = IF HasAllowance(u) THEN lots ELSE Append(lots, Allowance(u, e))
    BY DEF Reserve
  <1>2. \E r : reservation' = [reservation EXCEPT ![e] = r]
    BY DEF Reserve
  <1>3. PICK r : reservation' = [reservation EXCEPT ![e] = r]
    BY <1>2
  <1>4. HeldOn(l, r) \in Nat
    <2>1. reservation'[e] = r
      <3>1. reservation = [x \in Executions |-> reservation[x]]
        BY DEF LedgerInv, ReservationInv
      <3> QED
        BY <1>3, <3>1, Zenon
    <2>2. HeldOn(l, reservation'[e]) \in Nat
      <3>1. \A x \in Executions : reservation'[x] = NoReservation \/ GoodReservation(reservation[x])'
        BY DEF LedgerInv, ReservationInv
      <3>2. CASE reservation'[e] = NoReservation
        BY <3>2 DEF HeldOn, NoReservation
      <3>3. CASE GoodReservation(reservation[e])'
        BY <3>3 DEF HeldOn, GoodReservation
      <3> QED
        BY <3>1, <3>2, <3>3
    <2> QED
      BY <2>1, <2>2
  <1>5. HeldOf(l)' = HeldOf(l) - HeldOn(l, reservation[e]) + HeldOn(l, r)
    <2>1. HeldOn(l, r) \in Int
      BY <1>4
    <2> QED
      BY <1>3, <2>1, HeldOne, Zenon
  <1>6. HeldOn(l, reservation[e]) = 0
    BY <1>1 DEF HeldOn, NoReservation
  <1>7. UsedOf(l)' = UsedOf(l)
    BY <1>1, UsedSame
  <1>8. UsedOf(l) \in Nat /\ HeldOf(l) \in Nat
    BY LotSumsAreNatural
  <1>9. lots[l].amount \in Int /\ lots'[l] = lots[l]
    <2>1. lots[l].amount \in Int
      BY <1>0, LotsAre
    <2>2. CASE lots' = Append(lots, Allowance(u, e))
      BY <1>0, <2>1, <2>2, AppendStays
    <2> QED
      BY <1>1, <2>1, <2>2
  <1>10. UsedOf(l) + HeldOf(l) <= UsedOf(l)' + HeldOf(l)'
    BY <1>4, <1>5, <1>6, <1>7, <1>8
  <1> QED
    BY <1>9, <1>10, OpenFalls

\* The expiry command only takes more.
LEMMA CommitStaysExpired ==
    ASSUME LedgerInv, LedgerInv', NEW s \in Sweepers, CommitSweep(s)
    PROVE  StaysExpired
  <1> SUFFICES ASSUME NEW l \in DOMAIN lots, lots[l].expires <= clock
               PROVE  Open(l)' <= Open(l)
    BY DEF StaysExpired
  <1>1. lots' = lots /\ reservation' = reservation
    BY DEF CommitSweep
  <1>2. PICK C : C = taken' \ taken
    OBVIOUS
  <1>3. taken \subseteq taken'
    BY DEF CommitSweep
  <1>4. taken' = taken \cup C /\ taken \cap C = {}
    BY <1>2, <1>3
  <1>5. IsFiniteSet(taken') /\ \A c \in taken' : c.amount \in Nat
    BY DEF LedgerInv, TakenInv, IsConsumed, Consumptions
  <1>6. IsFiniteSet(C) /\ \A c \in C : c.amount \in Nat
    BY <1>2, <1>5, FS_Subset
  <1>7. PICK f : f = [c \in C |-> IF c.lot = l THEN c.amount ELSE 0]
    OBVIOUS
  <1>8. SumFunctionOnSet(f, C) \in Nat
    <2>1. \A c \in C : f[c] \in Nat
      BY <1>6, <1>7
    <2> QED
      BY <1>6, <2>1, SumIsNatural
  <1>9. \A c \in C : c.amount \in Int
    BY <1>6
  <1>10. UsedOf(l)' = UsedOf(l) + SumFunctionOnSet([c \in C |-> IF c.lot = l THEN c.amount ELSE 0], C)
    BY <1>4, <1>6, <1>9, UsedMore
  <1>11. UsedOf(l)' = UsedOf(l) + SumFunctionOnSet(f, C)
    BY <1>7, <1>10, Zenon
  <1>12. HeldOf(l)' = HeldOf(l)
    BY <1>1, HeldSame
  <1>13. UsedOf(l) \in Nat /\ HeldOf(l) \in Nat
    BY LotSumsAreNatural
  <1>14. lots[l].amount \in Int
    BY LotsAre DEF LedgerInv
  <1>15. UsedOf(l) + HeldOf(l) <= UsedOf(l)' + HeldOf(l)'
    BY <1>8, <1>11, <1>12, <1>13
  <1> QED
    BY <1>1, <1>14, <1>15, OpenFalls

\* Nothing else touches what is used or held.
LEMMA OthersStayExpired ==
    ASSUME LedgerInv, LedgerInv', taken' = taken, reservation' = reservation,
           \A l \in DOMAIN lots : lots'[l] = lots[l]
    PROVE  StaysExpired
  <1> SUFFICES ASSUME NEW l \in DOMAIN lots, lots[l].expires <= clock
               PROVE  Open(l)' <= Open(l)
    BY DEF StaysExpired
  <1>1. UsedOf(l)' = UsedOf(l) /\ HeldOf(l)' = HeldOf(l)
    BY UsedSame, HeldSame
  <1>2. UsedOf(l) \in Nat /\ HeldOf(l) \in Nat
    BY LotSumsAreNatural
  <1>3. lots[l].amount \in Int
    BY LotsAre DEF LedgerInv
  <1>4. UsedOf(l) + HeldOf(l) <= UsedOf(l)' + HeldOf(l)'
    BY <1>1, <1>2
  <1> QED
    BY <1>3, <1>4, OpenFalls

\* No step opens an expired lot again.
LEMMA StepStaysExpired == LedgerInv /\ LedgerInv' /\ [Next]_vars => StaysExpired
  <1> SUFFICES ASSUME LedgerInv, LedgerInv', [Next]_vars PROVE StaysExpired
    OBVIOUS
  <1>0. LotInv
    BY DEF LedgerInv
  <1>1. CASE Tick
    BY <1>1, OthersStayExpired DEF Tick
  <1>2. ASSUME NEW key \in GrantKeys, NEW u \in Users, NEW term \in {1, Never},
               Grant(key, u, term)
        PROVE  StaysExpired
    <2>1. \E lot : lots' = Append(lots, lot)
      BY <1>2 DEF Grant
    <2>2. \A l \in DOMAIN lots : lots'[l] = lots[l]
      BY <1>0, <2>1, AppendStays
    <2>3. taken' = taken /\ reservation' = reservation
      BY <1>2 DEF Grant
    <2> QED
      BY <2>2, <2>3, OthersStayExpired
  <1>3. ASSUME NEW e \in Executions, NEW u \in Users,
               Reserve(e, u, FALSE, Tariff.maximum) \/ Reserve(e, u, TRUE, HumanPrice)
        PROVE  StaysExpired
    BY <1>3, ReserveStaysExpired
  <1>4. ASSUME NEW e \in Executions, NEW usage \in ModelUsages,
               reservation[e].status = "held", ~reservation[e].human,
               Finalize(e, Settlement(Tariff, usage).charge, reservation[e].owner, usage)
        PROVE  StaysExpired
    <2>1. PICK charge : charge = Settlement(Tariff, usage).charge
      OBVIOUS
    <2>2. PICK performer : performer = reservation[e].owner
      OBVIOUS
    <2>3. charge \in 0..Tariff.maximum
      BY <2>1, AmountsAssumption, SettlementIsCovered
    <2>4. reservation[e].amount = Tariff.maximum
      BY <1>4 DEF LedgerInv, ReservationInv, NoReservation, GoodReservation
    <2>5. charge \in Nat /\ charge <= reservation[e].amount
      BY <2>3, <2>4, Facts
    <2>6. Finalize(e, charge, performer, usage)
      BY <1>4, <2>1, <2>2
    <2> QED
      BY <2>5, <2>6, FinalizeStaysExpired
  <1>5. ASSUME NEW e \in Executions, NEW charge \in {0, HumanPrice}, NEW u \in Users,
               reservation[e].human, Finalize(e, charge, u, NoUsage)
        PROVE  StaysExpired
    <2>1. GoodReservation(reservation[e])
      BY <1>5 DEF LedgerInv, ReservationInv, NoReservation
    <2>2. charge \in Nat /\ charge <= reservation[e].amount
      BY <1>5, <2>1, Facts DEF GoodReservation
    <2> QED
      BY <1>5, <2>2, FinalizeStaysExpired
  <1>6. ASSUME NEW s \in Sweepers, BeginSweep(s) \/ CommitSweep(s) \/ SweepRefused(s)
        PROVE  StaysExpired
    <2>1. CASE CommitSweep(s)
      BY <2>1, CommitStaysExpired
    <2>2. CASE BeginSweep(s) \/ SweepRefused(s)
      <3>1. taken' = taken /\ reservation' = reservation /\ lots' = lots
        BY <2>2 DEF BeginSweep, SweepRefused
      <3> QED
        BY <3>1, OthersStayExpired
    <2> QED
      BY <1>6, <2>1, <2>2
  <1>7. CASE UNCHANGED vars
    BY <1>7, OthersStayExpired DEF vars
  <1> QED
    BY <1>1, <1>2, <1>3, <1>4, <1>5, <1>6, <1>7 DEF Next

\* Once a lot has expired, no step opens any of it again: whatever an end gives back of an
\* expired lot is moved to the expired credits in the same transaction
\* (_finalize_reservation).
THEOREM ExpiredStaysExpiredHolds == Spec => ExpiredStaysExpired
  <1>1. LedgerInv /\ LedgerInv' /\ [Next]_vars => [StaysExpired]_vars
    BY StepStaysExpired
  <1>2. Spec => [][StaysExpired]_vars
    BY <1>1, LedgerInvHolds, PTL DEF Spec
  <1> QED
    BY <1>2 DEF ExpiredStaysExpired, StaysExpired

---------------------------------------------------------------------------
(* What the ledger shows, and what the database checks *)

PriceOf(human) == IF human THEN HumanPrice ELSE Tariff.maximum

IsMetered(charge, usage) == usage \in Usages /\ charge = Settlement(Tariff, usage).charge

\* The steps of the ledger, with what the callers of Finalize guarantee.
StepOfLedger ==
    \/ Tick
    \/ \E key \in GrantKeys, u \in Users, term \in {1, Never} : Grant(key, u, term)
    \/ \E e \in Executions, u \in Users, human \in BOOLEAN : Reserve(e, u, human, PriceOf(human))
    \/ \E e \in Executions, charge \in Nat, performer \in Users, usage \in Usages \cup {NoUsage} :
          /\ charge <= reservation[e].amount
          /\ reservation[e].human \/ IsMetered(charge, usage)
          /\ Finalize(e, charge, performer, usage)
    \/ \E s \in Sweepers : BeginSweep(s) \/ CommitSweep(s) \/ SweepRefused(s)
    \/ UNCHANGED vars

\* A model execution is charged at most what it holds, a human one all of it or nothing.
LEMMA StepIs ==
    ASSUME LedgerInv, [Next]_vars
    PROVE  StepOfLedger
  <1>1. ASSUME NEW e \in Executions, NEW u \in Users,
               Reserve(e, u, FALSE, Tariff.maximum) \/ Reserve(e, u, TRUE, HumanPrice)
        PROVE  StepOfLedger
    <2>1. PriceOf(TRUE) = HumanPrice /\ PriceOf(FALSE) = Tariff.maximum
      BY DEF PriceOf
    <2> QED
      BY <1>1, <2>1 DEF StepOfLedger
  <1>2. ASSUME NEW e \in Executions, NEW usage \in ModelUsages,
               reservation[e].status = "held", ~reservation[e].human,
               Finalize(e, Settlement(Tariff, usage).charge, reservation[e].owner, usage)
        PROVE  StepOfLedger
    <2>1. PICK charge : charge = Settlement(Tariff, usage).charge
      OBVIOUS
    <2>2. PICK performer : performer = reservation[e].owner
      OBVIOUS
    <2>3. charge \in 0..Tariff.maximum /\ usage \in Usages
      BY <2>1, AmountsAssumption, SettlementIsCovered
    <2>4. reservation[e].amount = Tariff.maximum /\ performer \in Users
      BY <1>2, <2>2 DEF LedgerInv, ReservationInv, NoReservation, GoodReservation
    <2>5. charge \in Nat /\ charge <= reservation[e].amount
      BY <2>3, <2>4, Facts
    <2>6. Finalize(e, charge, performer, usage)
      BY <1>2, <2>1, <2>2
    <2> QED
      BY <2>1, <2>3, <2>4, <2>5, <2>6 DEF StepOfLedger, IsMetered
  <1>3. ASSUME NEW e \in Executions, NEW charge \in {0, HumanPrice}, NEW u \in Users,
               reservation[e].human, Finalize(e, charge, u, NoUsage)
        PROVE  StepOfLedger
    <2>1. GoodReservation(reservation[e])
      BY <1>3 DEF LedgerInv, ReservationInv, NoReservation
    <2>2. charge \in Nat /\ charge <= reservation[e].amount
      BY <1>3, <2>1, Facts DEF GoodReservation
    <2> QED
      BY <1>3, <2>2 DEF StepOfLedger
  <1> QED
    BY <1>1, <1>2, <1>3 DEF Next, StepOfLedger

---------------------------------------------------------------------------
(* What is left of a lot as of an instant *)

Left(l, now) == AvailableAt(lots[l], l, now)

NothingOverdrawn == \A l \in DOMAIN lots : \A now \in lots[l].issued..clock : Left(l, now) >= 0

NothingComesBack ==
    \A l \in DOMAIN lots : ~Swept(l) =>
        \A n, m \in 0..clock : (lots[l].expires <= n /\ n <= m) => Left(l, n) <= Left(l, m)

\* A run of the expiry command looks at lots that had expired when it began.
CandidatesLapsed ==
    \A s \in Sweepers : \A l \in sweep[s].candidates : lots[l].expires <= sweep[s].now

HistoryInv == NothingOverdrawn /\ NothingComesBack /\ CandidatesLapsed

LeftIsInteger == \A l \in DOMAIN lots : \A n : Left(l, n) \in Int

\* What is left of a lot is a number, also where it would be negative.
LEMMA LeftIsNow == LedgerInv => LeftIsInteger
  <1> SUFFICES ASSUME LedgerInv, NEW l \in DOMAIN lots, NEW n PROVE Left(l, n) \in Int
    BY DEF LeftIsInteger
  <1>1. UsedAt(l, n) \in Nat /\ HeldAt(l, n) \in Nat
    BY UseIsInteger DEF LedgerInv
  <1>2. lots[l].amount \in Nat
    BY LotsAre DEF LedgerInv
  <1> QED
    BY <1>1, <1>2 DEF Left, AvailableAt

\* So it is after a step that keeps the books.
LEMMA LeftIsNext == LedgerInv' => LeftIsInteger'
  BY LeftIsNow, PTL

\* What was used of a lot as of an instant depends on what was taken until then only.
LEMMA UsedAtSame ==
    ASSUME NEW l, NEW n,
           {c \in taken' : c.lot = l /\ c.at <= n} = {c \in taken : c.lot = l /\ c.at <= n}
    PROVE  UsedAt(l, n)' = UsedAt(l, n)
  <1>1. PICK C : C = {c \in taken : c.lot = l /\ c.at <= n}
    OBVIOUS
  <1>2. UsedAt(l, n) = SumFunction([c \in C |-> c.amount])
    BY <1>1, Zenon DEF UsedAt, Total
  <1>3. UsedAt(l, n)' = SumFunction([c \in C |-> c.amount])
    BY <1>1, Zenon DEF UsedAt, Total
  <1> QED
    BY <1>2, <1>3

HoldsAlike(l, n) ==
    \A e \in Executions :
        /\ Holds(e, l, n)' <=> Holds(e, l, n)
        /\ Holds(e, l, n) => reservation'[e].allocation[l] = reservation[e].allocation[l]

\* What was held of it, on the reservations of that instant only.
LEMMA HeldAtSame ==
    ASSUME NEW l, NEW n, HoldsAlike(l, n)
    PROVE  HeldAt(l, n)' = HeldAt(l, n)
  <1>1. PICK E : E = {e \in Executions : Holds(e, l, n)}
    OBVIOUS
  <1>2. E = {e \in Executions : Holds(e, l, n)'}
    BY <1>1 DEF HoldsAlike
  <1>3. [e \in E |-> reservation'[e].allocation[l]] = [e \in E |-> reservation[e].allocation[l]]
    BY <1>1 DEF HoldsAlike
  <1>4. HeldAt(l, n) = SumFunction([e \in E |-> reservation[e].allocation[l]])
    BY <1>1, Zenon DEF HeldAt, Total
  <1>5. HeldAt(l, n)' = SumFunction([e \in E |-> reservation'[e].allocation[l]])
    BY <1>2, Zenon DEF HeldAt, Total
  <1> QED
    BY <1>3, <1>4, <1>5, Zenon

\* Without a new consumption or reservation.
LEMMA UsedAtStays == ASSUME NEW l, NEW n, taken' = taken PROVE UsedAt(l, n)' = UsedAt(l, n)
  BY UsedAtSame

\* And when no reservation changes, nothing that was held does.
LEMMA HeldAtStays == ASSUME NEW l, NEW n, reservation' = reservation PROVE HeldAt(l, n)' = HeldAt(l, n)
  BY HeldAtSame DEF HoldsAlike, Holds

\* Nothing is used or held of a lot that is not there.
LEMMA NothingOfOthers ==
    ASSUME LedgerInv, NEW l, l \notin DOMAIN lots, NEW n
    PROVE  UsedAt(l, n) = 0 /\ HeldAt(l, n) = 0
  <1>0. ReservationInv /\ TakenInv
    BY DEF LedgerInv
  <1>1. {c \in taken : c.lot = l /\ c.at <= n} = {}
    BY <1>0 DEF TakenInv, IsConsumed, Consumptions
  <1>2. {e \in Executions : Holds(e, l, n)} = {}
    <2> SUFFICES ASSUME NEW e \in Executions, l \in DOMAIN reservation[e].allocation PROVE FALSE
      BY DEF Holds
    <2>1. CASE reservation[e] = NoReservation
      BY <2>1 DEF NoReservation
    <2>2. CASE GoodReservation(reservation[e])
      BY <2>2 DEF GoodReservation
    <2> QED
      BY <1>0, <2>1, <2>2 DEF ReservationInv
  <1>3. UsedAt(l, n) = SumFunction([c \in {} |-> c.amount])
    BY <1>1, Zenon DEF UsedAt, Total
  <1>4. HeldAt(l, n) = SumFunction([e \in {} |-> reservation[e].allocation[l]])
    BY <1>2, Zenon DEF HeldAt, Total
  <1>5. ASSUME NEW f, DOMAIN f = {} PROVE SumFunction(f) = 0
    <2>1. SumFunctionOnSet(f, {}) = 0
      BY SumOfNone
    <2> QED
      BY <1>5, <2>1, SumFunctionIs, Zenon
  <1> QED
    BY <1>3, <1>4, <1>5

\* The lots after one more was issued.
LEMMA AppendedLots ==
    ASSUME LotInv, NEW lot, lots' = Append(lots, lot)
    PROVE  \A l \in DOMAIN lots' :
              \/ l \in DOMAIN lots /\ lots'[l] = lots[l]
              \/ l \notin DOMAIN lots /\ lots'[l] = lot
  <1>1. lots \in Seq(Lots) /\ Len(lots) \in Nat /\ DOMAIN lots = 1..Len(lots)
    BY LotsAre DEF LotInv
  <1> QED
    BY <1>1

---------------------------------------------------------------------------
(* Steps that change the past up to now only *)

\* Before now nothing changes; now no less is left of a lot, or nothing too much was held of
\* it and it has not expired.
OldLotsKept ==
    \A l \in DOMAIN lots :
        /\ l \in DOMAIN lots' /\ lots'[l] = lots[l]
        /\ \A n \in 0..clock : n < clock => Left(l, n)' = Left(l, n)
        /\ \/ Left(l, clock)' >= Left(l, clock)
           \/ lots[l].expires > clock /\ Left(l, clock)' >= 0

NewLotsGood ==
    \A l \in DOMAIN lots' \ DOMAIN lots :
        lots'[l].issued = clock /\ lots'[l].expires > clock /\ Left(l, clock)' >= 0

\* Then the past stays as it was, and no instant of it is overdrawn.
LEMMA HistoryGrows ==
    ASSUME LedgerInv, LedgerInv', NothingOverdrawn, NothingComesBack, clock' = clock,
           OldLotsKept, NewLotsGood, journal \subseteq journal'
    PROVE  NothingOverdrawn' /\ NothingComesBack'
  <1>0. PICK now \in Nat : now = clock /\ now = clock'
    BY LotsAre DEF LedgerInv
  <1>1. LeftIsInteger /\ LeftIsInteger'
    BY LeftIsNow, LeftIsNext
  <1>2. \A l \in DOMAIN lots : lots[l].issued \in 0..now /\ lots[l].expires \in Nat
    BY <1>0, LotsAre DEF LedgerInv
  <1>3. \A l \in DOMAIN lots :
           /\ l \in DOMAIN lots' /\ lots'[l] = lots[l]
           /\ \A n \in 0..now : n < now => Left(l, n)' = Left(l, n)
           /\ \/ Left(l, now)' >= Left(l, now)
              \/ lots[l].expires > now /\ Left(l, now)' >= 0
    BY <1>0 DEF OldLotsKept
  <1>4. \A l \in DOMAIN lots' \ DOMAIN lots :
           lots'[l].issued = now /\ lots'[l].expires > now /\ Left(l, now)' >= 0
    BY <1>0 DEF NewLotsGood
  <1>5. NothingOverdrawn'
    <2> SUFFICES ASSUME NEW l \in DOMAIN lots', NEW n \in lots'[l].issued..now
                 PROVE  Left(l, n)' >= 0
      BY <1>0 DEF NothingOverdrawn
    <2>1. CASE l \notin DOMAIN lots
      <3>1. n = now
        BY <1>4, <2>1
      <3> QED
        BY <1>4, <2>1, <3>1
    <2>2. CASE l \in DOMAIN lots
      <3>1. n \in lots[l].issued..now /\ n \in 0..now
        BY <1>2, <1>3, <2>2
      <3>2. Left(l, n) >= 0 /\ Left(l, n) \in Int /\ Left(l, n)' \in Int
        BY <1>0, <1>1, <2>2, <3>1 DEF NothingOverdrawn, LeftIsInteger
      <3>3. CASE n < now
        BY <1>3, <2>2, <3>1, <3>2, <3>3
      <3>4. CASE n = now
        BY <1>3, <2>2, <3>2, <3>4
      <3> QED
        BY <3>1, <3>3, <3>4
    <2> QED
      BY <2>1, <2>2
  <1>6. NothingComesBack'
    <2> SUFFICES ASSUME NEW l \in DOMAIN lots', ~Swept(l)', NEW n \in 0..now, NEW m \in 0..now,
                        lots'[l].expires <= n, n <= m
                 PROVE  Left(l, n)' <= Left(l, m)'
      BY <1>0 DEF NothingComesBack
    <2>0. lots'[l].expires \in Int
      <3>1. lots' \in Seq(Lots)
        BY DEF LedgerInv, LotInv
      <3>2. lots'[l] \in Lots
        BY <3>1
      <3> QED
        BY <3>2, Facts DEF Lots, Times
    <2>1. l \in DOMAIN lots
      BY <1>0, <1>4, <2>0
    <2>2. lots[l].expires <= n /\ lots[l].expires <= now
      BY <1>2, <1>3, <2>1
    <2>3. ~Swept(l)
      BY DEF Swept
    <2>4. Left(l, n) <= Left(l, m)
      BY <1>0, <2>1, <2>2, <2>3 DEF NothingComesBack
    <2>5. /\ Left(l, n) \in Int /\ Left(l, m) \in Int /\ Left(l, n)' \in Int /\ Left(l, m)' \in Int
      BY <1>1, <1>3, <2>1 DEF LeftIsInteger
    <2>6. CASE n = m
      BY <2>5, <2>6
    <2>7. CASE n < m /\ m < now
      BY <1>3, <2>1, <2>4, <2>7
    <2>8. CASE n < m /\ m = now
      <3>1. Left(l, n)' = Left(l, n)
        BY <1>3, <2>1, <2>8
      <3>2. Left(l, m)' >= Left(l, m)
        BY <1>2, <1>3, <2>1, <2>2, <2>8
      <3> QED
        BY <2>4, <2>5, <3>1, <3>2
    <2> QED
      BY <2>6, <2>7, <2>8
  <1> QED
    BY <1>5, <1>6

\* A step that only issues lots.
LEMMA GrantKeepsHistory ==
    ASSUME LedgerInv, LedgerInv', NothingOverdrawn, NothingComesBack,
           NEW key, NEW u, NEW term \in {1, Never}, Grant(key, u, term)
    PROVE  NothingOverdrawn' /\ NothingComesBack'
  <1>0. LotInv /\ clock \in Nat /\ clock' = clock /\ clock < Never
    BY LotsAre, Facts DEF LedgerInv, Grant
  <1>1. PICK lot : /\ lots' = Append(lots, lot) /\ lot.issued = clock /\ lot.amount = GrantAmount
                   /\ lot.expires = IF term = Never THEN Never ELSE clock + term
    BY DEF Grant
  <1>2. taken' = taken /\ reservation' = reservation /\ journal \subseteq journal'
    BY DEF Grant, Post
  <1>3. \A l, n : UsedAt(l, n)' = UsedAt(l, n) /\ HeldAt(l, n)' = HeldAt(l, n)
    BY <1>2, UsedAtStays, HeldAtStays
  <1>4. OldLotsKept
    <2> SUFFICES ASSUME NEW l \in DOMAIN lots
                 PROVE  /\ l \in DOMAIN lots' /\ lots'[l] = lots[l]
                        /\ \A n \in 0..clock : n < clock => Left(l, n)' = Left(l, n)
                        /\ Left(l, clock)' >= Left(l, clock)
      BY DEF OldLotsKept
    <2>1. l \in DOMAIN lots' /\ lots'[l] = lots[l]
      BY <1>0, <1>1, AppendStays
    <2>2. \A n : Left(l, n)' = Left(l, n)
      BY <1>3, <2>1 DEF Left, AvailableAt
    <2>3. Left(l, clock)' = Left(l, clock)
      BY <1>0, <2>2
    <2>4. Left(l, clock) \in Int
      BY LeftIsNow DEF LeftIsInteger
    <2> QED
      BY <2>1, <2>2, <2>3, <2>4
  <1>5. NewLotsGood
    <2> SUFFICES ASSUME NEW l \in DOMAIN lots' \ DOMAIN lots
                 PROVE  lots'[l].issued = clock /\ lots'[l].expires > clock /\ Left(l, clock)' >= 0
      BY DEF NewLotsGood
    <2>1. lots'[l] = lot
      BY <1>0, <1>1, AppendedLots
    <2>2. PICK now : now = clock
      OBVIOUS
    <2>3. UsedAt(l, now)' = 0 /\ HeldAt(l, now)' = 0
      BY <1>3, NothingOfOthers
    <2>4. Left(l, clock)' = GrantAmount
      BY <1>0, <1>1, <2>1, <2>2, <2>3, Facts DEF Left, AvailableAt
    <2>5. lot.expires > clock
      BY <1>0, <1>1, Facts
    <2> QED
      BY <1>1, <2>1, <2>4, <2>5, Facts
  <1> QED
    BY <1>0, <1>2, <1>4, <1>5, HistoryGrows

\* A request holds no more of a lot than was left of it, and only of lots that run.
LEMMA ReserveKeepsHistory ==
    ASSUME LedgerInv, LedgerInv', NothingOverdrawn, NothingComesBack,
           NEW e \in Executions, NEW u, NEW human \in BOOLEAN, Reserve(e, u, human, PriceOf(human))
    PROVE  NothingOverdrawn' /\ NothingComesBack'
  <1>0. LotInv /\ LotInv' /\ ReservationInv /\ TakenInv /\ clock \in Nat /\ clock < Never
    BY LotsAre, Facts DEF LedgerInv
  <1>1. PICK price \in Nat : price = PriceOf(human)
    BY Facts DEF PriceOf
  <1>2. PICK S, acc, grant, reserve, r : Begins(e, u, human, price, S, acc, grant, reserve, r)
    BY <1>1, ReserveBegins
  <1>3. /\ S = {l \in DOMAIN lots' : lots'[l].owner = u /\ Current(lots'[l], clock)}
        /\ reservation[e] = NoReservation
        /\ lots' = IF HasAllowance(u) THEN lots ELSE Append(lots, Allowance(u, e))
        /\ reservation' = [reservation EXCEPT ![e] = r]
        /\ clock' = clock /\ taken' = taken /\ journal \subseteq journal'
    BY <1>2 DEF Begins
  <1>4. r.status = "held" /\ r.created = clock /\ r.finalized = Never /\ r.allocation = acc.from
    BY <1>2 DEF Begins
  <1>5. /\ IsAllocated(acc, S, price)
        /\ \A l \in DOMAIN acc.from : acc.from[l] <= AvailableAt(lots'[l], l, clock)
    BY <1>0, <1>2, AllocationOfRequest, Zenon
  <1>6. reservation'[e] = r /\ \A x \in Executions \ {e} : reservation'[x] = reservation[x]
    BY <1>0, <1>3 DEF ReservationInv
  <1>7. \A l \in DOMAIN lots' :
           \/ l \in DOMAIN lots /\ lots'[l] = lots[l]
           \/ l \notin DOMAIN lots /\ lots'[l] = Allowance(u, e)
    BY <1>0, <1>3, AppendedLots
  <1>8. ASSUME NEW l, NEW n \in 0..clock, n < clock
        PROVE  UsedAt(l, n)' = UsedAt(l, n) /\ HeldAt(l, n)' = HeldAt(l, n)
    <2>1. HoldsAlike(l, n)
      BY <1>0, <1>3, <1>4, <1>6, <1>8 DEF HoldsAlike, Holds, NoReservation
    <2> QED
      BY <1>3, <2>1, HeldAtSame, UsedAtStays
  <1>9. ASSUME NEW l \in DOMAIN lots'
        PROVE  /\ AvailableAt(lots'[l], l, clock) \in Int /\ HeldOn(l, r) \in Nat
               /\ Left(l, clock)' = AvailableAt(lots'[l], l, clock) - HeldOn(l, r)
               /\ HeldOn(l, r) > 0 => /\ Current(lots'[l], clock)
                                      /\ HeldOn(l, r) <= AvailableAt(lots'[l], l, clock)
    <2>1. HeldOn(l, r) = IF l \in DOMAIN acc.from THEN acc.from[l] ELSE 0
      BY <1>4 DEF HeldOn
    <2>2. HeldOn(l, r) \in Nat
      BY <1>5, <2>1 DEF IsAllocated
    <2>3. HeldOn(l, reservation[e]) = 0
      BY <1>3 DEF HeldOn, NoReservation
    <2>4. HeldOf(l)' = HeldOf(l) + HeldOn(l, r)
      <3>1. HeldOf(l)' = HeldOf(l) - HeldOn(l, reservation[e]) + HeldOn(l, r)
        <4>1. HeldOn(l, r) \in Int
          BY <2>2
        <4> QED
          BY <1>3, <4>1, HeldOne, Zenon
      <3> QED
        BY <2>2, <2>3, <3>1, LotSumsNow DEF LotSums
    <2>5. UsedOf(l)' = UsedOf(l)
      BY <1>3, UsedSame
    <2>6. UsedAt(l, clock) = UsedOf(l) /\ HeldAt(l, clock) = HeldOf(l)
      BY OpenIs
    <2>7. Open(l)' = lots'[l].amount - UsedOf(l)' - HeldOf(l)'
      BY OpenNext DEF OpenBySums
    <2>8. Left(l, clock)' = Open(l)'
      BY DEF Left, Open
    <2>9. lots'[l].amount \in Nat
      <3>1. lots' \in Seq(Lots)
        BY <1>0 DEF LotInv
      <3>2. lots'[l] \in Lots
        BY <3>1
      <3> QED
        BY <3>2 DEF Lots
    <2>10. UsedOf(l) \in Nat /\ HeldOf(l) \in Nat
      BY LotSumsNow DEF LotSums
    <2>11. AvailableAt(lots'[l], l, clock) = lots'[l].amount - UsedOf(l) - HeldOf(l)
      BY <2>6 DEF AvailableAt
    <2>12. HeldOn(l, r) > 0 => /\ Current(lots'[l], clock)
                               /\ HeldOn(l, r) <= AvailableAt(lots'[l], l, clock)
      BY <1>3, <1>5, <2>1 DEF IsAllocated
    <2> QED
      BY <2>2, <2>4, <2>5, <2>7, <2>8, <2>9, <2>10, <2>11, <2>12
  <1>10. OldLotsKept
    <2> SUFFICES ASSUME NEW l \in DOMAIN lots
                 PROVE  /\ l \in DOMAIN lots' /\ lots'[l] = lots[l]
                        /\ \A n \in 0..clock : n < clock => Left(l, n)' = Left(l, n)
                        /\ \/ Left(l, clock)' >= Left(l, clock)
                           \/ lots[l].expires > clock /\ Left(l, clock)' >= 0
      BY DEF OldLotsKept
    <2>1. l \in DOMAIN lots' /\ lots'[l] = lots[l]
      BY <1>0, <1>3, AppendStays
    <2>2. \A n \in 0..clock : n < clock => Left(l, n)' = Left(l, n)
      BY <1>8, <2>1 DEF Left, AvailableAt
    <2>3. Left(l, clock) = AvailableAt(lots'[l], l, clock)
      BY <2>1 DEF Left
    <2>4. lots[l].expires \in Int
      BY <1>0, LotsAre
    <2> QED
      BY <1>0, <1>9, <2>1, <2>2, <2>3, <2>4 DEF Current
  <1>11. NewLotsGood
    <2> SUFFICES ASSUME NEW l \in DOMAIN lots' \ DOMAIN lots
                 PROVE  lots'[l].issued = clock /\ lots'[l].expires > clock /\ Left(l, clock)' >= 0
      BY DEF NewLotsGood
    <2>1. lots'[l] = Allowance(u, e)
      BY <1>7
    <2>2. lots'[l].issued = clock /\ lots'[l].expires = clock + AllowanceDuration
          /\ lots'[l].amount = AllowanceAmount
      BY <2>1 DEF Allowance
    <2>3. AvailableAt(lots'[l], l, clock) >= 0
      BY <2>2, NothingOfOthers, Facts DEF AvailableAt
    <2> QED
      BY <1>0, <1>9, <2>2, <2>3, Facts
  <1> QED
    BY <1>0, <1>3, <1>10, <1>11, HistoryGrows

\* An end takes, or leaves to the lots, what it held of them until now.
LEMMA FinalizeKeepsHistory ==
    ASSUME LedgerInv, LedgerInv', NothingOverdrawn, NothingComesBack,
           NEW e \in Executions, NEW charge \in Nat, charge <= reservation[e].amount,
           NEW performer, NEW usage, Finalize(e, charge, performer, usage)
    PROVE  NothingOverdrawn' /\ NothingComesBack'
  <1>0. LotInv /\ ReservationInv /\ TakenInv /\ clock \in Nat /\ clock < Never
    BY LotsAre, Facts DEF LedgerInv
  <1>1. PICK r, r2, reward, settled, left, t, lot :
           Ends(e, charge, performer, usage, r, r2, reward, settled, left, t, lot)
    <2>1. reservation = [x \in Executions |-> reservation[x]]
      BY <1>0 DEF ReservationInv
    <2> QED
      BY <2>1, FinalizeEnds
  <1>2. /\ r = reservation[e] /\ r.status = "held" /\ reservation' = [reservation EXCEPT ![e] = r2]
        /\ reward = (IF r.human /\ charge > 0 THEN Reward(charge) ELSE 0)
        /\ lot = [owner |-> performer, reference |-> "reward", origin |-> e, amount |-> reward,
                  issued |-> clock, expires |-> clock + EarnedDuration]
        /\ lots' = IF reward > 0 THEN Append(lots, lot) ELSE lots
        /\ clock' = clock /\ journal \subseteq journal'
    BY <1>1 DEF Ends
  <1>3. GoodReservation(r)
    BY <1>0, <1>2 DEF ReservationInv, NoReservation
  <1>4. r2.created = r.created /\ r2.allocation = r.allocation /\ r2.finalized = clock
    <2>1. r2 = [r EXCEPT !.status = IF charge > 0 THEN "settled" ELSE "released",
                         !.settled = charge, !.finalized = clock, !.usage = usage]
      BY <1>1 DEF Ends
    <2>2. r = [status |-> r.status, owner |-> r.owner, human |-> r.human, amount |-> r.amount,
               settled |-> r.settled, created |-> r.created, finalized |-> r.finalized,
               allocation |-> r.allocation, usage |-> r.usage]
      BY <1>3, Zenon DEF GoodReservation
    <2> QED
      BY <2>1, <2>2
  <1>5. reservation'[e] = r2 /\ \A x \in Executions \ {e} : reservation'[x] = reservation[x]
    BY <1>0, <1>2 DEF ReservationInv
  <1>6. taken \subseteq taken' /\ \A c \in taken' \ taken : c.at = clock /\ c.lot \in DOMAIN r.allocation
    <2>1. charge \in 0..r.amount
      BY <1>2, <1>3 DEF GoodReservation
    <2>2. /\ settled = Settle(r, charge)
          /\ left = [k \in DOMAIN settled |->
                        IF Lapsed(lots[k], clock) THEN r.allocation[k] - settled[k] ELSE 0]
          /\ taken' = taken \cup (Consumption(DOMAIN settled, settled, "settle", clock, e)
                                  \cup Consumption(DOMAIN left, left, "expire", clock, e))
      BY <1>1 DEF Ends
    <2>3. DOMAIN settled = DOMAIN r.allocation /\ DOMAIN left = DOMAIN r.allocation
      BY <1>0, <1>3, <2>1, <2>2, SettlementIs
    <2> QED
      BY <2>2, <2>3 DEF Consumption
  <1>7. DOMAIN r.allocation \subseteq DOMAIN lots
    BY <1>3 DEF GoodReservation
  <1>8. ASSUME NEW l, NEW n \in 0..clock, n < clock
        PROVE  UsedAt(l, n)' = UsedAt(l, n) /\ HeldAt(l, n)' = HeldAt(l, n)
    <2>1. HoldsAlike(l, n)
      <3>1. r.finalized = Never /\ n < r.finalized /\ n < r2.finalized
        BY <1>0, <1>2, <1>3, <1>4, <1>8, Facts DEF GoodReservation
      <3> SUFFICES ASSUME NEW x \in Executions
                   PROVE  /\ Holds(x, l, n)' <=> Holds(x, l, n)
                          /\ Holds(x, l, n) =>
                                reservation'[x].allocation[l] = reservation[x].allocation[l]
        BY DEF HoldsAlike
      <3>2. CASE x = e
        BY <1>2, <1>4, <1>5, <3>1, <3>2 DEF Holds
      <3>3. CASE x # e
        BY <1>5, <3>3 DEF Holds
      <3> QED
        BY <3>2, <3>3
    <2>2. {c \in taken' : c.lot = l /\ c.at <= n} = {c \in taken : c.lot = l /\ c.at <= n}
      BY <1>0, <1>6, <1>8
    <2> QED
      BY <2>1, <2>2, HeldAtSame, UsedAtSame
  <1>9. OldLotsKept
    <2> SUFFICES ASSUME NEW l \in DOMAIN lots
                 PROVE  /\ l \in DOMAIN lots' /\ lots'[l] = lots[l]
                        /\ \A n \in 0..clock : n < clock => Left(l, n)' = Left(l, n)
                        /\ Left(l, clock)' >= Left(l, clock)
      BY DEF OldLotsKept
    <2>1. l \in DOMAIN lots' /\ lots'[l] = lots[l]
      BY <1>0, <1>2, AppendStays
    <2>2. \A n \in 0..clock : n < clock => Left(l, n)' = Left(l, n)
      BY <1>8, <2>1 DEF Left, AvailableAt
    <2>3. /\ HeldOf(l)' = HeldOf(l) - HeldOn(l, reservation[e])
          /\ HeldOn(l, reservation[e]) \in Nat
          /\ \E n \in 0..HeldOn(l, reservation[e]) : UsedOf(l)' = UsedOf(l) + n
      BY FinalizeMoves
    <2>4. UsedOf(l) \in Nat /\ HeldOf(l) \in Nat
      BY LotSumsNow DEF LotSums
    <2>5. /\ Left(l, clock) = lots[l].amount - UsedOf(l) - HeldOf(l)
          /\ Left(l, clock)' = lots'[l].amount - UsedOf(l)' - HeldOf(l)'
      BY OpenNow, OpenNext DEF OpenBySums, Left, Open
    <2>6. lots[l].amount \in Nat
      BY <1>0, LotsAre
    <2>7. Left(l, clock)' >= Left(l, clock)
      BY <2>1, <2>3, <2>4, <2>5, <2>6
    <2> QED
      BY <2>1, <2>2, <2>7
  <1>10. NewLotsGood
    <2> SUFFICES ASSUME NEW l \in DOMAIN lots' \ DOMAIN lots
                 PROVE  lots'[l].issued = clock /\ lots'[l].expires > clock /\ Left(l, clock)' >= 0
      BY DEF NewLotsGood
    <2>1. lots' = Append(lots, lot)
      BY <1>2
    <2>2. lots'[l] = lot
      BY <1>0, <2>1, AppendedLots
    <2>3. PICK now : now = clock
      OBVIOUS
    <2>4. UsedAt(l, now)' = 0
      <3>1. {c \in taken' : c.lot = l /\ c.at <= now} = {c \in taken : c.lot = l /\ c.at <= now}
        BY <1>6, <1>7
      <3> QED
        BY <3>1, UsedAtSame, NothingOfOthers
    <2>5. HeldAt(l, now)' = 0
      <3>1. HoldsAlike(l, now)
        BY <1>2, <1>4, <1>5, <1>7 DEF HoldsAlike, Holds
      <3> QED
        BY <3>1, HeldAtSame, NothingOfOthers
    <2>6. lot.amount \in Nat
      <3>1. lots' \in Seq(Lots)
        BY DEF LedgerInv, LotInv
      <3>2. lots'[l] \in Lots
        BY <3>1
      <3> QED
        BY <2>2, <3>2 DEF Lots
    <2>7. Left(l, clock)' = lot.amount
      BY <1>2, <2>2, <2>3, <2>4, <2>5, <2>6 DEF Left, AvailableAt
    <2>8. lot.issued = clock /\ lot.expires = clock + EarnedDuration
      BY <1>2
    <2> QED
      BY <1>0, <2>2, <2>6, <2>7, <2>8, Facts
  <1> QED
    BY <1>2, <1>9, <1>10, HistoryGrows

---------------------------------------------------------------------------
(* The steps that touch the past, and time *)

\* One consumption more.
LEMMA UsedAtOneMore ==
    ASSUME LedgerInv, NEW l, NEW n, NEW c, c \notin taken, c.amount \in Nat,
           {x \in taken' : x.lot = l /\ x.at <= n} = {x \in taken : x.lot = l /\ x.at <= n} \cup {c}
    PROVE  UsedAt(l, n)' = UsedAt(l, n) + c.amount
  <1>1. PICK C : C = {x \in taken : x.lot = l /\ x.at <= n}
    OBVIOUS
  <1>2. PICK f : f = [x \in C \cup {c} |-> x.amount]
    OBVIOUS
  <1>3. PICK g : g = [x \in C |-> x.amount]
    OBVIOUS
  <1>4. UsedAt(l, n) = SumFunctionOnSet(g, C)
    <2>1. DOMAIN g = C
      BY <1>3
    <2>2. UsedAt(l, n) = SumFunction(g)
      BY <1>1, <1>3, Zenon DEF UsedAt, Total
    <2> QED
      BY <2>1, <2>2, SumFunctionIs, Zenon
  <1>5. UsedAt(l, n)' = SumFunctionOnSet(f, C \cup {c})
    <2>1. DOMAIN f = C \cup {c}
      BY <1>2
    <2>2. C \cup {c} = {x \in taken' : x.lot = l /\ x.at <= n}
      BY <1>1
    <2>3. UsedAt(l, n)' = SumFunction(f)
      BY <1>2, <2>2, Zenon DEF UsedAt, Total
    <2> QED
      BY <2>1, <2>3, SumFunctionIs, Zenon
  <1>6. IsFiniteSet(C) /\ IntegersOn(f, C) /\ c \notin C /\ f[c] = c.amount /\ f[c] \in Int
    <2>1. IsFiniteSet(C) /\ C \subseteq taken
      BY <1>1, FS_Subset DEF LedgerInv, TakenInv
    <2>2. \A x \in taken : x.amount \in Int
      BY DEF LedgerInv, TakenInv, IsConsumed, Consumptions
    <2> QED
      BY <1>2, <2>1, <2>2 DEF IntegersOn
  <1>7. SumFunctionOnSet(f, C \cup {c}) = SumFunctionOnSet(f, C) + f[c]
    BY <1>6, SumWithOne
  <1>8. SumFunctionOnSet(g, C) = SumFunctionOnSet(f, C)
    BY <1>2, <1>3, <1>6, SumOfSame
  <1> QED
    BY <1>4, <1>5, <1>6, <1>7, <1>8

\* A run of the expiry command takes what was left when it began, and as much is left at any
\* later instant: its lots had expired, and no run took from them before.
LEMMA CommitKeepsHistory ==
    ASSUME LedgerInv, LedgerInv', HistoryInv, NEW s \in Sweepers, CommitSweep(s)
    PROVE  NothingOverdrawn' /\ NothingComesBack'
  <1>0. LotInv /\ ReservationInv /\ TakenInv /\ JournalInv /\ SweepInv /\ clock \in Nat
    BY LotsAre DEF LedgerInv
  <1>1. PICK now : now = sweep[s].now
    OBVIOUS
  <1>2. PICK D : D = Due(s)
    OBVIOUS
  <1>3. /\ \A l \in D : ~Swept(l) /\ l \in sweep[s].candidates /\ Left(l, now) > 0
        /\ clock' = clock /\ lots' = lots /\ reservation' = reservation /\ sweep[s] # NoSweep
        /\ journal \subseteq journal'
    BY <1>1, <1>2 DEF CommitSweep, Due, Left, Post
  <1>4. now \in 0..clock /\ sweep[s].candidates \subseteq DOMAIN lots /\ now \in Nat
    BY <1>0, <1>1, <1>3 DEF SweepInv, IsSweep
  <1>5. \A l \in D : l \in DOMAIN lots /\ lots[l].expires <= now
    BY <1>1, <1>3, <1>4 DEF HistoryInv, CandidatesLapsed
  <1>6. PICK c : c = [l \in D |-> [lot |-> l, kind |-> "expire", amount |-> Left(l, now), at |-> now,
                                   by |-> "sweep"]]
    OBVIOUS
  <1>7. taken' = taken \cup {c[l] : l \in D}
    <2>1. taken' = taken \cup
            {[lot |-> l, kind |-> "expire", amount |-> Left(l, now), at |-> now, by |-> "sweep"] :
                l \in D}
      BY <1>1, <1>2, Zenon DEF CommitSweep, Left
    <2> QED
      BY <1>6, <2>1
  <1>8. \A l \in D : c[l].lot = l /\ c[l].amount = Left(l, now) /\ c[l].at = now /\ c[l].by = "sweep"
    BY <1>6
  <1>9. LeftIsInteger /\ LeftIsInteger'
    BY LeftIsNow, LeftIsNext
  <1>10. \A l, n : HeldAt(l, n)' = HeldAt(l, n)
    BY <1>3, HeldAtStays
  <1>11. ASSUME NEW l \in DOMAIN lots, l \notin D, NEW n
         PROVE  Left(l, n)' = Left(l, n)
    <2>1. {x \in taken' : x.lot = l /\ x.at <= n} = {x \in taken : x.lot = l /\ x.at <= n}
      BY <1>7, <1>8, <1>11
    <2> QED
      BY <1>3, <1>10, <2>1, UsedAtSame DEF Left, AvailableAt
  <1>12. ASSUME NEW l \in D, NEW n \in 0..clock
         PROVE  Left(l, n)' = Left(l, n) - (IF now <= n THEN Left(l, now) ELSE 0)
    <2>1. c[l] \notin taken
      BY <1>0, <1>3, <1>8 DEF TakenInv, IsConsumed
    <2>2. Left(l, now) \in Nat /\ Left(l, n) \in Int /\ l \in DOMAIN lots
      BY <1>3, <1>5, <1>9 DEF LeftIsInteger
    <2>3. UsedAt(l, n) \in Nat /\ HeldAt(l, n) \in Nat /\ lots[l].amount \in Nat
      BY <1>0, <2>2, UseIsInteger, LotsAre
    <2>4. CASE now <= n
      <3>1. {x \in taken' : x.lot = l /\ x.at <= n} = {x \in taken : x.lot = l /\ x.at <= n} \cup {c[l]}
        BY <1>7, <1>8, <2>4
      <3>2. UsedAt(l, n)' = UsedAt(l, n) + c[l].amount
        <4>1. c[l].amount \in Nat
          BY <1>8, <2>2
        <4> QED
          BY <2>1, <3>1, <4>1, UsedAtOneMore
      <3> QED
        BY <1>3, <1>8, <1>10, <2>2, <2>3, <2>4, <3>2 DEF Left, AvailableAt
    <2>5. CASE ~(now <= n)
      <3>1. {x \in taken' : x.lot = l /\ x.at <= n} = {x \in taken : x.lot = l /\ x.at <= n}
        BY <1>7, <1>8, <2>5
      <3>2. UsedAt(l, n)' = UsedAt(l, n)
        BY <3>1, UsedAtSame
      <3> QED
        BY <1>3, <1>10, <2>2, <2>5, <3>2 DEF Left, AvailableAt
    <2> QED
      BY <2>4, <2>5
  <1>13. NothingOverdrawn'
    <2> SUFFICES ASSUME NEW l \in DOMAIN lots, NEW n \in lots[l].issued..clock
                 PROVE  Left(l, n)' >= 0
      BY <1>3 DEF NothingOverdrawn
    <2>1. n \in 0..clock /\ Left(l, n) >= 0 /\ Left(l, n) \in Int /\ Left(l, now) \in Int
      BY <1>0, <1>9, LotsAre DEF HistoryInv, NothingOverdrawn, LeftIsInteger
    <2>2. CASE l \notin D
      BY <1>11, <2>1, <2>2
    <2>3. CASE l \in D /\ now <= n
      <3>1. Left(l, now) <= Left(l, n)
        BY <1>3, <1>4, <1>5, <2>1, <2>3 DEF HistoryInv, NothingComesBack
      <3> QED
        BY <1>12, <2>1, <2>3, <3>1
    <2>4. CASE l \in D /\ ~(now <= n)
      BY <1>12, <2>1, <2>4
    <2> QED
      BY <2>2, <2>3, <2>4
  <1>14. NothingComesBack'
    <2> SUFFICES ASSUME NEW l \in DOMAIN lots, ~Swept(l)', NEW n \in 0..clock, NEW m \in 0..clock,
                        lots[l].expires <= n, n <= m
                 PROVE  Left(l, n)' <= Left(l, m)'
      BY <1>3 DEF NothingComesBack
    <2>1. l \notin D
      <3>1. ASSUME l \in D PROVE Swept(l)'
        <4>1. c[l] \in taken'
          BY <1>7, <3>1
        <4>2. IsConsumed(c[l])'
          BY <4>1 DEF LedgerInv, TakenInv
        <4>3. Swept(c[l].lot)'
          BY <1>8, <3>1, <4>2 DEF IsConsumed
        <4> QED
          BY <1>8, <3>1, <4>3 DEF Swept
      <3> QED
        BY <3>1
    <2>2. ~Swept(l)
      BY <1>3 DEF Swept
    <2>3. Left(l, n) <= Left(l, m)
      BY <2>2 DEF HistoryInv, NothingComesBack
    <2> QED
      BY <1>11, <2>1, <2>3
  <1> QED
    BY <1>13, <1>14

\* What is left of a lot now is what has not been used or held of it.
LEMMA TickKeepsHistory ==
    ASSUME LedgerInv, LedgerInv', NothingOverdrawn, NothingComesBack, Tick
    PROVE  NothingOverdrawn' /\ NothingComesBack'
  <1>0. PICK now \in Nat : now = clock
    BY LotsAre DEF LedgerInv
  <1>1. PICK next \in Nat : next = clock' /\ next = now + 1
    BY <1>0 DEF Tick
  <1>2. /\ lots' = lots /\ reservation' = reservation /\ taken' = taken
        /\ \A l : Swept(l)' = Swept(l)
    BY DEF Tick, Swept
  <1>3. \A l, n : Left(l, n)' = Left(l, n)
    <2>1. \A l, n : UsedAt(l, n)' = UsedAt(l, n) /\ HeldAt(l, n)' = HeldAt(l, n)
      BY <1>2, UsedAtStays, HeldAtStays
    <2> QED
      BY <1>2, <2>1 DEF Left, AvailableAt
  <1>4. ASSUME NEW l \in DOMAIN lots PROVE Left(l, next) = Left(l, now)
    <2>1. Open(l) = lots[l].amount - UsedOf(l) - HeldOf(l)
      BY OpenNow DEF OpenBySums
    <2>2. Open(l)' = lots'[l].amount - UsedOf(l)' - HeldOf(l)'
      BY OpenNext DEF OpenBySums
    <2>3. UsedOf(l)' = UsedOf(l) /\ HeldOf(l)' = HeldOf(l)
      BY <1>2, UsedSame, HeldSame
    <2>4. Open(l) = Left(l, now)
      BY <1>0 DEF Open, Left
    <2>5. Open(l)' = Left(l, next)'
      <3>1. Open(l)' = Left(l, clock)'
        BY DEF Open, Left
      <3>2. Left(l, clock)' = Left(l, next)'
        BY <1>1
      <3> QED
        BY <3>1, <3>2
    <2> QED
      BY <1>2, <1>3, <2>1, <2>2, <2>3, <2>4, <2>5
  <1>5. LeftIsInteger
    BY LeftIsNow
  <1>6. \A l \in DOMAIN lots : lots[l].issued \in 0..now /\ lots[l].expires \in Nat
    BY <1>0, LotsAre DEF LedgerInv
  <1>7. NothingOverdrawn'
    <2> SUFFICES ASSUME NEW l \in DOMAIN lots, NEW n \in lots[l].issued..next
                 PROVE  Left(l, n) >= 0
      BY <1>1, <1>2, <1>3 DEF NothingOverdrawn
    <2>1. CASE n <= now
      BY <1>0, <1>1, <1>6, <2>1 DEF NothingOverdrawn
    <2>2. CASE n = next
      <3>1. Left(l, now) >= 0
        BY <1>0, <1>6 DEF NothingOverdrawn
      <3> QED
        BY <1>4, <2>2, <3>1
    <2> QED
      BY <1>1, <1>6, <2>1, <2>2
  <1>8. NothingComesBack'
    <2> SUFFICES ASSUME NEW l \in DOMAIN lots, ~Swept(l), NEW n \in 0..next, NEW m \in 0..next,
                        lots[l].expires <= n, n <= m
                 PROVE  Left(l, n) <= Left(l, m)
      BY <1>1, <1>2, <1>3 DEF NothingComesBack
    <2>0. Left(l, n) \in Int /\ Left(l, now) \in Int /\ Left(l, next) = Left(l, now)
      BY <1>4, <1>5 DEF LeftIsInteger
    <2>1. CASE m <= now
      BY <1>0, <1>1, <2>1 DEF NothingComesBack
    <2>2. CASE n <= now /\ m = next
      <3>1. Left(l, n) <= Left(l, now)
        BY <1>0, <1>1, <2>2 DEF NothingComesBack
      <3> QED
        BY <2>0, <2>2, <3>1
    <2>3. CASE n = next /\ m = next
      BY <2>0, <2>3
    <2> QED
      BY <1>1, <2>1, <2>2, <2>3
  <1> QED
    BY <1>7, <1>8

\* A step that changes none of the past.
LEMMA OthersKeepHistory ==
    ASSUME LedgerInv, LedgerInv', NothingOverdrawn, NothingComesBack, clock' = clock, lots' = lots,
           reservation' = reservation, taken' = taken, journal' = journal
    PROVE  NothingOverdrawn' /\ NothingComesBack'
  <1>1. \A l, n : UsedAt(l, n)' = UsedAt(l, n) /\ HeldAt(l, n)' = HeldAt(l, n)
    BY UsedAtStays, HeldAtStays
  <1>2. \A l, n : Left(l, n)' = Left(l, n)
    BY <1>1 DEF Left, AvailableAt
  <1>3. \A l : Swept(l)' = Swept(l)
    BY DEF Swept
  <1> QED
    BY <1>2, <1>3 DEF NothingOverdrawn, NothingComesBack

\* Lots are only appended, and only the expiry command has its runs.
LEMMA StepAppends ==
    ASSUME LedgerInv, [Next]_vars
    PROVE  /\ lots' = lots \/ \E lot : lots' = Append(lots, lot)
           /\ sweep' = sweep
              \/ \E s \in Sweepers : BeginSweep(s) \/ CommitSweep(s) \/ SweepRefused(s)
  <1> DEFINE Appends == lots' = lots \/ \E lot : lots' = Append(lots, lot)
  <1>1. CASE Tick \/ UNCHANGED vars
    BY <1>1 DEF Tick, vars
  <1>2. ASSUME NEW key \in GrantKeys, NEW u \in Users, NEW term \in {1, Never}, Grant(key, u, term)
        PROVE  Appends /\ sweep' = sweep
    BY <1>2 DEF Grant
  <1>3. ASSUME NEW e \in Executions, NEW u \in Users, NEW human \in BOOLEAN,
               Reserve(e, u, human, PriceOf(human))
        PROVE  Appends /\ sweep' = sweep
    BY <1>3 DEF Reserve
  <1>4. ASSUME NEW e \in Executions, NEW charge \in Nat, NEW performer \in Users,
               NEW usage \in Usages \cup {NoUsage}, Finalize(e, charge, performer, usage)
        PROVE  Appends /\ sweep' = sweep
    BY <1>4 DEF Finalize
  <1>5. ASSUME NEW s \in Sweepers, BeginSweep(s) \/ CommitSweep(s) \/ SweepRefused(s)
        PROVE  Appends
    BY <1>5 DEF BeginSweep, CommitSweep, SweepRefused
  <1>6. StepOfLedger
    BY StepIs
  <1> QED
    BY <1>1, <1>2, <1>3, <1>4, <1>5, <1>6 DEF StepOfLedger

\* A run looks for lots that have expired at its instant, and a lot keeps its expiration.
LEMMA CandidatesStayLapsed ==
    ASSUME LedgerInv, LedgerInv', CandidatesLapsed, [Next]_vars
    PROVE  CandidatesLapsed'
  <1>0. LotInv /\ SweepInv
    BY DEF LedgerInv
  <1>1. /\ lots' = lots \/ \E lot : lots' = Append(lots, lot)
        /\ sweep' = sweep
           \/ \E s \in Sweepers : BeginSweep(s) \/ CommitSweep(s) \/ SweepRefused(s)
    BY StepAppends
  <1>2. \A l \in DOMAIN lots : l \in DOMAIN lots' /\ lots'[l].expires = lots[l].expires
    <2>1. CASE lots' = lots
      BY <2>1
    <2>2. ASSUME NEW lot, lots' = Append(lots, lot)
          PROVE  \A l \in DOMAIN lots : l \in DOMAIN lots' /\ lots'[l].expires = lots[l].expires
      BY <1>0, <2>2, AppendStays
    <2> QED
      BY <1>1, <2>1, <2>2
  <1>3. \A s \in Sweepers : sweep[s].candidates \subseteq DOMAIN lots
    BY <1>0 DEF SweepInv, IsSweep, NoSweep
  <1>4. CASE sweep' = sweep
    BY <1>2, <1>3, <1>4 DEF CandidatesLapsed
  <1>5. ASSUME NEW s \in Sweepers, NEW p, sweep' = [sweep EXCEPT ![s] = p], lots' = lots,
               \A l \in p.candidates : lots[l].expires <= p.now
        PROVE  CandidatesLapsed'
    <2>1. sweep'[s] = p /\ \A x \in Sweepers \ {s} : sweep'[x] = sweep[x]
      BY <1>0, <1>5 DEF SweepInv
    <2> QED
      BY <1>5, <2>1 DEF CandidatesLapsed
  <1>6. ASSUME NEW s \in Sweepers, BeginSweep(s) PROVE CandidatesLapsed'
    <2>1. PICK first : /\ \A l \in first : lots[l].expires <= clock
                       /\ sweep' = [sweep EXCEPT ![s] = [now |-> clock, candidates |-> first]]
      BY <1>6 DEF BeginSweep
    <2>2. PICK p : p = [now |-> clock, candidates |-> first]
      OBVIOUS
    <2>3. /\ sweep' = [sweep EXCEPT ![s] = p] /\ lots' = lots
          /\ \A l \in p.candidates : lots[l].expires <= p.now
      BY <1>6, <2>1, <2>2 DEF BeginSweep
    <2> QED
      BY <1>5, <2>3
  <1>7. ASSUME NEW s \in Sweepers, CommitSweep(s) \/ SweepRefused(s) PROVE CandidatesLapsed'
    <2>1. sweep' = [sweep EXCEPT ![s] = NoSweep] /\ lots' = lots
      BY <1>7 DEF CommitSweep, SweepRefused
    <2>2. \A l \in NoSweep.candidates : lots[l].expires <= NoSweep.now
      BY DEF NoSweep
    <2> QED
      BY <1>5, <2>1, <2>2
  <1> QED
    BY <1>1, <1>4, <1>6, <1>7

---------------------------------------------------------------------------
(* The theorem of the past *)

\* At first there is no lot.
LEMMA HistoryInit == Init => HistoryInv
  BY DEF Init, HistoryInv, NothingOverdrawn, NothingComesBack, CandidatesLapsed, NoSweep

\* One case per action.
LEMMA HistoryStep == LedgerInv /\ LedgerInv' /\ HistoryInv /\ [Next]_vars => HistoryInv'
  <1> SUFFICES ASSUME LedgerInv, LedgerInv', HistoryInv, [Next]_vars PROVE HistoryInv'
    OBVIOUS
  <1>0. NothingOverdrawn /\ NothingComesBack /\ CandidatesLapsed
    BY DEF HistoryInv
  <1>1. CandidatesLapsed'
    BY <1>0, CandidatesStayLapsed
  <1>2. NothingOverdrawn' /\ NothingComesBack'
    <2>1. CASE Tick
      BY <1>0, <2>1, TickKeepsHistory
    <2>2. ASSUME NEW key \in GrantKeys, NEW u \in Users, NEW term \in {1, Never},
                 Grant(key, u, term)
          PROVE  NothingOverdrawn' /\ NothingComesBack'
      BY <1>0, <2>2, GrantKeepsHistory
    <2>3. ASSUME NEW e \in Executions, NEW u \in Users, NEW human \in BOOLEAN,
                 Reserve(e, u, human, PriceOf(human))
          PROVE  NothingOverdrawn' /\ NothingComesBack'
      BY <1>0, <2>3, ReserveKeepsHistory
    <2>4. ASSUME NEW e \in Executions, NEW charge \in Nat, NEW performer \in Users,
                 NEW usage \in Usages \cup {NoUsage},
                 charge <= reservation[e].amount, Finalize(e, charge, performer, usage)
          PROVE  NothingOverdrawn' /\ NothingComesBack'
      BY <1>0, <2>4, FinalizeKeepsHistory
    <2>5. ASSUME NEW s \in Sweepers, CommitSweep(s)
          PROVE  NothingOverdrawn' /\ NothingComesBack'
      BY <2>5, CommitKeepsHistory
    <2>6. ASSUME NEW s \in Sweepers, BeginSweep(s) \/ SweepRefused(s)
          PROVE  NothingOverdrawn' /\ NothingComesBack'
      BY <1>0, <2>6, OthersKeepHistory DEF BeginSweep, SweepRefused
    <2>7. CASE UNCHANGED vars
      BY <1>0, <2>7, OthersKeepHistory DEF vars
    <2>8. StepOfLedger
      BY StepIs
    <2> QED
      BY <2>1, <2>2, <2>3, <2>4, <2>5, <2>6, <2>7, <2>8 DEF StepOfLedger
  <1> QED
    BY <1>1, <1>2 DEF HistoryInv

\* As of every instant since a lot was issued, no more was used and held of it than there was,
\* although the expiry command writes what it takes at the instant it began: lot_balance
\* raises on no state the ledger reaches.
THEOREM HistoryAddsUpHolds == Spec => []HistoryAddsUp
  <1>1. HistoryInv => HistoryAddsUp
    BY DEF HistoryInv, NothingOverdrawn, Left, HistoryAddsUp, LotBalance, AvailableAt
  <1>2. Init => HistoryInv
    BY HistoryInit
  <1>3. LedgerInv /\ LedgerInv' /\ HistoryInv /\ [Next]_vars => HistoryInv'
    BY HistoryStep
  <1> QED
    BY <1>1, <1>2, <1>3, LedgerInvHolds, PTL DEF Spec

---------------------------------------------------------------------------
(* The statement: what the pages say is reserved *)

KindsInv == \A t \in journal : t.kind = "reserve" => t.reference = "execution"

Deltas(u) == [t \in journal |-> ReservedDelta(u, t)]
Delta(u) == SumFunctionOnSet(Deltas(u), journal)

\* The pages of a user say what is held for the user, as the books do.
StatementInv == KindsInv /\ \A u \in Users : Delta(u) = -Reserved(u)

\* A page is about a reservation there is.
LEMMA DeltasAre ==
    ASSUME LedgerInv, KindsInv, NEW u \in Users
    PROVE  /\ IsFiniteSet(journal)
           /\ \A t \in journal : ReservedDelta(u, t) \in Int
           /\ \A t \in journal : t.kind \in {"reserve", "settle", "release"} =>
                 /\ t.reference = "execution" /\ t.of \in Executions
                 /\ reservation[t.of].status # "none" /\ GoodReservation(reservation[t.of])
  <1>0. JournalInv /\ ReservationInv
    BY DEF LedgerInv
  <1>1. ASSUME NEW t \in journal, t.kind \in {"reserve", "settle", "release"}
        PROVE  /\ t.reference = "execution" /\ t.of \in Executions
               /\ reservation[t.of].status # "none" /\ GoodReservation(reservation[t.of])
    <2>1. IsPosted(t)
      BY <1>0 DEF JournalInv
    <2>2. t.reference = "execution"
      BY <1>1, <2>1 DEF IsPosted, KindsInv
    <2>3. t.of \in Executions /\ reservation[t.of].status # "none"
      BY <2>1, <2>2 DEF IsPosted, IsTransaction
    <2> QED
      BY <1>0, <2>2, <2>3 DEF ReservationInv, NoReservation
  <1>2. ASSUME NEW t \in journal PROVE ReservedDelta(u, t) \in Int
    <2>1. CASE OfReservation(u, t)
      <3>1. reservation[t.of].amount \in Nat
        BY <1>1, <2>1 DEF OfReservation, GoodReservation
      <3> QED
        BY <3>1 DEF ReservedDelta
    <2>2. CASE ~OfReservation(u, t)
      BY <2>2 DEF ReservedDelta
    <2> QED
      BY <2>1, <2>2
  <1> QED
    BY <1>0, <1>1, <1>2 DEF JournalInv

\* A reservation keeps its owner and its amount, and with them what the pages say of it.
LEMMA OldDeltasStay ==
    ASSUME LedgerInv, KindsInv, NEW u \in Users,
           \A x \in Executions : reservation[x].status # "none" =>
               /\ reservation'[x].owner = reservation[x].owner
               /\ reservation'[x].amount = reservation[x].amount
    PROVE  \A t \in journal : ReservedDelta(u, t)' = ReservedDelta(u, t)
  <1> SUFFICES ASSUME NEW t \in journal PROVE ReservedDelta(u, t)' = ReservedDelta(u, t)
    OBVIOUS
  <1>1. CASE t.kind \in {"reserve", "settle", "release"}
    <2>1. /\ reservation'[t.of].owner = reservation[t.of].owner
          /\ reservation'[t.of].amount = reservation[t.of].amount
      BY <1>1, DeltasAre
    <2> QED
      BY <2>1 DEF ReservedDelta, OfReservation
  <1>2. CASE t.kind \notin {"reserve", "settle", "release"}
    BY <1>2 DEF ReservedDelta, OfReservation
  <1> QED
    BY <1>1, <1>2

\* New pages add what they say.
LEMMA DeltaMore ==
    ASSUME NEW u, IsFiniteSet(journal), IsFiniteSet(journal'), journal \subseteq journal',
           \A t \in journal : ReservedDelta(u, t) \in Int /\ ReservedDelta(u, t)' = ReservedDelta(u, t),
           NEW s \in journal' \ journal, NEW v \in Int,
           \A t \in journal' \ journal : ReservedDelta(u, t)' = IF s = t THEN v ELSE 0
    PROVE  Delta(u)' = Delta(u) + v
  <1>1. PICK N : N = journal' \ journal
    OBVIOUS
  <1>2. PICK f : f = [t \in journal |-> ReservedDelta(u, t)]
    OBVIOUS
  <1>3. PICK g : g = [t \in journal' |-> ReservedDelta(u, t)']
    OBVIOUS
  <1>4. IsFiniteSet(N) /\ journal' = journal \cup N /\ journal \cap N = {}
    BY <1>1, FS_Subset
  <1>5. IntegersOn(f, journal) /\ \A t \in journal : g[t] = f[t]
    BY <1>2, <1>3 DEF IntegersOn
  <1>6. IsOnlyAt(g, N, s, v)
    BY <1>1, <1>3 DEF IsOnlyAt
  <1>7. SumFunctionOnSet(g, N) = v
    BY <1>1, <1>4, <1>6, SumOfOne
  <1>8. SumFunctionOnSet(g, journal) = SumFunctionOnSet(f, journal)
    BY <1>5, SumOfSame
  <1>9. SumFunctionOnSet(g, journal \cup N) = SumFunctionOnSet(g, journal) + SumFunctionOnSet(g, N)
    <2>1. IntegersOn(g, journal) /\ IntegersOn(g, N)
      BY <1>5, <1>6 DEF IntegersOn, IsOnlyAt
    <2> QED
      BY <1>4, <2>1, SumOfBoth
  <1>10. Delta(u) = SumFunctionOnSet(f, journal)
    BY <1>2, Zenon DEF Delta, Deltas
  <1>11. Delta(u)' = SumFunctionOnSet(g, journal')
    BY <1>3, Zenon DEF Delta, Deltas
  <1> QED
    BY <1>4, <1>7, <1>8, <1>9, <1>10, <1>11

\* Pages about something else say nothing of reservations.
LEMMA DeltaSame ==
    ASSUME NEW u, IsFiniteSet(journal), IsFiniteSet(journal'), journal \subseteq journal',
           \A t \in journal : ReservedDelta(u, t) \in Int /\ ReservedDelta(u, t)' = ReservedDelta(u, t),
           \A t \in journal' \ journal : ReservedDelta(u, t)' = 0
    PROVE  Delta(u)' = Delta(u) /\ Delta(u) \in Int
  <1>1. PICK f : f = [t \in journal |-> ReservedDelta(u, t)]
    OBVIOUS
  <1>2. PICK g : g = [t \in journal' |-> ReservedDelta(u, t)']
    OBVIOUS
  <1>3. IntegersOn(f, journal) /\ \A t \in journal : g[t] = f[t]
    BY <1>1, <1>2 DEF IntegersOn
  <1>4. SumFunctionOnSet(g, journal') = SumFunctionOnSet(g, journal)
    <2>1. IntegersOn(g, journal') /\ \A t \in journal' \ journal : g[t] = 0
      BY <1>1, <1>2, <1>3 DEF IntegersOn
    <2> QED
      BY <2>1, SumOfSome
  <1>5. SumFunctionOnSet(g, journal) = SumFunctionOnSet(f, journal)
    BY <1>3, SumOfSame
  <1>6. SumFunctionOnSet(f, journal) \in Int
    BY <1>3, SumIsInteger
  <1>7. Delta(u) = SumFunctionOnSet(f, journal)
    BY <1>1, Zenon DEF Delta, Deltas
  <1>8. Delta(u)' = SumFunctionOnSet(g, journal')
    BY <1>2, Zenon DEF Delta, Deltas
  <1> QED
    BY <1>4, <1>5, <1>6, <1>7, <1>8

\* A request adds the page of what it reserves.
LEMMA ReserveKeepsStatement ==
    ASSUME LedgerInv, LedgerInv', KindsInv, NEW u \in Users, Delta(u) = -Reserved(u),
           NEW e \in Executions, NEW v \in Users, NEW human \in BOOLEAN,
           Reserve(e, v, human, PriceOf(human))
    PROVE  KindsInv' /\ Delta(u)' = -Reserved(u)'
  <1>0. LotInv /\ ReservationInv /\ TakenInv /\ JournalInv
    BY DEF LedgerInv
  <1>1. PICK price \in Nat \ {0} : price = PriceOf(human)
    BY Facts DEF PriceOf
  <1>2. PICK S, acc, grant, reserve, r : Begins(e, v, human, price, S, acc, grant, reserve, r)
    BY <1>1, ReserveBegins
  <1>3. /\ reservation[e] = NoReservation /\ reservation' = [reservation EXCEPT ![e] = r]
        /\ journal' = journal \cup (IF HasAllowance(v) THEN {reserve} ELSE {grant, reserve})
    BY <1>2 DEF Begins
  <1>4. r.status = "held" /\ r.owner = v /\ r.amount = price
    BY <1>2 DEF Begins
  <1>5. reserve.kind = "reserve" /\ reserve.reference = "execution" /\ reserve.of = e
    BY <1>2, Zenon DEF Begins, Transaction
  <1>6. grant.kind = "grant"
    BY <1>2, Zenon DEF Begins, Transaction
  <1>7. reservation'[e] = r /\ \A x \in Executions \ {e} : reservation'[x] = reservation[x]
    BY <1>0, <1>3 DEF ReservationInv
  <1>8. KindsInv'
    BY <1>3, <1>5, <1>6 DEF KindsInv
  <1>9. reserve \notin journal
    BY <1>3, <1>5, DeltasAre DEF NoReservation
  <1>10. \A t \in journal : ReservedDelta(u, t)' = ReservedDelta(u, t)
    BY <1>3, <1>7, OldDeltasStay DEF NoReservation
  <1>11. PICK w \in Int : w = IF u = v THEN price ELSE 0
    OBVIOUS
  <1>12. ReservedDelta(u, reserve)' = w
    BY <1>4, <1>5, <1>7, <1>11 DEF ReservedDelta, OfReservation
  <1>13. ReservedDelta(u, grant)' = 0
    BY <1>6 DEF ReservedDelta, OfReservation
  <1>14. Delta(u)' = Delta(u) + w
    <2>1. IsFiniteSet(journal) /\ IsFiniteSet(journal') /\ journal \subseteq journal'
      BY <1>0, <1>3 DEF LedgerInv, JournalInv
    <2>2. \A t \in journal' \ journal : ReservedDelta(u, t)' = IF reserve = t THEN w ELSE 0
      BY <1>3, <1>12, <1>13
    <2>3. reserve \in journal' \ journal
      BY <1>3, <1>9
    <2> QED
      BY <1>10, <2>1, <2>2, <2>3, DeltasAre, DeltaMore
  <1>15. Reserved(u)' = Reserved(u) - w
    <2>1. HeldPart(u, reservation[e]) = 0
      BY <1>3 DEF HeldPart, NoReservation
    <2>2. HeldPart(u, r) = -w /\ HeldPart(u, r) \in Int
      BY <1>4, <1>11, Facts DEF HeldPart
    <2>3. Reserved(u)' = Reserved(u) - HeldPart(u, reservation[e]) + HeldPart(u, r)
      <3>1. \A x \in Executions : HeldPart(u, reservation[x]) \in Int
        BY <1>0, TermsAreIntegers
      <3> QED
        BY <1>0, <1>3, <2>2, <3>1, ReservedOne DEF ReservationInv
    <2>4. Reserved(u) \in Int
      BY <1>0, SumsAreIntegers
    <2> QED
      BY <2>1, <2>2, <2>3, <2>4
  <1>16. Reserved(u) \in Int
    BY <1>0, SumsAreIntegers
  <1> QED
    BY <1>8, <1>14, <1>15, <1>16

\* An end adds a page that takes it back.
LEMMA FinalizeKeepsStatement ==
    ASSUME LedgerInv, LedgerInv', KindsInv, NEW u \in Users, Delta(u) = -Reserved(u),
           NEW e \in Executions, NEW charge, NEW performer, NEW usage,
           Finalize(e, charge, performer, usage)
    PROVE  KindsInv' /\ Delta(u)' = -Reserved(u)'
  <1>0. LotInv /\ ReservationInv /\ TakenInv /\ JournalInv
    BY DEF LedgerInv
  <1>1. PICK r, r2, reward, settled, left, t, lot :
           Ends(e, charge, performer, usage, r, r2, reward, settled, left, t, lot)
    BY <1>0, FinalizeEnds DEF ReservationInv
  <1>2. /\ r = reservation[e] /\ r.status = "held" /\ reservation' = [reservation EXCEPT ![e] = r2]
        /\ journal' = journal \cup {t}
    BY <1>1 DEF Ends
  <1>3. GoodReservation(r)
    BY <1>0, <1>2 DEF ReservationInv, NoReservation
  <1>4. r2.status # "held" /\ r2.owner = r.owner /\ r2.amount = r.amount
    <2>1. r2 = [r EXCEPT !.status = IF charge > 0 THEN "settled" ELSE "released",
                         !.settled = charge, !.finalized = clock, !.usage = usage]
      BY <1>1 DEF Ends
    <2>2. r = [status |-> r.status, owner |-> r.owner, human |-> r.human, amount |-> r.amount,
               settled |-> r.settled, created |-> r.created, finalized |-> r.finalized,
               allocation |-> r.allocation, usage |-> r.usage]
      BY <1>3, Zenon DEF GoodReservation
    <2> QED
      BY <2>1, <2>2
  <1>5. t.kind \in {"settle", "release"} /\ t.reference = "execution" /\ t.of = e
    <2>1. t = Transaction(IF charge > 0 THEN "settle" ELSE "release", "execution", e, clock,
                          FinalPostings(r, charge, reward, performer, SumFunction(left)))
      BY <1>1 DEF Ends
    <2> QED
      BY <2>1 DEF Transaction
  <1>6. reservation'[e] = r2 /\ \A x \in Executions \ {e} : reservation'[x] = reservation[x]
    BY <1>0, <1>2 DEF ReservationInv
  <1>7. KindsInv'
    BY <1>2, <1>5 DEF KindsInv
  <1>8. t \notin journal
    BY <1>0, <1>2, <1>5 DEF JournalInv, IsPosted
  <1>9. \A x \in journal : ReservedDelta(u, x)' = ReservedDelta(u, x)
    BY <1>2, <1>4, <1>6, OldDeltasStay
  <1>10. PICK w \in Int : w = IF u = r.owner THEN r.amount ELSE 0
    BY <1>3 DEF GoodReservation
  <1>11. ReservedDelta(u, t)' = -w
    BY <1>4, <1>5, <1>6, <1>10 DEF ReservedDelta, OfReservation
  <1>12. Delta(u)' = Delta(u) - w
    <2>1. IsFiniteSet(journal) /\ IsFiniteSet(journal') /\ journal \subseteq journal'
      BY <1>0, <1>2 DEF LedgerInv, JournalInv
    <2>2. PICK n \in Int : n = -w
      OBVIOUS
    <2>3. \A x \in journal' \ journal : ReservedDelta(u, x)' = IF t = x THEN n ELSE 0
      BY <1>2, <1>11, <2>2
    <2>4. t \in journal' \ journal
      BY <1>2, <1>8
    <2>5. Delta(u)' = Delta(u) + n
      BY <1>9, <2>1, <2>3, <2>4, DeltasAre, DeltaMore
    <2>6. Reserved(u) \in Int
      BY <1>0, SumsAreIntegers
    <2> QED
      BY <2>2, <2>5, <2>6
  <1>13. Reserved(u)' = Reserved(u) + w
    <2>1. HeldPart(u, r) = -w
      BY <1>2, <1>3, <1>10, Facts DEF HeldPart, GoodReservation
    <2>2. HeldPart(u, r2) = 0 /\ HeldPart(u, r2) \in Int
      BY <1>4 DEF HeldPart
    <2>3. Reserved(u)' = Reserved(u) - HeldPart(u, reservation[e]) + HeldPart(u, r2)
      <3>1. \A x \in Executions : HeldPart(u, reservation[x]) \in Int
        BY <1>0, TermsAreIntegers
      <3> QED
        BY <1>0, <1>2, <2>2, <3>1, ReservedOne DEF ReservationInv
    <2>4. Reserved(u) \in Int
      BY <1>0, SumsAreIntegers
    <2> QED
      BY <1>2, <2>1, <2>2, <2>3, <2>4
  <1>14. Reserved(u) \in Int
    BY <1>0, SumsAreIntegers
  <1> QED
    BY <1>7, <1>12, <1>13, <1>14

\* Pages of grants and expiries are not about reservations.
LEMMA OthersKeepStatement ==
    ASSUME LedgerInv, LedgerInv', KindsInv, NEW u \in Users, Delta(u) = -Reserved(u),
           reservation' = reservation, journal \subseteq journal',
           \A t \in journal' \ journal : t.kind \in {"grant", "expire"}
    PROVE  KindsInv' /\ Delta(u)' = -Reserved(u)'
  <1>1. KindsInv'
    BY DEF KindsInv
  <1>2. \A t \in journal : ReservedDelta(u, t)' = ReservedDelta(u, t)
    BY DEF ReservedDelta, OfReservation
  <1>3. \A t \in journal' \ journal : ReservedDelta(u, t)' = 0
    BY DEF ReservedDelta, OfReservation
  <1>4. IsFiniteSet(journal) /\ IsFiniteSet(journal')
    BY DEF LedgerInv, JournalInv
  <1>5. Delta(u)' = Delta(u)
    BY <1>2, <1>3, <1>4, DeltasAre, DeltaSame
  <1> QED
    BY <1>1, <1>5, ReservedSame

\* At first nothing was posted and nothing is held.
LEMMA StatementInit == Init => StatementInv
  <1> SUFFICES ASSUME Init PROVE StatementInv
    OBVIOUS
  <1>1. KindsInv
    BY DEF Init, KindsInv
  <1>2. ASSUME NEW u \in Users PROVE Delta(u) = -Reserved(u)
    <2>1. Delta(u) = 0
      <3>1. PICK f : f = Deltas(u)
        OBVIOUS
      <3>2. Delta(u) = SumFunctionOnSet(f, {})
        BY <3>1, Zenon DEF Delta, Init
      <3> QED
        BY <3>2, SumOfNone
    <2>2. Reserved(u) = 0
      <3>1. PICK f : f = [e \in Executions |-> HeldPart(u, reservation[e])]
        OBVIOUS
      <3>2. \A e \in Executions : f[e] = 0
        BY <3>1 DEF Init, NoReservation, HeldPart
      <3>3. Reserved(u) = SumFunctionOnSet(f, Executions)
        BY <3>1, Zenon DEF Reserved
      <3> QED
        BY <3>2, <3>3, Facts, SumOfZeros
    <2>3. \A n, m \in Int : n + m = 0 => n = -m
      OBVIOUS
    <2>4. Delta(u) \in Int /\ Reserved(u) \in Int /\ Delta(u) + Reserved(u) = 0
      BY <2>1, <2>2
    <2> QED
      BY <2>3, <2>4, Zenon
  <1> QED
    BY <1>1, <1>2 DEF StatementInv

\* The expiry command posts expiries.
LEMMA CommitPosts ==
    ASSUME NEW s, CommitSweep(s)
    PROVE  journal \subseteq journal' /\ \A t \in journal' \ journal : t.kind = "expire"
  <1>1. PICK p : p = [l \in Due(s) |->
                       [a \in {"expired", lots[l].owner} |->
                           IF a = "expired" THEN AvailableAt(lots[l], l, sweep[s].now)
                           ELSE -AvailableAt(lots[l], l, sweep[s].now)]]
    OBVIOUS
  <1>2. PICK T : T = {Transaction("expire", "lot", l, sweep[s].now, p[l]) : l \in Due(s)}
    OBVIOUS
  <1>3. journal' = journal \cup T
    <2>1. T = {Transaction("expire", "lot", l, sweep[s].now,
                 [a \in {"expired", lots[l].owner} |->
                     IF a = "expired" THEN AvailableAt(lots[l], l, sweep[s].now)
                     ELSE -AvailableAt(lots[l], l, sweep[s].now)]) : l \in Due(s)}
      BY <1>1, <1>2
    <2> QED
      BY <2>1, Zenon DEF CommitSweep, Post
  <1>4. ASSUME NEW t \in T PROVE t.kind = "expire"
    <2>1. PICK l \in Due(s) : t = Transaction("expire", "lot", l, sweep[s].now, p[l])
      BY <1>2
    <2> QED
      BY <2>1, TransactionIs
  <1> QED
    BY <1>3, <1>4

\* One case per action.
LEMMA StatementStep == LedgerInv /\ LedgerInv' /\ StatementInv /\ [Next]_vars => StatementInv'
  <1> SUFFICES ASSUME LedgerInv, LedgerInv', StatementInv, [Next]_vars PROVE StatementInv'
    OBVIOUS
  <1> DEFINE Keeps == KindsInv' /\ \A u \in Users : Delta(u)' = -Reserved(u)'
  <1>0. KindsInv /\ \A u \in Users : Delta(u) = -Reserved(u)
    BY DEF StatementInv
  <1>1. ASSUME reservation' = reservation, journal \subseteq journal',
               \A t \in journal' \ journal : t.kind \in {"grant", "expire"}
        PROVE  Keeps
    <2>1. KindsInv'
      BY <1>0, <1>1 DEF KindsInv
    <2> QED
      BY <1>0, <1>1, <2>1, OthersKeepStatement
  <1>2. ASSUME NEW key \in GrantKeys, NEW u \in Users, NEW term \in {1, Never}, Grant(key, u, term)
        PROVE  Keeps
    <2>1. PICK t : t.kind = "grant" /\ journal' = journal \cup {t}
      BY <1>2 DEF Grant, Post, Transaction
    <2> QED
      BY <1>1, <1>2, <2>1 DEF Grant
  <1>3. ASSUME NEW e \in Executions, NEW v \in Users, NEW human \in BOOLEAN,
               Reserve(e, v, human, PriceOf(human))
        PROVE  Keeps
    BY <1>0, <1>3, ReserveKeepsStatement
  <1>4. ASSUME NEW e \in Executions, NEW charge \in Nat, NEW performer \in Users,
               NEW usage \in Usages \cup {NoUsage}, Finalize(e, charge, performer, usage)
        PROVE  Keeps
    BY <1>0, <1>4, FinalizeKeepsStatement
  <1>5. ASSUME NEW s \in Sweepers, CommitSweep(s)
        PROVE  Keeps
    <2>1. reservation' = reservation
      BY <1>5 DEF CommitSweep
    <2>2. journal \subseteq journal' /\ \A t \in journal' \ journal : t.kind = "expire"
      BY <1>5, CommitPosts
    <2> QED
      BY <1>1, <2>1, <2>2
  <1>6. ASSUME NEW s \in Sweepers, BeginSweep(s) \/ SweepRefused(s)
        PROVE  Keeps
    BY <1>1, <1>6 DEF BeginSweep, SweepRefused
  <1>7. ASSUME Tick \/ UNCHANGED vars
        PROVE  Keeps
    BY <1>1, <1>7 DEF Tick, vars
  <1>8. StepOfLedger
    BY StepIs
  <1>9. Keeps
    BY <1>2, <1>3, <1>4, <1>5, <1>6, <1>7, <1>8, Zenon DEF StepOfLedger
  <1> QED
    BY <1>9 DEF StatementInv

---------------------------------------------------------------------------
(* The theorem of the statement *)

\* The pages of a user, added up, are all the journal says of the user.
LEMMA PagesAddUp ==
    ASSUME LedgerInv, KindsInv, NEW u \in Users
    PROVE  /\ Total(LAMBDA t : ReservedDelta(u, t), Pages(u)) = Delta(u)
           /\ Total(LAMBDA t : AvailableDelta(u, t), Pages(u)) = Balance(u)
  <1>1. PICK P : P = Pages(u)
    OBVIOUS
  <1>2. P \in SUBSET journal /\ IsFiniteSet(journal) /\ IsFiniteSet(P)
    BY <1>1, DeltasAre, FS_Subset DEF Pages
  <1>3. Total(LAMBDA t : ReservedDelta(u, t), Pages(u)) = Delta(u)
    <2>1. PICK f : f = [t \in journal |-> ReservedDelta(u, t)]
      OBVIOUS
    <2>2. PICK g : g = [t \in P |-> ReservedDelta(u, t)]
      OBVIOUS
    <2>3. /\ IntegersOn(f, journal) /\ IntegersOn(f, P) /\ \A t \in P : g[t] = f[t]
          /\ \A t \in journal \ P : f[t] = 0
      BY <1>1, <1>2, <2>1, <2>2, DeltasAre DEF IntegersOn, Pages, ReservedDelta
    <2>4. SumFunctionOnSet(f, journal) = SumFunctionOnSet(f, P)
      BY <1>2, <2>3, SumOfSome
    <2>5. SumFunctionOnSet(g, P) = SumFunctionOnSet(f, P)
      BY <1>2, <2>3, SumOfSame
    <2>6. Total(LAMBDA t : ReservedDelta(u, t), Pages(u)) = SumFunction(g)
      BY <1>1, <2>2, Zenon DEF Total
    <2>7. SumFunction(g) = SumFunctionOnSet(g, P)
      BY <2>2, SumFunctionIs
    <2>8. Delta(u) = SumFunctionOnSet(f, journal)
      BY <2>1, Zenon DEF Delta, Deltas
    <2> QED
      BY <2>4, <2>5, <2>6, <2>7, <2>8
  <1>4. Total(LAMBDA t : AvailableDelta(u, t), Pages(u)) = Balance(u)
    <2>1. PICK f : f = [t \in journal |-> Entry(t, u)]
      OBVIOUS
    <2>2. PICK g : g = [t \in P |-> AvailableDelta(u, t)]
      OBVIOUS
    <2>3. /\ IntegersOn(f, journal) /\ IntegersOn(f, P)
      <3>1. \A t \in journal : Entry(t, u) \in Int
        BY TermsAreIntegers DEF LedgerInv
      <3> QED
        BY <1>2, <2>1, <3>1 DEF IntegersOn
    <2>4. (\A t \in P : g[t] = f[t]) /\ \A t \in journal \ P : f[t] = 0
      BY <1>1, <1>2, <2>1, <2>2 DEF Pages, AvailableDelta, Entry
    <2>5. SumFunctionOnSet(f, journal) = SumFunctionOnSet(f, P)
      BY <1>2, <2>3, <2>4, SumOfSome
    <2>6. SumFunctionOnSet(g, P) = SumFunctionOnSet(f, P)
      BY <1>2, <2>3, <2>4, SumOfSame
    <2>7. Total(LAMBDA t : AvailableDelta(u, t), Pages(u)) = SumFunction(g)
      BY <1>1, <2>2, Zenon DEF Total
    <2>8. SumFunction(g) = SumFunctionOnSet(g, P)
      BY <2>2, SumFunctionIs
    <2>9. Balance(u) = SumFunctionOnSet(f, journal)
      <3>1. Posted(u) = SumFunctionOnSet(f, journal)
        BY <2>1, Zenon DEF Posted
      <3> QED
        BY <3>1, BalanceIs
    <2> QED
      BY <2>5, <2>6, <2>7, <2>8, <2>9
  <1> QED
    BY <1>3, <1>4

\* What the balance shows as reserved is what is held for the user.
LEMMA ShownReserved ==
    ASSUME LedgerInv, NEW u \in Users
    PROVE  ShownBalance(u, clock).reserved = -Reserved(u)
  <1>0. ReservationInv /\ clock \in Nat /\ clock < Never
    BY LotsAre, Facts DEF LedgerInv
  <1>1. PICK H : H = {e \in Executions : /\ reservation[e].owner = u
                                         /\ reservation[e].created <= clock
                                         /\ clock < reservation[e].finalized}
    OBVIOUS
  <1>2. \A e \in Executions : e \in H <=> (reservation[e].status = "held" /\ reservation[e].owner = u)
    <2> SUFFICES ASSUME NEW e \in Executions
                 PROVE  e \in H <=> (reservation[e].status = "held" /\ reservation[e].owner = u)
      OBVIOUS
    <2>1. CASE reservation[e] = NoReservation
      BY <1>1, <2>1, Facts DEF NoReservation
    <2>2. CASE GoodReservation(reservation[e])
      BY <1>0, <1>1, <2>2 DEF GoodReservation
    <2> QED
      BY <1>0, <2>1, <2>2 DEF ReservationInv
  <1>3. PICK f : f = [e \in H |-> reservation[e].amount]
    OBVIOUS
  <1>4. PICK g : g = [e \in Executions |-> HeldPart(u, reservation[e])]
    OBVIOUS
  <1>5. H \in SUBSET Executions /\ IsFiniteSet(Executions) /\ IsFiniteSet(H)
    BY <1>1, Facts, FS_Subset
  <1>6. \A e \in H : f[e] \in Int /\ f[e] = -g[e]
    <2> SUFFICES ASSUME NEW e \in H PROVE f[e] \in Int /\ f[e] = -g[e]
      OBVIOUS
    <2>1. GoodReservation(reservation[e])
      BY <1>0, <1>2, <1>5 DEF ReservationInv, NoReservation
    <2> QED
      BY <1>2, <1>3, <1>4, <1>5, <2>1 DEF HeldPart, GoodReservation
  <1>7. IntegersOn(g, Executions) /\ IntegersOn(g, H) /\ \A e \in Executions \ H : g[e] = 0
    <2>1. \A e \in Executions : g[e] \in Int
      BY <1>4, TermsAreIntegers DEF LedgerInv
    <2>2. \A e \in Executions \ H : g[e] = 0
      <3> SUFFICES ASSUME NEW e \in Executions \ H PROVE g[e] = 0
        OBVIOUS
      <3>1. CASE reservation[e].status # "held"
        BY <1>4, <3>1 DEF HeldPart
      <3>2. CASE reservation[e].owner # u
        BY <1>4, <3>2, Facts DEF HeldPart
      <3> QED
        BY <1>2, <3>1, <3>2
    <2> QED
      BY <1>5, <2>1, <2>2 DEF IntegersOn
  <1>8. SumFunctionOnSet(g, Executions) = SumFunctionOnSet(g, H)
    BY <1>5, <1>7, SumOfSome
  <1>9. SumFunctionOnSet(f, H) = -SumFunctionOnSet(g, H)
    BY <1>5, <1>6, <1>7, SumOfNegated
  <1>10. ShownBalance(u, clock).reserved = SumFunction(f)
    <2>1. ShownBalance(u, clock).reserved = Total(LAMBDA e : reservation[e].amount, H)
      BY <1>1, Zenon DEF ShownBalance
    <2> QED
      BY <1>3, <2>1, Zenon DEF Total
  <1>11. SumFunction(f) = SumFunctionOnSet(f, H)
    BY <1>3, SumFunctionIs
  <1>12. Reserved(u) = SumFunctionOnSet(g, Executions)
    BY <1>4, Zenon DEF Reserved
  <1> QED
    BY <1>8, <1>9, <1>10, <1>11, <1>12

\* What is open of a user's lots is what the balance shows, and what has lapsed.
LEMMA ShownAvailable ==
    ASSUME LedgerInv, NEW u \in Users
    PROVE  Balance(u) = ShownBalance(u, clock).available
             + Total(LAMBDA l : LotBalance(l, clock).remaining,
                     {l \in LotsOf(u) : Lapsed(lots[l], clock)})
  <1>0. LotInv /\ IsFiniteSet(DOMAIN lots) /\ clock \in Nat
    BY LotsAre DEF LedgerInv
  <1>1. PICK M : M = {l \in DOMAIN lots : lots[l].owner = u}
    OBVIOUS
  <1>2. PICK C : C = {l \in M : Current(lots[l], clock)}
    OBVIOUS
  <1>3. PICK L : L = {l \in M : Lapsed(lots[l], clock)}
    OBVIOUS
  <1>4. M = C \cup L /\ C \cap L = {}
    <2>1. \A l \in M : lots[l].issued <= clock /\ lots[l].expires \in Int
      BY <1>0, <1>1, LotsAre
    <2> QED
      BY <1>0, <1>2, <1>3, <2>1 DEF Current, Lapsed
  <1>5. IsFiniteSet(M) /\ IsFiniteSet(C) /\ IsFiniteSet(L)
    BY <1>0, <1>1, <1>2, <1>3, FS_Subset
  <1>6. PICK f : f = [l \in M |-> Open(l)]
    OBVIOUS
  <1>7. IntegersOn(f, C) /\ IntegersOn(f, L)
    <2>1. \A l \in M : Open(l) \in Int
      BY <1>1, LeftIsNow DEF LeftIsInteger, Open, Left
    <2> QED
      BY <1>4, <1>6, <2>1 DEF IntegersOn
  <1>8. Balance(u) = SumFunctionOnSet(f, C) + SumFunctionOnSet(f, L)
    <2>1. Balance(u) = SumFunction(f)
      BY <1>1, <1>6, WalletsAgree, Zenon
    <2>2. SumFunction(f) = SumFunctionOnSet(f, C \cup L)
      BY <1>4, <1>6, SumFunctionIs
    <2> QED
      BY <1>4, <1>5, <1>7, <2>1, <2>2, SumOfBoth
  <1>9. ShownBalance(u, clock).available = SumFunctionOnSet(f, C)
    <2>1. PICK g : g = [l \in C |-> AvailableAt(lots[l], l, clock)]
      OBVIOUS
    <2>2. ShownBalance(u, clock).available = Spendable(u, clock)
      BY DEF ShownBalance
    <2>3. C = {l \in LotsOf(u) : Current(lots[l], clock)}
      BY <1>1, <1>2, Zenon DEF LotsOf
    <2>4. Spendable(u, clock) = SumFunction(g)
      BY <2>1, <2>3, Zenon DEF Spendable, Total
    <2>5. SumFunction(g) = SumFunctionOnSet(g, C)
      BY <2>1, SumFunctionIs
    <2>6. \A l \in C : g[l] = f[l]
      BY <1>4, <1>6, <2>1 DEF Open
    <2>7. SumFunctionOnSet(g, C) = SumFunctionOnSet(f, C)
      BY <1>5, <1>7, <2>6, SumOfSame
    <2> QED
      BY <2>2, <2>4, <2>5, <2>7
  <1>10. Total(LAMBDA l : LotBalance(l, clock).remaining,
               {l \in LotsOf(u) : Lapsed(lots[l], clock)}) = SumFunctionOnSet(f, L)
    <2>1. PICK g : g = [l \in L |-> LotBalance(l, clock).remaining]
      OBVIOUS
    <2>2. L = {l \in LotsOf(u) : Lapsed(lots[l], clock)}
      BY <1>1, <1>3, Zenon DEF LotsOf
    <2>3. Total(LAMBDA l : LotBalance(l, clock).remaining,
                {l \in LotsOf(u) : Lapsed(lots[l], clock)}) = SumFunction(g)
      BY <2>1, <2>2, Zenon DEF Total
    <2>4. SumFunction(g) = SumFunctionOnSet(g, L)
      BY <2>1, SumFunctionIs
    <2>5. \A l \in L : g[l] = f[l]
      BY <1>4, <1>6, <2>1 DEF Open, LotBalance, AvailableAt
    <2>6. SumFunctionOnSet(g, L) = SumFunctionOnSet(f, L)
      BY <1>5, <1>7, <2>5, SumOfSame
    <2> QED
      BY <2>3, <2>4, <2>6
  <1> QED
    BY <1>8, <1>9, <1>10

\* The invariant is stronger than the property the run checks.
LEMMA StatementsAgree == LedgerInv /\ StatementInv => StatementAddsUp
  <1> SUFFICES ASSUME LedgerInv, StatementInv, NEW u \in Users
               PROVE  /\ Total(LAMBDA t : ReservedDelta(u, t), Pages(u))
                           = ShownBalance(u, clock).reserved
                      /\ Total(LAMBDA t : AvailableDelta(u, t), Pages(u))
                           = ShownBalance(u, clock).available
                               + Total(LAMBDA l : LotBalance(l, clock).remaining,
                                       {l \in LotsOf(u) : Lapsed(lots[l], clock)})
    BY Zenon DEF StatementAddsUp
  <1>1. KindsInv /\ Delta(u) = -Reserved(u)
    BY DEF StatementInv
  <1>2. /\ Total(LAMBDA t : ReservedDelta(u, t), Pages(u)) = Delta(u)
        /\ Total(LAMBDA t : AvailableDelta(u, t), Pages(u)) = Balance(u)
    BY <1>1, PagesAddUp
  <1>3. Total(LAMBDA t : ReservedDelta(u, t), Pages(u)) = ShownBalance(u, clock).reserved
    BY <1>1, <1>2, ShownReserved, Zenon
  <1>4. Total(LAMBDA t : AvailableDelta(u, t), Pages(u))
          = ShownBalance(u, clock).available
              + Total(LAMBDA l : LotBalance(l, clock).remaining,
                      {l \in LotsOf(u) : Lapsed(lots[l], clock)})
    BY <1>2, ShownAvailable, Zenon
  <1> QED
    BY <1>3, <1>4

\* A user who adds up all pages of transactions gets the balance that is shown, but for what
\* has expired and was not moved away yet, however requests, answers, grants and expiries come
\* together (balance, transaction_page, lot_balance).
THEOREM StatementAddsUpHolds == Spec => []StatementAddsUp
  <1>1. Init => StatementInv
    BY StatementInit
  <1>2. LedgerInv /\ LedgerInv' /\ StatementInv /\ [Next]_vars => StatementInv'
    BY StatementStep
  <1>3. LedgerInv /\ StatementInv => StatementAddsUp
    BY StatementsAgree
  <1> QED
    BY <1>1, <1>2, <1>3, LedgerInvHolds, PTL DEF Spec

---------------------------------------------------------------------------
(* The audit: what every paid answer earned *)

IsEnd(x, e) == x.kind \in {"settle", "release"} /\ x.of = e

\* One transaction ended the execution, and one lot was earned with it.
IsExplained(e, t, l) ==
    /\ t \in journal /\ t.kind = "settle" /\ t.reference = "execution" /\ t.of = e
    /\ \A x \in journal : IsEnd(x, e) => x = t
    /\ l \in DOMAIN lots /\ lots[l].reference = "reward" /\ lots[l].origin = e
    /\ \A k \in DOMAIN lots : (lots[k].reference = "reward" /\ lots[k].origin = e) => k = l
    /\ lots[l].owner # reservation[e].owner
    /\ lots[l].amount = Reward(reservation[e].settled)
    /\ Posting(t, lots[l].owner) = Reward(reservation[e].settled)
    /\ Posting(t, "revenue") = reservation[e].settled - Reward(reservation[e].settled)

\* A lot is earned by an answer that was paid.
IsEarned(l) ==
    /\ lots[l].expires = lots[l].issued + EarnedDuration
    /\ lots[l].origin \in Executions /\ reservation[lots[l].origin].status = "settled"

IsAudited(e) ==
    /\ reservation[e].status = "released" => reservation[e].settled = 0
    /\ reservation[e].human /\ reservation[e].status = "settled" => \E t, l : IsExplained(e, t, l)

RewardsInv ==
    /\ \A l \in DOMAIN lots : lots[l].reference = "reward" => IsEarned(l)
    /\ \A e \in Executions : IsAudited(e)

LotsStay == \A l \in DOMAIN lots : l \in DOMAIN lots' /\ lots'[l] = lots[l]

\* What explains an end goes on explaining it while others end.
LEMMA ExplainedStays ==
    ASSUME NEW e, NEW t, NEW l, IsExplained(e, t, l), reservation'[e] = reservation[e], LotsStay,
           journal \subseteq journal',
           \A x \in journal' \ journal : ~IsEnd(x, e),
           \A k \in DOMAIN lots' \ DOMAIN lots :
               lots'[k].reference = "reward" => lots'[k].origin # e
    PROVE  IsExplained(e, t, l)'
  <1>1. \A k \in DOMAIN lots' :
           (lots'[k].reference = "reward" /\ lots'[k].origin = e) => k = l
    BY DEF IsExplained, LotsStay
  <1>2. \A x \in journal' : IsEnd(x, e) => x = t
    BY DEF IsExplained
  <1>3. l \in DOMAIN lots' /\ lots'[l] = lots[l]
    BY DEF IsExplained, LotsStay
  <1> QED
    BY <1>1, <1>2, <1>3 DEF IsExplained

\* What has to be shown of a step in which at most e ends: e was not settled before, and what
\* is new is about e.
AboutOnly(e) ==
    /\ \A x \in Executions \ {e} : reservation'[x] = reservation[x]
    /\ LotsStay /\ journal \subseteq journal'
    /\ \A x \in journal' \ journal : x.kind \in {"settle", "release"} => x.of = e
    /\ \A k \in DOMAIN lots' \ DOMAIN lots : lots'[k].reference = "reward" => lots'[k].origin = e
    /\ e \in Executions => reservation[e].status # "settled"

\* Then every other lot and execution is explained as before.
LEMMA RewardsStay ==
    ASSUME RewardsInv, NEW e, AboutOnly(e), e \in Executions => IsAudited(e)',
           \A k \in DOMAIN lots' \ DOMAIN lots : lots'[k].reference = "reward" => IsEarned(k)'
    PROVE  RewardsInv'
  <1>1. ASSUME NEW l \in DOMAIN lots', lots'[l].reference = "reward" PROVE IsEarned(l)'
    <2>1. CASE l \in DOMAIN lots
      <3>1. lots'[l] = lots[l] /\ IsEarned(l)
        BY <1>1, <2>1 DEF AboutOnly, LotsStay, RewardsInv
      <3>2. reservation'[lots[l].origin] = reservation[lots[l].origin]
        BY <3>1 DEF AboutOnly, IsEarned
      <3> QED
        BY <3>1, <3>2 DEF IsEarned
    <2>2. CASE l \notin DOMAIN lots
      BY <1>1, <2>2
    <2> QED
      BY <2>1, <2>2
  <1>2. ASSUME NEW x \in Executions, x # e PROVE IsAudited(x)'
    <2>1. reservation'[x] = reservation[x] /\ IsAudited(x)
      BY <1>2 DEF AboutOnly, RewardsInv
    <2>2. ASSUME NEW t, NEW l, IsExplained(x, t, l) PROVE IsExplained(x, t, l)'
      BY <1>2, <2>1, <2>2, ExplainedStays DEF AboutOnly, IsEnd
    <2> QED
      BY <2>1, <2>2 DEF IsAudited
  <1> QED
    BY <1>1, <1>2 DEF RewardsInv

\* A request ends nothing and earns nothing.
LEMMA ReserveKeepsRewards ==
    ASSUME LedgerInv, RewardsInv, NEW e \in Executions, NEW v, NEW human,
           Reserve(e, v, human, PriceOf(human))
    PROVE  RewardsInv'
  <1>0. LotInv /\ ReservationInv
    BY DEF LedgerInv
  <1>1. PICK price : price = PriceOf(human)
    OBVIOUS
  <1>2. PICK S, acc, grant, reserve, r : Begins(e, v, human, price, S, acc, grant, reserve, r)
    BY <1>1, ReserveBegins
  <1>3. /\ reservation[e] = NoReservation /\ reservation' = [reservation EXCEPT ![e] = r]
        /\ journal' = journal \cup (IF HasAllowance(v) THEN {reserve} ELSE {grant, reserve})
        /\ lots' = IF HasAllowance(v) THEN lots ELSE Append(lots, Allowance(v, e))
        /\ r.status = "held"
    BY <1>2 DEF Begins
  <1>4. reserve.kind = "reserve" /\ grant.kind = "grant"
    BY <1>2, Zenon DEF Begins, Transaction
  <1>5. reservation'[e] = r /\ \A x \in Executions \ {e} : reservation'[x] = reservation[x]
    BY <1>0, <1>3 DEF ReservationInv
  <1>6. LotsStay
    BY <1>0, <1>3, AppendStays DEF LotsStay
  <1>7. \A k \in DOMAIN lots' \ DOMAIN lots : lots'[k].reference = "allowance"
    BY <1>0, <1>3, AppendedLots DEF Allowance
  <1>8. AboutOnly(e)
    BY <1>3, <1>4, <1>5, <1>6, <1>7 DEF AboutOnly, NoReservation
  <1>9. IsAudited(e)'
    BY <1>3, <1>5 DEF IsAudited
  <1> QED
    BY <1>7, <1>8, <1>9, RewardsStay

\* An end that is charged to a human execution pays the one who answered.
LEMMA FinalizeKeepsRewards ==
    ASSUME LedgerInv, RewardsInv, NEW e \in Executions, NEW charge \in Nat,
           charge <= reservation[e].amount, NEW performer \in Users, NEW usage,
           Finalize(e, charge, performer, usage)
    PROVE  RewardsInv'
  <1>0. LotInv /\ ReservationInv /\ TakenInv /\ JournalInv
    BY DEF LedgerInv
  <1>1. PICK r, r2, reward, settled, left, t, lot :
           Ends(e, charge, performer, usage, r, r2, reward, settled, left, t, lot)
    BY <1>0, FinalizeEnds DEF ReservationInv
  <1>2. /\ r = reservation[e] /\ r.status = "held" /\ reservation' = [reservation EXCEPT ![e] = r2]
        /\ journal' = journal \cup {t} /\ (reward > 0 => performer # r.owner)
        /\ reward = (IF r.human /\ charge > 0 THEN Reward(charge) ELSE 0)
        /\ lots' = IF reward > 0 THEN Append(lots, lot) ELSE lots
    BY <1>1 DEF Ends
  <1>3. GoodReservation(r)
    BY <1>0, <1>2 DEF ReservationInv, NoReservation
  <1>4. /\ r2.status = (IF charge > 0 THEN "settled" ELSE "released") /\ r2.settled = charge
        /\ r2.owner = r.owner /\ r2.human = r.human
    <2>1. r2 = [r EXCEPT !.status = IF charge > 0 THEN "settled" ELSE "released",
                         !.settled = charge, !.finalized = clock, !.usage = usage]
      BY <1>1 DEF Ends
    <2>2. r = [status |-> r.status, owner |-> r.owner, human |-> r.human, amount |-> r.amount,
               settled |-> r.settled, created |-> r.created, finalized |-> r.finalized,
               allocation |-> r.allocation, usage |-> r.usage]
      BY <1>3, Zenon DEF GoodReservation
    <2> QED
      BY <2>1, <2>2
  <1>5. reward \in Nat /\ (reward > 0 <=> r.human /\ charge > 0)
    BY <1>2, RewardIsPositive
  <1>6. PICK kind : kind = IF charge > 0 THEN "settle" ELSE "release"
    OBVIOUS
  <1>7. PICK lapsed \in Nat : IsFinal(t, kind, e, clock, r, charge, reward, performer, lapsed)
    <2>1. PICK D : D = DOMAIN r.allocation
      OBVIOUS
    <2>2. /\ IsFiniteSet(D) /\ left \in [D -> Nat] /\ SumFunction(left) = SumFunctionOnSet(left, D)
      <3>1. charge \in 0..r.amount
        BY <1>2, <1>3 DEF GoodReservation
      <3>2. /\ settled = Settle(r, charge)
            /\ left = [k \in DOMAIN settled |->
                          IF Lapsed(lots[k], clock) THEN r.allocation[k] - settled[k] ELSE 0]
        BY <1>1 DEF Ends
      <3> QED
        BY <1>0, <1>3, <2>1, <3>1, <3>2, SettlementIs
    <2>3. PICK lapsed \in Nat : lapsed = SumFunction(left)
      <3>1. \A k \in D : left[k] \in Nat
        BY <2>2
      <3>2. SumFunctionOnSet(left, D) \in Nat
        BY <2>2, <3>1, SumIsNatural
      <3> QED
        BY <2>2, <3>2
    <2>4. t = Transaction(kind, "execution", e, clock,
                          FinalPostings(r, charge, reward, performer, lapsed))
      BY <1>1, <1>6, <2>3 DEF Ends
    <2>5. r.owner \in Users /\ r.amount \in Nat
      BY <1>3 DEF GoodReservation
    <2>6. IsFinal(t, kind, e, clock, r, charge, reward, performer, lapsed)
      BY <1>5, <2>4, <2>5, FinalEntries
    <2> QED
      BY <2>6
  <1>8. t.kind = kind /\ t.reference = "execution" /\ t.of = e
    BY <1>7 DEF IsFinal
  <1>9. reservation'[e] = r2 /\ \A x \in Executions \ {e} : reservation'[x] = reservation[x]
    BY <1>0, <1>2 DEF ReservationInv
  <1>10. /\ lot.owner = performer /\ lot.amount = reward /\ lot.reference = "reward"
         /\ lot.origin = e /\ lot.expires = lot.issued + EarnedDuration
    BY <1>1 DEF Ends
  <1>11. LotsStay
    BY <1>0, <1>2, AppendStays DEF LotsStay
  <1>12. \A k \in DOMAIN lots' \ DOMAIN lots : lots'[k] = lot /\ reward > 0
    BY <1>0, <1>2, AppendedLots
  <1>13. AboutOnly(e)
    BY <1>2, <1>6, <1>8, <1>9, <1>10, <1>11, <1>12 DEF AboutOnly
  <1>14. \A k \in DOMAIN lots' \ DOMAIN lots : lots'[k].reference = "reward" => IsEarned(k)'
    <2> SUFFICES ASSUME NEW k \in DOMAIN lots' \ DOMAIN lots PROVE IsEarned(k)'
      OBVIOUS
    <2>1. lots'[k] = lot /\ r2.status = "settled"
      BY <1>4, <1>5, <1>12
    <2> QED
      BY <1>9, <1>10, <2>1 DEF IsEarned
  <1>15. ASSUME r.human, charge > 0 PROVE \E l : IsExplained(e, t, l)'
    <2>1. reward > 0 /\ reward = Reward(charge) /\ kind = "settle" /\ performer # r.owner
      BY <1>2, <1>5, <1>6, <1>15
    <2>2. PICK l : l = Len(lots) + 1
      OBVIOUS
    <2>3. l \in DOMAIN lots' /\ lots'[l] = lot
      BY <1>0, <1>2, <2>1, <2>2, AppendStays
    <2>4. \A k \in DOMAIN lots' : (lots'[k].reference = "reward" /\ lots'[k].origin = e) => k = l
      <3> SUFFICES ASSUME NEW k \in DOMAIN lots', lots'[k].reference = "reward", lots'[k].origin = e
                   PROVE  k = l
        OBVIOUS
      <3>1. k \notin DOMAIN lots
        BY <1>2, <1>11 DEF LotsStay, RewardsInv, IsEarned
      <3>2. lots \in Seq(Lots)
        BY <1>0 DEF LotInv
      <3>3. DOMAIN lots' = 1..(Len(lots) + 1) /\ DOMAIN lots = 1..Len(lots) /\ Len(lots) \in Nat
        BY <1>2, <2>1, <3>2
      <3> QED
        BY <2>2, <3>1, <3>3
    <2>5. \A x \in journal' : IsEnd(x, e) => x = t
      BY <1>0, <1>2 DEF IsEnd, JournalInv, IsPosted
    <2>6. Posting(t, performer) = reward /\ Posting(t, "revenue") = charge - reward
      <3>1. Entry(t, performer) = reward /\ Entry(t, "revenue") = charge - reward
        BY <1>7, <2>1, Facts DEF IsFinal
      <3> QED
        BY <3>1 DEF Entry, Posting
    <2> QED
      BY <1>2, <1>4, <1>8, <1>9, <1>10, <2>1, <2>3, <2>4, <2>5, <2>6 DEF IsExplained
  <1>16. IsAudited(e)'
    <2>1. reservation'[e].status = "released" => reservation'[e].settled = 0
      BY <1>4, <1>9
    <2>2. ASSUME reservation'[e].human, reservation'[e].status = "settled"
          PROVE  \E x, l : IsExplained(e, x, l)'
      BY <1>4, <1>9, <1>15, <2>2
    <2> QED
      BY <2>1, <2>2 DEF IsAudited
  <1> QED
    BY <1>13, <1>14, <1>16, RewardsStay

\* Nothing else ends an execution or earns a lot.
LEMMA OthersKeepRewards ==
    ASSUME LedgerInv, RewardsInv, reservation' = reservation, LotsStay, journal \subseteq journal',
           \A t \in journal' \ journal : t.kind \in {"grant", "expire"},
           \A l \in DOMAIN lots' \ DOMAIN lots : lots'[l].reference # "reward"
    PROVE  RewardsInv'
  <1>1. "sweep" \notin Executions
    BY Facts
  <1>2. AboutOnly("sweep")
    BY <1>1 DEF AboutOnly
  <1> QED
    BY <1>1, <1>2, RewardsStay

\* At first there is neither a reward nor an execution to explain.
LEMMA RewardsInit == Init => RewardsInv
  BY DEF Init, RewardsInv, IsAudited, NoReservation

\* One case per action.
LEMMA RewardsStep == LedgerInv /\ RewardsInv /\ [Next]_vars => RewardsInv'
  <1> SUFFICES ASSUME LedgerInv, RewardsInv, [Next]_vars PROVE RewardsInv'
    OBVIOUS
  <1>0. LotInv
    BY DEF LedgerInv
  <1>1. ASSUME Tick \/ UNCHANGED vars
        PROVE  RewardsInv'
    <2>1. lots' = lots /\ reservation' = reservation /\ journal' = journal
      BY <1>1 DEF Tick, vars
    <2> QED
      BY <2>1, OthersKeepRewards DEF LotsStay
  <1>2. ASSUME NEW key \in GrantKeys, NEW u \in Users, NEW term \in {1, Never}, Grant(key, u, term)
        PROVE  RewardsInv'
    <2>1. PICK t : t.kind = "grant" /\ journal' = journal \cup {t}
      BY <1>2 DEF Grant, Post, Transaction
    <2>2. PICK lot : lots' = Append(lots, lot) /\ lot.reference = "grant"
      BY <1>2 DEF Grant
    <2>3. LotsStay
      BY <1>0, <2>2, AppendStays DEF LotsStay
    <2>4. \A l \in DOMAIN lots' \ DOMAIN lots : lots'[l].reference # "reward"
      BY <1>0, <2>2, AppendedLots
    <2>5. reservation' = reservation
      BY <1>2 DEF Grant
    <2> QED
      BY <2>1, <2>3, <2>4, <2>5, OthersKeepRewards
  <1>3. ASSUME NEW e \in Executions, NEW u \in Users, NEW human \in BOOLEAN,
               Reserve(e, u, human, PriceOf(human))
        PROVE  RewardsInv'
    BY <1>3, ReserveKeepsRewards
  <1>4. ASSUME NEW e \in Executions, NEW charge \in Nat, NEW performer \in Users,
               NEW usage \in Usages \cup {NoUsage},
               charge <= reservation[e].amount, Finalize(e, charge, performer, usage)
        PROVE  RewardsInv'
    BY <1>4, FinalizeKeepsRewards
  <1>5. ASSUME NEW s \in Sweepers, CommitSweep(s)
        PROVE  RewardsInv'
    <2>1. journal \subseteq journal' /\ \A t \in journal' \ journal : t.kind = "expire"
      BY <1>5, CommitPosts
    <2>2. lots' = lots /\ reservation' = reservation
      BY <1>5 DEF CommitSweep
    <2> QED
      BY <2>1, <2>2, OthersKeepRewards DEF LotsStay
  <1>6. ASSUME NEW s \in Sweepers, BeginSweep(s) \/ SweepRefused(s)
        PROVE  RewardsInv'
    <2>1. lots' = lots /\ reservation' = reservation /\ journal' = journal
      BY <1>6 DEF BeginSweep, SweepRefused
    <2> QED
      BY <2>1, OthersKeepRewards DEF LotsStay
  <1>7. StepOfLedger
    BY StepIs
  <1> QED
    BY <1>1, <1>2, <1>3, <1>4, <1>5, <1>6, <1>7, Zenon DEF StepOfLedger

\* The end the audit finds for an execution is the only one, and the lot the one it earned.
LEMMA ExplainedEnds ==
    ASSUME NEW e, NEW t, NEW l, IsExplained(e, t, l)
    PROVE  TransactionOf(e, {"settle", "release"}) = t /\ IssuedBy(t) = {l}
  <1>1. TransactionOf(e, {"settle", "release"}) = t
    <2>1. \A x \in journal : (/\ x.reference = "execution" /\ x.of = e
                              /\ x.kind \in {"settle", "release"}) <=> x = t
      BY DEF IsExplained, IsEnd
    <2>2. t \in journal
      BY DEF IsExplained
    <2> QED
      BY <2>1, <2>2 DEF TransactionOf
  <1>2. IssuedBy(t) = {l}
    BY DEF IssuedBy, IsExplained
  <1> QED
    BY <1>1, <1>2

\* What the invariant explains, the audit does not report.
LEMMA NothingToReport == RewardsInv => AuditFindsNothing
  <1> SUFFICES ASSUME RewardsInv PROVE AuditIssues = {}
    BY DEF AuditFindsNothing
  <1>1. \A l \in EarnedLots : lots[l].expires = lots[l].issued + EarnedDuration
    BY DEF EarnedLots, RewardsInv, IsEarned
  <1>2. ASSUME NEW e \in Executions, reservation[e].human, reservation[e].status = "settled"
        PROVE  RewardIsExplained(e)
    <2>1. PICK t, l : IsExplained(e, t, l)
      BY <1>2 DEF RewardsInv, IsAudited
    <2>2. TransactionOf(e, {"settle", "release"}) = t /\ IssuedBy(t) = {l}
      BY <2>1, ExplainedEnds
    <2>3. Cardinality({l}) = 1
      BY FS_Singleton
    <2>4. lots[l].expires = lots[l].issued + EarnedDuration
      BY <2>1 DEF IsExplained, RewardsInv, IsEarned
    <2> QED
      BY <2>1, <2>2, <2>3, <2>4 DEF RewardIsExplained, IsExplained
  <1>3. \A e \in Executions : reservation[e].status = "released" => reservation[e].settled = 0
    BY DEF RewardsInv, IsAudited
  <1> QED
    BY <1>1, <1>2, <1>3 DEF AuditIssues

\* The audit has nothing to report of a ledger the program wrote: every earned lot lasts as
\* long as it should, and every paid answer has one end and one lot with its performer's
\* share (CreditAuditService.audit, _audit_reward).
THEOREM AuditFindsNothingHolds == Spec => []AuditFindsNothing
  <1>1. Init => RewardsInv
    BY RewardsInit
  <1>2. LedgerInv /\ RewardsInv /\ [Next]_vars => RewardsInv'
    BY RewardsStep
  <1>3. RewardsInv => AuditFindsNothing
    BY NothingToReport
  <1> QED
    BY <1>1, <1>2, <1>3, LedgerInvHolds, PTL DEF Spec

---------------------------------------------------------------------------
(* The database's own allocation *)

\* What is allocated of a lot when those spent before it were offered first: the window
\* function of the triggers, without what has none of it.
Before(ls, S, l) == {k \in S : SpentBefore(ls, k, l)}

ShareOf(l, amount, capacity, ls, S) ==
    AtLeast(AtMost(capacity[l], amount - SumFunctionOnSet(capacity, Before(ls, S, l))), 0)

IntegerTimes(ls, S) == \A l \in S : l \in Int /\ ls[l].expires \in Int /\ ls[l].issued \in Int

\* All others come before the one that is spent last.
LEMMA OthersComeBefore ==
    ASSUME NEW ls, NEW S, IsFiniteSet(S), IntegerTimes(ls, S), NEW s \in SUBSET S, s # {},
           NEW l, l = SpentLast(ls, s)
    PROVE  /\ l \in s /\ Before(ls, s, l) = s \ {l}
           /\ \A k \in s \ {l} : Before(ls, s, k) = Before(ls, s \ {l}, k)
  <1> USE DEF IntegerTimes
  <1>1. PICK B : B = {p \in S \X S : SpentBefore(ls, p[1], p[2])}
    OBVIOUS
  <1>2. \A k, n \in S : <<k, n>> \in B <=> SpentBefore(ls, k, n)
    BY <1>1
  <1>3. \A k, n \in S : k = n \/ SpentBefore(ls, k, n) \/ SpentBefore(ls, n, k)
    BY DEF SpentBefore
  <1>4. \A k, n, m \in S : SpentBefore(ls, k, n) /\ SpentBefore(ls, n, m) => SpentBefore(ls, k, m)
    BY DEF SpentBefore
  <1>5. \A k, n \in S : ~(SpentBefore(ls, k, n) /\ SpentBefore(ls, n, k))
    BY DEF SpentBefore
  <1>6. TotallyOrders(B, s)
    BY <1>2, <1>3, <1>4 DEF TotallyOrders
  <1>7. \E n \in s : \A k \in s \ {n} : <<k, n>> \in B
    <2>1. IsFiniteSet(s)
      BY FS_Subset
    <2> QED
      BY <1>6, <2>1, LastOne
  <1>8. \E n \in s : \A k \in s \ {n} : SpentBefore(ls, k, n)
    BY <1>2, <1>7
  <1>10. l \in s /\ \A k \in s \ {l} : SpentBefore(ls, k, l)
    BY <1>8, Zenon DEF SpentLast
  <1>11. Before(ls, s, l) = s \ {l}
    BY <1>5, <1>10 DEF Before
  <1>12. \A k \in s \ {l} : Before(ls, s, k) = Before(ls, s \ {l}, k)
    BY <1>5, <1>10 DEF Before
  <1> QED
    BY <1>10, <1>11, <1>12

\* One lot more, the last: the shares of the others are as they were.
LEMMA SharesOfOthers ==
    ASSUME NEW ls, NEW S, IsFiniteSet(S), IntegerTimes(ls, S), NEW s \in SUBSET S, s # {},
           NEW amount, NEW capacity, NEW l, l = SpentLast(ls, s)
    PROVE  \A k \in s \ {l} :
              ShareOf(k, amount, capacity, ls, s) = ShareOf(k, amount, capacity, ls, s \ {l})
  <1>1. \A k \in s \ {l} : Before(ls, s, k) = Before(ls, s \ {l}, k)
    BY OthersComeBefore
  <1> QED
    BY <1>1, Zenon DEF ShareOf

\* The share of the last one, and the rest after it.
LEMMA ShareOfLast ==
    ASSUME NEW ls, NEW S, IsFiniteSet(S), IntegerTimes(ls, S), NEW s \in SUBSET S, s # {},
           NEW amount \in Nat, NEW capacity, \A k \in S : capacity[k] \in Nat,
           NEW l, l = SpentLast(ls, s), NEW rest,
           rest = AtLeast(amount - SumFunctionOnSet(capacity, s \ {l}), 0),
           NEW n, n = IF rest <= capacity[l] THEN rest ELSE capacity[l]
    PROVE  /\ n = ShareOf(l, amount, capacity, ls, s) /\ n \in Nat /\ rest \in Nat
           /\ rest - n = AtLeast(amount - SumFunctionOnSet(capacity, s), 0)
  <1>1. l \in s /\ Before(ls, s, l) = s \ {l}
    BY OthersComeBefore
  <1>2. IsFiniteSet(s) /\ IsFiniteSet(s \ {l})
    BY FS_Subset
  <1>3. \A k \in s : capacity[k] \in Nat
    OBVIOUS
  <1>4. SumFunctionOnSet(capacity, s \ {l}) \in Nat
    BY <1>2, <1>3, SumIsNatural
  <1>5. SumFunctionOnSet(capacity, s) = capacity[l] + SumFunctionOnSet(capacity, s \ {l})
    BY <1>1, <1>2, <1>3, SumTakesOne DEF IntegersOn
  <1>6. PICK before \in Nat : before = SumFunctionOnSet(capacity, s \ {l})
    BY <1>4
  <1>7. PICK c \in Nat : c = capacity[l]
    BY <1>1
  <1>8. /\ n = AtLeast(AtMost(c, amount - before), 0) /\ n \in Nat
        /\ rest - n = AtLeast(amount - (before + c), 0)
    <2>1. rest = AtLeast(amount - before, 0) /\ n = IF rest <= c THEN rest ELSE c
      BY <1>6, <1>7
    <2> QED
      BY <1>6, <1>7, <2>1 DEF AtLeast, AtMost
  <1>9. SumFunctionOnSet(capacity, s) = before + c
    BY <1>5, <1>6, <1>7
  <1>10. rest \in Nat
    BY <1>6 DEF AtLeast
  <1> QED
    BY <1>1, <1>6, <1>7, <1>8, <1>9, <1>10, Zenon DEF ShareOf

\* Where the loop of a reservation is after the lots s: what is missing, and what was
\* allocated of each.
OfLot(l, from) == IF l \in DOMAIN from THEN from[l] ELSE 0

Allocating(acc, s, amount, capacity, ls) ==
    /\ acc.rest = AtLeast(amount - SumFunctionOnSet(capacity, s), 0)
    /\ DOMAIN acc.from \subseteq s
    /\ \A l \in s : OfLot(l, acc.from) = ShareOf(l, amount, capacity, ls, s)

\* The greedy allocation gives every lot the share the trigger computes for it.
LEMMA AllocateShares ==
    ASSUME NEW ls, NEW S, IsFiniteSet(S), IntegerTimes(ls, S), NEW amount \in Nat,
           NEW capacity \in [S -> Nat], \A l \in S : AvailableAt(ls[l], l, clock) = capacity[l]
    PROVE  Allocating(Allocate(ls, S, amount), S, amount, capacity, ls)
  <1>0. \A k \in S : capacity[k] \in Nat
    OBVIOUS
  <1>1. PICK h : Allocates(h, ls, S, amount, capacity)
    <2>1. \A s \in SUBSET S : s # {} => SpentLast(ls, s) \in s
      BY OthersComeBefore
    <2>2. capacity \in [S -> Int]
      OBVIOUS
    <2> QED
      BY <2>1, <2>2, AllocateFold, Zenon
  <1> DEFINE T == {s \in SUBSET S : Allocating(h[s], s, amount, capacity, ls)}
  <1>2. {} \in T
    <2>1. PICK acc : acc = h[{}]
      OBVIOUS
    <2>2. acc.rest = amount /\ DOMAIN acc.from = {}
      BY <1>1, <2>1 DEF Allocates
    <2>3. SumFunctionOnSet(capacity, {}) = 0
      BY SumOfNone
    <2>4. amount = AtLeast(amount - 0, 0)
      BY DEF AtLeast
    <2>5. Allocating(acc, {}, amount, capacity, ls)
      BY <2>2, <2>3, <2>4, Zenon DEF Allocating
    <2> QED
      BY <2>1, <2>5
  <1>3. PICK pick : pick = [s \in SUBSET S |-> SpentLast(ls, s)]
    OBVIOUS
  <1>4. ASSUME NEW s \in SUBSET S, s # {}, s \ {pick[s]} \in T
        PROVE  s \in T
    <2>1. PICK l : l = SpentLast(ls, s)
      OBVIOUS
    <2>2. l \in s /\ pick[s] = l
      BY <1>3, <1>4, <2>1, OthersComeBefore
    <2>3. PICK acc : acc = h[s \ {l}]
      OBVIOUS
    <2>4. Allocating(acc, s \ {l}, amount, capacity, ls)
      BY <1>4, <2>2, <2>3
    <2>5. PICK n : n = Min({acc.rest, capacity[l]})
      OBVIOUS
    <2>6. PICK rest : rest = acc.rest
      OBVIOUS
    <2>7. rest = AtLeast(amount - SumFunctionOnSet(capacity, s \ {l}), 0)
      BY <2>4, <2>6 DEF Allocating
    <2>8. rest \in Nat
      BY <1>0, <1>4, <2>1, <2>7, ShareOfLast
    <2>9. n = IF rest <= capacity[l] THEN rest ELSE capacity[l]
      BY <2>2, <2>5, <2>6, <2>8, LesserOfTwo
    <2>10. /\ n = ShareOf(l, amount, capacity, ls, s) /\ n \in Nat
           /\ rest - n = AtLeast(amount - SumFunctionOnSet(capacity, s), 0)
      BY <1>0, <1>4, <2>1, <2>7, <2>9, ShareOfLast
    <2>11. h[s] = IF n <= 0 THEN acc ELSE Took(acc, l, n)
      BY <1>1, <1>4, <2>1, <2>3, <2>5, Zenon DEF Allocates
    <2>12. \A k \in s \ {l} : OfLot(k, acc.from) = ShareOf(k, amount, capacity, ls, s)
      <3>1. \A k \in s \ {l} : OfLot(k, acc.from) = ShareOf(k, amount, capacity, ls, s \ {l})
        BY <2>4 DEF Allocating
      <3>2. \A k \in s \ {l} :
               ShareOf(k, amount, capacity, ls, s) = ShareOf(k, amount, capacity, ls, s \ {l})
        BY <1>4, <2>1, SharesOfOthers
      <3> QED
        BY <3>1, <3>2
    <2>13. DOMAIN acc.from \subseteq s \ {l}
      BY <2>4 DEF Allocating
    <2>14. CASE n <= 0
      <3>1. n = 0 /\ OfLot(l, acc.from) = 0
        BY <2>10, <2>13, <2>14 DEF OfLot
      <3>2. acc.rest = AtLeast(amount - SumFunctionOnSet(capacity, s), 0)
        BY <2>6, <2>8, <2>10, <3>1
      <3>3. \A k \in s : OfLot(k, acc.from) = ShareOf(k, amount, capacity, ls, s)
        BY <2>10, <2>12, <3>1
      <3>4. Allocating(acc, s, amount, capacity, ls)
        BY <2>13, <3>2, <3>3 DEF Allocating
      <3> QED
        BY <2>11, <2>14, <3>4
    <2>15. CASE ~(n <= 0)
      <3>1. PICK new : new = Took(acc, l, n)
        OBVIOUS
      <3>2. /\ new.rest = rest - n /\ DOMAIN new.from = DOMAIN acc.from \cup {l}
            /\ new.from[l] = n /\ \A k \in DOMAIN acc.from : k # l => new.from[k] = acc.from[k]
        BY <2>6, <3>1 DEF Took
      <3>3. OfLot(l, new.from) = n /\ \A k \in s \ {l} : OfLot(k, new.from) = OfLot(k, acc.from)
        BY <2>13, <3>2 DEF OfLot
      <3>4. \A k \in s : OfLot(k, new.from) = ShareOf(k, amount, capacity, ls, s)
        BY <2>10, <2>12, <3>3
      <3>5. DOMAIN new.from \subseteq s
        BY <2>2, <2>13, <3>2
      <3>6. Allocating(new, s, amount, capacity, ls)
        BY <2>10, <3>2, <3>4, <3>5 DEF Allocating
      <3> QED
        BY <2>11, <2>15, <3>1, <3>6
    <2> QED
      BY <2>14, <2>15
  <1>5. Picks(pick, S)
    BY <1>3, OthersComeBefore DEF Picks
  <1>6. S \in T
    <2> HIDE DEF T
    <2>1. Shrinks(T, S, pick)
      BY <1>2, <1>4, <1>5 DEF Shrinks
    <2> QED
      BY <2>1, PickInduction
  <1> QED
    BY <1>1, <1>6 DEF Allocates

\* Where the loop of a settlement is after the lots s.
Settling(acc, s, D, charge, allocation, ls) ==
    /\ acc.rest = AtLeast(charge - SumFunctionOnSet(allocation, s), 0)
    /\ acc.of \in [D -> Int] /\ \A l \in D \ s : acc.of[l] = 0
    /\ \A l \in s : acc.of[l] = ShareOf(l, charge, allocation, ls, s)

\* The charge takes of every allocation what the trigger computes for it.
LEMMA SettleShares ==
    ASSUME NEW r, NEW D, IsFiniteSet(D), D = DOMAIN r.allocation, NEW charge \in Nat,
           \A l \in D : r.allocation[l] \in Nat, IntegerTimes(lots, D)
    PROVE  \A l \in D : Settle(r, charge)[l] = ShareOf(l, charge, r.allocation, lots, D)
  <1>1. PICK h : Settles(h, r, D, charge)
    <2>1. \A l \in D : r.allocation[l] \in Int
      OBVIOUS
    <2>2. \A s \in SUBSET D : s # {} => SpentLast(lots, s) \in s
      BY OthersComeBefore
    <2> QED
      BY <2>1, <2>2, SettleFold, Zenon
  <1>2. PICK allocation : allocation = r.allocation
    OBVIOUS
  <1>3. PICK ls : ls = lots
    OBVIOUS
  <1>4. IntegerTimes(ls, D) /\ \A l \in D : allocation[l] \in Nat
    BY <1>2, <1>3
  <1> DEFINE T == {s \in SUBSET D : Settling(h[s], s, D, charge, allocation, ls)}
  <1>5. {} \in T
    <2>1. PICK acc : acc = h[{}]
      OBVIOUS
    <2>2. acc.rest = charge /\ acc.of \in [D -> Int] /\ \A l \in D : acc.of[l] = 0
      BY <1>1, <2>1 DEF Settles
    <2>3. SumFunctionOnSet(allocation, {}) = 0
      BY SumOfNone
    <2>4. charge = AtLeast(charge - 0, 0)
      BY DEF AtLeast
    <2>5. Settling(acc, {}, D, charge, allocation, ls)
      BY <2>2, <2>3, <2>4, Zenon DEF Settling
    <2> QED
      BY <2>1, <2>5
  <1>6. PICK pick : pick = [s \in SUBSET D |-> SpentLast(ls, s)]
    OBVIOUS
  <1>7. ASSUME NEW s \in SUBSET D, s # {}, s \ {pick[s]} \in T
        PROVE  s \in T
    <2>1. PICK l : l = SpentLast(ls, s)
      OBVIOUS
    <2>2. l \in s /\ pick[s] = l
      BY <1>4, <1>6, <1>7, <2>1, OthersComeBefore
    <2>3. PICK acc : acc = h[s \ {l}]
      OBVIOUS
    <2>4. Settling(acc, s \ {l}, D, charge, allocation, ls)
      BY <1>7, <2>2, <2>3
    <2>5. PICK n : n = Min({allocation[l], acc.rest})
      OBVIOUS
    <2>6. PICK rest : rest = acc.rest
      OBVIOUS
    <2>7. rest = AtLeast(charge - SumFunctionOnSet(allocation, s \ {l}), 0)
      BY <2>4, <2>6 DEF Settling
    <2>8. rest \in Nat
      BY <1>4, <1>7, <2>1, <2>7, ShareOfLast
    <2>9. n = IF rest <= allocation[l] THEN rest ELSE allocation[l]
      <3>1. allocation[l] \in Int /\ rest \in Int
        BY <1>4, <2>2, <2>8
      <3>2. n = IF allocation[l] <= rest THEN allocation[l] ELSE rest
        BY <2>5, <2>6, <3>1, LesserOfTwo
      <3> QED
        BY <3>1, <3>2
    <2>10. /\ n = ShareOf(l, charge, allocation, ls, s) /\ n \in Nat
           /\ rest - n = AtLeast(charge - SumFunctionOnSet(allocation, s), 0)
      BY <1>4, <1>7, <2>1, <2>7, <2>9, ShareOfLast
    <2>11. h[s] = Charged(acc, l, n)
      BY <1>1, <1>2, <1>3, <1>7, <2>1, <2>3, <2>5, Zenon DEF Settles
    <2>12. \A k \in s \ {l} : acc.of[k] = ShareOf(k, charge, allocation, ls, s)
      <3>1. \A k \in s \ {l} : acc.of[k] = ShareOf(k, charge, allocation, ls, s \ {l})
        BY <2>4 DEF Settling
      <3>2. \A k \in s \ {l} :
               ShareOf(k, charge, allocation, ls, s) = ShareOf(k, charge, allocation, ls, s \ {l})
        BY <1>4, <1>7, <2>1, SharesOfOthers
      <3> QED
        BY <3>1, <3>2
    <2>13. PICK new : new = Charged(acc, l, n)
      OBVIOUS
    <2>14. /\ new.rest = rest - n /\ new.of \in [D -> Int]
           /\ new.of[l] = n /\ \A k \in D \ {l} : new.of[k] = acc.of[k]
      BY <1>7, <2>2, <2>4, <2>6, <2>10, <2>13 DEF Charged, Settling
    <2>15. \A k \in s : new.of[k] = ShareOf(k, charge, allocation, ls, s)
      BY <1>7, <2>10, <2>12, <2>14
    <2>16. \A k \in D \ s : new.of[k] = 0
      BY <2>2, <2>4, <2>14 DEF Settling
    <2>17. Settling(new, s, D, charge, allocation, ls)
      BY <2>10, <2>14, <2>15, <2>16 DEF Settling
    <2> QED
      BY <2>11, <2>13, <2>17
  <1>8. Picks(pick, D)
    <2>1. \A s \in SUBSET D : s # {} => SpentLast(ls, s) \in s
      BY <1>4, OthersComeBefore
    <2> QED
      BY <1>6, <2>1 DEF Picks
  <1>9. D \in T
    <2> HIDE DEF T
    <2>1. Shrinks(T, D, pick)
      BY <1>5, <1>7, <1>8 DEF Shrinks
    <2> QED
      BY <2>1, PickInduction
  <1>10. PICK acc : acc = h[D]
    OBVIOUS
  <1>11. Settling(acc, D, D, charge, allocation, ls) /\ Settle(r, charge) = acc.of
    BY <1>1, <1>9, <1>10 DEF Settles
  <1>12. \A l \in D : acc.of[l] = ShareOf(l, charge, allocation, ls, D)
    BY <1>11 DEF Settling
  <1> QED
    BY <1>2, <1>3, <1>11, <1>12

---------------------------------------------------------------------------
(* What a transaction posts *)

HasPostings(t) == t.postings = [a \in DOMAIN t.postings |-> t.postings[a]]

\* A transaction posts amounts to accounts.
LEMMA TransactionPosts ==
    ASSUME NEW kind, NEW reference, NEW of, NEW at, NEW p, NEW t,
           t = Transaction(kind, reference, of, at, p)
    PROVE  HasPostings(t)
  <1>1. PICK q : q = [a \in {b \in DOMAIN p : p[b] # 0} |-> p[a]]
    OBVIOUS
  <1>2. t = [kind |-> kind, reference |-> reference, of |-> of, at |-> at, postings |-> q]
    BY <1>1 DEF Transaction
  <1> QED
    BY <1>1, <1>2 DEF HasPostings

\* When none of the postings is of nothing, it posts them all.
LEMMA PostsAll ==
    ASSUME NEW kind, NEW reference, NEW of, NEW at, NEW p, p = [a \in DOMAIN p |-> p[a]],
           \A a \in DOMAIN p : p[a] # 0, NEW t, t = Transaction(kind, reference, of, at, p)
    PROVE  t.postings = p
  <1>1. {b \in DOMAIN p : p[b] # 0} = DOMAIN p
    OBVIOUS
  <1>2. t = [kind |-> kind, reference |-> reference, of |-> of, at |-> at,
             postings |-> [a \in DOMAIN p |-> p[a]]]
    BY <1>1 DEF Transaction
  <1> QED
    BY <1>2

\* The program's balance and the trigger's are one.
LEMMA BalancedWhenPosted ==
    ASSUME NEW t, HasPostings(t), IsBalanced(t)
    PROVE  Balanced(t)
  <1>1. Total(LAMBDA a : t.postings[a], DOMAIN t.postings) = SumFunction(t.postings)
    BY Zenon DEF Total, HasPostings
  <1> QED
    BY <1>1 DEF Balanced, IsBalanced

IsProper(t) == Balanced(t) /\ Entry(t, "revenue") >= 0

\* What is computed of the end of an execution.
Ending(e, charge, performer, usage, r, r2, reward, D, settled, left, lapsed, t, lot) ==
    /\ Ends(e, charge, performer, usage, r, r2, reward, settled, left, t, lot)
    /\ GoodReservation(r) /\ charge \in 0..r.amount
    /\ reward \in 0..charge /\ (reward > 0 <=> r.human /\ charge > 0)
    /\ D = DOMAIN r.allocation /\ IsFiniteSet(D) /\ D \subseteq DOMAIN lots
    /\ settled \in [D -> Nat] /\ left \in [D -> Nat]
    /\ \A l \in D : settled[l] <= r.allocation[l]
    /\ \A l \in D : left[l] = IF lots[l].expires <= clock THEN r.allocation[l] - settled[l] ELSE 0
    /\ SumFunctionOnSet(settled, D) = charge
    /\ lapsed = SumFunctionOnSet(left, D) /\ lapsed \in Nat
    /\ IsFinal(t, IF charge > 0 THEN "settle" ELSE "release", e, clock, r, charge, reward,
               performer, lapsed)
    /\ reservation'[e] = r2 /\ \A x \in Executions \ {e} : reservation'[x] = reservation[x]
    /\ r2.status = (IF charge > 0 THEN "settled" ELSE "released") /\ r2.settled = charge
    /\ r2.finalized = clock /\ r2.usage = usage /\ r2.owner = r.owner /\ r2.human = r.human
    /\ r2.amount = r.amount /\ r2.created = r.created /\ r2.allocation = r.allocation

\* An end computes all of it.
LEMMA EndingIs ==
    ASSUME LedgerInv, NEW e \in Executions, NEW charge \in Nat, charge <= reservation[e].amount,
           NEW performer \in Users, NEW usage, Finalize(e, charge, performer, usage)
    PROVE  \E r, r2, reward, D, settled, left, lapsed, t, lot :
              Ending(e, charge, performer, usage, r, r2, reward, D, settled, left, lapsed, t, lot)
  <1>0. LotInv /\ ReservationInv
    BY DEF LedgerInv
  <1>1. PICK r, r2, reward, settled, left, t, lot :
           Ends(e, charge, performer, usage, r, r2, reward, settled, left, t, lot)
    BY <1>0, FinalizeEnds DEF ReservationInv
  <1>2. /\ r = reservation[e] /\ r.status = "held" /\ reservation' = [reservation EXCEPT ![e] = r2]
        /\ reward = (IF r.human /\ charge > 0 THEN Reward(charge) ELSE 0)
    BY <1>1 DEF Ends
  <1>3. GoodReservation(r)
    BY <1>0, <1>2 DEF ReservationInv, NoReservation
  <1>4. /\ r2.status = (IF charge > 0 THEN "settled" ELSE "released") /\ r2.settled = charge
        /\ r2.finalized = clock /\ r2.usage = usage /\ r2.owner = r.owner /\ r2.human = r.human
        /\ r2.amount = r.amount /\ r2.created = r.created /\ r2.allocation = r.allocation
    <2>1. r2 = [r EXCEPT !.status = IF charge > 0 THEN "settled" ELSE "released",
                         !.settled = charge, !.finalized = clock, !.usage = usage]
      BY <1>1 DEF Ends
    <2>2. r = [status |-> r.status, owner |-> r.owner, human |-> r.human, amount |-> r.amount,
               settled |-> r.settled, created |-> r.created, finalized |-> r.finalized,
               allocation |-> r.allocation, usage |-> r.usage]
      BY <1>3, Zenon DEF GoodReservation
    <2> QED
      BY <2>1, <2>2
  <1>5. reward \in 0..charge /\ (reward > 0 <=> r.human /\ charge > 0)
    <2>1. charge > 0 => Reward(charge) \in 1..charge
      BY DEF Reward
    <2> QED
      BY <1>2, <2>1
  <1>6. PICK D : D = DOMAIN r.allocation
    OBVIOUS
  <1>7. charge \in 0..r.amount
    BY <1>2, <1>3 DEF GoodReservation
  <1>8. /\ IsFiniteSet(D) /\ D \subseteq DOMAIN lots
        /\ settled \in [D -> Nat] /\ left \in [D -> Nat]
        /\ \A l \in D : settled[l] <= r.allocation[l]
        /\ \A l \in D : left[l] = IF lots[l].expires <= clock THEN r.allocation[l] - settled[l]
                                  ELSE 0
        /\ SumFunctionOnSet(settled, D) = charge
        /\ SumFunction(left) = SumFunctionOnSet(left, D)
    <2>1. /\ settled = Settle(r, charge)
          /\ left = [k \in DOMAIN settled |->
                        IF Lapsed(lots[k], clock) THEN r.allocation[k] - settled[k] ELSE 0]
      BY <1>1 DEF Ends
    <2> QED
      BY <1>0, <1>3, <1>6, <1>7, <2>1, SettlementIs
  <1>9. PICK lapsed \in Nat : lapsed = SumFunctionOnSet(left, D) /\ lapsed = SumFunction(left)
    <2>1. \A k \in D : left[k] \in Nat
      BY <1>8
    <2>2. SumFunctionOnSet(left, D) \in Nat
      BY <1>8, <2>1, SumIsNatural
    <2> QED
      BY <1>8, <2>2
  <1>10. PICK kind : kind = IF charge > 0 THEN "settle" ELSE "release"
    OBVIOUS
  <1>11. IsFinal(t, kind, e, clock, r, charge, reward, performer, lapsed)
    <2>1. t = Transaction(kind, "execution", e, clock,
                          FinalPostings(r, charge, reward, performer, lapsed))
      BY <1>1, <1>9, <1>10 DEF Ends
    <2>2. r.owner \in Users /\ r.amount \in Nat /\ reward \in Nat
      BY <1>3, <1>5 DEF GoodReservation
    <2> QED
      BY <2>1, <2>2, FinalEntries
  <1>12. reservation'[e] = r2 /\ \A x \in Executions \ {e} : reservation'[x] = reservation[x]
    BY <1>0, <1>2 DEF ReservationInv
  <1>13. Ending(e, charge, performer, usage, r, r2, reward, D, settled, left, lapsed, t, lot)
    BY <1>1, <1>3, <1>4, <1>5, <1>6, <1>7, <1>8, <1>9, <1>10, <1>11, <1>12, Zenon DEF Ending
  <1> QED
    BY <1>13

\* Every transaction is balanced, and none takes back what the platform earned.
LEMMA NewAreProper ==
    ASSUME LedgerInv, [Next]_vars
    PROVE  \A t \in journal' \ journal : IsProper(t)
  <1>0. LotInv /\ ReservationInv /\ TakenInv
    BY DEF LedgerInv
  <1>1. ASSUME Tick \/ UNCHANGED vars
        PROVE  \A t \in journal' \ journal : IsProper(t)
    BY <1>1 DEF Tick, vars
  <1>2. ASSUME NEW key \in GrantKeys, NEW u \in Users, NEW term \in {1, Never}, Grant(key, u, term)
        PROVE  \A t \in journal' \ journal : IsProper(t)
    <2>1. PICK p : p = [a \in {"issuance", u} |-> IF a = u THEN GrantAmount ELSE -GrantAmount]
      OBVIOUS
    <2>2. PICK t : t = Transaction("grant", "grant", key, clock, p)
      OBVIOUS
    <2>3. IsBalanced(t) /\ journal' = journal \cup {t}
      BY <1>2, <2>1, <2>2, Zenon DEF Grant, Post
    <2>4. HasPostings(t)
      BY <2>2, TransactionPosts
    <2>5. "revenue" \notin DOMAIN p
      BY <2>1, Facts
    <2>6. Entry(t, "revenue") = 0
      BY <2>2, <2>5, TransactionIs
    <2>7. IsProper(t)
      BY <2>3, <2>4, <2>6, BalancedWhenPosted DEF IsProper
    <2> QED
      BY <2>3, <2>7
  <1>3. ASSUME NEW e \in Executions, NEW u \in Users, NEW human \in BOOLEAN,
               Reserve(e, u, human, PriceOf(human))
        PROVE  \A t \in journal' \ journal : IsProper(t)
    <2>0. PICK price : price = PriceOf(human)
      OBVIOUS
    <2>1. PICK p : p = [a \in {"issuance", u} |-> IF a = u THEN AllowanceAmount ELSE -AllowanceAmount]
      OBVIOUS
    <2>2. PICK q : q = [a \in {u, "reserve"} |-> IF a = u THEN -price ELSE price]
      OBVIOUS
    <2>3. PICK grant : grant = Transaction("grant", "allowance", e, clock, p)
      OBVIOUS
    <2>4. PICK reserve : reserve = Transaction("reserve", "execution", e, clock, q)
      OBVIOUS
    <2>5. Post(IF HasAllowance(u) THEN {reserve} ELSE {grant, reserve})
      BY <1>3, <2>0, <2>1, <2>2, <2>3, <2>4, Zenon DEF Reserve
    <2>6. \A t \in journal' \ journal : IsBalanced(t) /\ (t = grant \/ t = reserve)
      BY <2>5 DEF Post
    <2>7. HasPostings(grant) /\ HasPostings(reserve)
      BY <2>3, <2>4, TransactionPosts
    <2>8. "revenue" \notin DOMAIN p /\ "revenue" \notin DOMAIN q
      BY <2>1, <2>2, Facts
    <2>9. Entry(grant, "revenue") = 0 /\ Entry(reserve, "revenue") = 0
      BY <2>3, <2>4, <2>8, TransactionIs
    <2> QED
      BY <2>6, <2>7, <2>9, BalancedWhenPosted DEF IsProper
  <1>4. ASSUME NEW e \in Executions, NEW charge \in Nat, NEW performer \in Users,
               NEW usage \in Usages \cup {NoUsage},
               charge <= reservation[e].amount, Finalize(e, charge, performer, usage)
        PROVE  \A t \in journal' \ journal : IsProper(t)
    <2>1. PICK r, r2, reward, D, settled, left, lapsed, t, lot :
             Ending(e, charge, performer, usage, r, r2, reward, D, settled, left, lapsed, t, lot)
      BY <1>4, EndingIs
    <2>2. Ends(e, charge, performer, usage, r, r2, reward, settled, left, t, lot)
      BY <2>1 DEF Ending
    <2>3. PICK p : p = FinalPostings(r, charge, reward, performer, SumFunction(left))
      OBVIOUS
    <2>4. t = Transaction(IF charge > 0 THEN "settle" ELSE "release", "execution", e, clock, p)
      BY <2>2, <2>3, Zenon DEF Ends
    <2>5. HasPostings(t)
      BY <2>4, TransactionPosts
    <2>6. journal' = journal \cup {t}
      BY <2>2 DEF Ends
    <2>7. Entry(t, "revenue") = charge - reward /\ reward \in 0..charge
      BY <2>1 DEF Ending, IsFinal
    <2>8. IsBalanced(t)
      <3>1. PICK E : (\A x \in E : IsBalanced(x)) /\ journal' = journal \cup E /\ t \in E
        <4>1. /\ r = reservation[e]
              /\ reward = (IF r.human /\ charge > 0 THEN Reward(charge) ELSE 0)
              /\ settled = Settle(r, charge)
              /\ left = [l \in DOMAIN settled |->
                            IF Lapsed(lots[l], clock) THEN r.allocation[l] - settled[l] ELSE 0]
          BY <2>2 DEF Ends
        <4>2. Post({t})
          BY <1>4, <2>3, <2>4, <4>1, ZenonT(60) DEF Finalize
        <4> QED
          BY <4>2 DEF Post
      <3> QED
        BY <3>1
    <2>9. IsProper(t)
      BY <2>5, <2>7, <2>8, BalancedWhenPosted DEF IsProper
    <2> QED
      BY <2>6, <2>9
  <1>5. ASSUME NEW s \in Sweepers, CommitSweep(s)
        PROVE  \A t \in journal' \ journal : IsProper(t)
    <2>1. PICK p : p = [l \in Due(s) |->
                         [a \in {"expired", lots[l].owner} |->
                             IF a = "expired" THEN AvailableAt(lots[l], l, sweep[s].now)
                             ELSE -AvailableAt(lots[l], l, sweep[s].now)]]
      OBVIOUS
    <2>2. PICK T : T = {Transaction("expire", "lot", l, sweep[s].now, p[l]) : l \in Due(s)}
      OBVIOUS
    <2>3. (\A t \in T : IsBalanced(t)) /\ journal' = journal \cup T
      <3>1. T = {Transaction("expire", "lot", l, sweep[s].now,
                   [a \in {"expired", lots[l].owner} |->
                       IF a = "expired" THEN AvailableAt(lots[l], l, sweep[s].now)
                       ELSE -AvailableAt(lots[l], l, sweep[s].now)]) : l \in Due(s)}
        BY <2>1, <2>2
      <3>2. Post(T)
        BY <1>5, <3>1, Zenon DEF CommitSweep
      <3> QED
        BY <3>2 DEF Post
    <2>4. ASSUME NEW t \in T PROVE IsProper(t)
      <3>1. PICK l \in Due(s) : t = Transaction("expire", "lot", l, sweep[s].now, p[l])
        BY <2>2
      <3>2. lots[l].owner \in Users
        <4>1. l \in DOMAIN lots
          BY <1>5 DEF Due, LedgerInv, SweepInv, IsSweep, CommitSweep
        <4> QED
          BY <1>0, <4>1, LotsAre
      <3>3. "revenue" \notin DOMAIN p[l]
        BY <2>1, <3>2, Facts
      <3>4. Entry(t, "revenue") = 0 /\ HasPostings(t)
        BY <3>1, <3>3, TransactionIs, TransactionPosts
      <3> QED
        BY <2>3, <3>4, BalancedWhenPosted DEF IsProper
    <2> QED
      BY <2>3, <2>4
  <1>6. ASSUME NEW s \in Sweepers, BeginSweep(s) \/ SweepRefused(s)
        PROVE  \A t \in journal' \ journal : IsProper(t)
    BY <1>6 DEF BeginSweep, SweepRefused
  <1>7. StepOfLedger
    BY StepIs
  <1> QED
    BY <1>1, <1>2, <1>3, <1>4, <1>5, <1>6, <1>7, Zenon DEF StepOfLedger

\* What the platform earned it keeps.
RevenueInv == \A t \in journal : Entry(t, "revenue") >= 0

\* At first it earned nothing.
LEMMA RevenueInit == Init => RevenueInv
  BY DEF Init, RevenueInv

\* And no step takes any of it.
LEMMA RevenueStep == LedgerInv /\ RevenueInv /\ [Next]_vars => RevenueInv'
  <1> SUFFICES ASSUME LedgerInv, RevenueInv, [Next]_vars PROVE RevenueInv'
    OBVIOUS
  <1>1. \A t \in journal' \ journal : Entry(t, "revenue") >= 0
    BY NewAreProper DEF IsProper
  <1> QED
    BY <1>1 DEF RevenueInv

\* No account but the issuance is overdrawn.
NothingOwed == \A a \in Accounts \ {"issuance"} : Balance(a) >= 0

\* A sum of what is not negative is not.
LEMMA SumIsNotNegative ==
    ASSUME NEW S, IsFiniteSet(S), NEW f, DOMAIN f = S, \A x \in S : f[x] \in Nat
    PROVE  SumFunction(f) >= 0
  <1>1. SumFunctionOnSet(f, S) \in Nat
    BY SumIsNatural
  <1>2. SumFunction(f) = SumFunctionOnSet(f, S)
    BY SumFunctionIs
  <1> QED
    BY <1>1, <1>2

\* A wallet is what is left of its lots, the reserve what is held, and what expired or was
\* charged was taken from lots.
LEMMA BalancesHold == LedgerInv /\ HistoryInv /\ RevenueInv => NothingOwed
  <1> SUFFICES ASSUME LedgerInv, HistoryInv, RevenueInv, NEW a \in Accounts, a # "issuance"
               PROVE  Balance(a) >= 0
    BY DEF NothingOwed
  <1>0. LotInv /\ ReservationInv /\ TakenInv /\ JournalInv
    BY DEF LedgerInv
  <1>1. CASE a \in Users
    <2>1. PICK M : M = {l \in DOMAIN lots : lots[l].owner = a}
      OBVIOUS
    <2>2. Balance(a) = SumFunction([l \in M |-> Open(l)])
      BY <1>1, <2>1, WalletsAgree
    <2>3. IsFiniteSet(M) /\ M \subseteq DOMAIN lots
      BY <1>0, <2>1, LotsAre, FS_Subset
    <2>4. ASSUME NEW l \in M PROVE Open(l) \in Nat
      <3>1. clock \in lots[l].issued..clock
        BY <1>0, <2>3, LotsAre
      <3>2. Left(l, clock) >= 0 /\ Left(l, clock) \in Int
        BY <2>3, <3>1, LeftIsNow DEF HistoryInv, NothingOverdrawn, LeftIsInteger
      <3> QED
        BY <3>2 DEF Left, Open
    <2>5. PICK f : f = [l \in M |-> Open(l)]
      OBVIOUS
    <2>6. SumFunction(f) >= 0
      BY <2>3, <2>4, <2>5, SumIsNotNegative
    <2> QED
      BY <2>2, <2>5, <2>6
  <1>2. CASE a = "reserve"
    <2>1. PICK f : f = [e \in Executions |->
                          IF reservation[e].status = "held" THEN reservation[e].amount ELSE 0]
      OBVIOUS
    <2>2. Balance(a) = SumFunction(f)
      BY <1>2, <2>1, ReserveAgrees
    <2>3. \A e \in Executions : f[e] \in Nat
      BY <1>0, <2>1 DEF ReservationInv, NoReservation, GoodReservation
    <2>4. SumFunction(f) >= 0
      BY <2>1, <2>3, Facts, SumIsNotNegative
    <2> QED
      BY <2>2, <2>4
  <1>3. CASE a = "expired"
    <2>1. PICK C : C = {c \in taken : c.kind = "expire"}
      OBVIOUS
    <2>2. PICK f : f = [c \in C |-> c.amount]
      OBVIOUS
    <2>3. Balance("expired") = SumFunction(f)
      <3>1. Balance("expired") = Total(LAMBDA c : c.amount, {c \in taken : c.kind = "expire"})
        BY LedgerBalances DEF BooksAgree
      <3> QED
        BY <2>1, <2>2, <3>1, Zenon DEF Total
    <2>4. IsFiniteSet(C) /\ \A c \in C : c.amount \in Nat
      BY <1>0, <2>1, FS_Subset DEF TakenInv, IsConsumed, Consumptions
    <2>5. SumFunction(f) >= 0
      BY <2>2, <2>4, SumIsNotNegative
    <2> QED
      BY <1>3, <2>3, <2>5
  <1>4. CASE a = "revenue"
    <2>1. PICK f : f = [t \in journal |-> Entry(t, a)]
      OBVIOUS
    <2>2. Balance(a) = SumFunctionOnSet(f, journal)
      BY <2>1, BalanceIs DEF Posted
    <2>3. \A t \in journal : Entry(t, a) \in Int
      BY <1>0, TermsAreIntegers
    <2>4. \A t \in journal : f[t] \in Nat
      BY <1>4, <2>1, <2>3 DEF RevenueInv
    <2>5. SumFunctionOnSet(f, journal) \in Nat
      BY <1>0, <2>4, SumIsNatural DEF JournalInv
    <2> QED
      BY <2>2, <2>5
  <1> QED
    BY <1>1, <1>2, <1>3, <1>4 DEF Accounts

\* So it is after a step.
LEMMA BalancesHoldNext == LedgerInv' /\ HistoryInv' /\ RevenueInv' => NothingOwed'
  BY BalancesHold, PTL

\* The triggers for the accounts accept every transaction.
LEMMA PostingsAccepted ==
    ASSUME LedgerInv, LedgerInv', HistoryInv', RevenueInv', [Next]_vars,
           NEW t \in journal' \ journal
    PROVE  Balanced(t) /\ Nonnegative(t)'
  <1>1. Balanced(t)
    BY NewAreProper DEF IsProper
  <1>2. IsTransaction(t)'
    <2>1. JournalInv'
      BY DEF LedgerInv
    <2> QED
      BY <2>1 DEF JournalInv, IsPosted
  <1>3. DOMAIN t.postings \subseteq Accounts
    BY <1>2 DEF IsTransaction
  <1>4. \A a \in Accounts \ {"issuance"} : Balance(a)' >= 0
    BY BalancesHoldNext DEF NothingOwed
  <1> QED
    BY <1>1, <1>3, <1>4 DEF Nonnegative

---------------------------------------------------------------------------
(* Lots *)

LotsConserved == \A l \in DOMAIN lots : LotConserved(l)

\* What reservations hold of a lot is what they hold now.
LEMMA HoldingIs ==
    ASSUME LedgerInv, NEW l
    PROVE  {e \in Executions : reservation[e].status = "held" /\ l \in DOMAIN reservation[e].allocation}
             = {e \in Executions : Holds(e, l, clock)}
  <1> SUFFICES ASSUME NEW e \in Executions, l \in DOMAIN reservation[e].allocation
               PROVE  reservation[e].status = "held"
                        <=> reservation[e].created <= clock /\ clock < reservation[e].finalized
    BY DEF Holds
  <1>1. GoodReservation(reservation[e])
    BY DEF LedgerInv, ReservationInv, NoReservation
  <1>2. clock \in Nat /\ clock <= MaxTime /\ MaxTime \in Nat /\ Never \in Nat /\ MaxTime < Never
    BY LotsAre, Facts DEF LedgerInv
  <1> QED
    BY <1>1, <1>2 DEF GoodReservation

\* Of no lot more is taken and held than there was.
LEMMA ConservedNow == LedgerInv /\ HistoryInv => LotsConserved
  <1> SUFFICES ASSUME LedgerInv, HistoryInv, NEW l \in DOMAIN lots PROVE LotConserved(l)
    BY DEF LotsConserved
  <1>0. LotInv /\ ReservationInv /\ TakenInv
    BY DEF LedgerInv
  <1>1. PICK used : used = Total(LAMBDA c : c.amount, {c \in taken : c.lot = l})
    OBVIOUS
  <1>2. PICK held : held = Total(LAMBDA e : reservation[e].allocation[l],
                                 {e \in Executions : /\ reservation[e].status = "held"
                                                     /\ l \in DOMAIN reservation[e].allocation})
    OBVIOUS
  <1>3. used = UsedAt(l, clock)
    <2>1. {c \in taken : c.lot = l} = {c \in taken : c.lot = l /\ c.at <= clock}
      BY <1>0 DEF TakenInv, IsConsumed
    <2> QED
      BY <1>1, <2>1, Zenon DEF UsedAt
  <1>4. held = HeldAt(l, clock)
    BY <1>2, HoldingIs, Zenon DEF HeldAt
  <1>5. used \in Nat /\ held \in Nat /\ lots[l].amount \in Nat
    BY <1>0, <1>3, <1>4, UseIsInteger, LotsAre
  <1>6. Left(l, clock) >= 0
    BY <1>0, LotsAre DEF HistoryInv, NothingOverdrawn
  <1>7. used + held <= lots[l].amount
    BY <1>3, <1>4, <1>5, <1>6 DEF Left, AvailableAt
  <1> QED
    BY <1>1, <1>2, <1>7, Zenon DEF LotConserved

\* So it is after a step.
LEMMA ConservedNext == LedgerInv' /\ HistoryInv' => LotsConserved'
  BY ConservedNow, PTL

\* The triggers for the lots accept whatever was taken or reserved.
LEMMA LotsAccepted ==
    ASSUME LedgerInv', HistoryInv'
    PROVE  /\ \A c \in taken' : LotConserved(c.lot)'
           /\ \A e \in Executions : \A l \in DOMAIN reservation'[e].allocation : LotConserved(l)'
  <1>1. \A l \in DOMAIN lots' : LotConserved(l)'
    BY ConservedNext DEF LotsConserved
  <1>2. \A c \in taken' : c.lot \in DOMAIN lots'
    BY DEF LedgerInv, TakenInv, IsConsumed, Consumptions
  <1>3. ASSUME NEW e \in Executions, NEW l \in DOMAIN reservation'[e].allocation
        PROVE  l \in DOMAIN lots'
    <2>1. ReservationInv'
      BY DEF LedgerInv
    <2>2. reservation'[e] # NoReservation
      BY <1>3 DEF NoReservation
    <2>3. GoodReservation(reservation[e])'
      BY <2>1, <2>2 DEF ReservationInv, NoReservation
    <2> QED
      BY <1>3, <2>3 DEF GoodReservation
  <1> QED
    BY <1>1, <1>2, <1>3

---------------------------------------------------------------------------
(* A new reservation *)

UsableBy(e) ==
    {l \in DOMAIN lots : /\ lots[l].owner = reservation[e].owner
                         /\ Current(lots[l], reservation[e].created)}

\* What has to be known of a reservation for the trigger to accept its allocation.
AllocatedWhen(e, S, capacity, t) ==
    /\ S = UsableBy(e) /\ IsFiniteSet(S)
    /\ \A l \in S : capacity[l] \in Nat /\ capacity[l] = Capacity(e, l)
    /\ \A l \in S : OfLot(l, reservation[e].allocation)
                      = ShareOf(l, reservation[e].amount, capacity, lots, S)
    /\ DOMAIN reservation[e].allocation \subseteq S
    /\ \A l \in DOMAIN reservation[e].allocation : reservation[e].allocation[l] \in Nat
    /\ SumFunctionOnSet(reservation[e].allocation, DOMAIN reservation[e].allocation)
         = reservation[e].amount
    /\ t = TransactionOf(e, {"reserve"}) /\ t.at = reservation[e].created
    /\ t.postings = [a \in {"reserve", reservation[e].owner} |->
                        IF a = "reserve" THEN reservation[e].amount ELSE -reservation[e].amount]

AllocatedRule == \A e, S, capacity, t : AllocatedWhen(e, S, capacity, t) => Allocated(e)

\* The sum over a function that shows what another does.
LEMMA SumMatches ==
    ASSUME NEW S, IsFiniteSet(S), NEW g, IntegersOn(g, S), NEW f, DOMAIN f = S,
           \A x \in S : f[x] = g[x]
    PROVE  SumFunction(f) = SumFunctionOnSet(g, S)
  <1>1. SumFunctionOnSet(f, S) = SumFunctionOnSet(g, S)
    BY SumOfSame
  <1>2. SumFunction(f) = SumFunctionOnSet(f, S)
    BY SumFunctionIs
  <1> QED
    BY <1>1, <1>2

\* The trigger computes what the loop of the program does.
LEMMA AllocatedNow == AllocatedRule
  <1> SUFFICES ASSUME NEW e, NEW S, NEW capacity, NEW t, AllocatedWhen(e, S, capacity, t)
               PROVE  Allocated(e)
    BY DEF AllocatedRule
  <1>1. PICK r : r = reservation[e]
    OBVIOUS
  <1>2. /\ IsFiniteSet(S) /\ S = {l \in DOMAIN lots : /\ lots[l].owner = r.owner
                                                      /\ lots[l].issued <= r.created
                                                      /\ r.created < lots[l].expires}
    BY <1>1 DEF AllocatedWhen, UsableBy, Current
  <1>3. /\ DOMAIN r.allocation \subseteq S /\ t.at = r.created /\ t = TransactionOf(e, {"reserve"})
        /\ t.postings = [a \in {"reserve", r.owner} |-> IF a = "reserve" THEN r.amount ELSE -r.amount]
        /\ \A l \in DOMAIN r.allocation : r.allocation[l] \in Nat
        /\ SumFunctionOnSet(r.allocation, DOMAIN r.allocation) = r.amount
        /\ \A l \in S : OfLot(l, r.allocation) = ShareOf(l, r.amount, capacity, lots, S)
        /\ \A l \in S : capacity[l] \in Nat /\ capacity[l] = Capacity(e, l)
    BY <1>1 DEF AllocatedWhen
  <1>4. Total(LAMBDA l : r.allocation[l], DOMAIN r.allocation) = r.amount
    <2>1. PICK A : A = DOMAIN r.allocation
      OBVIOUS
    <2>2. PICK f : f = [l \in A |-> r.allocation[l]]
      OBVIOUS
    <2>3. IsFiniteSet(A) /\ IntegersOn(r.allocation, A)
      BY <1>2, <1>3, <2>1, FS_Subset DEF IntegersOn
    <2>4. DOMAIN f = A /\ \A x \in A : f[x] = r.allocation[x]
      BY <2>2
    <2>5. SumFunction(f) = SumFunctionOnSet(r.allocation, A)
      BY <2>3, <2>4, SumMatches, Zenon
    <2> QED
      BY <1>3, <2>1, <2>2, <2>5, Zenon DEF Total
  <1>5. ASSUME NEW l \in S
        PROVE  AtLeast(AtMost(Capacity(e, l),
                              r.amount - Total(LAMBDA k : Capacity(e, k), Preceding(S, l))), 0)
                 = IF l \in DOMAIN r.allocation THEN r.allocation[l] ELSE 0
    <2>1. PICK P : P = Preceding(S, l)
      OBVIOUS
    <2>2. P = Before(lots, S, l)
      BY <2>1, Zenon DEF Preceding, Before, SpentBefore
    <2>3. PICK f : f = [k \in P |-> Capacity(e, k)]
      OBVIOUS
    <2>4. P \subseteq S
      BY <2>1 DEF Preceding
    <2>5. IsFiniteSet(P) /\ IntegersOn(capacity, P)
      BY <1>2, <1>3, <2>4, FS_Subset DEF IntegersOn
    <2>6. DOMAIN f = P /\ \A k \in P : f[k] = capacity[k]
      BY <1>3, <2>3, <2>4
    <2>7. SumFunction(f) = SumFunctionOnSet(capacity, P)
      BY <2>5, <2>6, SumMatches, Zenon
    <2>8. Total(LAMBDA k : Capacity(e, k), Preceding(S, l)) = SumFunctionOnSet(capacity, Before(lots, S, l))
      BY <2>1, <2>2, <2>3, <2>7, Zenon DEF Total
    <2>9. OfLot(l, r.allocation) = ShareOf(l, r.amount, capacity, lots, S) /\ capacity[l] = Capacity(e, l)
      BY <1>3, <1>5
    <2> QED
      BY <2>8, <2>9, Zenon DEF ShareOf, OfLot
  <1> DEFINE held == reservation[e]
             usable == {l \in DOMAIN lots : /\ lots[l].owner = held.owner
                                            /\ lots[l].issued <= held.created
                                            /\ held.created < lots[l].expires}
  <1>6. held = r /\ usable = S
    BY <1>1, <1>2
  <1> HIDE DEF held, usable
  <1>7. /\ DOMAIN held.allocation \subseteq usable
        /\ Total(LAMBDA l : held.allocation[l], DOMAIN held.allocation) = held.amount
        /\ TransactionOf(e, {"reserve"}).at = held.created
        /\ TransactionOf(e, {"reserve"}).postings
             = [a \in {"reserve", held.owner} |-> IF a = "reserve" THEN held.amount ELSE -held.amount]
    BY <1>3, <1>4, <1>6
  <1>8. \A l \in usable :
           AtLeast(AtMost(Capacity(e, l),
                          held.amount - Total(LAMBDA k : Capacity(e, k), Preceding(usable, l))), 0)
             = IF l \in DOMAIN held.allocation THEN held.allocation[l] ELSE 0
    BY <1>5, <1>6
  <1> QED
    BY <1>7, <1>8, Zenon DEF Allocated, held, usable

\* So it is after a step.
LEMMA AllocatedNext == AllocatedRule'
  BY AllocatedNow, PTL

\* What a request finds available of a lot: nothing was used or held of a new one.
LEMMA AvailableToRequest ==
    ASSUME LedgerInv, HistoryInv, NEW e, NEW u, NEW human, NEW price, NEW S, NEW acc, NEW grant,
           NEW reserve, NEW r, Begins(e, u, human, price, S, acc, grant, reserve, r), NEW l \in S
    PROVE  AvailableAt(lots'[l], l, clock) \in Nat /\ l \in DOMAIN lots'
  <1>0. LotInv
    BY DEF LedgerInv
  <1>1. /\ l \in DOMAIN lots'
        /\ lots' = IF HasAllowance(u) THEN lots ELSE Append(lots, Allowance(u, e))
    BY DEF Begins
  <1>2. \/ l \in DOMAIN lots /\ lots'[l] = lots[l]
        \/ l \notin DOMAIN lots /\ lots'[l] = Allowance(u, e)
    BY <1>0, <1>1, AppendedLots
  <1>3. CASE l \in DOMAIN lots /\ lots'[l] = lots[l]
    <2>1. clock \in lots[l].issued..clock
      BY <1>0, <1>3, LotsAre
    <2>2. Left(l, clock) \in Nat
      BY <1>3, <2>1, LeftIsNow DEF HistoryInv, NothingOverdrawn, LeftIsInteger
    <2> QED
      BY <1>1, <1>3, <2>2 DEF Left
  <1>4. CASE l \notin DOMAIN lots /\ lots'[l] = Allowance(u, e)
    <2>1. UsedAt(l, clock) = 0 /\ HeldAt(l, clock) = 0
      BY <1>4, NothingOfOthers
    <2>2. lots'[l].amount = AllowanceAmount
      BY <1>4 DEF Allowance
    <2> QED
      BY <1>1, <2>1, <2>2, Facts DEF AvailableAt
  <1> QED
    BY <1>2, <1>3, <1>4

\* The trigger's capacity of a lot is what the program found available.
LEMMA CapacityIs ==
    ASSUME LedgerInv, NEW e \in Executions, reservation[e] = NoReservation,
           reservation'[e].created = clock, taken' = taken,
           \A x \in Executions \ {e} : reservation'[x] = reservation[x],
           NEW l, AvailableAt(lots'[l], l, clock) \in Nat
    PROVE  Capacity(e, l)' = AvailableAt(lots'[l], l, clock)
  <1>0. ReservationInv /\ clock \in Nat
    BY LotsAre DEF LedgerInv
  <1>1. PICK E : E = {f \in Executions : Holds(f, l, clock)}
    OBVIOUS
  <1>2. E = {f \in Executions \ {e} : /\ l \in DOMAIN reservation'[f].allocation
                                      /\ reservation'[f].created <= clock
                                      /\ reservation'[f].finalized > clock}
    <2>1. ~Holds(e, l, clock)
      BY DEF Holds, NoReservation
    <2>2. \A f \in Executions : reservation[f].finalized \in Int
      BY <1>0, Facts DEF ReservationInv, NoReservation, GoodReservation
    <2> QED
      BY <1>0, <1>1, <2>1, <2>2 DEF Holds
  <1>3. [f \in E |-> reservation'[f].allocation[l]] = [f \in E |-> reservation[f].allocation[l]]
    BY <1>2
  <1>4. HeldAt(l, clock) = SumFunction([f \in E |-> reservation[f].allocation[l]])
    BY <1>1, Zenon DEF HeldAt, Total
  <1>5. Capacity(e, l)' = AtLeast(lots'[l].amount - UsedAt(l, clock) - HeldAt(l, clock), 0)
    <2>1. PICK lot : lot = lots'[l]
      OBVIOUS
    <2>2. PICK now : now = clock /\ now = reservation'[e].created
      OBVIOUS
    <2>3. Capacity(e, l)'
            = AtLeast(lots'[l].amount
                - Total(LAMBDA c : c.amount,
                        {c \in taken' : c.lot = l /\ c.at <= reservation'[e].created})
                - SumFunction([f \in {x \in Executions \ {e} :
                                        /\ l \in DOMAIN reservation'[x].allocation
                                        /\ reservation'[x].created <= reservation'[e].created
                                        /\ reservation'[x].finalized > reservation'[e].created}
                                |-> reservation'[f].allocation[l]]), 0)
      BY Zenon DEF Capacity, Total
    <2>4. E = {x \in Executions \ {e} :
                 /\ l \in DOMAIN reservation'[x].allocation
                 /\ reservation'[x].created <= reservation'[e].created
                 /\ reservation'[x].finalized > reservation'[e].created}
      BY <1>2
    <2>5. Total(LAMBDA c : c.amount, {c \in taken' : c.lot = l /\ c.at <= reservation'[e].created})
            = UsedAt(l, clock)
      BY Zenon DEF UsedAt
    <2> QED
      BY <1>3, <1>4, <2>3, <2>4, <2>5, Zenon
  <1>6. AvailableAt(lots'[l], l, clock) = lots'[l].amount - UsedAt(l, clock) - HeldAt(l, clock)
    BY DEF AvailableAt
  <1>7. \A n \in Nat : AtLeast(n, 0) = n
    BY DEF AtLeast
  <1> QED
    BY <1>5, <1>6, <1>7

\* The triggers for a new reservation accept it.
LEMMA ReservationAccepted ==
    ASSUME LedgerInv, LedgerInv', HistoryInv, NEW e \in Executions, NEW u \in Users,
           NEW human \in BOOLEAN, Reserve(e, u, human, PriceOf(human))
    PROVE  Registered(e)' /\ Allocated(e)'
  <1>0. LotInv /\ LotInv' /\ ReservationInv /\ TakenInv /\ JournalInv /\ clock \in Nat
    BY LotsAre DEF LedgerInv
  <1>1. PICK price \in Nat \ {0} : price = PriceOf(human)
    BY Facts DEF PriceOf
  <1>2. PICK S, acc, grant, reserve, r : Begins(e, u, human, price, S, acc, grant, reserve, r)
    BY <1>1, ReserveBegins
  <1>3. /\ S = {l \in DOMAIN lots' : lots'[l].owner = u /\ Current(lots'[l], clock)}
        /\ acc = Allocate(lots', S, price)
        /\ reservation[e] = NoReservation /\ reservation' = [reservation EXCEPT ![e] = r]
        /\ journal' = journal \cup (IF HasAllowance(u) THEN {reserve} ELSE {grant, reserve})
        /\ clock' = clock /\ taken' = taken
    BY <1>2 DEF Begins
  <1>4. /\ r.owner = u /\ r.human = human /\ r.amount = price /\ r.created = clock
        /\ r.allocation = acc.from
    BY <1>2 DEF Begins
  <1>5. reservation'[e] = r /\ \A x \in Executions \ {e} : reservation'[x] = reservation[x]
    BY <1>0, <1>3 DEF ReservationInv
  <1>6. Registered(e)'
    BY <1>1, <1>4, <1>5, Facts DEF Registered, PriceOf
  <1>7. IsAllocated(acc, S, price)
    BY <1>0, <1>2, AllocationOfRequest, Zenon
  <1>8. PICK capacity : capacity = [l \in S |-> AvailableAt(lots'[l], l, clock)]
    OBVIOUS
  <1>9. \A l \in S : AvailableAt(lots'[l], l, clock) \in Nat /\ l \in DOMAIN lots'
    BY <1>2, AvailableToRequest
  <1>10. capacity \in [S -> Nat] /\ \A l \in S : capacity[l] = Capacity(e, l)'
    BY <1>3, <1>4, <1>5, <1>8, <1>9, CapacityIs
  <1>11. PICK ls : ls = lots'
    OBVIOUS
  <1>12. IsFiniteSet(S) /\ IntegerTimes(ls, S)
    <2>1. lots' \in Seq(Lots)
      BY <1>0 DEF LotInv
    <2>2. DOMAIN lots' = 1..Len(lots') /\ Len(lots') \in Nat /\ \A l \in DOMAIN lots' : lots'[l] \in Lots
      BY <2>1
    <2>3. \A lot \in Lots : lot.expires \in Int /\ lot.issued \in Int
      BY Facts DEF Lots, Times
    <2>4. IsFiniteSet(1..Len(lots'))
      BY <2>2, FS_Interval
    <2>5. S \subseteq 1..Len(lots')
      BY <1>3, <2>2
    <2>6. IsFiniteSet(S)
      BY <2>4, <2>5, FS_Subset
    <2> QED
      BY <1>9, <1>11, <2>2, <2>3, <2>5, <2>6 DEF IntegerTimes
  <1>13. Allocating(acc, S, price, capacity, ls)
    <2>1. \A l \in S : AvailableAt(ls[l], l, clock) = capacity[l]
      BY <1>8, <1>11
    <2>2. acc = Allocate(ls, S, price)
      BY <1>3, <1>11
    <2> QED
      BY <1>1, <1>10, <1>12, <2>1, <2>2, AllocateShares, Zenon
  <1>14. \A l \in S : OfLot(l, acc.from) = ShareOf(l, price, capacity, ls, S)
    BY <1>13 DEF Allocating
  <1>15. TransactionOf(e, {"reserve"})' = reserve /\ reserve.at = clock
    <2>1. PICK p : p = [a \in {u, "reserve"} |-> IF a = u THEN -price ELSE price]
      OBVIOUS
    <2>2. PICK q : q = [a \in {"issuance", u} |-> IF a = u THEN AllowanceAmount ELSE -AllowanceAmount]
      OBVIOUS
    <2>3. /\ reserve = Transaction("reserve", "execution", e, clock, p)
          /\ grant = Transaction("grant", "allowance", e, clock, q)
      BY <1>2, <2>1, <2>2, Zenon DEF Begins
    <2>4. /\ reserve.kind = "reserve" /\ reserve.reference = "execution" /\ reserve.of = e
          /\ reserve.at = clock /\ grant.kind = "grant"
      BY <2>3, TransactionIs
    <2>5. \A t \in journal : ~(t.reference = "execution" /\ t.of = e)
      BY <1>0, <1>3 DEF JournalInv, IsPosted, NoReservation
    <2>6. \A t \in journal' : (t.reference = "execution" /\ t.of = e /\ t.kind \in {"reserve"}) <=> t = reserve
      BY <1>3, <2>4, <2>5
    <2>7. reserve \in journal'
      BY <1>3
    <2> QED
      BY <2>4, <2>6, <2>7 DEF TransactionOf
  <1>16. reserve.postings = [a \in {"reserve", u} |-> IF a = "reserve" THEN price ELSE -price]
    <2>1. PICK p : p = [a \in {u, "reserve"} |-> IF a = u THEN -price ELSE price]
      OBVIOUS
    <2>2. reserve = Transaction("reserve", "execution", e, clock, p)
      BY <1>2, <2>1, Zenon DEF Begins
    <2>3. p = [a \in DOMAIN p |-> p[a]] /\ \A a \in DOMAIN p : p[a] # 0
      BY <1>1, <2>1
    <2>4. reserve.postings = p
      BY <2>2, <2>3, PostsAll
    <2>5. u # "reserve"
      BY Facts
    <2> QED
      BY <2>1, <2>4, <2>5
  <1>17. AllocatedWhen(e, S, capacity, reserve)'
    <2>1. S = UsableBy(e)'
      BY <1>3, <1>4, <1>5 DEF UsableBy, Current
    <2>2. \A l \in S : OfLot(l, r.allocation) = ShareOf(l, r.amount, capacity, lots', S)
      BY <1>4, <1>11, <1>14
    <2>3. /\ DOMAIN r.allocation \subseteq S
          /\ \A l \in DOMAIN r.allocation : r.allocation[l] \in Nat
          /\ SumFunctionOnSet(r.allocation, DOMAIN r.allocation) = r.amount
      BY <1>4, <1>7 DEF IsAllocated
    <2> QED
      BY <1>4, <1>5, <1>10, <1>12, <1>15, <1>16, <2>1, <2>2, <2>3 DEF AllocatedWhen
  <1>18. Allocated(e)'
    <2>1. \A S1, c1, t1 : AllocatedWhen(e, S1, c1, t1)' => Allocated(e)'
      BY AllocatedNext DEF AllocatedRule
    <2> QED
      BY <1>17, <2>1
  <1> QED
    BY <1>6, <1>18

---------------------------------------------------------------------------
(* The end of a reservation *)

\* What was earned with an end: at most one lot, of another user's.
IsReward(R, e, t, reward) ==
    \/ R = {} /\ reward = 0
    \/ \E k : /\ R = {k} /\ reward \in Nat /\ lots[k].amount = reward
              /\ lots[k].owner # reservation[e].owner /\ Posting(t, lots[k].owner) = reward

\* What has to be known of an end for the trigger to accept its postings.
EndPostedWhen(e, t, R, reward, D, left) ==
    /\ t = TransactionOf(e, {"settle", "release"}) /\ R = IssuedBy(t) /\ IsReward(R, e, t, reward)
    /\ t.kind = IF reservation[e].settled > 0 THEN "settle" ELSE "release"
    /\ reservation[e].status = IF reservation[e].settled > 0 THEN "settled" ELSE "released"
    /\ reservation[e].finalized = t.at
    /\ DOMAIN t.postings \subseteq {"reserve", "revenue", "expired", reservation[e].owner}
                                     \cup {lots[l].owner : l \in R}
    /\ Posting(t, "reserve") = -reservation[e].amount
    /\ Posting(t, "revenue") + reward = reservation[e].settled
    /\ Posting(t, reservation[e].owner) + Posting(t, "expired") + reservation[e].settled
         = reservation[e].amount
    /\ D = DOMAIN reservation[e].allocation /\ IsFiniteSet(D)
    /\ \A l \in D : left[l] \in Nat /\ left[l] = TakenAtEnd(e, l, "expire")
    /\ Posting(t, "expired") = SumFunctionOnSet(left, D)

EndPostedRule ==
    \A e, t, R, reward, D, left : EndPostedWhen(e, t, R, reward, D, left) => EndPosted(e)

\* The sum over one thing, and over none.
LEMMA SumOfSingle ==
    ASSUME NEW k, NEW f, DOMAIN f = {k}, f[k] \in Int
    PROVE  SumFunction(f) = f[k]
  <1>1. IsFiniteSet({k}) /\ IntegersOn(f, {k}) /\ {k} \ {k} = {}
    BY FS_Singleton DEF IntegersOn
  <1>2. SumFunctionOnSet(f, {k}) = f[k] + SumFunctionOnSet(f, {k} \ {k})
    BY <1>1, SumTakesOne
  <1>3. SumFunctionOnSet(f, {k} \ {k}) = 0
    BY <1>1, SumOfNone
  <1>4. SumFunction(f) = SumFunctionOnSet(f, {k})
    BY SumFunctionIs
  <1> QED
    BY <1>2, <1>3, <1>4

Amounts(R) == Total(LAMBDA l : lots[l].amount, R)
Shares(t, R) == Total(LAMBDA l : Posting(t, lots[l].owner), R)

\* What the rewards of an end amount to.
LEMMA RewardsSum ==
    ASSUME NEW R, NEW e, NEW t, NEW reward, IsReward(R, e, t, reward)
    PROVE  /\ Amounts(R) = reward /\ Shares(t, R) = reward
           /\ \A l \in R : lots[l].owner # reservation[e].owner
  <1>1. PICK f : f = [l \in R |-> lots[l].amount]
    OBVIOUS
  <1>2. PICK g : g = [l \in R |-> Posting(t, lots[l].owner)]
    OBVIOUS
  <1>3. SumFunction(f) = reward /\ SumFunction(g) = reward
    <2>1. CASE R = {} /\ reward = 0
      <3>1. DOMAIN f = {} /\ DOMAIN g = {}
        BY <1>1, <1>2, <2>1
      <3>2. SumFunction(f) = SumFunctionOnSet(f, {}) /\ SumFunction(g) = SumFunctionOnSet(g, {})
        BY <3>1, SumFunctionIs
      <3> QED
        BY <2>1, <3>2, SumOfNone
    <2>2. ASSUME NEW k, R = {k}, reward \in Nat, lots[k].amount = reward,
                 Posting(t, lots[k].owner) = reward
          PROVE  SumFunction(f) = reward /\ SumFunction(g) = reward
      <3>1. DOMAIN f = {k} /\ DOMAIN g = {k} /\ f[k] = reward /\ g[k] = reward
        BY <1>1, <1>2, <2>2
      <3> QED
        BY <2>2, <3>1, SumOfSingle
    <2> QED
      BY <2>1, <2>2 DEF IsReward
  <1>4. \A l \in R : lots[l].owner # reservation[e].owner
    BY DEF IsReward
  <1> QED
    BY <1>1, <1>2, <1>3, <1>4, Zenon DEF Amounts, Shares, Total

\* The postings of an end are what the trigger adds up.
LEMMA EndPostedNow == EndPostedRule
  <1> SUFFICES ASSUME NEW e, NEW t, NEW R, NEW reward, NEW D, NEW left,
                      EndPostedWhen(e, t, R, reward, D, left)
               PROVE  EndPosted(e)
    BY DEF EndPostedRule
  <1>1. t = TransactionOf(e, {"settle", "release"}) /\ R = IssuedBy(t) /\ IsReward(R, e, t, reward)
    BY DEF EndPostedWhen
  <1>2. /\ t.kind = IF reservation[e].settled > 0 THEN "settle" ELSE "release"
        /\ reservation[e].status = IF reservation[e].settled > 0 THEN "settled" ELSE "released"
        /\ reservation[e].finalized = t.at
        /\ DOMAIN t.postings \subseteq {"reserve", "revenue", "expired", reservation[e].owner}
                                         \cup {lots[l].owner : l \in R}
        /\ Posting(t, "reserve") = -reservation[e].amount
        /\ Posting(t, "revenue") + reward = reservation[e].settled
        /\ Posting(t, reservation[e].owner) + Posting(t, "expired") + reservation[e].settled
             = reservation[e].amount
    BY DEF EndPostedWhen
  <1>3. /\ Amounts(R) = reward /\ Shares(t, R) = reward
        /\ \A l \in R : lots[l].owner # reservation[e].owner
    BY <1>1, RewardsSum, Zenon
  <1>4. Posting(t, "expired")
          = Total(LAMBDA l : TakenAtEnd(e, l, "expire"), DOMAIN reservation[e].allocation)
    <2>1. /\ D = DOMAIN reservation[e].allocation /\ IsFiniteSet(D)
          /\ \A l \in D : left[l] \in Nat /\ left[l] = TakenAtEnd(e, l, "expire")
          /\ Posting(t, "expired") = SumFunctionOnSet(left, D)
      BY DEF EndPostedWhen
    <2>2. PICK f : f = [l \in D |-> TakenAtEnd(e, l, "expire")]
      OBVIOUS
    <2>3. IntegersOn(left, D) /\ DOMAIN f = D /\ \A l \in D : f[l] = left[l]
      BY <2>1, <2>2 DEF IntegersOn
    <2>4. SumFunction(f) = SumFunctionOnSet(left, D)
      BY <2>1, <2>3, SumMatches
    <2> QED
      BY <2>1, <2>2, <2>4, Zenon DEF Total
  <1> DEFINE r == reservation[e]
             end == TransactionOf(e, {"settle", "release"})
             rewards == IssuedBy(end)
             total == Amounts(rewards)
  <1>5. end = t /\ rewards = R
    BY <1>1
  <1>6. total = reward /\ Shares(end, rewards) = total
    BY <1>3, <1>5
  <1>7. /\ end.kind = IF r.settled > 0 THEN "settle" ELSE "release"
        /\ r.status = IF r.settled > 0 THEN "settled" ELSE "released"
        /\ r.finalized = end.at
        /\ DOMAIN end.postings \subseteq {"reserve", "revenue", "expired", r.owner}
                                           \cup {lots[l].owner : l \in rewards}
        /\ \A l \in rewards : lots[l].owner # r.owner
        /\ Posting(end, "reserve") = -r.amount
        /\ Posting(end, "revenue") + total = r.settled
        /\ Posting(end, r.owner) + Posting(end, "expired") + r.settled = r.amount
    <2> HIDE DEF end, rewards, total
    <2> QED
      BY <1>2, <1>3, <1>5, <1>6
  <1>8. Posting(end, "expired") = Total(LAMBDA l : TakenAtEnd(e, l, "expire"), DOMAIN r.allocation)
    BY <1>4, <1>5, Zenon
  <1> HIDE DEF r, end, rewards, total
  <1> QED
    BY <1>6, <1>7, <1>8, Zenon DEF EndPosted, r, end, rewards, total, Amounts, Shares

\* So it is after a step.
LEMMA EndPostedNext == EndPostedRule'
  BY EndPostedNow, PTL

\* What has to be known of an end for the trigger to accept what it took.
EndTakenWhen(e, D, allocation, charge, settled, left) ==
    /\ allocation = reservation[e].allocation /\ charge = reservation[e].settled
    /\ D = DOMAIN allocation /\ IsFiniteSet(D)
    /\ \A l \in D : allocation[l] \in Nat /\ settled[l] \in Nat
    /\ \A l \in D : settled[l] = TakenAtEnd(e, l, "settle") /\ left[l] = TakenAtEnd(e, l, "expire")
    /\ \A l \in D : settled[l] = ShareOf(l, charge, allocation, lots, D)
    /\ \A l \in D : left[l] = IF lots[l].expires <= reservation[e].finalized
                              THEN allocation[l] - settled[l] ELSE 0
    /\ \A c \in taken : c.by = e => c.lot \in D
    /\ SumFunctionOnSet(settled, D) = charge

\* What the charge takes of the allocations before one.
Taken(allocation, D, l) == Total(LAMBDA k : allocation[k], Preceding(D, l))

EndTakenRule ==
    \A e, D, allocation, charge, settled, left :
        EndTakenWhen(e, D, allocation, charge, settled, left) => EndTaken(e)

\* What an end takes of the allocations is what the trigger computes.
LEMMA EndTakenNow == EndTakenRule
  <1> SUFFICES ASSUME NEW e, NEW D, NEW allocation, NEW charge, NEW settled, NEW left,
                      EndTakenWhen(e, D, allocation, charge, settled, left)
               PROVE  EndTaken(e)
    BY DEF EndTakenRule
  <1> USE DEF EndTakenWhen
  <1>1. {c.lot : c \in {d \in taken : d.by = e}} \subseteq D
    OBVIOUS
  <1>2. Total(LAMBDA l : TakenAtEnd(e, l, "settle"), D) = charge
    <2>1. PICK f : f = [l \in D |-> TakenAtEnd(e, l, "settle")]
      OBVIOUS
    <2>2. IntegersOn(settled, D) /\ DOMAIN f = D /\ \A l \in D : f[l] = settled[l]
      BY <2>1 DEF IntegersOn
    <2>3. SumFunction(f) = SumFunctionOnSet(settled, D)
      BY <2>2, SumMatches
    <2>4. SumFunction(f) = charge
      BY <2>3
    <2> QED
      BY <2>1, <2>4, Zenon DEF Total
  <1>3. ASSUME NEW l \in D
        PROVE  /\ TakenAtEnd(e, l, "settle")
                    = AtLeast(AtMost(allocation[l],
                              charge - Taken(allocation, D, l)), 0)
               /\ TakenAtEnd(e, l, "expire")
                    = IF lots[l].expires <= reservation[e].finalized
                      THEN allocation[l] - TakenAtEnd(e, l, "settle") ELSE 0
    <2>1. PICK P : P = Preceding(D, l)
      OBVIOUS
    <2>2. P = Before(lots, D, l)
      BY <2>1, Zenon DEF Preceding, Before, SpentBefore
    <2>3. PICK f : f = [k \in P |-> allocation[k]]
      OBVIOUS
    <2>4. P \subseteq D
      BY <2>1 DEF Preceding
    <2>5. IsFiniteSet(P) /\ IntegersOn(allocation, P)
      BY <2>4, FS_Subset DEF IntegersOn
    <2>6. DOMAIN f = P /\ \A k \in P : f[k] = allocation[k]
      BY <2>3
    <2>7. SumFunction(f) = SumFunctionOnSet(allocation, P)
      BY <2>5, <2>6, SumMatches, Zenon
    <2>8. Taken(allocation, D, l) = SumFunctionOnSet(allocation, Before(lots, D, l))
      BY <2>1, <2>2, <2>3, <2>7, Zenon DEF Total, Taken
    <2>9. /\ settled[l] = ShareOf(l, charge, allocation, lots, D)
          /\ settled[l] = TakenAtEnd(e, l, "settle") /\ left[l] = TakenAtEnd(e, l, "expire")
          /\ left[l] = IF lots[l].expires <= reservation[e].finalized
                       THEN allocation[l] - settled[l] ELSE 0
      BY <1>3
    <2> QED
      BY <2>8, <2>9, Zenon DEF ShareOf
  <1>4. allocation = reservation[e].allocation /\ charge = reservation[e].settled /\ D = DOMAIN allocation
    OBVIOUS
  <1> HIDE DEF EndTakenWhen
  <1> DEFINE r == reservation[e]
  <1>5. r.allocation = allocation /\ r.settled = charge /\ DOMAIN r.allocation = D
    BY <1>4
  <1> HIDE DEF r
  <1>6. /\ {c.lot : c \in {d \in taken : d.by = e}} \subseteq DOMAIN r.allocation
        /\ Total(LAMBDA l : TakenAtEnd(e, l, "settle"), DOMAIN r.allocation) = r.settled
    BY <1>1, <1>2, <1>5, Zenon
  <1>7. \A l \in DOMAIN r.allocation :
           /\ TakenAtEnd(e, l, "settle")
                = AtLeast(AtMost(r.allocation[l],
                     r.settled - Taken(r.allocation, DOMAIN r.allocation, l)), 0)
           /\ TakenAtEnd(e, l, "expire")
                = IF lots[l].expires <= r.finalized
                  THEN r.allocation[l] - TakenAtEnd(e, l, "settle") ELSE 0
    BY <1>3, <1>5, Zenon DEF r
  <1> QED
    BY <1>6, <1>7, Zenon DEF EndTaken, r, Taken

\* So it is after a step.
LEMMA EndTakenNext == EndTakenRule'
  BY EndTakenNow, PTL

\* What an end takes of a lot, of each kind, is what was computed for the lot.
LEMMA TakenIs ==
    ASSUME LedgerInv, NEW e \in Executions, reservation[e].status = "held", NEW D,
           NEW settled \in [D -> Nat], NEW left \in [D -> Nat], NEW now,
           taken' = taken \cup (Consumption(D, settled, "settle", now, e)
                                \cup Consumption(D, left, "expire", now, e))
    PROVE  /\ \A c \in taken' : c.by = e => c.lot \in D
           /\ \A l \in D : /\ TakenAtEnd(e, l, "settle")' = settled[l]
                           /\ TakenAtEnd(e, l, "expire")' = left[l]
  <1>1. \A c \in taken : c.by # e
    BY Facts DEF LedgerInv, TakenInv, IsConsumed
  <1>2. ASSUME NEW m \in [D -> Nat], NEW kind, NEW C, C = Consumption(D, m, kind, now, e)
        PROVE  \A c \in C : c.by = e /\ c.lot \in D /\ c.kind = kind
    BY <1>2 DEF Consumption
  <1>3. \A c \in taken' : c.by = e => c.lot \in D
    BY <1>1, <1>2
  <1>4. ASSUME NEW m \in [D -> Nat], NEW kind, NEW other \in [D -> Nat], NEW k, k # kind,
               taken' = taken \cup (Consumption(D, m, kind, now, e) \cup Consumption(D, other, k, now, e)),
               NEW l \in D
        PROVE  TakenAtEnd(e, l, kind)' = m[l]
    <2>1. PICK c : c = [lot |-> l, kind |-> kind, amount |-> m[l], at |-> now, by |-> e]
      OBVIOUS
    <2>2. PICK C : C = {x \in taken' : x.by = e /\ x.lot = l /\ x.kind = kind}
      OBVIOUS
    <2>3. C = {x \in Consumption(D, m, kind, now, e) : x.lot = l}
      BY <1>1, <1>2, <1>4, <2>2
    <2>4. C = IF m[l] > 0 THEN {c} ELSE {}
      BY <1>4, <2>1, <2>3 DEF Consumption
    <2>5. PICK f : f = [x \in C |-> x.amount]
      OBVIOUS
    <2>6. TakenAtEnd(e, l, kind)' = SumFunction(f)
      BY <2>2, <2>5, Zenon DEF TakenAtEnd, Total
    <2>7. CASE m[l] > 0
      <3>1. DOMAIN f = {c} /\ f[c] = m[l] /\ m[l] \in Int
        BY <1>4, <2>1, <2>4, <2>5, <2>7
      <3> QED
        BY <2>6, <3>1, SumOfSingle
    <2>8. CASE m[l] = 0
      <3>1. DOMAIN f = {}
        BY <2>4, <2>5, <2>8
      <3>2. SumFunction(f) = SumFunctionOnSet(f, {})
        BY <3>1, SumFunctionIs
      <3> QED
        BY <2>6, <2>8, <3>2, SumOfNone
    <2> QED
      BY <1>4, <2>7, <2>8
  <1>5. ASSUME NEW l \in D PROVE TakenAtEnd(e, l, "settle")' = settled[l]
    BY <1>4, <1>5
  <1>6. ASSUME NEW l \in D PROVE TakenAtEnd(e, l, "expire")' = left[l]
    <2>1. taken' = taken \cup (Consumption(D, left, "expire", now, e)
                               \cup Consumption(D, settled, "settle", now, e))
      OBVIOUS
    <2> QED
      BY <1>4, <2>1
  <1> QED
    BY <1>3, <1>5, <1>6

\* An end is posted once, and earns at most one lot.
LEMMA EndIssues ==
    ASSUME LedgerInv, LedgerInv', RewardsInv, NEW e \in Executions, NEW charge \in Nat,
           NEW performer \in Users, NEW usage, NEW r, NEW r2, NEW reward, NEW D, NEW settled,
           NEW left, NEW lapsed, NEW t, NEW lot,
           Ending(e, charge, performer, usage, r, r2, reward, D, settled, left, lapsed, t, lot)
    PROVE  /\ t \in journal' /\ TransactionOf(e, {"settle", "release"})' = t
           /\ IssuedBy(t)' = IF reward > 0 THEN {Len(lots) + 1} ELSE {}
           /\ reward > 0 => lots'[Len(lots) + 1] = lot
  <1>0. LotInv /\ JournalInv /\ charge \in Int /\ reward \in 0..charge
    BY DEF LedgerInv, Ending
  <1>1. /\ r = reservation[e] /\ r.status = "held" /\ journal' = journal \cup {t}
        /\ lots' = (IF reward > 0 THEN Append(lots, lot) ELSE lots)
        /\ lot.reference = "reward" /\ lot.origin = e
    BY DEF Ending, Ends
  <1>2. /\ t.kind = (IF charge > 0 THEN "settle" ELSE "release")
        /\ t.reference = "execution" /\ t.of = e
    BY DEF Ending, IsFinal
  <1>3. TransactionOf(e, {"settle", "release"})' = t
    <2>1. \A x \in journal : ~(x.kind \in {"settle", "release"} /\ x.of = e)
      BY <1>0, <1>1 DEF JournalInv, IsPosted
    <2>2. \A x \in journal' : (/\ x.reference = "execution" /\ x.of = e
                               /\ x.kind \in {"settle", "release"}) <=> x = t
      BY <1>1, <1>2, <2>1
    <2>3. t \in journal'
      BY <1>1
    <2> QED
      BY <2>2, <2>3 DEF TransactionOf
  <1>4. \A l \in DOMAIN lots : ~(lots[l].reference = "reward" /\ lots[l].origin = e)
    BY <1>1 DEF RewardsInv, IsEarned
  <1>5. reward > 0 => Len(lots) + 1 \in DOMAIN lots' /\ lots'[Len(lots) + 1] = lot
    BY <1>0, <1>1, AppendStays
  <1>6. \A l \in DOMAIN lots' : l # Len(lots) + 1 => l \in DOMAIN lots /\ lots'[l] = lots[l]
    <2>1. lots \in Seq(Lots)
      BY <1>0 DEF LotInv
    <2> QED
      BY <1>1, <2>1
  <1>7. ~(reward > 0) => \A l \in DOMAIN lots' : l \in DOMAIN lots /\ lots'[l] = lots[l]
    BY <1>1
  <1>8. reward > 0 => t.kind = "settle"
    BY <1>0, <1>2
  <1>9. IssuedBy(t)' = {l \in DOMAIN lots' : /\ lots'[l].origin = e /\ lots'[l].reference = "reward"
                                             /\ t.kind = "settle"}
    BY <1>2 DEF IssuedBy
  <1>10. IssuedBy(t)' = IF reward > 0 THEN {Len(lots) + 1} ELSE {}
    BY <1>1, <1>4, <1>5, <1>6, <1>7, <1>8, <1>9
  <1> QED
    BY <1>1, <1>3, <1>5, <1>10

\* The triggers for the end of a reservation accept its postings.
LEMMA EndPostedAccepted ==
    ASSUME LedgerInv, LedgerInv', RewardsInv, NEW e \in Executions, NEW charge \in Nat,
           NEW performer \in Users, NEW usage, NEW r, NEW r2, NEW reward, NEW D, NEW settled,
           NEW left, NEW lapsed, NEW t, NEW lot,
           Ending(e, charge, performer, usage, r, r2, reward, D, settled, left, lapsed, t, lot)
    PROVE  EndPosted(e)'
  <1>1. /\ r = reservation[e] /\ r.status = "held" /\ (reward > 0 => performer # r.owner)
        /\ lot.owner = performer /\ lot.amount = reward
        /\ taken' = taken \cup (Consumption(DOMAIN settled, settled, "settle", clock, e)
                                \cup Consumption(DOMAIN left, left, "expire", clock, e))
    BY DEF Ending, Ends
  <1>2. /\ reservation'[e] = r2 /\ r2.settled = charge /\ r2.finalized = clock
        /\ r2.status = (IF charge > 0 THEN "settled" ELSE "released")
        /\ r2.owner = r.owner /\ r2.amount = r.amount /\ r2.allocation = r.allocation
        /\ D = DOMAIN r.allocation /\ IsFiniteSet(D) /\ reward \in 0..charge
        /\ settled \in [D -> Nat] /\ left \in [D -> Nat]
        /\ lapsed = SumFunctionOnSet(left, D) /\ lapsed \in Nat
        /\ r.amount \in Nat /\ r.owner \in Users
    BY DEF Ending, GoodReservation
  <1>3. /\ t.kind = (IF charge > 0 THEN "settle" ELSE "release") /\ t.at = clock
        /\ \A a \in DOMAIN t.postings : t.postings[a] \in Int \ {0}
        /\ \A a : Entry(t, a) = IF a = "reserve" THEN -r.amount
                                ELSE IF a = "revenue" THEN charge - reward
                                ELSE IF a = "expired" THEN lapsed
                                ELSE IF a = r.owner THEN r.amount - charge - lapsed
                                ELSE IF a = performer THEN reward
                                ELSE 0
    BY DEF Ending, IsFinal
  <1>4. PICK k : k = Len(lots) + 1
    OBVIOUS
  <1>5. PICK R : R = IF reward > 0 THEN {k} ELSE {}
    OBVIOUS
  <1>6. /\ TransactionOf(e, {"settle", "release"})' = t /\ IssuedBy(t)' = R
        /\ reward > 0 => lots'[k] = lot
    BY <1>4, <1>5, EndIssues
  <1>7. \A a : Posting(t, a) = Entry(t, a)
    BY DEF Posting, Entry
  <1>8. IsReward(R, e, t, reward)'
    <2>1. CASE reward > 0
      <3>1. /\ R = {k} /\ reward \in Nat /\ lots'[k].amount = reward
            /\ lots'[k].owner = performer /\ performer # r.owner
        BY <1>1, <1>2, <1>5, <1>6, <2>1
      <3>2. Posting(t, performer) = reward
        BY <1>3, <1>7, <3>1, Facts
      <3> QED
        BY <1>2, <3>1, <3>2 DEF IsReward
    <2>2. CASE reward = 0
      BY <1>5, <2>2 DEF IsReward
    <2> QED
      BY <1>2, <2>1, <2>2
  <1>9. DOMAIN t.postings \subseteq {"reserve", "revenue", "expired", r.owner}
                                      \cup {lots'[l].owner : l \in R}
    <2> SUFFICES ASSUME NEW a \in DOMAIN t.postings, a \notin {"reserve", "revenue", "expired", r.owner}
                 PROVE  a \in {lots'[l].owner : l \in R}
      OBVIOUS
    <2>1. Entry(t, a) # 0
      BY <1>3 DEF Entry
    <2>2. a = performer /\ reward # 0
      BY <1>3, <2>1
    <2> QED
      BY <1>1, <1>2, <1>5, <1>6, <2>2
  <1>10. /\ Posting(t, "reserve") = -r.amount /\ Posting(t, "expired") = lapsed
         /\ Posting(t, "revenue") + reward = charge
         /\ Posting(t, r.owner) + Posting(t, "expired") + charge = r.amount
    <2>1. r.owner \notin {"reserve", "revenue", "expired"}
      BY <1>2, Facts
    <2> QED
      BY <1>2, <1>3, <1>7, <2>1
  <1>11. \A l \in D : left[l] \in Nat /\ left[l] = TakenAtEnd(e, l, "expire")'
    <2>1. DOMAIN settled = D /\ DOMAIN left = D
      BY <1>2
    <2>2. taken' = taken \cup (Consumption(D, settled, "settle", clock, e)
                               \cup Consumption(D, left, "expire", clock, e))
      BY <1>1, <2>1
    <2>3. reservation[e].status = "held"
      BY <1>1
    <2> QED
      BY <1>2, <2>2, <2>3, TakenIs
  <1>12. /\ t.kind = (IF r2.settled > 0 THEN "settle" ELSE "release")
         /\ r2.status = (IF r2.settled > 0 THEN "settled" ELSE "released")
         /\ r2.finalized = t.at
    BY <1>2, <1>3
  <1>13. EndPostedWhen(e, t, R, reward, D, left)'
    BY <1>2, <1>6, <1>8, <1>9, <1>10, <1>11, <1>12 DEF EndPostedWhen
  <1>14. \A t1, R1, n1, D1, l1 : EndPostedWhen(e, t1, R1, n1, D1, l1)' => EndPosted(e)'
    BY EndPostedNext DEF EndPostedRule
  <1> QED
    BY <1>13, <1>14

\* And what it takes of the lots.
LEMMA EndTakenAccepted ==
    ASSUME LedgerInv, LedgerInv', NEW e \in Executions, NEW charge \in Nat,
           NEW performer \in Users, NEW usage, NEW r, NEW r2, NEW reward, NEW D, NEW settled,
           NEW left, NEW lapsed, NEW t, NEW lot,
           Ending(e, charge, performer, usage, r, r2, reward, D, settled, left, lapsed, t, lot)
    PROVE  EndTaken(e)'
  <1>0. LotInv
    BY DEF LedgerInv
  <1>1. /\ r = reservation[e] /\ r.status = "held" /\ settled = Settle(r, charge)
        /\ lots' = (IF reward > 0 THEN Append(lots, lot) ELSE lots)
        /\ taken' = taken \cup (Consumption(DOMAIN settled, settled, "settle", clock, e)
                                \cup Consumption(DOMAIN left, left, "expire", clock, e))
    BY DEF Ending, Ends
  <1>2. /\ reservation'[e] = r2 /\ r2.settled = charge /\ r2.finalized = clock
        /\ r2.allocation = r.allocation
        /\ D = DOMAIN r.allocation /\ IsFiniteSet(D) /\ D \subseteq DOMAIN lots
        /\ settled \in [D -> Nat] /\ left \in [D -> Nat]
        /\ \A l \in D : left[l] = IF lots[l].expires <= clock THEN r.allocation[l] - settled[l] ELSE 0
        /\ SumFunctionOnSet(settled, D) = charge
        /\ \A l \in D : r.allocation[l] \in Nat
    BY DEF Ending, GoodReservation
  <1>3. /\ \A c \in taken' : c.by = e => c.lot \in D
        /\ \A l \in D : /\ TakenAtEnd(e, l, "settle")' = settled[l]
                        /\ TakenAtEnd(e, l, "expire")' = left[l]
    <2>1. DOMAIN settled = D /\ DOMAIN left = D
      BY <1>2
    <2>2. taken' = taken \cup (Consumption(D, settled, "settle", clock, e)
                               \cup Consumption(D, left, "expire", clock, e))
      BY <1>1, <2>1
    <2>3. reservation[e].status = "held"
      BY <1>1
    <2>4. settled \in [D -> Nat] /\ left \in [D -> Nat]
      BY <1>2
    <2> QED
      BY <2>2, <2>3, <2>4, TakenIs
  <1>4. \A l \in D : lots'[l] = lots[l]
    BY <1>0, <1>1, <1>2, AppendStays
  <1>5. \A l \in D : settled[l] = ShareOf(l, charge, r.allocation, lots', D)
    <2>1. IntegerTimes(lots, D)
      BY <1>0, <1>2, LotsAre DEF IntegerTimes
    <2>2. \A l \in D : settled[l] = ShareOf(l, charge, r.allocation, lots, D)
      <3>1. IsFiniteSet(D) /\ D = DOMAIN r.allocation /\ \A l \in D : r.allocation[l] \in Nat
        BY <1>2
      <3>2. \A l \in D : Settle(r, charge)[l] = ShareOf(l, charge, r.allocation, lots, D)
        BY <2>1, <3>1, SettleShares
      <3>3. settled = Settle(r, charge)
        BY <1>1
      <3> QED
        BY <3>2, <3>3
    <2>3. \A l \in D : Before(lots', D, l) = Before(lots, D, l)
      BY <1>4 DEF Before, SpentBefore
    <2> QED
      BY <2>2, <2>3 DEF ShareOf
  <1>6. EndTakenWhen(e, D, r.allocation, charge, settled, left)'
    BY <1>2, <1>3, <1>4, <1>5 DEF EndTakenWhen
  <1>7. \A D1, a1, c1, s1, l1 : EndTakenWhen(e, D1, a1, c1, s1, l1)' => EndTaken(e)'
    BY EndTakenNext DEF EndTakenRule
  <1> QED
    BY <1>6, <1>7

---------------------------------------------------------------------------
(* Transactions *)

IsConsistent(t) == GrantConsistent(t) /\ ExpirationConsistent(t)

\* The triggers for grants accept the issue of a lot.
LEMMA GrantAccepted ==
    ASSUME LotInv, NEW u \in Users, NEW amount \in Nat \ {0}, NEW reference \in {"grant", "allowance"},
           NEW of, NEW p, p = [a \in {"issuance", u} |-> IF a = u THEN amount ELSE -amount],
           NEW t, t = Transaction("grant", reference, of, clock, p),
           NEW lot, lots' = Append(lots, lot),
           lot.owner = u, lot.reference = reference, lot.origin = of, lot.amount = amount,
           lot.issued = clock,
           reference = "allowance" => lot.expires - lot.issued = AllowanceDuration
    PROVE  IsConsistent(t)'
  <1>1. t.kind = "grant" /\ t.reference = reference /\ t.of = of /\ t.at = clock
    BY TransactionIs
  <1>2. u # "issuance"
    BY Facts
  <1>3. t.postings = p
    <2>1. p = [a \in DOMAIN p |-> p[a]] /\ \A a \in DOMAIN p : p[a] # 0
      OBVIOUS
    <2> QED
      BY <2>1, PostsAll
  <1>4. PICK k : k = Len(lots) + 1
    OBVIOUS
  <1>5. k \in DOMAIN lots' /\ lots'[k] = lot
    BY <1>4, AppendStays
  <1>6. k \in IssuedBy(t)'
    BY <1>1, <1>5 DEF IssuedBy
  <1>7. t.postings = [a \in {"issuance", lots'[k].owner} |->
                         IF a = "issuance" THEN -lots'[k].amount ELSE lots'[k].amount]
    BY <1>2, <1>3, <1>5
  <1>8. GrantConsistent(t)'
    <2>1. /\ lots'[k].reference \in {"grant", "allowance"} /\ lots'[k].issued = t.at
          /\ lots'[k].reference = "allowance" =>
                lots'[k].expires - lots'[k].issued = AllowanceDuration
      BY <1>1, <1>5
    <2>2. t.kind = "grant" /\ t.kind # "settle"
      BY <1>1
    <2> QED
      BY <1>6, <1>7, <2>1, <2>2, Zenon DEF GrantConsistent
  <1>9. ExpirationConsistent(t)'
    BY <1>1 DEF ExpirationConsistent
  <1> QED
    BY <1>8, <1>9 DEF IsConsistent

\* The triggers for grants accept what a performer earns with the end of an execution.
LEMMA EndAccepted ==
    ASSUME LedgerInv, LedgerInv', RewardsInv, NEW e \in Executions, NEW charge \in Nat,
           NEW performer \in Users, NEW usage, NEW r, NEW r2, NEW reward, NEW D, NEW settled,
           NEW left, NEW lapsed, NEW t, NEW lot,
           Ending(e, charge, performer, usage, r, r2, reward, D, settled, left, lapsed, t, lot)
    PROVE  IsConsistent(t)'
  <1>0. clock \in Nat /\ clock <= MaxTime /\ MaxTime \in Nat
    BY LotsAre, Facts DEF LedgerInv
  <1>1. /\ lot.owner = performer /\ lot.amount = reward /\ lot.issued = clock
        /\ lot.expires = clock + EarnedDuration
        /\ reward > 0 => performer # r.owner
    BY DEF Ending, Ends
  <1>2. /\ t.kind = (IF charge > 0 THEN "settle" ELSE "release") /\ t.at = clock
        /\ Entry(t, performer) = IF performer = "reserve" THEN -r.amount
                                 ELSE IF performer = "revenue" THEN charge - reward
                                 ELSE IF performer = "expired" THEN lapsed
                                 ELSE IF performer = r.owner THEN r.amount - charge - lapsed
                                 ELSE reward
    BY DEF Ending, IsFinal
  <1>3. reward > 0 => Posting(t, performer) = reward
    BY <1>1, <1>2, Facts DEF Posting, Entry
  <1>4. PICK k : k = Len(lots) + 1
    OBVIOUS
  <1>5. \A l \in IssuedBy(t)' : reward > 0 /\ lots'[l] = lot
    BY EndIssues
  <1>6. lot.expires # Never
    BY <1>0, <1>1, Facts
  <1>7. ASSUME NEW l \in IssuedBy(t)'
        PROVE  /\ lots'[l].expires # Never /\ lots'[l].issued = t.at
               /\ Posting(t, lots'[l].owner) = lots'[l].amount
    BY <1>1, <1>2, <1>3, <1>5, <1>6
  <1>8. GrantConsistent(t)'
    BY <1>2, <1>7 DEF GrantConsistent
  <1>9. ExpirationConsistent(t)'
    BY <1>2 DEF ExpirationConsistent
  <1> QED
    BY <1>8, <1>9 DEF IsConsistent

\* The trigger for expiries accepts what a run of the expiry command moves.
LEMMA ExpiryAccepted ==
    ASSUME LedgerInv, CandidatesLapsed, NEW s \in Sweepers, CommitSweep(s),
           NEW t \in journal' \ journal
    PROVE  IsConsistent(t)'
  <1>0. LotInv /\ TakenInv /\ SweepInv
    BY DEF LedgerInv
  <1>1. PICK now : now = sweep[s].now
    OBVIOUS
  <1>2. PICK m : m = [l \in Due(s) |-> AvailableAt(lots[l], l, now)]
    OBVIOUS
  <1>3. PICK p : p = [l \in Due(s) |-> [a \in {"expired", lots[l].owner} |->
                                          IF a = "expired" THEN AvailableAt(lots[l], l, now)
                                          ELSE -AvailableAt(lots[l], l, now)]]
    OBVIOUS
  <1>4. journal' = journal \cup {Transaction("expire", "lot", l, now, p[l]) : l \in Due(s)}
    <2>1. PICK T : T = {Transaction("expire", "lot", l, now, p[l]) : l \in Due(s)}
      OBVIOUS
    <2>2. T = {Transaction("expire", "lot", l, now,
                 [a \in {"expired", lots[l].owner} |->
                     IF a = "expired" THEN AvailableAt(lots[l], l, now)
                     ELSE -AvailableAt(lots[l], l, now)]) : l \in Due(s)}
      BY <1>3, <2>1
    <2>3. Post(T)
      BY <1>1, <2>2, Zenon DEF CommitSweep
    <2> QED
      BY <2>1, <2>3 DEF Post
  <1>5. taken' = taken \cup {[lot |-> l, kind |-> "expire", amount |-> m[l], at |-> now,
                              by |-> "sweep"] : l \in Due(s)}
    <2>1. taken' = taken \cup {[lot |-> l, kind |-> "expire", amount |-> AvailableAt(lots[l], l, now),
                                at |-> now, by |-> "sweep"] : l \in Due(s)}
      BY <1>1, Zenon DEF CommitSweep
    <2> QED
      BY <1>2, <2>1
  <1>6. PICK l \in Due(s) : t = Transaction("expire", "lot", l, now, p[l])
    BY <1>4
  <1>7. /\ l \in DOMAIN lots /\ lots[l].owner \in Users /\ lots[l].expires <= now
        /\ m[l] \in Int /\ m[l] > 0 /\ ~Swept(l) /\ lots' = lots
    <2>1. l \in sweep[s].candidates /\ AvailableAt(lots[l], l, now) > 0
      BY <1>1 DEF Due
    <2>2. l \in DOMAIN lots
      BY <1>0, <2>1 DEF SweepInv, IsSweep, NoSweep
    <2>3. AvailableAt(lots[l], l, now) \in Int
      BY <2>2, LeftIsNow DEF LeftIsInteger, Left
    <2>4. ~Swept(l) /\ lots' = lots
      BY DEF CommitSweep
    <2>5. lots[l].expires <= now
      BY <1>1, <2>1 DEF CandidatesLapsed
    <2> QED
      BY <1>0, <1>2, <2>1, <2>2, <2>3, <2>4, <2>5, LotsAre
  <1>8. PICK c : c = [lot |-> l, kind |-> "expire", amount |-> m[l], at |-> now, by |-> "sweep"]
    OBVIOUS
  <1>9. {x \in taken' : x.by = "sweep" /\ x.lot = l} = {c}
    <2>1. \A x \in taken : ~(x.by = "sweep" /\ x.lot = l)
      BY <1>0, <1>7 DEF TakenInv, IsConsumed
    <2> QED
      BY <1>5, <1>8, <2>1
  <1>10. /\ t.kind = "expire" /\ t.reference = "lot" /\ t.of = l /\ t.at = now
         /\ t.postings = [a \in {"expired", lots[l].owner} |-> IF a = "expired" THEN m[l] ELSE -m[l]]
    <2>1. PICK q : q = [a \in {"expired", lots[l].owner} |-> IF a = "expired" THEN m[l] ELSE -m[l]]
      OBVIOUS
    <2>2. p[l] = q
      BY <1>2, <1>3, <2>1
    <2>3. q = [a \in DOMAIN q |-> q[a]] /\ \A a \in DOMAIN q : q[a] # 0
      BY <1>7, <2>1
    <2>4. t = Transaction("expire", "lot", l, now, q)
      BY <1>6, <2>2
    <2>5. t.postings = q
      BY <2>3, <2>4, PostsAll
    <2> QED
      BY <2>1, <2>4, <2>5, TransactionIs
  <1>11. PICK consumed : consumed = {x \in taken' : x.by = "sweep" /\ x.lot = t.of}
    OBVIOUS
  <1>12. consumed = {c} /\ c.amount = m[l] /\ c.kind = "expire"
    BY <1>8, <1>9, <1>10, <1>11
  <1>13. PICK moved : moved = [x \in consumed |-> x.amount]
    OBVIOUS
  <1>14. SumFunction(moved) = m[l]
    <2>1. DOMAIN moved = {c} /\ moved[c] = m[l]
      BY <1>12, <1>13
    <2> QED
      BY <1>7, <2>1, SumOfSingle
  <1>15. ExpirationConsistent(t)'
    <2> DEFINE ofLot == {x \in taken' : x.by = "sweep" /\ x.lot = t.of}
               amount == SumFunction([x \in ofLot |-> x.amount])
    <2>1. ofLot = consumed /\ amount = m[l]
      BY <1>11, <1>13, <1>14, Zenon
    <2> HIDE DEF ofLot, amount
    <2>2. t.reference = "lot" /\ lots'[t.of].expires <= t.at
      BY <1>7, <1>10
    <2>3. amount > 0 /\ \A x \in ofLot : x.kind = "expire"
      BY <1>7, <1>12, <2>1
    <2>4. t.postings = [a \in {"expired", lots'[t.of].owner} |->
                           IF a = "expired" THEN amount ELSE -amount]
      BY <1>7, <1>10, <2>1
    <2> QED
      BY <2>2, <2>3, <2>4, Zenon DEF ExpirationConsistent, Total, ofLot, amount
  <1>16. GrantConsistent(t)'
    BY <1>10 DEF GrantConsistent
  <1> QED
    BY <1>15, <1>16 DEF IsConsistent

\* A reservation ends once, and is charged what the trigger computes of its usage.
LEMMA EndsOnceAccepted ==
    ASSUME NEW e \in Executions, NEW charge, NEW performer, NEW usage, NEW r, NEW r2, NEW reward,
           NEW D, NEW settled, NEW left, NEW lapsed, NEW t, NEW lot,
           Ending(e, charge, performer, usage, r, r2, reward, D, settled, left, lapsed, t, lot),
           r.human \/ IsMetered(charge, usage)
    PROVE  EndsOnce(e) /\ UsageConsistent(e)'
  <1>1. /\ r = reservation[e] /\ r.status = "held"
        /\ r2 = [r EXCEPT !.status = IF charge > 0 THEN "settled" ELSE "released",
                          !.settled = charge, !.finalized = clock, !.usage = usage]
    BY DEF Ending, Ends
  <1>2. /\ reservation'[e] = r2 /\ r2.settled = charge /\ r2.usage = usage /\ r2.human = r.human
        /\ r2.status \in {"settled", "released"}
    BY DEF Ending
  <1>3. PICK status, owner, human, amount, paid, created, finalized, allocation, used :
           r = [status |-> status, owner |-> owner, human |-> human, amount |-> amount,
                settled |-> paid, created |-> created, finalized |-> finalized,
                allocation |-> allocation, usage |-> used]
    BY Zenon DEF Ending, GoodReservation
  <1>4. PICK q : q = [status |-> "held", owner |-> owner, human |-> human, amount |-> amount,
                      settled |-> 0, created |-> created, finalized |-> Never,
                      allocation |-> allocation, usage |-> NoUsage]
    OBVIOUS
  <1>5. ASSUME NEW x, NEW state, NEW charged, NEW ended, NEW metered,
               x = [status |-> state, owner |-> owner, human |-> human, amount |-> amount,
                    settled |-> charged, created |-> created, finalized |-> ended,
                    allocation |-> allocation, usage |-> metered]
        PROVE  [x EXCEPT !.status = "held", !.settled = 0, !.finalized = Never, !.usage = NoUsage] = q
    <2>1. PICK y : y = [x EXCEPT !.status = "held", !.settled = 0, !.finalized = Never,
                                 !.usage = NoUsage]
      OBVIOUS
    <2>2. PICK F : F = {"status", "owner", "human", "amount", "settled", "created", "finalized",
                        "allocation", "usage"}
      OBVIOUS
    <2>3. /\ y.status = q.status /\ y.owner = q.owner /\ y.human = q.human
          /\ y.amount = q.amount /\ y.settled = q.settled /\ y.created = q.created
          /\ y.finalized = q.finalized /\ y.allocation = q.allocation /\ y.usage = q.usage
      BY <1>4, <1>5, <2>1
    <2>4. y = [k \in F |-> y[k]] /\ q = [k \in F |-> q[k]]
      BY <1>4, <1>5, <2>1, <2>2
    <2> QED
      BY <2>1, <2>2, <2>3, <2>4
  <1>6. [r2 EXCEPT !.status = "held", !.settled = 0, !.finalized = Never, !.usage = NoUsage] = q
    <2>1. PICK y : y = [status |-> IF charge > 0 THEN "settled" ELSE "released", owner |-> owner,
                        human |-> human, amount |-> amount, settled |-> charge,
                        created |-> created, finalized |-> clock, allocation |-> allocation,
                        usage |-> usage]
      OBVIOUS
    <2>2. PICK F : F = {"status", "owner", "human", "amount", "settled", "created", "finalized",
                        "allocation", "usage"}
      OBVIOUS
    <2>3. /\ y.status = r2.status /\ y.owner = r2.owner /\ y.human = r2.human
          /\ y.amount = r2.amount /\ y.settled = r2.settled /\ y.created = r2.created
          /\ y.finalized = r2.finalized /\ y.allocation = r2.allocation /\ y.usage = r2.usage
      BY <1>1, <1>3, <2>1
    <2>4. y = [k \in F |-> y[k]] /\ r2 = [k \in F |-> r2[k]]
      BY <1>1, <1>3, <2>1, <2>2
    <2>5. r2 = y
      BY <2>2, <2>3, <2>4
    <2> QED
      BY <1>5, <2>1, <2>5
  <1>7. EndsOnce(e)
    <2>1. [reservation[e] EXCEPT !.status = "held", !.settled = 0, !.finalized = Never,
                                 !.usage = NoUsage] = q
      <3>1. [r EXCEPT !.status = "held", !.settled = 0, !.finalized = Never, !.usage = NoUsage] = q
        BY <1>3, <1>5
      <3> QED
        BY <1>1, <3>1, Zenon
    <2>2. [reservation'[e] EXCEPT !.status = "held", !.settled = 0, !.finalized = Never,
                                  !.usage = NoUsage] = q
      BY <1>2, <1>6, Zenon
    <2>3. reservation[e].status = "held" /\ reservation'[e].status \in {"settled", "released"}
      BY <1>1, <1>2
    <2> QED
      BY <2>1, <2>2, <2>3, Zenon DEF EndsOnce
  <1>8. IsMetered(charge, usage) => charge = ExpectedUsage(Tariff, usage).charge
    BY AmountsAssumption, UsageIsAccepted DEF IsMetered
  <1>9. UsageConsistent(e)'
    BY <1>2, <1>8 DEF UsageConsistent
  <1> QED
    BY <1>7, <1>9

---------------------------------------------------------------------------
(* The steps *)

\* What was written stays: lots are appended, consumptions and transactions are added.
LEMMA StepIsImmutable ==
    ASSUME LedgerInv, [Next]_vars
    PROVE  Immutable
  <1>0. lots \in Seq(Lots)
    BY DEF LedgerInv, LotInv
  <1>1. IsPrefix(lots, lots')
    <2>1. CASE lots' = lots
      BY <1>0, <2>1 DEF IsPrefix
    <2>2. ASSUME NEW lot, lots' = Append(lots, lot) PROVE IsPrefix(lots, lots')
      <3>1. Len(lots) \in Nat /\ Len(lots') = Len(lots) + 1
        BY <1>0, <2>2
      <3>2. \A l \in 1..Len(lots) : lots'[l] = lots[l]
        BY <1>0, <2>2
      <3>3. SubSeq(lots, 1, Len(lots)) = SubSeq(lots', 1, Len(lots))
        BY <3>1, <3>2
      <3> QED
        BY <3>1, <3>3 DEF IsPrefix
    <2> QED
      BY <2>1, <2>2, StepAppends
  <1> DEFINE OnlyAdds == taken \subseteq taken' /\ journal \subseteq journal'
  <1>2. ASSUME Tick \/ UNCHANGED vars PROVE OnlyAdds
    BY <1>2 DEF Tick, vars
  <1>3. ASSUME NEW key \in GrantKeys, NEW u \in Users, NEW term \in {1, Never}, Grant(key, u, term)
        PROVE  OnlyAdds
    BY <1>3 DEF Grant, Post
  <1>4. ASSUME NEW e \in Executions, NEW u \in Users, NEW human \in BOOLEAN,
               Reserve(e, u, human, PriceOf(human))
        PROVE  OnlyAdds
    BY <1>4 DEF Reserve, Post
  <1>5. ASSUME NEW e \in Executions, NEW charge \in Nat, NEW performer \in Users,
               NEW usage \in Usages \cup {NoUsage}, Finalize(e, charge, performer, usage)
        PROVE  OnlyAdds
    BY <1>5 DEF Finalize, Post
  <1>6. ASSUME NEW s \in Sweepers, BeginSweep(s) \/ CommitSweep(s) \/ SweepRefused(s)
        PROVE  OnlyAdds
    BY <1>6 DEF BeginSweep, CommitSweep, SweepRefused, Post
  <1>7. OnlyAdds
    <2>1. StepOfLedger
      BY StepIs
    <2> HIDE DEF OnlyAdds
    <2> QED
      BY <1>2, <1>3, <1>4, <1>5, <1>6, <2>1, Zenon DEF StepOfLedger
  <1> QED
    BY <1>1, <1>7 DEF Immutable

\* The triggers for grants and expiries accept every transaction.
LEMMA StepIsConsistent ==
    ASSUME LedgerInv, LedgerInv', HistoryInv, RewardsInv, [Next]_vars
    PROVE  \A t \in journal' \ journal : IsConsistent(t)'
  <1> DEFINE Consistent == \A t \in journal' \ journal : IsConsistent(t)'
  <1>0. LotInv
    BY DEF LedgerInv
  <1>1. CASE Tick \/ UNCHANGED vars
    BY <1>1 DEF Tick, vars
  <1>2. ASSUME NEW key \in GrantKeys, NEW u \in Users, NEW term \in {1, Never}, Grant(key, u, term)
        PROVE  Consistent
    <2>1. PICK p : p = [a \in {"issuance", u} |-> IF a = u THEN GrantAmount ELSE -GrantAmount]
      OBVIOUS
    <2>2. PICK t : t = Transaction("grant", "grant", key, clock, p)
      OBVIOUS
    <2>3. PICK lot : lot = [owner |-> u, reference |-> "grant", origin |-> key,
                            amount |-> GrantAmount, issued |-> clock,
                            expires |-> IF term = Never THEN Never ELSE clock + term]
      OBVIOUS
    <2>4. lots' = Append(lots, lot)
      BY <1>2, <2>3, Zenon DEF Grant
    <2>5. journal' = journal \cup {t}
      BY <1>2, <2>1, <2>2, Zenon DEF Grant, Post
    <2>6. /\ lot.owner = u /\ lot.reference = "grant" /\ lot.origin = key
          /\ lot.amount = GrantAmount /\ lot.issued = clock
      BY <2>3
    <2>7. GrantAmount \in Nat \ {0}
      BY Facts
    <2>8. IsConsistent(t)'
      BY <1>0, <2>1, <2>2, <2>4, <2>6, <2>7, GrantAccepted
    <2> QED
      BY <2>5, <2>8
  <1>3. ASSUME NEW e \in Executions, NEW u \in Users, NEW human \in BOOLEAN,
               Reserve(e, u, human, PriceOf(human))
        PROVE  Consistent
    <2>1. PICK price : price = PriceOf(human)
      OBVIOUS
    <2>2. PICK S, acc, grant, reserve, r : Begins(e, u, human, price, S, acc, grant, reserve, r)
      BY <1>3, <2>1, ReserveBegins
    <2>3. PICK p : p = [a \in {"issuance", u} |-> IF a = u THEN AllowanceAmount ELSE -AllowanceAmount]
      OBVIOUS
    <2>4. PICK q : q = [a \in {u, "reserve"} |-> IF a = u THEN -price ELSE price]
      OBVIOUS
    <2>5. /\ grant = Transaction("grant", "allowance", e, clock, p)
          /\ reserve = Transaction("reserve", "execution", e, clock, q)
      BY <2>2, <2>3, <2>4, Zenon DEF Begins
    <2>6. /\ lots' = IF HasAllowance(u) THEN lots ELSE Append(lots, Allowance(u, e))
          /\ journal' = journal \cup (IF HasAllowance(u) THEN {reserve} ELSE {grant, reserve})
      BY <2>2 DEF Begins
    <2>7. IsConsistent(reserve)'
      <3>1. reserve.kind = "reserve"
        BY <2>5, TransactionIs
      <3> QED
        BY <3>1 DEF IsConsistent, GrantConsistent, ExpirationConsistent
    <2>8. ASSUME ~HasAllowance(u) PROVE IsConsistent(grant)'
      <3>1. PICK lot : lot = Allowance(u, e)
        OBVIOUS
      <3>2. /\ lot.owner = u /\ lot.reference = "allowance" /\ lot.origin = e
            /\ lot.amount = AllowanceAmount /\ lot.issued = clock
            /\ lot.expires = clock + AllowanceDuration
        BY <3>1 DEF Allowance
      <3>3. AllowanceAmount \in Nat \ {0} /\ lot.expires - lot.issued = AllowanceDuration
        BY <1>0, <3>2, LotsAre, Facts
      <3>4. lots' = Append(lots, lot)
        BY <2>6, <2>8, <3>1
      <3> QED
        BY <1>0, <2>3, <2>5, <3>2, <3>3, <3>4, GrantAccepted
    <2> QED
      BY <2>6, <2>7, <2>8
  <1>4. ASSUME NEW e \in Executions, NEW charge \in Nat, NEW performer \in Users,
               NEW usage \in Usages \cup {NoUsage},
               charge <= reservation[e].amount, Finalize(e, charge, performer, usage)
        PROVE  Consistent
    <2>1. PICK r, r2, reward, D, settled, left, lapsed, t, lot :
             Ending(e, charge, performer, usage, r, r2, reward, D, settled, left, lapsed, t, lot)
      BY <1>4, EndingIs
    <2>2. journal' = journal \cup {t}
      BY <2>1 DEF Ending, Ends
    <2>3. IsConsistent(t)'
      BY <2>1, EndAccepted
    <2> QED
      BY <2>2, <2>3
  <1>5. ASSUME NEW s \in Sweepers, CommitSweep(s) PROVE Consistent
    BY <1>5, ExpiryAccepted DEF HistoryInv
  <1>6. ASSUME NEW s \in Sweepers, BeginSweep(s) \/ SweepRefused(s) PROVE Consistent
    BY <1>6 DEF BeginSweep, SweepRefused
  <1>7. StepOfLedger
    BY StepIs
  <1> QED
    BY <1>1, <1>2, <1>3, <1>4, <1>5, <1>6, <1>7, Zenon DEF StepOfLedger

\* What the triggers ask of an end.
IsEndAccepted(e) == EndsOnce(e) /\ EndPosted(e)' /\ EndTaken(e)' /\ UsageConsistent(e)'

\* The triggers for reservations accept every one that begins or ends.
LEMMA ReservationsAccepted ==
    ASSUME LedgerInv, LedgerInv', HistoryInv, RewardsInv, [Next]_vars,
           NEW x \in Executions, reservation'[x] # reservation[x]
    PROVE  IF reservation[x] = NoReservation THEN Registered(x)' /\ Allocated(x)'
           ELSE IsEndAccepted(x)
  <1> DEFINE Accepted == IF reservation[x] = NoReservation THEN Registered(x)' /\ Allocated(x)'
                         ELSE IsEndAccepted(x)
  <1>0. ReservationInv
    BY DEF LedgerInv
  <1>1. ASSUME reservation' = reservation PROVE Accepted
    BY <1>1
  <1>2. ASSUME NEW e \in Executions, NEW u \in Users, NEW human \in BOOLEAN,
               Reserve(e, u, human, PriceOf(human))
        PROVE  Accepted
    <2>1. Registered(e)' /\ Allocated(e)'
      BY <1>2, ReservationAccepted
    <2>2. reservation[e] = NoReservation /\ \E r : reservation' = [reservation EXCEPT ![e] = r]
      BY <1>2 DEF Reserve
    <2>3. x = e
      BY <1>0, <2>2 DEF ReservationInv
    <2> QED
      BY <2>1, <2>2, <2>3
  <1>3. ASSUME NEW e \in Executions, NEW charge \in Nat, NEW performer \in Users,
               NEW usage \in Usages \cup {NoUsage}, charge <= reservation[e].amount,
               reservation[e].human \/ IsMetered(charge, usage),
               Finalize(e, charge, performer, usage)
        PROVE  Accepted
    <2>1. PICK r, r2, reward, D, settled, left, lapsed, t, lot :
             Ending(e, charge, performer, usage, r, r2, reward, D, settled, left, lapsed, t, lot)
      BY <1>3, EndingIs
    <2>2. /\ r = reservation[e] /\ r.status = "held"
          /\ \A y \in Executions \ {e} : reservation'[y] = reservation[y]
      BY <2>1 DEF Ending, Ends
    <2>3. x = e /\ reservation[x] # NoReservation
      BY <2>2 DEF NoReservation
    <2>4. EndsOnce(e) /\ UsageConsistent(e)'
      BY <1>3, <2>1, <2>2, EndsOnceAccepted
    <2>5. EndPosted(e)'
      BY <2>1, EndPostedAccepted
    <2>6. EndTaken(e)'
      BY <2>1, EndTakenAccepted
    <2> QED
      BY <2>3, <2>4, <2>5, <2>6 DEF IsEndAccepted
  <1>4. \/ reservation' = reservation
        \/ \E e \in Executions, u \in Users, human \in BOOLEAN : Reserve(e, u, human, PriceOf(human))
        \/ \E e \in Executions, charge \in Nat, performer \in Users, usage \in Usages \cup {NoUsage} :
              /\ charge <= reservation[e].amount
              /\ reservation[e].human \/ IsMetered(charge, usage)
              /\ Finalize(e, charge, performer, usage)
    <2>1. ASSUME Tick \/ UNCHANGED vars PROVE reservation' = reservation
      BY <2>1 DEF Tick, vars
    <2>2. ASSUME NEW key \in GrantKeys, NEW u \in Users, NEW term \in {1, Never}, Grant(key, u, term)
          PROVE  reservation' = reservation
      BY <2>2 DEF Grant
    <2>3. ASSUME NEW s \in Sweepers, BeginSweep(s) \/ CommitSweep(s) \/ SweepRefused(s)
          PROVE  reservation' = reservation
      BY <2>3 DEF BeginSweep, CommitSweep, SweepRefused
    <2>4. StepOfLedger
      BY StepIs
    <2> QED
      BY <2>1, <2>2, <2>3, <2>4, Zenon DEF StepOfLedger
  <1> QED
    BY <1>1, <1>2, <1>3, <1>4

---------------------------------------------------------------------------
(* The theorem of the triggers *)

StepAccepted ==
    /\ Immutable
    /\ \A t \in journal' \ journal :
          /\ Balanced(t)
          /\ Nonnegative(t)'
          /\ GrantConsistent(t)'
          /\ ExpirationConsistent(t)'
    /\ \A c \in taken' \ taken : LotConserved(c.lot)'
    /\ \A e \in {f \in Executions : reservation'[f] # reservation[f]} :
          IF reservation[e] = NoReservation
          THEN /\ Registered(e)'
               /\ Allocated(e)'
               /\ \A l \in DOMAIN reservation'[e].allocation : LotConserved(l)'
          ELSE /\ EndsOnce(e)
               /\ EndPosted(e)'
               /\ EndTaken(e)'
               /\ UsageConsistent(e)'

GuardsInv == LedgerInv /\ HistoryInv /\ RewardsInv /\ RevenueInv

\* All of them accept every step.
LEMMA StepIsAccepted == GuardsInv /\ GuardsInv' /\ [Next]_vars => StepAccepted
  <1> SUFFICES ASSUME GuardsInv, GuardsInv', [Next]_vars PROVE StepAccepted
    OBVIOUS
  <1>0. /\ LedgerInv /\ HistoryInv /\ RewardsInv /\ RevenueInv
        /\ LedgerInv' /\ HistoryInv' /\ RewardsInv' /\ RevenueInv'
    BY DEF GuardsInv
  <1>1. Immutable
    BY <1>0, StepIsImmutable
  <1>2. ASSUME NEW t \in journal' \ journal
        PROVE  Balanced(t) /\ Nonnegative(t)' /\ GrantConsistent(t)' /\ ExpirationConsistent(t)'
    <2>1. Balanced(t) /\ Nonnegative(t)'
      BY <1>0, PostingsAccepted
    <2>2. IsConsistent(t)'
      BY <1>0, StepIsConsistent
    <2> QED
      BY <2>1, <2>2 DEF IsConsistent
  <1>3. \A c \in taken' \ taken : LotConserved(c.lot)'
    BY <1>0, LotsAccepted
  <1>4. \A e \in Executions : \A l \in DOMAIN reservation'[e].allocation : LotConserved(l)'
    BY <1>0, LotsAccepted
  <1>5. ASSUME NEW e \in {f \in Executions : reservation'[f] # reservation[f]}
        PROVE  IF reservation[e] = NoReservation THEN Registered(e)' /\ Allocated(e)'
               ELSE IsEndAccepted(e)
    BY <1>0, ReservationsAccepted
  <1> QED
    BY <1>1, <1>2, <1>3, <1>4, <1>5, Zenon DEF StepAccepted, IsEndAccepted

\* The database never refuses what the repository does: every transaction of the program, in
\* every order, passes the triggers that fire when it commits, although they compute
\* allocations, charges and rewards on their own, from the rows (migrations 0003 to 0010).
THEOREM GuardsAcceptHolds == Spec => GuardsAccept
  <1>1. Init => GuardsInv
    BY LedgerInit, HistoryInit, RewardsInit, RevenueInit DEF GuardsInv
  <1>2. GuardsInv /\ [Next]_vars => GuardsInv'
    BY LedgerStep, HistoryStep, RewardsStep, RevenueStep DEF GuardsInv
  <1>3. GuardsInv /\ GuardsInv' /\ [Next]_vars => [StepAccepted]_vars
    BY StepIsAccepted
  <1>4. Spec => [][StepAccepted]_vars
    BY <1>1, <1>2, <1>3, PTL DEF Spec
  <1> QED
    BY <1>4, PTL DEF GuardsAccept, StepAccepted

---------------------------------------------------------------------------
(* The locks *)

WalletLock(w) == [row |-> Wallet(w), mode |-> "update"]

\* What a transaction locks after its wallet.
Plain ==
    [row : {<<"wallet", w>> : w \in Wallets} \cup {<<"account", a>> : a \in System},
     mode : Modes]

\* The advisory locks of admission control and of the matching of humans.
AdvisoryKeys == {Key("admission"), Key("matching")}

\* Nothing is locked before the wallet but one of these.
Guarded(p, w) ==
    \E rest \in Seq(Plain) :
        \/ p = <<WalletLock(w)>> \o rest
        \/ \E k \in AdvisoryKeys : p = <<k, WalletLock(w)>> \o rest

LEMMA LocksOne ==
    ASSUME NEW w
    PROVE  InOrder({w}) = <<w>> /\ LockWallets({w}) = <<WalletLock(w)>>
  <1>1. Cardinality({w}) = 1
    BY FS_Singleton
  <1>2. \A f \in [1..1 -> {w}] : f = <<w>>
    OBVIOUS
  <1>3. <<w>> \in [1..1 -> {w}] /\ \A i, j \in 1..1 : i # j => <<w>>[i] # <<w>>[j]
    OBVIOUS
  <1>4. SetToSeqs({w}) = {<<w>>}
    BY <1>1, <1>2, <1>3 DEF SetToSeqs
  <1>5. \A i, j \in 1..Len(<<w>>) : i < j => <<w>>[i] < <<w>>[j]
    OBVIOUS
  <1>6. InOrder({w}) = <<w>>
    BY <1>4, <1>5, Zenon DEF InOrder
  <1>7. [i \in 1..Len(<<w>>) |-> [row |-> Wallet(<<w>>[i]), mode |-> "update"]] = <<WalletLock(w)>>
    BY DEF WalletLock
  <1> QED
    BY <1>6, <1>7, Zenon DEF LockWallets

LEMMA FlattenOne ==
    ASSUME NEW S, NEW x \in Seq(S)
    PROVE  FlattenSeq(<<x>>) = x
  <1>1. PICK s : s = <<x>>
    OBVIOUS
  <1>2. Len(s) = 1 /\ Len(s) # 0 /\ s[1] = x
    BY <1>1
  <1>3. FlattenSeq(s) = (CHOOSE f : f = [i \in 1..Len(s) |-> IF i = 1 THEN s[i] ELSE f[i - 1] \o s[i]])[Len(s)]
    BY <1>2, Zenon DEF FlattenSeq
  <1>4. PICK g : g = [i \in 1..1 |-> x]
    OBVIOUS
  <1>5. g = [i \in 1..Len(s) |-> IF i = 1 THEN s[i] ELSE g[i - 1] \o s[i]]
    BY <1>2, <1>4
  <1>6. PICK f : /\ f = [i \in 1..Len(s) |-> IF i = 1 THEN s[i] ELSE f[i - 1] \o s[i]]
                 /\ FlattenSeq(s) = f[Len(s)]
    BY <1>3, <1>5
  <1> QED
    BY <1>1, <1>2, <1>6

LEMMA TwoOfOne ==
    ASSUME NEW a, NEW b
    PROVE  <<a>> \o <<b>> = <<a, b>>
  <1>1. PICK S : S = {a, b}
    OBVIOUS
  <1>2. <<a>> \in Seq(S) /\ b \in S
    BY <1>1
  <1>3. Append(<<a>>, b) = <<a>> \o <<b>>
    BY <1>2, AppendIsConcat
  <1>4. PICK s, t : s = Append(<<a>>, b) /\ t = <<a, b>>
    OBVIOUS
  <1>5. s \in Seq(S) /\ t \in Seq(S)
    BY <1>1, <1>2, <1>4
  <1>6. Len(s) = 2 /\ s[1] = a /\ s[2] = b
    BY <1>2, <1>4, AppendProperties
  <1>7. Len(t) = 2 /\ t[1] = a /\ t[2] = b
    BY <1>4
  <1>8. s = t
    BY <1>5, <1>6, <1>7, SeqEqual
  <1> QED
    BY <1>3, <1>4, <1>8

LEMMA PlainPostings ==
    ASSUME NEW rows \in Seq({<<"wallet", w>> : w \in Wallets}
                                \cup {<<"account", a>> : a \in System})
    PROVE  FlushPostings(rows) \in Seq(Plain) /\ CommitChecks(rows) \in Seq(Plain)
           /\ PostAndCheck(rows) \in Seq(Plain)
  <1>1. Len(rows) \in Nat /\ \A i \in 1..Len(rows) :
            rows[i] \in {<<"wallet", w>> : w \in Wallets} \cup {<<"account", a>> : a \in System}
    BY LenProperties, ElementOfSeq
  <1>2. /\ \A i \in 1..Len(rows) : [row |-> rows[i], mode |-> "key share"] \in Plain
        /\ \A i \in 1..Len(rows) : [row |-> rows[i], mode |-> "update"] \in Plain
    BY <1>1 DEF Plain, Modes
  <1>3. PICK n \in Nat : n = Len(rows)
    BY <1>1
  <1>4. /\ FlushPostings(rows) \in [1..n -> Plain]
        /\ CommitChecks(rows) \in [1..n -> Plain]
    BY <1>2, <1>3 DEF FlushPostings, CommitChecks
  <1>5. FlushPostings(rows) \in Seq(Plain) /\ CommitChecks(rows) \in Seq(Plain)
    <2>1. [1..n -> Plain] \subseteq Seq(Plain)
      BY SeqDef
    <2> QED
      BY <1>4, <2>1, Zenon
  <1>6. \A s, t \in Seq(Plain) : s \o t \in Seq(Plain)
    BY ConcatProperties
  <1>7. PostAndCheck(rows) = FlushPostings(rows) \o CommitChecks(rows)
    BY Zenon DEF PostAndCheck
  <1> QED
    BY <1>5, <1>6, <1>7

\* With one wallet, every transaction locks it before all it shares with the others.
LEMMA ProgramsAreGuarded ==
    ASSUME NEW w \in Wallets, Wallets = {w}, NEW p \in Programs
    PROVE  Guarded(p, w)
  <1> DEFINE AllRows == {<<"wallet", v>> : v \in Wallets} \cup {<<"account", a>> : a \in System}
  <1>1. Wallet(w) \in AllRows /\ \A a \in System : Account(a) \in AllRows
    BY DEF Wallet, Account
  <1>2. {"issuance", "reserve", "revenue", "expired"} \subseteq System
    BY DEF System
  <1> HIDE DEF AllRows
  <1>3. LockWallets({w}) = <<WalletLock(w)>> /\ InOrder({w}) = <<w>>
    BY LocksOne
  <1>4. \A rows \in Seq(AllRows) : /\ FlushPostings(rows) \in Seq(Plain)
                                   /\ CommitChecks(rows) \in Seq(Plain)
                                   /\ PostAndCheck(rows) \in Seq(Plain)
    BY PlainPostings DEF AllRows
  <1>5. \A rest \in Seq(Plain) : Guarded(LockWallets({w}) \o rest, w)
    BY <1>3 DEF Guarded
  <1>6. \A starts \in BOOLEAN : RequestPostings(w, starts) \in Seq(AllRows)
    BY <1>1, <1>2 DEF RequestPostings
  <1>7. ASSUME NEW starts \in BOOLEAN, p = ModelRequest(w, starts)
        PROVE  Guarded(p, w)
    <2>1. PICK rest \in Seq(Plain) : rest = PostAndCheck(RequestPostings(w, starts))
      BY <1>4, <1>6
    <2>2. p = (<<Key("admission")>> \o <<WalletLock(w)>>) \o rest
      BY <1>3, <1>7, <2>1 DEF ModelRequest
    <2>3. <<Key("admission")>> \o <<WalletLock(w)>> = <<Key("admission"), WalletLock(w)>>
      BY TwoOfOne
    <2> QED
      BY <2>2, <2>3 DEF Guarded, AdvisoryKeys
  <1>8. ASSUME NEW starts \in BOOLEAN, p = HumanRequest(w, starts)
        PROVE  Guarded(p, w)
    BY <1>4, <1>5, <1>6, <1>8 DEF HumanRequest
  <1>9. ASSUME p = ModelEnd(w)
        PROVE  Guarded(p, w)
    <2>1. <<Account("reserve"), Account("revenue"), Wallet(w)>> \in Seq(AllRows)
      BY <1>1, <1>2
    <2> QED
      BY <1>4, <1>5, <1>9, <2>1 DEF ModelEnd
  <1>10. ASSUME p = IssueGrant(w)
         PROVE  Guarded(p, w)
    <2>1. <<Account("issuance"), Wallet(w)>> \in Seq(AllRows)
      BY <1>1, <1>2
    <2> QED
      BY <1>4, <1>5, <1>10, <2>1 DEF IssueGrant
  <1>11. ASSUME p = Sweep({w})
         PROVE  Guarded(p, w)
    <2>0. <<Wallet(w), Account("expired")>> \in Seq(AllRows)
      BY <1>1, <1>2
    <2>1. PICK rows \in Seq(AllRows) : rows = <<Wallet(w), Account("expired")>>
      BY <2>0, Zenon
    <2>2. [i \in 1..Len(<<w>>) |-> <<Wallet(<<w>>[i]), Account("expired")>>] = <<rows>>
      BY <2>1
    <2>3. FlattenSeq(<<rows>>) = rows
      BY FlattenOne
    <2>4. p = LockWallets({w}) \o PostAndCheck(rows)
      BY <1>3, <1>11, <2>2, <2>3, Zenon DEF Sweep
    <2> QED
      BY <1>4, <1>5, <2>4
  <1>12. ASSUME p = ExpireExecutions(<<w>>)
         PROVE  Guarded(p, w)
    <2>0. <<Account("reserve"), Wallet(w)>> \in Seq(AllRows)
      BY <1>1, <1>2
    <2>1. PICK rows \in Seq(AllRows) : rows = <<Account("reserve"), Wallet(w)>>
      BY <2>0, Zenon
    <2>2. PICK posted \in Seq(Plain), checked \in Seq(Plain) :
             posted = FlushPostings(rows) /\ checked = CommitChecks(rows)
      BY <1>4
    <2>3. PICK withWallet : withWallet = <<WalletLock(w)>> \o posted
      OBVIOUS
    <2>4. [i \in 1..Len(<<w>>) |->
              LockWallets({<<w>>[i]}) \o FlushPostings(<<Account("reserve"), Wallet(<<w>>[i])>>)] = <<withWallet>>
      <3>1. [i \in 1..1 |-> LockWallets({<<w>>[i]}) \o FlushPostings(<<Account("reserve"), Wallet(<<w>>[i])>>)]
              = [i \in 1..1 |-> withWallet]
        <4>1. \A i \in 1..1 : <<w>>[i] = w
          OBVIOUS
        <4> QED
          BY <1>3, <2>1, <2>2, <2>3, <4>1, Zenon
      <3>2. Len(<<w>>) = 1 /\ [i \in 1..1 |-> withWallet] = <<withWallet>>
        OBVIOUS
      <3> QED
        BY <3>1, <3>2, Zenon
    <2>5. [i \in 1..Len(<<w>>) |-> CommitChecks(<<Account("reserve"), Wallet(<<w>>[i])>>)] = <<checked>>
      BY <2>1, <2>2
    <2>6. PICK T : T = Plain \cup {WalletLock(w)}
      OBVIOUS
    <2>7. /\ <<WalletLock(w)>> \in Seq(T) /\ posted \in Seq(T) /\ checked \in Seq(T)
      BY <2>6, SeqMonotonic
    <2>8. withWallet \in Seq(T)
      BY <2>3, <2>7, ConcatProperties
    <2>9. FlattenSeq(<<withWallet>>) = withWallet /\ FlattenSeq(<<checked>>) = checked
      BY <2>7, <2>8, FlattenOne
    <2>10. p = withWallet \o checked
      BY <1>12, <2>4, <2>5, <2>9, Zenon DEF ExpireExecutions
    <2>11. p = <<WalletLock(w)>> \o (posted \o checked)
      BY <2>3, <2>7, <2>10, ConcatAssociative
    <2>12. posted \o checked \in Seq(Plain)
      BY <2>2, ConcatProperties
    <2> QED
      BY <2>11, <2>12 DEF Guarded
  <1>13. ASSUME p = HumanRelease(w)
         PROVE  Guarded(p, w)
    <2>1. <<Account("reserve"), Wallet(w)>> \in Seq(AllRows)
      BY <1>1, <1>2
    <2>2. PICK rest \in Seq(Plain) : rest = PostAndCheck(<<Account("reserve"), Wallet(w)>>)
      BY <1>4, <2>1
    <2>3. p = (<<Key("matching")>> \o <<WalletLock(w)>>) \o rest
      BY <1>3, <1>13, <2>2 DEF HumanRelease
    <2>4. <<Key("matching")>> \o <<WalletLock(w)>> = <<Key("matching"), WalletLock(w)>>
      BY TwoOfOne
    <2> QED
      BY <2>3, <2>4 DEF Guarded, AdvisoryKeys
  <1>14. \/ \E starts \in BOOLEAN : p = ModelRequest(w, starts) \/ p = HumanRequest(w, starts)
         \/ p = ModelEnd(w) \/ p = IssueGrant(w) \/ p = HumanRelease(w)
         \/ \E ws \in SetToAllKPermutations(Wallets) \ {<<>>} : p = ExpireExecutions(ws)
         \/ \E S \in (SUBSET Wallets) \ {{}} : p = Sweep(S)
    <2>1. HumanAnswers = {}
      BY DEF HumanAnswers
    <2>2. \/ p \in ModelRequests \/ p \in HumanRequests \/ p \in ModelEnds
          \/ p \in Expirations \/ p \in Sweeps \/ p \in Grants \/ p \in HumanReleases
      BY <2>1 DEF Programs, OfKind
    <2>3. p \in ModelRequests => \E starts \in BOOLEAN : p = ModelRequest(w, starts)
      BY DEF ModelRequests
    <2>4. p \in HumanRequests => \E starts \in BOOLEAN : p = HumanRequest(w, starts)
      BY DEF HumanRequests
    <2>5. /\ p \in ModelEnds => p = ModelEnd(w)
          /\ p \in Grants => p = IssueGrant(w)
          /\ p \in HumanReleases => p = HumanRelease(w)
      BY DEF ModelEnds, Grants, HumanReleases
    <2>6. p \in Expirations =>
              \E ws \in SetToAllKPermutations(Wallets) \ {<<>>} : p = ExpireExecutions(ws)
      BY DEF Expirations
    <2>7. p \in Sweeps => \E S \in (SUBSET Wallets) \ {{}} : p = Sweep(S)
      BY DEF Sweeps
    <2> QED
      BY <2>2, <2>3, <2>4, <2>5, <2>6, <2>7
  <1>15. \A S \in (SUBSET Wallets) \ {{}} : S = {w}
    OBVIOUS
  <1>16. \A ws \in SetToAllKPermutations(Wallets) \ {<<>>} : ws = <<w>>
    <2>1. SetToSeqs({}) \subseteq {<<>>}
      <3>1. Cardinality({}) = 0
        BY FS_EmptySet
      <3>2. \A f \in [1..0 -> {}] : f = <<>>
        OBVIOUS
      <3> QED
        BY <3>1, <3>2 DEF SetToSeqs
    <2>2. SetToSeqs({w}) \subseteq {<<w>>}
      <3>1. Cardinality({w}) = 1
        BY FS_Singleton
      <3>2. \A f \in [1..1 -> {w}] : f = <<w>>
        OBVIOUS
      <3> QED
        BY <3>1, <3>2 DEF SetToSeqs
    <2>3. \A S \in SUBSET Wallets : S = {} \/ S = {w}
      OBVIOUS
    <2> SUFFICES ASSUME NEW ws \in SetToAllKPermutations(Wallets), ws # <<>>
                 PROVE  ws = <<w>>
      OBVIOUS
    <2>4. PICK S \in SUBSET Wallets : ws \in SetToSeqs(S)
      BY Zenon DEF SetToAllKPermutations
    <2>5. CASE S = {}
      BY <2>1, <2>4, <2>5
    <2>6. CASE S = {w}
      BY <2>2, <2>4, <2>6
    <2> QED
      BY <2>3, <2>5, <2>6
  <1> QED
    BY <1>7, <1>8, <1>9, <1>10, <1>11, <1>12, <1>13, <1>14, <1>15, <1>16

\* A guarded program, lock by lock.
InTurn(p, w) ==
    \/ Len(p) >= 1 /\ p[1] = WalletLock(w) /\ \A i \in 2..Len(p) : p[i] \in Plain
    \/ /\ Len(p) >= 2 /\ p[1] \in AdvisoryKeys /\ p[2] = WalletLock(w)
       /\ \A i \in 3..Len(p) : p[i] \in Plain

LEMMA GuardedInTurn ==
    ASSUME NEW w, NEW p, Guarded(p, w)
    PROVE  InTurn(p, w) /\ Len(p) \in Nat /\ p # <<>>
  <1>1. PICK rest \in Seq(Plain) :
            \/ p = <<WalletLock(w)>> \o rest
            \/ \E k \in AdvisoryKeys : p = <<k, WalletLock(w)>> \o rest
    BY Zenon DEF Guarded
  <1>0. PICK k \in AdvisoryKeys :
            p = <<WalletLock(w)>> \o rest \/ p = <<k, WalletLock(w)>> \o rest
    BY <1>1 DEF AdvisoryKeys
  <1>2. PICK T : T = Plain \cup {WalletLock(w), k}
    OBVIOUS
  <1>3. PICK one \in Seq(T), two \in Seq(T) :
            /\ one = <<WalletLock(w)>> /\ two = <<k, WalletLock(w)>>
    <2>1. <<WalletLock(w)>> \in Seq(T) /\ <<k, WalletLock(w)>> \in Seq(T)
      BY <1>2
    <2> QED
      BY <2>1, Zenon
  <1>4. /\ Len(one) = 1 /\ one[1] = WalletLock(w)
        /\ Len(two) = 2 /\ two[1] = k /\ two[2] = WalletLock(w)
    BY <1>3
  <1>5. rest \in Seq(T) /\ Len(rest) \in Nat /\ \A i \in 1..Len(rest) : rest[i] \in Plain
    BY <1>2, SeqMonotonic, LenProperties, ElementOfSeq
  <1>6. \A before \in Seq(T) :
            /\ Len(before \o rest) = Len(before) + Len(rest)
            /\ \A i \in 1..(Len(before) + Len(rest)) : (before \o rest)[i] =
                   IF i <= Len(before) THEN before[i] ELSE rest[i - Len(before)]
    BY <1>5, ConcatProperties
  <1>7. CASE p = one \o rest
    <2>1. Len(p) = 1 + Len(rest)
      BY <1>4, <1>6, <1>7
    <2>2. \A i \in 1..(1 + Len(rest)) : p[i] = IF i <= 1 THEN one[i] ELSE rest[i - 1]
      BY <1>4, <1>6, <1>7
    <2>3. p[1] = WalletLock(w) /\ \A i \in 2..(1 + Len(rest)) : p[i] \in Plain
      <3>1. \A i \in 2..(1 + Len(rest)) : i - 1 \in 1..Len(rest) /\ p[i] = rest[i - 1]
        BY <1>5, <2>2
      <3>2. p[1] = one[1]
        BY <1>5, <2>2
      <3> QED
        BY <1>4, <1>5, <3>1, <3>2
    <2> QED
      BY <1>5, <2>1, <2>3 DEF InTurn
  <1>8. CASE p = two \o rest
    <2>1. Len(p) = 2 + Len(rest)
      BY <1>4, <1>6, <1>8
    <2>2. \A i \in 1..(2 + Len(rest)) : p[i] = IF i <= 2 THEN two[i] ELSE rest[i - 2]
      BY <1>4, <1>6, <1>8
    <2>3. /\ p[1] = k /\ p[2] = WalletLock(w)
          /\ \A i \in 3..(2 + Len(rest)) : p[i] \in Plain
      <3>1. \A i \in 3..(2 + Len(rest)) : i - 2 \in 1..Len(rest) /\ p[i] = rest[i - 2]
        BY <1>5, <2>2
      <3>2. p[1] = two[1] /\ p[2] = two[2]
        BY <1>5, <2>2
      <3> QED
        BY <1>4, <1>5, <3>1, <3>2
    <2> QED
      BY <1>5, <2>1, <2>3 DEF InTurn
  <1> QED
    BY <1>0, <1>3, <1>7, <1>8

\* The inductive invariant: sessions run such transactions, and the locks they have are
\* compatible.
LocksInv(w) ==
    /\ granted \in [Transactions -> Nat] /\ DOMAIN program = Transactions
    /\ \A t \in Transactions :
           /\ Len(program[t]) \in Nat /\ granted[t] <= Len(program[t])
           /\ program[t] = <<>> \/ InTurn(program[t], w)
    /\ \A t, o \in Transactions : t # o =>
           \A a \in Held(t), b \in Held(o) : ~Conflict(a, b)

LEMMA LocksInvInit ==
    ASSUME NEW w, LocksInit
    PROVE  LocksInv(w)
  <1>1. \A t \in Transactions : program[t] = <<>> /\ granted[t] = 0
    BY DEF LocksInit
  <1>2. \A t \in Transactions : Held(t) = {}
    BY <1>1 DEF Held
  <1> QED
    BY <1>1, <1>2 DEF LocksInit, LocksInv

LEMMA LocksInvNext ==
    ASSUME NEW w \in Wallets, Wallets = {w}, LocksInv(w), [LocksNext]_lockVars
    PROVE  LocksInv(w)'
  <1>0. CASE UNCHANGED lockVars
    BY <1>0 DEF lockVars, LocksInv, Held
  <1>1. ASSUME NEW t \in Transactions, Begin(t)
        PROVE  LocksInv(w)'
    <2>1. PICK p \in Programs : program' = [program EXCEPT ![t] = p]
      BY <1>1 DEF Begin
    <2>2. InTurn(p, w) /\ Len(p) \in Nat
      BY ProgramsAreGuarded, GuardedInTurn
    <2>3. granted' = granted /\ granted[t] = 0
      BY <1>1 DEF Begin, LocksInv
    <2>4. Held(t)' = {} /\ \A o \in Transactions \ {t} : Held(o)' = Held(o)
      BY <2>1, <2>3 DEF Held, LocksInv
    <2>5. \A o \in Transactions : program'[o] = IF o = t THEN p ELSE program[o]
      BY <2>1 DEF LocksInv
    <2>6. \A o \in Transactions : /\ Len(program'[o]) \in Nat /\ granted'[o] <= Len(program'[o])
                                  /\ program'[o] = <<>> \/ InTurn(program'[o], w)
      BY <2>2, <2>3, <2>5 DEF LocksInv
    <2>7. \A u, o \in Transactions : u # o => \A a \in Held(u)', b \in Held(o)' : ~Conflict(a, b)
      BY <2>4 DEF LocksInv
    <2> QED
      BY <2>1, <2>3, <2>6, <2>7 DEF LocksInv
  <1>2. ASSUME NEW t \in Transactions, Lock(t)
        PROVE  LocksInv(w)'
    <2>1. /\ program' = program /\ granted' = [granted EXCEPT ![t] = @ + 1]
          /\ granted[t] < Len(program[t])
      BY <1>2 DEF Lock, Waiting
    <2>2. /\ \A o \in Transactions : granted'[o] = IF o = t THEN granted[t] + 1 ELSE granted[o]
          /\ granted' \in [Transactions -> Nat]
      BY <2>1 DEF LocksInv
    <2>3. \A o \in Transactions \ {t} : Held(o)' = Held(o)
      BY <2>1, <2>2 DEF Held
    <2>4. Held(t)' = Held(t) \cup {Wants(t)}
      <3>1. granted[t] \in Nat
        BY DEF LocksInv
      <3>2. 1..(granted[t] + 1) = (1..granted[t]) \cup {granted[t] + 1}
        BY <3>1
      <3> QED
        BY <2>1, <2>2, <3>2 DEF Held, Wants
    <2>5. \A o \in Transactions \ {t} : \A b \in Held(o) :
              ~Conflict(Wants(t), b) /\ ~Conflict(b, Wants(t))
      BY <1>2 DEF Lock, WaitsFor, Conflict
    <2>6. \A u, o \in Transactions : u # o => \A a \in Held(u)', b \in Held(o)' : ~Conflict(a, b)
      BY <2>3, <2>4, <2>5 DEF LocksInv
    <2>7. \A o \in Transactions : Len(program[o]) \in Nat /\ granted'[o] <= Len(program[o])
      BY <2>1, <2>2 DEF LocksInv
    <2> QED
      BY <2>1, <2>2, <2>6, <2>7 DEF LocksInv
  <1>3. ASSUME NEW t \in Transactions, Commit(t)
        PROVE  LocksInv(w)'
    <2>1. /\ \A o \in Transactions : program'[o] = IF o = t THEN <<>> ELSE program[o]
          /\ \A o \in Transactions : granted'[o] = IF o = t THEN 0 ELSE granted[o]
          /\ DOMAIN program' = Transactions /\ granted' \in [Transactions -> Nat]
      BY <1>3 DEF Commit, LocksInv
    <2>2. Held(t)' = {} /\ \A o \in Transactions \ {t} : Held(o)' = Held(o)
      BY <2>1 DEF Held
    <2>3. \A u, o \in Transactions : u # o => \A a \in Held(u)', b \in Held(o)' : ~Conflict(a, b)
      BY <2>2 DEF LocksInv
    <2>4. \A o \in Transactions : /\ Len(program'[o]) \in Nat /\ granted'[o] <= Len(program'[o])
                                  /\ program'[o] = <<>> \/ InTurn(program'[o], w)
      BY <2>1 DEF LocksInv
    <2> QED
      BY <2>1, <2>3, <2>4 DEF LocksInv
  <1> QED
    BY <1>0, <1>1, <1>2, <1>3 DEF LocksNext

\* A session that has the wallet only wants rows nobody else can hold without the wallet.
LEMMA HasWalletOrNot ==
    ASSUME NEW w \in Wallets, LocksInv(w), NEW t \in Transactions
    PROVE  \/ WalletLock(w) \in Held(t) /\ (Waiting(t) => Wants(t) \in Plain)
           \/ /\ Held(t) \subseteq AdvisoryKeys /\ WalletLock(w) \notin Held(t)
              /\ Held(t) # {} /\ Waiting(t) => Wants(t) = WalletLock(w)
  <1>1. /\ granted[t] \in Nat /\ Len(program[t]) \in Nat /\ granted[t] <= Len(program[t])
        /\ program[t] = <<>> \/ InTurn(program[t], w)
    BY DEF LocksInv
  <1>2. WalletLock(w) \notin AdvisoryKeys
    BY DEF WalletLock, Key, Wallet, AdvisoryKeys
  <1>3. CASE granted[t] = 0
    BY <1>3 DEF Held
  <1>4. CASE /\ granted[t] >= 1 /\ program[t][1] = WalletLock(w)
             /\ \A i \in 2..Len(program[t]) : program[t][i] \in Plain
    <2>1. 1 \in 1..granted[t]
      BY <1>1, <1>4
    <2>2. WalletLock(w) \in Held(t)
      BY <1>4, <2>1 DEF Held
    <2>3. Waiting(t) => granted[t] + 1 \in 2..Len(program[t])
      BY <1>1, <1>4 DEF Waiting
    <2> QED
      BY <1>4, <2>2, <2>3 DEF Wants
  <1>5. CASE /\ granted[t] = 1 /\ program[t][1] \in AdvisoryKeys
             /\ program[t][2] = WalletLock(w)
    <2>1. Held(t) = {program[t][1]}
      BY <1>5 DEF Held
    <2>2. Wants(t) = WalletLock(w)
      BY <1>5 DEF Wants
    <2> QED
      BY <1>2, <1>5, <2>1, <2>2
  <1>6. CASE /\ granted[t] >= 2 /\ program[t][2] = WalletLock(w)
             /\ \A i \in 3..Len(program[t]) : program[t][i] \in Plain
    <2>1. 2 \in 1..granted[t]
      BY <1>1, <1>6
    <2>2. WalletLock(w) \in Held(t)
      BY <1>6, <2>1 DEF Held
    <2>3. Waiting(t) => granted[t] + 1 \in 3..Len(program[t])
      BY <1>1, <1>6 DEF Waiting
    <2> QED
      BY <1>6, <2>2, <2>3 DEF Wants
  <1>7. program[t] = <<>> => granted[t] = 0
    BY <1>1
  <1> QED
    BY <1>1, <1>3, <1>4, <1>5, <1>6, <1>7 DEF InTurn

LEMMA NobodyWaitsInACircle ==
    ASSUME NEW w \in Wallets, LocksInv(w)
    PROVE  NoDeadlock
  <1> SUFFICES ASSUME NEW S \in (SUBSET Transactions) \ {{}}
               PROVE  \E t \in S : \A o \in S : ~WaitsFor(t, o)
    BY DEF NoDeadlock
  <1>1. \A t, o \in S : t # o => \A a \in Held(t), b \in Held(o) : ~Conflict(a, b)
    BY DEF LocksInv
  <1>2. /\ Conflict(WalletLock(w), WalletLock(w))
        /\ \A k \in AdvisoryKeys : /\ ~Conflict(WalletLock(w), k)
                                    /\ \A a \in Plain : ~Conflict(a, k)
    BY DEF Conflict, WalletLock, Wallet, Key, Plain, AdvisoryKeys
  <1>3. \A t \in S :
           \/ WalletLock(w) \in Held(t) /\ (Waiting(t) => Wants(t) \in Plain)
           \/ /\ Held(t) \subseteq AdvisoryKeys /\ WalletLock(w) \notin Held(t)
              /\ Held(t) # {} /\ Waiting(t) => Wants(t) = WalletLock(w)
    BY HasWalletOrNot
  <1>4. ASSUME NEW t \in S, WalletLock(w) \in Held(t)
        PROVE  \A o \in S : ~WaitsFor(t, o)
    <2> SUFFICES ASSUME NEW o \in S, WaitsFor(t, o)
                 PROVE  FALSE
      OBVIOUS
    <2>1. o # t /\ Waiting(t)
      BY DEF WaitsFor
    <2>2. PICK h \in Held(o) : Conflict(Wants(t), h)
      BY DEF WaitsFor
    <2>3. WalletLock(w) \notin Held(o)
      BY <1>1, <1>2, <1>4, <2>1
    <2>4. h \in AdvisoryKeys
      BY <1>3, <2>2, <2>3
    <2>5. Wants(t) \in Plain
      BY <1>3, <1>4, <2>1, <1>2
    <2> QED
      BY <1>2, <2>2, <2>4, <2>5
  <1>5. ASSUME \A o \in S : WalletLock(w) \notin Held(o), NEW t \in S, Held(t) # {}
        PROVE  \A o \in S : ~WaitsFor(t, o)
    <2> SUFFICES ASSUME NEW o \in S, WaitsFor(t, o)
                 PROVE  FALSE
      OBVIOUS
    <2>1. Wants(t) = WalletLock(w)
      BY <1>3, <1>5 DEF WaitsFor
    <2>2. Held(o) \subseteq AdvisoryKeys
      BY <1>3, <1>5
    <2> QED
      BY <1>2, <2>1, <2>2 DEF WaitsFor
  <1>6. ASSUME \A o \in S : Held(o) = {}, NEW t \in S
        PROVE  \A o \in S : ~WaitsFor(t, o)
    BY <1>6 DEF WaitsFor
  <1> QED
    BY <1>4, <1>5, <1>6

\* NoDeadlock for one wallet, any number of sessions and any of the kinds of transaction:
\* what the comment at repositories/credits.py:657 promises holds of the transactions of
\* one user, who takes the wallet before every row they share.
THEOREM OneWalletNeverDeadlocks ==
    ASSUME NEW w \in Wallets, Wallets = {w}
    PROVE  LocksSpec => []NoDeadlock
  <1>1. LocksInit => LocksInv(w)
    BY LocksInvInit
  <1>2. LocksInv(w) /\ [LocksNext]_lockVars => LocksInv(w)'
    BY LocksInvNext
  <1>3. LocksInv(w) => NoDeadlock
    BY NobodyWaitsInACircle
  <1> QED
    BY <1>1, <1>2, <1>3, PTL DEF LocksSpec

=============================================================================
