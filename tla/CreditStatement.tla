----------------------------- MODULE CreditStatement ------------------------------
(***************************************************************************)
(* What a user is shown of the ledger: the balance, a lot's balance and    *)
(* the pages of transactions (repositories/credits.py).  The balance is    *)
(* computed from lots and reservations, the pages from postings.           *)
(***************************************************************************)
EXTENDS CreditLedger

LotsOf(u) == {l \in DOMAIN lots : lots[l].owner = u}

\* _spendable_balance
Spendable(u, now) ==
    Total(LAMBDA l : AvailableAt(lots[l], l, now), {l \in LotsOf(u) : Current(lots[l], now)})

\* balance
ShownBalance(u, now) ==
    LET holding == {e \in Executions : /\ reservation[e].owner = u
                                       /\ reservation[e].created <= now
                                       /\ now < reservation[e].finalized}
    IN  [available |-> Spendable(u, now),
         reserved |-> Total(LAMBDA e : reservation[e].amount, holding)]

\* lot_balance, which raises when the remainder is negative
LotBalance(l, now) ==
    LET used == UsedAt(l, now)
        reserved == HeldAt(l, now)
    IN  [limit |-> lots[l].amount, used |-> used, reserved |-> reserved,
         remaining |-> lots[l].amount - used - reserved]

\* The transactions of a user's reservations, which may not post to the wallet at all.
OfReservation(u, t) ==
    t.kind \in {"reserve", "settle", "release"} /\ reservation[t.of].owner = u

\* Faulty variant: only the transactions that post to the wallet.
PagesOfPostings(u) == {t \in journal : u \in DOMAIN t.postings}

\* transaction_page, all pages together
Pages(u) == {t \in journal : u \in DOMAIN t.postings \/ OfReservation(u, t)}

AvailableDelta(u, t) == IF u \in DOMAIN t.postings THEN t.postings[u] ELSE 0

ReservedDelta(u, t) ==
    IF ~OfReservation(u, t) THEN 0
    ELSE IF t.kind = "reserve" THEN reservation[t.of].amount ELSE -reservation[t.of].amount

---------------------------------------------------------------------------
(* Properties *)

\* The ledger makes sense as of every past instant, although the expiry command writes into
\* the past: lot_balance never finds that more was used of a lot than there was.
HistoryAddsUp ==
    \A l \in DOMAIN lots : \A now \in lots[l].issued..clock : LotBalance(l, now).remaining >= 0

\* A user who adds up the pages of transactions gets the balance that is shown, except for
\* what has expired and was not moved away yet.
StatementAddsUp ==
    \A u \in Users :
        LET shown == ShownBalance(u, clock)
            lapsed == {l \in LotsOf(u) : Lapsed(lots[l], clock)}
        IN
        /\ Total(LAMBDA t : ReservedDelta(u, t), Pages(u)) = shown.reserved
        /\ Total(LAMBDA t : AvailableDelta(u, t), Pages(u))
             = shown.available + Total(LAMBDA l : LotBalance(l, clock).remaining, lapsed)

=============================================================================
