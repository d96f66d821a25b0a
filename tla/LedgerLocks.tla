------------------------------- MODULE LedgerLocks -------------------------------
(***************************************************************************)
(* The row and advisory locks that the transactions of the credit ledger   *)
(* take in PostgreSQL, and the order they take them in.                    *)
(*                                                                         *)
(* A transaction is the list of its lock requests: what the code locks     *)
(* explicitly; the key-share lock each new posting takes on its account    *)
(* through the foreign key; and, when it commits, the update lock that     *)
(* the deferred trigger assert_credit_account_nonnegative takes on the     *)
(* account of every posting.  The lots of a wallet are only locked by      *)
(* transactions that hold the wallet, and are left out; so are the rows of *)
(* threads and executions, which a transaction locks before the wallet     *)
(* (the reconciler skips those that are taken).                            *)
(***************************************************************************)
EXTENDS Naturals, Sequences, FiniteSets, SequencesExt

CONSTANTS
    Transactions,  \* database sessions, each running one transaction after another
    Wallets,       \* ids of the wallets, which are compared with <
    Kinds          \* the kinds of transaction the sessions run

ASSUME WalletsAssumption == Wallets \subseteq Nat

VARIABLES
    program,  \* what each session's transaction will lock, in order; <<>> outside one
    granted   \* how many of these locks it has

lockVars == <<program, granted>>

Modes == {"key share", "update"}

System == {"issuance", "reserve", "revenue", "expired"}

\* Wallets and accounts, and the keys of advisory locks.
Rows == {<<"wallet", w>> : w \in Wallets}
          \cup {<<"account", a>> : a \in System}
          \cup {<<"key", k>> : k \in {"admission", "matching"}}

Key(k) == [row |-> <<"key", k>>, mode |-> "update"]
Wallet(w) == <<"wallet", w>>
Account(a) == <<"account", a>>

InOrder(S) == CHOOSE s \in SetToSeqs(S) : \A i, j \in 1..Len(s) : i < j => s[i] < s[j]

\* SELECT ... ORDER BY id FOR UPDATE
LockWallets(S) ==
    LET inOrder == InOrder(S) IN
    [i \in 1..Len(inOrder) |-> [row |-> Wallet(inOrder[i]), mode |-> "update"]]

\* The foreign key of credit_postings.account_id, when the postings are flushed.
FlushPostings(rows) == [i \in 1..Len(rows) |-> [row |-> rows[i], mode |-> "key share"]]

\* The trigger of each posting, when the transaction commits.
CommitChecks(rows) == [i \in 1..Len(rows) |-> [row |-> rows[i], mode |-> "update"]]

PostAndCheck(rows) == FlushPostings(rows) \o CommitChecks(rows)

---------------------------------------------------------------------------
(* The transactions *)

\* A request may start an allowance, which is issued before its price is reserved.
RequestPostings(w, starts) ==
    (IF starts THEN <<Account("issuance"), Wallet(w)>> ELSE <<>>)
        \o <<Wallet(w), Account("reserve")>>

\* create, append, retry and regenerate with a model: admission control first.
ModelRequest(w, starts) ==
    <<Key("admission")>> \o LockWallets({w}) \o PostAndCheck(RequestPostings(w, starts))

\* The same for a human: there is no admission control.
HumanRequest(w, starts) == LockWallets({w}) \o PostAndCheck(RequestPostings(w, starts))

\* Faulty variant: the postings are flushed before the wallet is locked.
ModelEndUnlocked(w) ==
    LET rows == <<Account("reserve"), Account("revenue"), Wallet(w)>> IN
    FlushPostings(rows) \o LockWallets({w}) \o CommitChecks(rows)

\* The projector, or a cancellation, finalizes a model execution that was charged a part
\* of its reservation.
ModelEnd(w) ==
    LockWallets({w}) \o PostAndCheck(<<Account("reserve"), Account("revenue"), Wallet(w)>>)

\* A performer's answer: under the matching lock, with both wallets.
HumanAnswer(w, performer) ==
    <<Key("matching")>> \o LockWallets({w, performer})
        \o PostAndCheck(<<Account("reserve"), Account("revenue"), Wallet(performer)>>)

\* A requester's cancellation of a request to a human, which is refunded: under the
\* matching lock.
HumanRelease(w) ==
    <<Key("matching")>> \o LockWallets({w}) \o PostAndCheck(<<Account("reserve"), Wallet(w)>>)

\* The reconciler fails all overdue executions in one transaction, in deadline order.
ExpireExecutions(ws) ==
    FlattenSeq([i \in 1..Len(ws) |->
        LockWallets({ws[i]}) \o FlushPostings(<<Account("reserve"), Wallet(ws[i])>>)])
      \o FlattenSeq([i \in 1..Len(ws) |-> CommitChecks(<<Account("reserve"), Wallet(ws[i])>>)])

\* The expiry command: all wallets first, then a transaction record per lot.
Sweep(S) ==
    LET inOrder == InOrder(S) IN
    LockWallets(S)
      \o PostAndCheck(FlattenSeq([i \in 1..Len(inOrder) |->
                                <<Wallet(inOrder[i]), Account("expired")>>]))

IssueGrant(w) == LockWallets({w}) \o PostAndCheck(<<Account("issuance"), Wallet(w)>>)

ModelRequests == {ModelRequest(w, starts) : w \in Wallets, starts \in BOOLEAN}
HumanRequests == {HumanRequest(w, starts) : w \in Wallets, starts \in BOOLEAN}
ModelEnds == {ModelEnd(w) : w \in Wallets}
HumanAnswers == {HumanAnswer(p[1], p[2]) : p \in {q \in Wallets \X Wallets : q[1] # q[2]}}
HumanReleases == {HumanRelease(w) : w \in Wallets}
Expirations == {ExpireExecutions(ws) : ws \in SetToAllKPermutations(Wallets) \ {<<>>}}
Sweeps == {Sweep(S) : S \in (SUBSET Wallets) \ {{}}}
Grants == {IssueGrant(w) : w \in Wallets}

OfKind(kind, S) == IF kind \in Kinds THEN S ELSE {}

Programs ==
    OfKind("model request", ModelRequests) \cup OfKind("human request", HumanRequests)
      \cup OfKind("model end", ModelEnds) \cup OfKind("human answer", HumanAnswers)
      \cup OfKind("human release", HumanReleases)
      \cup OfKind("expire executions", Expirations) \cup OfKind("sweep", Sweeps)
      \cup OfKind("grant", Grants)

---------------------------------------------------------------------------
(* Locking *)

Held(t) == {program[t][i] : i \in 1..granted[t]}

\* Two key-share locks of a row are compatible, and no others.
Conflict(a, b) == a.row = b.row /\ ~(a.mode = "key share" /\ b.mode = "key share")

Wants(t) == program[t][granted[t] + 1]

Waiting(t) == granted[t] < Len(program[t])

WaitsFor(t, o) ==
    /\ t # o /\ Waiting(t)
    /\ \E h \in Held(o) : Conflict(Wants(t), h)

LocksTypeOK ==
    /\ program \in [Transactions -> Seq([row : Rows, mode : Modes])]
    /\ \A t \in Transactions : granted[t] \in 0..Len(program[t])

LocksInit ==
    /\ program = [t \in Transactions |-> <<>>]
    /\ granted = [t \in Transactions |-> 0]

Begin(t) ==
    /\ program[t] = <<>>
    /\ \E p \in Programs : program' = [program EXCEPT ![t] = p]
    /\ UNCHANGED granted

Lock(t) ==
    /\ Waiting(t)
    /\ \A o \in Transactions : ~WaitsFor(t, o)
    /\ granted' = [granted EXCEPT ![t] = @ + 1]
    /\ UNCHANGED program

Commit(t) ==
    /\ program[t] # <<>> /\ ~Waiting(t)
    /\ program' = [program EXCEPT ![t] = <<>>]
    /\ granted' = [granted EXCEPT ![t] = 0]

LocksNext == \E t \in Transactions : Begin(t) \/ Lock(t) \/ Commit(t)

LocksSpec == LocksInit /\ [][LocksNext]_lockVars

---------------------------------------------------------------------------
(* Properties *)

\* No transactions wait for each other, so that PostgreSQL never has to abort one of them:
\* no path handles that error.  The comment at repositories/credits.py:657 says that the
\* wallets are the common serialization boundary and that every path locks in one order.
NoDeadlock ==
    \A S \in (SUBSET Transactions) \ {{}} :
        \E t \in S : \A o \in S : ~WaitsFor(t, o)

=============================================================================
