------------------------------ MODULE MCLedgerLocks ------------------------------
(* Instances of LedgerLocks for TLC. *)
EXTENDS LedgerLocks, TLC

\* Sessions are interchangeable; wallets are not, they are locked in order.
Symmetry == Permutations(Transactions)

=============================================================================
