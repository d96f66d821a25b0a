------------------------------ MODULE MCCreditLedger ------------------------------
(* Instances of CreditLedger, with its statements and guards, for TLC. *)
EXTENDS LedgerGuards, TLC

\* Users, executions and runs of the command are interchangeable: no definition tells two
\* of a kind apart.
Symmetry == Permutations(Users) \cup Permutations(Executions) \cup Permutations(Sweepers)

MCTariff == [fixed |-> 1, inputRate |-> 1, outputRate |-> 2, maximum |-> 12, unmetered |-> 5]

\* Charged the unmetered amount, which is a part of what was held, and what was used, up to
\* the maximum.  Executions by humans are charged nothing, or all.
MCUsages ==
    {[outcome |-> "completed", input |-> 2, output |-> Absent],
     [outcome |-> "cancelled", input |-> 4, output |-> 5]}

=============================================================================
