------------------------------ MODULE MCHumanRanks ------------------------------
(* A policy with the shape of HUMAN_RANK_POLICY and small samples. *)
EXTENDS HumanRanks, TLC

Staying == [attempts |-> 2, rated |-> 2, positiveRate |-> 5000, completionRate |-> 6000]

MCPolicy ==
    [attemptLimit |-> 3, ratingLimit |-> 2,
     promotion |->
        1 :> [completed |-> 2, attempts |-> 2, rated |-> 1, positiveRate |-> 8000,
              completionRate |-> 6000]
        @@ 2 :> [completed |-> 2, attempts |-> 2, rated |-> 2, positiveRate |-> 9000,
                 completionRate |-> 6000],
     retention |-> 2 :> Staying @@ 3 :> Staying]
===============================================================================
