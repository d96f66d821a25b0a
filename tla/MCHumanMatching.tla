---------------------------- MODULE MCHumanMatching ----------------------------
(* Values of the constants of HumanMatching for TLC. *)
EXTENDS HumanMatching, TLC

\* One execution is asked by somebody who never answers, the other by a performer.
MCOwner == <<"requester", "ann">>
MCAsked == <<[answerer |-> "human-lite", effort |-> "low"],
             [answerer |-> "human-standard", effort |-> "medium"]>>
MCOwnerEach == <<"ann", "ben">>
MCTimeLimit == "low" :> 2 @@ "medium" :> 2 @@ "high" :> 2 @@ "xhigh" :> 2

MCConditions == {[answerers |-> {"human-lite", "human-standard"}, efforts |-> {"low", "medium"}]}
===============================================================================
