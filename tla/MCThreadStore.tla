------------------------------ MODULE MCThreadStore ------------------------------
(* Values of the constants of ThreadStore for TLC. *)
EXTENDS ThreadStore, TLC

\* One user with two windows open.
MCPrincipalOf == [c \in Callers |-> "uma"]
WindowsAlike == Permutations(Callers)

\* Bound: with two threads or a human asked, one request less and one execution less.
HumanAsked ==
    \/ \E r \in DOMAIN requests : requests[r].kind = "human"
    \/ \E c \in Callers : call[c].kind = "human"
FewRows ==
    Len(threads) > 1 \/ HumanAsked => Len(requests) < MaxRequests /\ Len(executions) < MaxExecutions
===============================================================================
