-------------------------------- MODULE Selection --------------------------------
(* Some of the entries of a sequence, as a query with a condition returns them. *)
EXTENDS Naturals, Sequences, SequencesExt

\* The entries at some places, in their order.
Kept(ln, places) ==
    FoldLeftDomain(LAMBDA kept, i : IF i \in places THEN Append(kept, ln[i]) ELSE kept, <<>>, ln)

=============================================================================
