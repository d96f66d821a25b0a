---------------------------- MODULE MCThreadRealtime ----------------------------
(* Bounds of the run of ThreadRealtime. *)
EXTENDS ThreadRealtime

\* Bound: two events that wait to be published may be so in either order.
FewUnpublished == Cardinality(unpublished) <= 2
=================================================================================
