------------------------------ MODULE MCRetention ------------------------------
(* Two artifacts of the same bytes, ingested when they were, and two sweeps.  *)
EXTENDS Retention

SameBytes == [a \in Artifacts |-> "file"]
=============================================================================
