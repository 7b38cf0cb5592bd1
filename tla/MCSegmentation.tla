--------------------------- MODULE MCSegmentation ---------------------------
(***************************************************************************)
(* Seven rows, two blocks of which share two: the smallest transcript in   *)
(* which two blocks can propose one boundary and disagree about a near one. *)
(***************************************************************************)
EXTENDS Segmentation

MCCost == [i \in 0..Rows-1 |-> 1]
=============================================================================
