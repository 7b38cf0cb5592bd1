----------------------------- MODULE MCFormalReads -----------------------------
(***************************************************************************)
(* Two sources make the same claim, the second in an occurrence that awaits  *)
(* a review; the first makes an unsupported claim too and one that is contested, *)
(* the second a claim with two occurrences.  The first snapshot is replayed, and    *)
(* the shared claim verified again.  Two clients ask under one key.          *)
(***************************************************************************)
EXTENDS FormalReads

\* What is published is grounded: its primary evidence is of the transcript
\* (ClaimDraftGrounder, ClaimOccurrence).
Said(c, o, review) ==
  [claim |-> c, occurrence |-> o, review |-> review, primary |-> {"transcript"}, support |-> 2]
Unsupported(c, o) == [Said(c, o, FALSE) EXCEPT !.support = 0]

Drafted ==
  [w \in Ingests |->
    IF w = "s1" THEN <<Said(1, 1, FALSE), Unsupported(3, 5), Said(4, 6, FALSE)>>
    ELSE <<Said(1, 2, TRUE), Said(2, 3, FALSE), Said(2, 4, FALSE)>>]

Replayed == [w \in Replays |-> "s1"]
Refreshed == [w \in Refreshes |-> 1]

AsOf(s, business, known, available, contract) ==
  [snapshot |-> s, business |-> business, known |-> known, available |-> available,
   minimum |-> 1, most |-> 2, contract |-> contract]

Alike == Permutations(Clients)

Asking ==
  {AsOf("s1", 2, 1, 2, "v2"), AsOf("s1", 4, 4, 4, "v1"),
   AsOf("s2", 1, 3, 3, "v2"), AsOf("s2", 4, 4, 4, "v2")}
=============================================================================
