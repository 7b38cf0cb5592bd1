---------------------------- MODULE MCClaimLedger ----------------------------
(* What a content task writes for the readers of its claims, one part at a    *)
(* time: the histories of the claims, and the projection of the knowledge     *)
(* into the index.  The parts share no state a property speaks of: `part'     *)
(* says which of them moves, the other rests.                                 *)
EXTENDS ClaimLedger, KnowledgeProjection

VARIABLE part

allVars == <<part, vars, projectionVars>>

-----------------------------------------------------------------------------
(* The histories: two sources that share a claim, the replay of one, a job of *)
(* the shared claim and a review of it.                                       *)
CONSTANTS first, second, again, closing, review

\* The second source has only the shared claim; the replays are of the first.
ClaimsByWriter == [w \in Writers |-> IF w \in {first, again} THEN {1, 2} ELSE {2}]
Hashes == [w \in Writers |-> IF w = first THEN "INITIAL" ELSE "LIFECYCLE"]
Source == [w \in Replays |-> first]
Twice == [w \in Writers |-> IF w = first THEN 2 ELSE 1]
Ends == [c \in Claims |-> IF c = 2 THEN 1 ELSE 9]

\* Bound: all five writers meet, and the first begins again beside any others, but
\* not beside all of them.
OneStaysAway == tries[first] <= 1 \/ \E w \in {second, closing, review} : tries[w] = 0

-----------------------------------------------------------------------------
(* The projection: one task, its intent, and two dispatchers with ids of      *)
(* their own.                                                                 *)
CONSTANTS d1, d2, w1, w2

OwnIds == [d \in {d1, d2} |-> IF d = d1 THEN w1 ELSE w2]

-----------------------------------------------------------------------------
AllInit == part \in {"ledger", "projection"} /\ Init /\ ProjectionInit

AllNext ==
  \/ part = "ledger" /\ Next /\ OneStaysAway' /\ UNCHANGED <<part, projectionVars>>
  \/ part = "projection" /\ ProjectionNext /\ UNCHANGED <<part, vars>>

\* While the projection rests nothing of it is enabled, and its fairness asks
\* for nothing.
AllSpec == AllInit /\ [][AllNext]_allVars /\ Fairness
=============================================================================
