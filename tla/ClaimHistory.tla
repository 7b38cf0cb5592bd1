------------------------------ MODULE ClaimHistory ------------------------------
(***************************************************************************)
(* What the formal state stream promises its readers (the projector, the    *)
(* signal service, replay): each claim has one history, and all that ever   *)
(* happens to a history is that events it does not hold yet are put at its  *)
(* end.  One publication may extend the histories of several claims at once. *)
(***************************************************************************)
EXTENDS Naturals, Sequences, SequencesExt

CONSTANT Claims

VARIABLE history   \* Claims -> the events of the claim, oldest first

Distinct(s) == \A i, j \in DOMAIN s : s[i] = s[j] => i = j

Init == history = [c \in Claims |-> <<>>]

\* (The successor is bound once: its value is dear to compute.)
Extend ==
  \A c \in Claims : \E next \in {history'[c]} :
    IsPrefix(history[c], next) /\ Distinct(next)

Spec == Init /\ [][Extend]_history
=============================================================================
