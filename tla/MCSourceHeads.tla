----------------------------- MODULE MCSourceHeads -----------------------------
(* Two sources that share a claim; a re-ingest of the first may lose one. *)
EXTENDS SourceHeads, TLC

CONSTANTS s1, s2, i1, i2, a, b, w1, w2, worker

SharedId == [w \in {w1, w2} |-> worker]
Alike == Permutations({w1, w2}) \cup Permutations({i1, i2})
TwoSources == [s \in {s1, s2} |-> IF s = s1 THEN {{a, b}, {b}} ELSE {{a}}]
=============================================================================
