-------------------------- MODULE MCContentTaskQueue --------------------------
(* Two rows of the queue and two processes deployed under one worker id, or  *)
(* under two; and a replay row beside a queued one.                          *)
EXTENDS ContentTaskQueue

CONSTANTS p1, p2, w1, w2

MCTasks == {1, 2}
MCProcs == {p1, p2}
SharedId == [p \in MCProcs |-> w1]
OwnIds == [p \in MCProcs |-> IF p = p1 THEN w1 ELSE w2]
VideoOnly == [t \in MCTasks |-> "video_pipeline"]
ReplaySecond == [t \in MCTasks |-> IF t = 2 THEN "replay" ELSE "video_pipeline"]
=============================================================================
