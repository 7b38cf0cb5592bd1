--------------------------- MODULE ContentTaskTable ---------------------------
(***************************************************************************)
(* The content_ingest_task table and the processes that lease rows of it,  *)
(* as the two models of their work see them: ContentTaskQueue (single      *)
(* repository calls, in any order) and ContentWorker (whole attempts).     *)
(***************************************************************************)
EXTENDS ContentTaskRow

CONSTANTS
  Tasks,      \* numbered in order of created_at
  NoTask,
  Procs,      \* worker processes
  WorkerOf,   \* Procs -> WorkerIds, not necessarily one to one
  MaxToken    \* bound on the claims of one row

ASSUME TasksAssumption == Tasks \subseteq Nat /\ NoTask \notin Tasks
ASSUME ProcsAssumption == WorkerOf \in [Procs -> WorkerIds]

VARIABLE rows   \* the table
=============================================================================
