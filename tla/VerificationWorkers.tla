-------------------------- MODULE VerificationWorkers --------------------------
(***************************************************************************)
(* The processes that run VerificationWorkerApplication.run_once, as the   *)
(* two models of their work see them: VerificationJobs (the queue) and     *)
(* SourceHeads (what their answers publish).                               *)
(***************************************************************************)
EXTENDS Integers

CONSTANTS
  Workers,
  WorkerIds, NoWorker,   \* values of lease_owner; lease_owner IS NULL
  WorkerOf,              \* Workers -> WorkerIds; by default all share one id
  LeaseTicks             \* ticks a job is leased for

ASSUME WorkersAssumption == WorkerOf \in [Workers -> WorkerIds] /\ NoWorker \notin WorkerIds
=============================================================================
