---------------------------- MODULE ContentTaskRow ----------------------------
(***************************************************************************)
(* One row of the content_ingest_task table and what each transaction of   *)
(* PostgresContentTaskRepository does to it.  The operators are pure: they *)
(* take a row and return a row, and the modules that run workers against   *)
(* the table (ContentTaskQueue, ContentWorker) are built from them.        *)
(*                                                                         *)
(* Time is relative.  A row holds `left', the ticks until                  *)
(* lease_expires_at (negative once it has passed).  Every transaction      *)
(* computes `now' BEFORE it waits for the row lock, so a transaction is    *)
(* given `age', the ticks since it read its clock: expires_at <= now is    *)
(* left + age <= 0, and a lease granted from that reading has              *)
(* LeaseTicks - age ticks left.  lease_owner and lease_expires_at are set  *)
(* and cleared together, so owner = NoWorker also says the expiry is NULL. *)
(*                                                                         *)
(* Left out: progress, error, updated_at and the payload columns, which    *)
(* nothing reads back to decide anything.                                  *)
(***************************************************************************)
EXTENDS Integers

CONSTANTS
  WorkerIds,    \* values of lease_owner
  NoWorker,     \* lease_owner IS NULL
  Stages,       \* stage names a checkpoint is recorded under
  MaxRetries,   \* max_retries of every row
  LeaseTicks,   \* lease_seconds, in ticks
  MaxDelay      \* bound: ticks a transaction may wait after reading its clock

ASSUME NoWorkerAssumption == NoWorker \notin WorkerIds
ASSUME RetriesAssumption == MaxRetries \in Nat \ {0}
ASSUME TimeAssumption == LeaseTicks \in Nat \ {0} /\ MaxDelay \in Nat

Statuses == {"ABSENT", "PENDING", "RUNNING", "SUCCEEDED", "FAILED"}
Terminal == {"SUCCEEDED", "FAILED"}
Kinds == {"video_pipeline", "replay"}

\* The lowest `left' worth telling apart: older than any clock reading in use.
LongAgo == -(MaxDelay + 1)

\* result is 0, or the fencing token of the attempt that recorded it.
Rows == [status : Statuses, done : SUBSET Stages, result : Nat,
         owner : WorkerIds \cup {NoWorker}, left : Int,
         token : Nat, retries : Nat]

-----------------------------------------------------------------------------
NoRow == [status |-> "ABSENT", done |-> {}, result |-> 0, owner |-> NoWorker,
          left |-> 0, token |-> 0, retries |-> 0]

\* create: what the INSERT stores.  A local replay inserts its row RUNNING,
\* with no lease; every other row starts PENDING.
Created(kind) ==
  [NoRow EXCEPT !.status = IF kind = "replay" THEN "RUNNING" ELSE "PENDING"]

\* Mutant: only waiting rows are claimed, a crashed worker's never again.
ClaimableWaiting(r, age) == r.retries < MaxRetries /\ r.status = "PENDING"

\* Mutant: a row without an owner counts as waiting.
ClaimableUnowned(r, age) ==
  r.retries < MaxRetries /\ (r.owner = NoWorker \/ r.left + age < 0)

\* claim_pending's WHERE clause (a NULL expiry compares as not true).
Claimable(r, age) ==
  /\ r.retries < MaxRetries
  /\ \/ r.status = "PENDING"
     \/ r.status = "RUNNING" /\ r.owner # NoWorker /\ r.left + age < 0

\* A lease granted to w from a clock read `age' ticks ago; a lease given up.
Leased(r, w, age) == [r EXCEPT !.owner = w, !.left = LeaseTicks - age]
Released(r) == [r EXCEPT !.owner = NoWorker, !.left = 0]

\* Mutant: the takeover forgets to advance the fencing token.
ClaimedWithOldToken(r, w, age) ==
  [Leased(r, w, age) EXCEPT !.status = "RUNNING",
                            !.token = IF r.token = 0 THEN 1 ELSE r.token]

\* claim_pending's UPDATE.  retry_count is not touched.
Claimed(r, w, age) ==
  [Leased(r, w, age) EXCEPT !.status = "RUNNING", !.token = r.token + 1]

\* Mutant: the fence compares owner and expiry only.
FencedByOwner(r, w, tok, age) ==
  r.status = "RUNNING" /\ r.owner = w /\ r.left + age > 0

\* _fenced_row: anything else raises StaleTaskLease.
Fenced(r, w, tok, age) ==
  /\ r.status = "RUNNING"
  /\ r.owner = w
  /\ r.token = tok
  /\ r.left + age > 0

\* renew_lease
Renewed(r, age) == [r EXCEPT !.left = LeaseTicks - age]

\* checkpoint: {**row.checkpoint, stage: checkpoint}
Checkpointed(r, stage) == [r EXCEPT !.done = @ \cup {stage}]

\* commit_effect.  The "completed" entry it adds to the checkpoint is no stage.
Committed(r) == [Released(r) EXCEPT !.status = "SUCCEEDED", !.result = r.token]

\* Mutant: the budget is compared before the failure is counted.
FailedOneLate(r) ==
  [Released(r) EXCEPT
     !.retries = r.retries + 1,
     !.status = IF r.retries >= MaxRetries THEN "FAILED" ELSE "PENDING"]

\* fail
Failed(r) ==
  [Released(r) EXCEPT
     !.retries = r.retries + 1,
     !.status = IF r.retries + 1 >= MaxRetries THEN "FAILED" ELSE "PENDING"]

\* One tick of the wall clock, which only a lease notices.
Elapsed(r) ==
  [r EXCEPT !.left = IF r.owner # NoWorker /\ @ > LongAgo THEN @ - 1 ELSE @]
=============================================================================
