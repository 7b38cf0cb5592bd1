------------------------------ MODULE TaskRunRow ------------------------------
(***************************************************************************)
(* One TaskRun (domain/task_run.py), the operator-visible lease and state  *)
(* machine of a long-running task, as PostgresTaskRunRepository stores it: *)
(* every operation loads the row under a lock, applies the domain method   *)
(* and writes the fields back.  The operators are pure; the content worker *)
(* and the verification worker are both built from them.                   *)
(*                                                                         *)
(* `left' is the ticks until lease_expires_at and `age' the ticks since the *)
(* caller read the clock it passes as `now', as in ContentTaskRow: zero for *)
(* the content worker, up to a whole pass for the verification worker.     *)
(* Left out: attempt, audit and checkpoints, which are written and never   *)
(* read back to decide anything.                                           *)
(***************************************************************************)
EXTENDS Integers

CONSTANTS
  Owners,    \* worker ids
  NoOwner,   \* owner IS NULL
  Ttl,       \* ticks a lease is acquired for
  MaxAge     \* the oldest clock reading in use

States == {"PENDING", "RUNNING", "PAUSED", "RETRYING", "SUCCEEDED", "FAILED", "INVALIDATED"}

\* "ABSENT" stands for no row.
Runs == [state : States \cup {"ABSENT"}, owner : Owners \cup {NoOwner},
         left : Int, token : Nat]

NoRun == [state |-> "ABSENT", owner |-> NoOwner, left |-> 0, token |-> 0]

\* create: one row per id, whoever asks first.
NewRun(r) == IF r.state = "ABSENT" THEN [r EXCEPT !.state = "PENDING"] ELSE r

\* acquire_lease refuses a finished run and a live lease of somebody else;
\* otherwise it raises LeaseError.
MayAcquire(r, w, age) ==
  /\ r.state \notin {"SUCCEEDED", "INVALIDATED"}
  /\ r.owner # NoOwner /\ r.left + age > 0 => r.owner = w

\* Mutant: taking the lease over keeps the token.
AcquiredSameToken(r, w, age) ==
  [state |-> "RUNNING", owner |-> w, left |-> Ttl - age,
   token |-> IF r.token = 0 THEN 1 ELSE r.token]

Acquired(r, w, age) ==
  [state |-> "RUNNING", owner |-> w, left |-> Ttl - age, token |-> r.token + 1]

\* require_lease
Leases(r, w, tok, age) == r.owner = w /\ r.token = tok /\ r.left + age > 0

\* The transitions a lease holder may make.
Allowed(from) ==
  CASE from = "RUNNING" -> {"SUCCEEDED", "FAILED", "PAUSED", "RETRYING"}
    [] from = "RETRYING" -> {"RUNNING", "FAILED"}
    [] from = "PAUSED" -> {"RUNNING", "INVALIDATED"}
    [] OTHER -> {}

\* transition: LeaseError without the lease, ValueError off the table.
MayMove(r, to, w, tok, age) == Leases(r, w, tok, age) /\ to \in Allowed(r.state)

\* A finished run gives up its lease and keeps its token.
Moved(r, to) ==
  IF to \in {"SUCCEEDED", "FAILED"}
  THEN [r EXCEPT !.state = to, !.owner = NoOwner, !.left = 0]
  ELSE [r EXCEPT !.state = to]

\* operator_action: no lease, no transition table; two actions revoke the lease.
OperatorActions == {"pause", "resume", "retry", "invalidate", "rebuild"}

Operated(r, action) ==
  CASE action = "pause" -> [r EXCEPT !.state = "PAUSED"]
    [] action = "resume" -> [r EXCEPT !.state = "RUNNING"]
    [] action = "retry" -> [r EXCEPT !.state = "RETRYING"]
    [] action = "invalidate" ->
         [r EXCEPT !.state = "INVALIDATED", !.owner = NoOwner, !.left = 0]
    [] action = "rebuild" ->
         [r EXCEPT !.state = "RETRYING", !.owner = NoOwner, !.left = 0]

\* A tick of the clock; a lapsed lease lapses no further.
Aged(r) ==
  [r EXCEPT !.left = IF r.owner # NoOwner /\ @ > -MaxAge THEN @ - 1 ELSE @]
=============================================================================
