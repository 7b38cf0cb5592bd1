---------------------------- MODULE ContentWorker ----------------------------
(***************************************************************************)
(* ContentApplication.process_next, step by step, in several worker        *)
(* processes: it claims a task, takes the lease of the task's TaskRun,     *)
(* restores the durable prefix of an earlier attempt, runs the stages of   *)
(* the pipeline (progress, execute, record), acknowledges the task and     *)
(* closes its TaskRun.  Three tables are involved, written in separate     *)
(* transactions: the task row, the TaskRun row, and per stage a checkpoint *)
(* with the receipt that pins its payload.                                 *)
(*                                                                         *)
(* A step is a transaction.  The delay between reading the clock and       *)
(* holding the row lock is ContentTaskQueue's subject and is zero here.    *)
(* A heartbeat is one step with the call it precedes: update_progress      *)
(* writes nothing modelled, checkpoint follows the renewal at once.        *)
(***************************************************************************)
EXTENDS ContentTaskTable

CONSTANTS
  Last,          \* number of stages; the pipeline runs stages 1 .. Last
  Restorable,    \* the stages whose outputs _restore_resume_context rebuilds
  Drifting,      \* the stages that may compute another payload when run again
  Interventions  \* the operator actions taken on task runs

ASSUME StagesAssumption ==
  Last \in Nat \ {0} /\ Stages = 1 .. Last /\ Restorable \cup Drifting \subseteq Stages

Run == INSTANCE TaskRunRow WITH Owners <- WorkerIds, NoOwner <- NoWorker, Ttl <- LeaseTicks,
                           MaxAge <- 0

ASSUME InterventionsAssumption == Interventions \subseteq Run!OperatorActions

VARIABLES
  runs,    \* background_task_run, one per task
  store,   \* stage checkpoints and receipts, per task and stage
  attempt  \* each process's attempt

workerVars == <<rows, runs, store, attempt>>

\* A payload is 1, or 2 where a stage drifted; 0 is none.
Payloads(s) == IF s \in Drifting THEN {1, 2} ELSE {1}

NoOutput == [s \in Stages |-> 0]
NoAttempt == [pc |-> "idle", task |-> NoTask, token |-> 0, run |-> 0, stage |-> 0,
              out |-> NoOutput]
AttemptPhases == {"idle", "acquire", "restore", "progress", "execute", "record",
                  "commit", "succeed_run", "failing", "fail_run", "dead"}
\* Where the next call goes through the fence of the task row.
FencedPhases == {"progress", "execute", "record", "commit", "failing"}

WorkerTypeOK ==
  /\ rows \in [Tasks -> Rows]
  /\ runs \in [Tasks -> Run!Runs]
  /\ store \in [Tasks -> [Stages -> [checkpoint : {"NONE", "SUCCEEDED", "FAILED"},
                                     receipt : 0 .. 2]]]
  /\ attempt \in [Procs -> [pc : AttemptPhases, task : Tasks \cup {NoTask}, token : Nat,
                            run : Nat, stage : 0 .. Last + 1, out : [Stages -> 0 .. 2]]]

WorkerInit ==
  /\ rows = [t \in Tasks |-> NoRow]
  /\ runs = [t \in Tasks |-> Run!NoRun]
  /\ store = [t \in Tasks |-> [s \in Stages |-> [checkpoint |-> "NONE", receipt |-> 0]]]
  /\ attempt = [p \in Procs |-> NoAttempt]

-----------------------------------------------------------------------------
Owns(p, t) == Fenced(rows[t], WorkerOf[p], attempt[p].token, 0)

At(p, t, pc) == attempt[p].pc = pc /\ attempt[p].task = t

\* p goes on to `pc' with the rest of its attempt unchanged.
Goto(p, pc) == attempt' = [attempt EXCEPT ![p].pc = pc]

Submit(t) ==
  /\ rows[t] = NoRow
  /\ rows' = [rows EXCEPT ![t] = Created("video_pipeline")]
  /\ UNCHANGED <<runs, store, attempt>>

OpenTask(t) == Claimable(rows[t], 0) /\ rows[t].token < MaxToken

ClaimTask(p, t) ==
  /\ attempt[p].pc = "idle"
  /\ OpenTask(t) /\ \A u \in Tasks : u < t => ~OpenTask(u)
  /\ rows' = [rows EXCEPT ![t] = Claimed(@, WorkerOf[p], 0)]
  /\ attempt' = [attempt EXCEPT ![p] = [NoAttempt EXCEPT !.pc = "acquire", !.task = t,
                                                      !.token = rows'[t].token]]
  /\ UNCHANGED <<runs, store>>

\* The TaskRun is created on first use; its lease lasts as long as the claim's
\* first one and is never renewed.
AcquireRun(p, t) ==
  /\ At(p, t, "acquire")
  /\ Run!MayAcquire(Run!NewRun(runs[t]), WorkerOf[p], 0)
  /\ runs' = [runs EXCEPT ![t] = Run!Acquired(@, WorkerOf[p], 0)]
  /\ attempt' = [attempt EXCEPT ![p].pc = "restore", ![p].run = runs'[t].token]
  /\ UNCHANGED <<rows, store>>

\* LeaseError leaves process_next and run_forever: the process ends.
AcquireRefused(p, t) ==
  /\ At(p, t, "acquire")
  /\ ~Run!MayAcquire(Run!NewRun(runs[t]), WorkerOf[p], 0)
  /\ Goto(p, "dead")
  /\ UNCHANGED <<rows, runs, store>>

-----------------------------------------------------------------------------
\* Mutant: a recorded stage is taken for a completed one.
DurableWithFailed(t) ==
  CHOOSE n \in 0 .. Last :
    /\ \A s \in 1 .. n : s \in Restorable /\ store[t][s].checkpoint # "NONE"
    /\ n < Last => ~(n + 1 \in Restorable /\ store[t][n + 1].checkpoint # "NONE")

\* The faithful prefix of an earlier attempt: checkpoints in the order they
\* were first written, up to one that did not succeed or cannot be rebuilt.
Durable(t) ==
  CHOOSE n \in 0 .. Last :
    /\ \A s \in 1 .. n : s \in Restorable /\ store[t][s].checkpoint = "SUCCEEDED"
    /\ n < Last => ~(n + 1 \in Restorable /\ store[t][n + 1].checkpoint = "SUCCEEDED")

Restore(p, t) ==
  /\ At(p, t, "restore")
  /\ LET n == Durable(t) IN
       attempt' = [attempt EXCEPT
         ![p].pc = "progress", ![p].stage = n + 1,
         ![p].out = [s \in Stages |-> IF s <= n THEN store[t][s].receipt ELSE 0]]
  /\ UNCHANGED <<rows, runs, store>>

\* There are checkpoints and an artifact or the raw media they name is gone.
RestoreFails(p, t) ==
  /\ At(p, t, "restore")
  /\ \E s \in Stages : store[t][s].checkpoint # "NONE"
  /\ Goto(p, "failing")
  /\ UNCHANGED <<rows, runs, store>>

\* The heartbeat before a stage, and the one after the last.
Progress(p, t) ==
  /\ At(p, t, "progress") /\ Owns(p, t)
  /\ rows' = [rows EXCEPT ![t] = Renewed(@, 0)]
  /\ Goto(p, IF attempt[p].stage > Last THEN "commit" ELSE "execute")
  /\ UNCHANGED <<runs, store>>

\* Mutant: an existing receipt is accepted whatever it pins.
AcceptsAny(receipt, payload) == TRUE

\* put_with_fenced_checkpoint: the first payload a stage succeeds with is the
\* only one it may ever succeed with.
Accepts(receipt, payload) == receipt \in {0, payload}

\* The stage succeeds.  Where a receipt exists nothing is written, not even the
\* checkpoint's status.
Execute(p, t, payload) ==
  LET s == attempt[p].stage IN
  /\ At(p, t, "execute") /\ Owns(p, t)
  /\ payload \in Payloads(s)
  /\ Accepts(store[t][s].receipt, payload)
  /\ store' = [store EXCEPT ![t][s] =
                 IF @.receipt = 0 THEN [checkpoint |-> "SUCCEEDED", receipt |-> payload]
                 ELSE @]
  /\ attempt' = [attempt EXCEPT ![p].pc = "record", ![p].out[s] = payload]
  /\ UNCHANGED <<rows, runs>>

\* The stage computed something other than its receipt: ArtifactIntegrityError.
ExecuteDrifts(p, t, payload) ==
  LET s == attempt[p].stage IN
  /\ At(p, t, "execute") /\ Owns(p, t)
  /\ payload \in Payloads(s)
  /\ ~Accepts(store[t][s].receipt, payload)
  /\ Goto(p, "failing")
  /\ UNCHANGED <<rows, runs, store>>

\* The stage raises; its checkpoint becomes FAILED, its receipt stays.
ExecuteFails(p, t) ==
  /\ At(p, t, "execute") /\ Owns(p, t)
  /\ store' = [store EXCEPT ![t][attempt[p].stage].checkpoint = "FAILED"]
  /\ Goto(p, "failing")
  /\ UNCHANGED <<rows, runs>>

Record(p, t) ==
  /\ At(p, t, "record") /\ Owns(p, t)
  /\ rows' = [rows EXCEPT ![t] = Checkpointed(Renewed(@, 0), attempt[p].stage)]
  /\ attempt' = [attempt EXCEPT ![p].pc = "progress", ![p].stage = @ + 1]
  /\ UNCHANGED <<runs, store>>

-----------------------------------------------------------------------------
Commit(p, t) ==
  /\ At(p, t, "commit") /\ Owns(p, t)
  /\ rows' = [rows EXCEPT ![t] = Committed(@)]
  /\ Goto(p, "succeed_run")
  /\ UNCHANGED <<runs, store>>

\* process_next's last call.  An exception here lands in the same handler as a
\* failed stage.
SucceedRun(p, t) ==
  /\ At(p, t, "succeed_run")
  /\ \/ /\ Run!MayMove(runs[t], "SUCCEEDED", WorkerOf[p], attempt[p].run, 0)
        /\ runs' = [runs EXCEPT ![t] = Run!Moved(@, "SUCCEEDED")]
        /\ attempt' = [attempt EXCEPT ![p] = NoAttempt]
     \/ /\ ~Run!MayMove(runs[t], "SUCCEEDED", WorkerOf[p], attempt[p].run, 0)
        /\ Goto(p, "failing")
        /\ UNCHANGED runs
  /\ UNCHANGED <<rows, store>>

FailTask(p, t) ==
  /\ At(p, t, "failing") /\ Owns(p, t)
  /\ rows' = [rows EXCEPT ![t] = Failed(@)]
  /\ Goto(p, "fail_run")
  /\ UNCHANGED <<runs, store>>

\* Any exception of this transition is logged and swallowed.
FailRun(p, t) ==
  /\ At(p, t, "fail_run")
  /\ runs' = [runs EXCEPT ![t] =
                IF Run!MayMove(@, "FAILED", WorkerOf[p], attempt[p].run, 0)
                THEN Run!Moved(@, "FAILED") ELSE @]
  /\ attempt' = [attempt EXCEPT ![p] = NoAttempt]
  /\ UNCHANGED <<rows, store>>

\* StaleTaskLease: process_next returns LEASE_LOST.
LoseLease(p, t) ==
  /\ attempt[p].pc \in FencedPhases /\ attempt[p].task = t
  /\ ~Owns(p, t)
  /\ attempt' = [attempt EXCEPT ![p] = NoAttempt]
  /\ UNCHANGED <<rows, runs, store>>

WorkerCrash(p) ==
  /\ attempt[p].pc \notin {"idle", "dead"}
  /\ Goto(p, "dead")
  /\ UNCHANGED <<rows, runs, store>>

Restart(p) ==
  /\ attempt[p].pc = "dead"
  /\ attempt' = [attempt EXCEPT ![p] = NoAttempt]
  /\ UNCHANGED <<rows, runs, store>>

\* POST /admin/tasks/{task_run_id}/{action}, at any time.
Operator(t, action) ==
  /\ runs[t].state # "ABSENT"
  /\ runs' = [runs EXCEPT ![t] = Run!Operated(@, action)]
  /\ UNCHANGED <<rows, store, attempt>>

WorkerTick ==
  /\ rows' = [t \in Tasks |-> Elapsed(rows[t])]
  /\ runs' = [t \in Tasks |-> Run!Aged(runs[t])]
  /\ UNCHANGED <<store, attempt>>

Attempt(p, t) ==
  \/ ClaimTask(p, t) \/ AcquireRun(p, t) \/ AcquireRefused(p, t)
  \/ Restore(p, t) \/ RestoreFails(p, t) \/ Progress(p, t)
  \/ \E payload \in {1, 2} : Execute(p, t, payload) \/ ExecuteDrifts(p, t, payload)
  \/ ExecuteFails(p, t) \/ Record(p, t) \/ Commit(p, t) \/ SucceedRun(p, t)
  \/ FailTask(p, t) \/ FailRun(p, t) \/ LoseLease(p, t)

WorkerNext ==
  \/ WorkerTick
  \/ \E t \in Tasks : Submit(t) \/ \E a \in Interventions : Operator(t, a)
  \/ \E p \in Procs : WorkerCrash(p) \/ Restart(p) \/ \E t \in Tasks : Attempt(p, t)

WorkerSpec == WorkerInit /\ [][WorkerNext]_workerVars

-----------------------------------------------------------------------------
\* What an attempt is about to acknowledge is, stage by stage, what the receipts
\* pin: no stage was skipped that had not succeeded, no re-run changed a payload
\* (stage_runner.execute, put_with_fenced_checkpoint, _restore_resume_context).
PublishedMatchesReceipts ==
  \A p \in Procs : attempt[p].pc = "commit" =>
    \A s \in Stages : attempt[p].out[s] # 0 /\ attempt[p].out[s] = store[attempt[p].task][s].receipt

\* A stage leaves a trace only after every earlier one has succeeded, over all
\* attempts: this is what lets a resume read the checkpoints as a prefix.
StagesInOrder ==
  \A t \in Tasks : \A s \in Stages :
    store[t][s].checkpoint # "NONE" => \A r \in 1 .. s - 1 : store[t][r].receipt # 0

\* The operators' view never runs ahead of the queue: a TaskRun has succeeded
\* only where the task was acknowledged, whatever operators did to it.
RunSucceedsLast ==
  \A t \in Tasks : runs[t].state = "SUCCEEDED" => rows[t].status = "SUCCEEDED"

\* What process_next leaves behind is backed: a stage's trace by the receipts of
\* all before it, an acknowledgement by every receipt, a TaskRun that succeeded
\* by the acknowledgement.
OutcomesAreBacked == StagesInOrder /\ PublishedMatchesReceipts /\ RunSucceedsLast

\* A superseded attempt leaves no durable recovery point and no outcome: whoever
\* changes a checkpoint or a receipt, or ends the claim of a task, works under a
\* later claim than everybody else at work on it, even where their worker ids are
\* one and the other's call was under way before the takeover.
OnlyCurrentClaimRecords ==
  [][\A t \in Tasks :
       store'[t] # store[t] \/ (rows[t].status = "RUNNING" /\ rows'[t].status # "RUNNING") =>
         \E p \in Procs :
           /\ attempt[p].task = t /\ attempt'[p] # attempt[p]
           /\ \A q \in Procs \ {p} :
                attempt[q].task = t => attempt[q].token < attempt[p].token]_workerVars
=============================================================================
