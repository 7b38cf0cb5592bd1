--------------------------- MODULE ContentTaskQueue ---------------------------
(***************************************************************************)
(* The content task queue: the content_ingest_task table and the processes that*)
(* lease rows of it through PostgresContentTaskRepository.  Several        *)
(* processes may be configured with one CONTENT_WORKER_ID, so a process is *)
(* not its worker id.  Each repository call is two steps, as in the code:  *)
(* it reads its clock, then runs one transaction against the row.  Between *)
(* the two anything may happen, a takeover by another process included.    *)
(* The order in which a process makes its calls is left open here;         *)
(* ContentWorker fixes it to that of process_next.                         *)
(***************************************************************************)
EXTENDS ContentTaskTable

CONSTANT KindOf   \* Tasks -> Kinds

ASSUME KindsAssumption == KindOf \in [Tasks -> Kinds]

VARIABLE proc   \* what each process is doing and the claim it holds

vars == <<rows, proc>>

\* "idle", "claiming" and "holding" a claim, or inside one repository call.
Calls == {"renew", "update_progress", "checkpoint", "commit_effect", "fail"}
Phases == {"idle", "claiming", "holding"} \cup Calls

Idle == [pc |-> "idle", task |-> NoTask, token |-> 0, age |-> 0]

TypeOK ==
  /\ rows \in [Tasks -> Rows]
  /\ proc \in [Procs -> [pc : Phases, task : Tasks \cup {NoTask},
                         token : Nat, age : 0 .. MaxDelay]]

Init ==
  /\ rows = [t \in Tasks |-> NoRow]
  /\ proc = [p \in Procs |-> Idle]

-----------------------------------------------------------------------------
\* The process believes it owns a task: it got one from claim_pending and no
\* call has told it otherwise.
Holds(p, t) == proc[p].pc \notin {"idle", "claiming"} /\ proc[p].task = t

\* The claim a process carries would get through the fence right now.
PassesFence(p, t) ==
  Holds(p, t) /\ Fenced(rows[t], WorkerOf[p], proc[p].token, proc[p].age)

InTransaction(p) == proc[p].pc \in Calls \cup {"claiming"}

-----------------------------------------------------------------------------
\* create commits a row; rows are numbered in that order.
Create(t) ==
  /\ rows[t] = NoRow
  /\ \A u \in Tasks : u < t => rows[u] # NoRow
  /\ rows' = [rows EXCEPT ![t] = Created(KindOf[t])]
  /\ UNCHANGED proc

\* succeed_unleased and fail_unleased: the terminal paths of a local replay.
SucceedUnleased(t) ==
  /\ KindOf[t] = "replay" /\ rows[t].status = "RUNNING"
  /\ rows' = [rows EXCEPT ![t].status = "SUCCEEDED"]
  /\ UNCHANGED proc

FailUnleased(t) ==
  /\ KindOf[t] = "replay" /\ rows[t].status = "RUNNING"
  /\ rows' = [rows EXCEPT ![t].status = "FAILED"]
  /\ UNCHANGED proc

\* The process calls claim_pending, which reads its clock first.
BeginClaim(p) ==
  /\ proc[p].pc = "idle"
  /\ proc' = [proc EXCEPT ![p] = [Idle EXCEPT !.pc = "claiming"]]
  /\ UNCHANGED rows

\* A row another process is in a transaction on: SKIP LOCKED passes over it
\* if that transaction holds the lock already.
MayBeLocked(p, t) == \E q \in Procs \ {p} : InTransaction(q) /\ proc[q].task = t

\* A row claim_pending's query returns; rows claimed MaxToken times are left
\* alone, which bounds the model.
Open(p, t) ==
  /\ KindOf[t] = "video_pipeline"
  /\ Claimable(rows[t], proc[p].age)
  /\ rows[t].token < MaxToken

\* Takes the oldest such row that is not locked.
Claim(p, t) ==
  /\ proc[p].pc = "claiming"
  /\ Open(p, t)
  /\ \A u \in Tasks : u < t /\ Open(p, u) => MayBeLocked(p, u)
  /\ rows' = [rows EXCEPT ![t] = Claimed(@, WorkerOf[p], proc[p].age)]
  /\ proc' = [proc EXCEPT ![p] = [pc |-> "holding", task |-> t,
                                  token |-> rows'[t].token, age |-> 0]]

\* No row qualifies, or every row that does is locked: claim_pending is None.
ClaimNothing(p) ==
  /\ proc[p].pc = "claiming"
  /\ \A t \in Tasks : Open(p, t) => MayBeLocked(p, t)
  /\ proc' = [proc EXCEPT ![p] = Idle]
  /\ UNCHANGED rows

\* A process that holds a task makes its next repository call.
BeginCall(p, call) ==
  /\ proc[p].pc = "holding"
  /\ proc' = [proc EXCEPT ![p].pc = call, ![p].age = 0]
  /\ UNCHANGED rows

\* The transaction of a call: the fence, then the update.  `next' is where
\* the process goes on.
Call(p, call, t, row, next) ==
  /\ proc[p].pc = call /\ proc[p].task = t
  /\ Fenced(rows[t], WorkerOf[p], proc[p].token, proc[p].age)
  /\ rows' = [rows EXCEPT ![t] = row]
  /\ proc' = [proc EXCEPT ![p] = next]

StillHolding(p) == [proc[p] EXCEPT !.pc = "holding", !.age = 0]

RenewLease(p, t) == Call(p, "renew", t, Renewed(rows[t], proc[p].age), StillHolding(p))

\* update_progress writes stage and progress, which are not modelled.
UpdateProgress(p, t) == Call(p, "update_progress", t, rows[t], StillHolding(p))

Checkpoint(p, t) ==
  \E stage \in Stages :
    Call(p, "checkpoint", t, Checkpointed(rows[t], stage), StillHolding(p))

CommitEffect(p, t) == Call(p, "commit_effect", t, Committed(rows[t]), Idle)

Fail(p, t) == Call(p, "fail", t, Failed(rows[t]), Idle)

\* StaleTaskLease: the transaction changes nothing and the caller lets go.
LeaseLost(p, t) ==
  /\ proc[p].pc \in Calls /\ proc[p].task = t
  /\ ~Fenced(rows[t], WorkerOf[p], proc[p].token, proc[p].age)
  /\ proc' = [proc EXCEPT ![p] = Idle]
  /\ UNCHANGED rows

\* The process dies and restarts with the same worker id; a claim it held is
\* known to nobody any more.
Crash(p) ==
  /\ \E t \in Tasks : Holds(p, t)
  /\ proc' = [proc EXCEPT ![p] = Idle]
  /\ UNCHANGED rows

Tick ==
  /\ \A p \in Procs : InTransaction(p) => proc[p].age < MaxDelay
  /\ rows' = [t \in Tasks |-> Elapsed(rows[t])]
  /\ proc' = [p \in Procs |->
                IF InTransaction(p) THEN [proc[p] EXCEPT !.age = @ + 1] ELSE proc[p]]

TaskStep(t) == Create(t) \/ SucceedUnleased(t) \/ FailUnleased(t)

CallStep(p, t) ==
  \/ RenewLease(p, t) \/ UpdateProgress(p, t) \/ Checkpoint(p, t)
  \/ CommitEffect(p, t) \/ Fail(p, t) \/ LeaseLost(p, t)

ProcStep(p) ==
  \/ BeginClaim(p) \/ ClaimNothing(p) \/ Crash(p)
  \/ \E call \in Calls : BeginCall(p, call)
  \/ \E t \in Tasks : Claim(p, t) \/ CallStep(p, t)

Next == Tick \/ (\E t \in Tasks : TaskStep(t)) \/ (\E p \in Procs : ProcStep(p))

Spec == Init /\ [][Next]_vars

\* Time passes, processes poll the queue, a call that was begun ends, and an
\* attempt ends too: the pipeline is a finite list of stages.  Nothing makes
\* a process renew in time or stay alive.
Fairness ==
  /\ WF_vars(Tick)
  /\ \A t \in Tasks : WF_vars(Create(t))
  /\ \A p \in Procs :
       /\ WF_vars(BeginClaim(p))
       /\ WF_vars(ClaimNothing(p) \/ \E t \in Tasks : Claim(p, t))
       /\ WF_vars(\E t \in Tasks : CallStep(p, t))
       /\ SF_vars(BeginCall(p, "commit_effect") \/ BeginCall(p, "fail"))

FairSpec == Spec /\ Fairness

-----------------------------------------------------------------------------
\* A claim generation is one process's: even when two processes run under one
\* worker id, at most one of them can write a row (_fenced_row, 118-137).
OneFencedProcess ==
  \A t \in Tasks : \A p, q \in Procs : PassesFence(p, t) /\ PassesFence(q, t) => p = q

\* The retry budget (fail, 187-196) never strands a row: one that is waiting or
\* running can still be claimed, and one that FAILED used its whole budget.
RetryBudget ==
  \A t \in Tasks : KindOf[t] = "video_pipeline" =>
    /\ rows[t].status \in {"PENDING", "RUNNING"} => rows[t].retries < MaxRetries
    /\ rows[t].status = "FAILED" => rows[t].retries = MaxRetries

\* commit_effect's promise: "a stale worker cannot publish a second terminal
\* task effect".  A terminal row keeps its status and its result forever.
TerminalIsFinal ==
  [][\A t \in Tasks : rows[t].status \in Terminal =>
       rows'[t].status = rows[t].status /\ rows'[t].result = rows[t].result]_vars

\* A recorded stage survives every takeover, retry and concurrent call
\* (checkpoint, 155-165, a read-modify-write of one JSON column).
CheckpointsSurvive ==
  [][\A t \in Tasks : rows[t].done \subseteq rows'[t].done]_vars

\* Neither the end of a task nor a stage of it is unwritten.
RecordsStay == TerminalIsFinal /\ CheckpointsSurvive

\* A claim nobody holds any more is taken over, unless the bound on claims is
\* reached: the lease expires and some process's poll finds the row.
Abandoned(t) ==
  rows[t].status = "RUNNING" /\ rows[t].owner # NoWorker
    /\ ~ \E p \in Procs : Holds(p, t) /\ proc[p].token = rows[t].token

AbandonedIsReclaimed ==
  \A t \in Tasks : Abandoned(t) /\ rows[t].token < MaxToken ~> ~Abandoned(t)

-----------------------------------------------------------------------------
\* The refinement of JobQueue: the grantee of a row is the process whose claim
\* is the row's latest, whether or not its lease has time left.
Queued == {t \in Tasks : KindOf[t] = "video_pipeline"}

Grantee(t) ==
  {p \in Procs : rows[t].status = "RUNNING" /\ Holds(p, t)
                   /\ proc[p].token = rows[t].token}

JobPhase(t) ==
  CASE rows[t].status = "ABSENT" -> "none"
    [] rows[t].status = "PENDING" -> "waiting"
    [] rows[t].status = "RUNNING" -> "granted"
    [] rows[t].status = "SUCCEEDED" -> "done"
    [] rows[t].status = "FAILED" -> "dead"

JQ == INSTANCE JobQueue WITH
  Jobs <- Queued, Grantees <- Procs, MaxStrikes <- MaxRetries,
  job <- [t \in Queued |-> JobPhase(t)],
  grantee <- [t \in Queued |-> Grantee(t)],
  strikes <- [t \in Queued |-> rows[t].retries]

\* The table and its fenced transactions implement the abstract job queue.
ImplementsJobQueue == JQ!Spec
=============================================================================
