--------------------------- MODULE VerificationJobs ---------------------------
(***************************************************************************)
(* The durable verification queue: claim_verification_job rows, the passes *)
(* of VerificationWorkerApplication.run_once over them, the TaskRun each   *)
(* job is worked under, and the operator's retry request, which reads a    *)
(* job and reopens it in two transactions.                                 *)
(*                                                                         *)
(* A pass reads its clock once and hands that reading to every call it     *)
(* makes: `age' is the ticks since.  A job and its TaskRun are leased and  *)
(* written in separate transactions.  The transactions on a job row read   *)
(* it without a lock and update it later, so each is a read step and a     *)
(* write step; `seen' is what the write relies on.  complete reads the row *)
(* before it waits for the claim's advisory lock, and its second read gets *)
(* the same object from the session.                                       *)
(*                                                                         *)
(* Of a refresh only the answer it records is kept.  Left out: operator    *)
(* actions on task runs (ContentWorker has them) and the batch limit;      *)
(* requeue's own read and write are one step.                              *)
(***************************************************************************)
EXTENDS VerificationWorkers, Sequences, FiniteSets

CONSTANTS
  Jobs,          \* numbered in order of created_at
  NoTurn,        \* a pass without a job
  Orphans,       \* jobs whose claim cannot be loaded
  Answers,       \* the terminal results a provider may return
  RetryDelays,   \* RETRY_SCHEDULE_SECONDS, in ticks
  PassTicks,     \* bound: ticks one pass may last
  Mortal,        \* bound: the worker processes that may die, each once
  Askable        \* bound: the jobs an operator asks to retry, each once

ASSUME JobsAssumption == Jobs \subseteq Nat /\ NoTurn \notin Jobs

Run == INSTANCE TaskRunRow WITH Owners <- WorkerIds, NoOwner <- NoWorker, Ttl <- LeaseTicks,
                           MaxAge <- PassTicks

VARIABLES
  queue,     \* claim_verification_job
  runs,      \* the TaskRun verification:<job_id> of each job
  answers,   \* claim_verification_result: the answers recorded for each job
  asked,     \* retry requests between their read and their write
  reopened,  \* the jobs a retry request has reopened
  crashed,   \* the workers that have died and been restarted
  proc       \* each worker's pass

jobsVars == <<queue, runs, answers, asked, reopened, crashed, proc>>

JobStatuses == {"ABSENT", "VERIFICATION_PENDING", "LEASED", "MANUAL_REVIEW", "VERIFIED"}
\* VERIFIED stands for every status a provider may answer with.
Settled == {"VERIFIED", "MANUAL_REVIEW"}

MaxRetries == Len(RetryDelays)

NoRow == [status |-> "ABSENT", owner |-> NoWorker, left |-> 0, wait |-> 0, retries |-> 0]

\* What a transaction on a job row remembers of its read.
Read(r) == [status |-> r.status, owner |-> r.owner, retries |-> r.retries]
Idle == [pc |-> "idle", job |-> NoTurn, batch |-> {}, age |-> 0, run |-> 0,
         seen |-> Read(NoRow)]
Phases == {"idle", "next", "call", "reviewing", "completing", "succeed_run",
           "failing", "retrying", "fail_run"}

JobsTypeOK ==
  /\ queue \in [Jobs -> [status : JobStatuses, owner : WorkerIds \cup {NoWorker}, left : Int,
                         wait : Nat, retries : 0 .. MaxRetries + 2]]
  /\ runs \in [Jobs -> Run!Runs]
  /\ answers \in [Jobs -> SUBSET Answers] /\ reopened \subseteq Jobs
  /\ asked \subseteq Jobs /\ crashed \subseteq Workers
  /\ proc \in [Workers -> [pc : Phases, job : Jobs \cup {NoTurn}, batch : SUBSET Jobs,
                           age : 0 .. PassTicks, run : Nat,
                           seen : [status : JobStatuses, owner : WorkerIds \cup {NoWorker},
                                   retries : Nat]]]

JobsInit ==
  /\ queue = [j \in Jobs |-> NoRow]
  /\ runs = [j \in Jobs |-> Run!NoRun]
  /\ answers = [j \in Jobs |-> {}]
  /\ asked = {} /\ reopened = {} /\ crashed = {}
  /\ proc = [p \in Workers |-> Idle]

-----------------------------------------------------------------------------
\* enqueue, and the planner's insert: one job per claim, in order.
Enqueue(j) ==
  /\ queue[j].status = "ABSENT"
  /\ \A i \in Jobs : i < j => queue[i].status # "ABSENT"
  /\ queue' = [queue EXCEPT ![j].status = "VERIFICATION_PENDING"]
  /\ UNCHANGED <<runs, answers, asked, reopened, crashed, proc>>

\* Mutant: a job whose worker died is not due again.
DueWaiting(r) == r.status = "VERIFICATION_PENDING" /\ r.wait = 0

\* claim_due's WHERE clause; a pass claims with a fresh clock.
DueJob(r) ==
  /\ r.status \in {"VERIFICATION_PENDING", "LEASED"}
  /\ r.wait = 0
  /\ r.owner = NoWorker \/ r.left <= 0

ClaimDueJobs(p) ==
  LET due == {j \in Jobs : DueJob(queue[j])} IN
  /\ proc[p].pc = "idle" /\ due # {}
  /\ queue' = [j \in Jobs |->
       IF j \in due
       THEN [queue[j] EXCEPT !.status = "LEASED", !.owner = WorkerOf[p], !.left = LeaseTicks]
       ELSE queue[j]]
  /\ proc' = [proc EXCEPT ![p] = [Idle EXCEPT !.pc = "next", !.batch = due]]
  /\ UNCHANGED <<runs, answers, asked, reopened, crashed>>

At(p, j, pc) == proc[p].pc = pc /\ proc[p].job = j

\* The job the pass turns to next.
Turn(p, j) ==
  /\ proc[p].pc = "next" /\ j \in proc[p].batch
  /\ \A i \in proc[p].batch : j <= i

Goto(p, pc) == proc' = [proc EXCEPT ![p].pc = pc, ![p].seen = Read(NoRow)]

\* p read the row of job j and will write it at `pc'.
ReadRow(p, j, pc) == proc' = [proc EXCEPT ![p].pc = pc, ![p].seen = Read(queue[j])]

\* p is done with job j and turns to the next one.
Advance(p, j) ==
  LET rest == proc[p].batch \ {j} IN
  proc' = [proc EXCEPT ![p] =
             IF rest = {} THEN Idle
             ELSE [@ EXCEPT !.pc = "next", !.job = NoTurn, !.batch = rest, !.run = 0,
                            !.seen = Read(NoRow)]]

\* An exception ends the pass: the rest of its batch stays leased.
Abort(p) == proc' = [proc EXCEPT ![p] = Idle]

\* Mutant: nobody checks the lease.
OwnsUnchecked(r, w, age) == TRUE

\* _assert_owner
Owns(r, w, age) == r.status = "LEASED" /\ r.owner = w /\ r.left + age > 0

Cleared(r) == [r EXCEPT !.owner = NoWorker, !.left = 0]

-----------------------------------------------------------------------------
\* The TaskRun is created on first use.  Its lease is refused to a job that
\* succeeded before, and that exception is outside run_once's try.
Acquire(p, j) ==
  /\ Turn(p, j)
  /\ IF Run!MayAcquire(Run!NewRun(runs[j]), WorkerOf[p], proc[p].age)
     THEN /\ runs' = [runs EXCEPT ![j] = Run!Acquired(@, WorkerOf[p], proc[p].age)]
          /\ proc' = [proc EXCEPT ![p].pc = "call", ![p].job = j, ![p].run = runs'[j].token]
     ELSE Abort(p) /\ UNCHANGED runs
  /\ UNCHANGED <<queue, answers, asked, reopened, crashed>>

\* CLAIM_NOT_FOUND: mark_manual_review reads the job and checks its owner.
ClaimMissing(p, j) ==
  /\ At(p, j, "call") /\ j \in Orphans
  /\ IF Owns(queue[j], WorkerOf[p], proc[p].age) THEN ReadRow(p, j, "reviewing") ELSE Abort(p)
  /\ UNCHANGED <<queue, runs, answers, asked, reopened, crashed>>

\* The TaskRun of such a job stays running.
MarkManualReview(p, j) ==
  /\ At(p, j, "reviewing")
  /\ queue' = [queue EXCEPT ![j] = [Cleared(@) EXCEPT !.status = "MANUAL_REVIEW", !.wait = 0]]
  /\ Advance(p, j)
  /\ UNCHANGED <<runs, answers, asked, reopened, crashed>>

\* The provider raises, answers "pending", or the refresh is rolled back.
CallFails(p, j) ==
  /\ At(p, j, "call") /\ j \notin Orphans
  /\ Goto(p, "failing")
  /\ UNCHANGED <<queue, runs, answers, asked, reopened, crashed>>

\* VerificationRefreshService.complete reads the row, then waits for the lock.
BeginCompleteJob(p, j) ==
  /\ At(p, j, "call") /\ j \notin Orphans
  /\ ReadRow(p, j, "completing")
  /\ UNCHANGED <<queue, runs, answers, asked, reopened, crashed>>

\* complete's check of what it read: no expiry, unlike _assert_owner.
Completes(seen, w) == seen.owner = w /\ seen.status = "LEASED"

\* What complete writes over the row r: only the columns it changes in the row
\* it read, so one that was verified then is not touched.
Answered(r, seen) ==
  IF seen.status = "VERIFIED" THEN r
  ELSE [(IF seen.owner = NoWorker THEN r ELSE Cleared(r))
          EXCEPT !.status = "VERIFIED", !.wait = 0]

\* An answer already on record is completed again without any check.
CompleteJob(p, j, answer) ==
  /\ At(p, j, "completing")
  /\ IF answer \in answers[j] \/ Completes(proc[p].seen, WorkerOf[p])
     THEN /\ queue' = [queue EXCEPT ![j] = Answered(@, proc[p].seen)]
          /\ answers' = [answers EXCEPT ![j] = @ \cup {answer}]
          /\ Goto(p, "succeed_run")
     ELSE Goto(p, "failing") /\ UNCHANGED <<queue, answers>>
  /\ UNCHANGED <<runs, asked, reopened, crashed>>

MayClose(p, j, state) == Run!MayMove(runs[j], state, WorkerOf[p], proc[p].run, proc[p].age)

\* Still inside the try: a lost TaskRun lease sends a completed job the way of
\* a failed one.
SucceedRun(p, j) ==
  /\ At(p, j, "succeed_run")
  /\ IF MayClose(p, j, "SUCCEEDED")
     THEN runs' = [runs EXCEPT ![j] = Run!Moved(@, "SUCCEEDED")] /\ Advance(p, j)
     ELSE Goto(p, "failing") /\ UNCHANGED runs
  /\ UNCHANGED <<queue, answers, asked, reopened, crashed>>

AtMost(a, b) == IF a < b THEN a ELSE b

\* mark_retry's update of the row r, counting from the retries it read;
\* next_retry_at counts from the start of the pass.
Retried(r, retries, age) ==
  IF retries + 1 > MaxRetries
  THEN [Cleared(r) EXCEPT !.retries = retries + 1, !.status = "MANUAL_REVIEW", !.wait = 0]
  ELSE [Cleared(r) EXCEPT !.retries = retries + 1, !.status = "VERIFICATION_PENDING",
          !.wait = RetryDelays[retries + 1] - AtMost(age, RetryDelays[retries + 1])]

\* mark_retry is called in the except clause: if it raises too, the pass ends.
BeginRetry(p, j) ==
  /\ At(p, j, "failing")
  /\ IF Owns(queue[j], WorkerOf[p], proc[p].age) THEN ReadRow(p, j, "retrying") ELSE Abort(p)
  /\ UNCHANGED <<queue, runs, answers, asked, reopened, crashed>>

MarkRetry(p, j) ==
  /\ At(p, j, "retrying")
  /\ queue' = [queue EXCEPT ![j] = Retried(@, proc[p].seen.retries, proc[p].age)]
  /\ Goto(p, "fail_run")
  /\ UNCHANGED <<runs, answers, asked, reopened, crashed>>

FailRun(p, j) ==
  /\ At(p, j, "fail_run")
  /\ IF MayClose(p, j, "FAILED")
     THEN runs' = [runs EXCEPT ![j] = Run!Moved(@, "FAILED")] /\ Advance(p, j)
     ELSE Abort(p) /\ UNCHANGED runs
  /\ UNCHANGED <<queue, answers, asked, reopened, crashed>>

Crash(p) ==
  /\ proc[p].pc # "idle" /\ p \in Mortal \ crashed
  /\ Abort(p)
  /\ crashed' = crashed \cup {p}
  /\ UNCHANGED <<queue, runs, answers, asked, reopened>>

-----------------------------------------------------------------------------
\* retry_verification reads the job.  It looks for "PENDING", which no job is.
ReadForRetry(j) ==
  /\ queue[j].status \notin {"ABSENT", "PENDING", "LEASED"}
  /\ j \in Askable \ (asked \cup reopened)
  /\ asked' = asked \cup {j}
  /\ UNCHANGED <<queue, runs, answers, reopened, crashed, proc>>

\* requeue, in its own transaction and whatever the job is by now.
Requeue(j) ==
  /\ j \in asked
  /\ queue' = [queue EXCEPT ![j] =
                 [Cleared(@) EXCEPT !.status = "VERIFICATION_PENDING", !.wait = 0]]
  /\ reopened' = reopened \cup {j}
  /\ asked' = asked \ {j}
  /\ UNCHANGED <<runs, answers, crashed, proc>>

JobsTick ==
  /\ \A p \in Workers : proc[p].pc # "idle" => proc[p].age < PassTicks
  /\ queue' = [j \in Jobs |->
       [queue[j] EXCEPT !.left = IF queue[j].owner # NoWorker /\ @ > -PassTicks THEN @ - 1 ELSE @,
                        !.wait = IF @ > 0 THEN @ - 1 ELSE 0]]
  /\ runs' = [j \in Jobs |-> Run!Aged(runs[j])]
  /\ proc' = [p \in Workers |->
       IF proc[p].pc = "idle" THEN proc[p] ELSE [proc[p] EXCEPT !.age = @ + 1]]
  /\ UNCHANGED <<answers, asked, reopened, crashed>>

\* What the pass of p does next with job j; it always gets there.
PassStep(p, j) ==
  \/ Acquire(p, j) \/ ClaimMissing(p, j) \/ MarkManualReview(p, j)
  \/ CallFails(p, j) \/ BeginCompleteJob(p, j) \/ \E answer \in Answers : CompleteJob(p, j, answer)
  \/ SucceedRun(p, j) \/ BeginRetry(p, j) \/ MarkRetry(p, j) \/ FailRun(p, j)

JobsNext ==
  \/ JobsTick
  \/ \E j \in Jobs : Enqueue(j) \/ ReadForRetry(j) \/ Requeue(j)
  \/ \E p \in Workers : ClaimDueJobs(p) \/ Crash(p) \/ \E j \in Jobs : PassStep(p, j)

JobsSpec == JobsInit /\ [][JobsNext]_jobsVars

\* Time passes, workers poll, and the calls of a pass return or raise.
Fairness ==
  /\ WF_jobsVars(JobsTick)
  /\ \A p \in Workers : WF_jobsVars(ClaimDueJobs(p)) /\ WF_jobsVars(\E j \in Jobs : PassStep(p, j))

FairSpec == JobsSpec /\ Fairness

-----------------------------------------------------------------------------
\* A settled job is moved by the operator's retry request, or by a worker that
\* had read it as its own before it was settled, and by nothing else
\* (claim_due 253-256, _assert_owner 425-436).
UndoneOnlyByALateWrite ==
  [][\A j \in Jobs : queue[j].status \in Settled /\ queue'[j].status # queue[j].status =>
       \/ j \in reopened' \ reopened
       \/ queue'[j].status = "VERIFIED" /\ answers[j] # {}
       \/ \E p \in Workers : /\ proc[p].job = j /\ proc[p].seen.status = "LEASED"
                             /\ proc[p].seen.owner = WorkerOf[p] /\ proc'[p] # proc[p]]_jobsVars

\* Two passes never both hold the TaskRun of a job, even under one worker id.
OneRunHolder ==
  \A j \in Jobs : \A p, q \in Workers :
    (/\ proc[p].job = j /\ Run!Leases(runs[j], WorkerOf[p], proc[p].run, proc[p].age)
     /\ proc[q].job = j /\ Run!Leases(runs[j], WorkerOf[q], proc[q].run, proc[q].age))
       => p = q

\* A job that is to be worked again although its TaskRun has succeeded: no pass
\* gets beyond it.
Poisoned(j) == runs[j].state = "SUCCEEDED" /\ queue[j].status \notin Settled

\* Every verification is answered or handed to an operator in the end, whatever
\* fails or dies on the way, as long as no job is poisoned.
EveryJobIsAnswered ==
  \A j \in Jobs : queue[j].status = "VERIFICATION_PENDING"
    ~> answers[j] # {} \/ queue[j].status = "MANUAL_REVIEW" \/ \E i \in Jobs : Poisoned(i)

\* "Never revoke another worker's active lease through a manual retry request".
NoLeaseRevoked ==
  [][\A j \in Jobs : j \in reopened' \ reopened
       => ~(queue[j].status = "LEASED" /\ queue[j].left > 0)]_jobsVars
=============================================================================
