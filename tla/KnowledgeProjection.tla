------------------------- MODULE KnowledgeProjection -------------------------
(***************************************************************************)
(* The knowledge index projection: the last stage of a content task writes *)
(* a KNOWLEDGE_INDEX intent under the task's fence (fenced_effects), and   *)
(* KnowledgeProjectionDispatcher processes lease due intents and deliver   *)
(* them to the vector index inside the intent row's transaction.           *)
(*                                                                         *)
(* A task is reduced to its status and fencing token: what its fence       *)
(* guarantees (one attempt at a time may write) is ContentTaskQueue's      *)
(* subject.  There is one intent per task, numbered in creation order.     *)
(* `left' is the ticks until dispatch_expires_at, `wait' those until       *)
(* next_attempt_at.  Left out: payload and error code; a batch is never    *)
(* cut off by its limit.                                                   *)
(***************************************************************************)
EXTENDS Integers, FiniteSets

CONSTANTS
  Tasks, Dispatchers, NoTask,
  WorkerOf,       \* Dispatchers -> worker ids
  NoWorker,       \* dispatch_owner IS NULL
  MaxAttempts,    \* attempts before an intent is dead-lettered
  LeaseTicks,     \* dispatch lease, in ticks
  RetryBase,      \* retry_base_seconds, in ticks
  RetryCap,       \* the longest delay between attempts, in ticks
  MaxToken,       \* bound on the claims of one task
  AttemptBound    \* bound on the claims of one intent

ASSUME ProjectionAssumption ==
  /\ Tasks \subseteq Nat /\ NoTask \notin Tasks
  /\ \A d \in Dispatchers : WorkerOf[d] # NoWorker
  /\ {MaxAttempts, LeaseTicks, RetryBase, RetryCap} \subseteq Nat \ {0}

VARIABLES
  task,     \* status and fencing token of each content task
  effect,   \* content_task_effect rows
  indexed,  \* the tasks whose knowledge is in the index
  disp      \* each dispatcher's batch and what it is doing

projectionVars == <<task, effect, indexed, disp>>

EffectStates == {"NONE", "PENDING", "DISPATCHING", "COMPLETED", "DEAD_LETTER"}
Workers == {WorkerOf[d] : d \in Dispatchers} \cup {NoWorker}

NoEffect == [state |-> "NONE", owner |-> NoWorker, left |-> 0, wait |-> 0,
             attempts |-> 0, token |-> 0]
Resting == [pc |-> "idle", current |-> NoTask, batch |-> [t \in Tasks |-> 0]]

TypeOK ==
  /\ task \in [Tasks -> [status : {"PENDING", "RUNNING", "SUCCEEDED", "FAILED"}, token : Nat]]
  /\ effect \in [Tasks -> [state : EffectStates, owner : Workers, left : 0 .. LeaseTicks,
                           wait : 0 .. RetryCap, attempts : Nat, token : Nat]]
  /\ indexed \subseteq Tasks
  /\ disp \in [Dispatchers -> [pc : {"idle", "working", "locked", "sent", "failed"},
                               current : Tasks \cup {NoTask}, batch : [Tasks -> Nat]]]

ProjectionInit ==
  /\ task = [t \in Tasks |-> [status |-> "PENDING", token |-> 0]]
  /\ effect = [t \in Tasks |-> NoEffect]
  /\ indexed = {}
  /\ disp = [d \in Dispatchers |-> Resting]

-----------------------------------------------------------------------------
\* A dispatcher holds the row lock from its ownership check to its commit.
Locked(t) == \E d \in Dispatchers : disp[d].pc \in {"locked", "sent"} /\ disp[d].current = t

ClaimTask(t) ==
  /\ task[t].status \in {"PENDING", "RUNNING"} /\ task[t].token < MaxToken
  /\ task' = [task EXCEPT ![t] = [status |-> "RUNNING", token |-> @.token + 1]]
  /\ UNCHANGED <<effect, indexed, disp>>

\* _intent: a new row, or the existing one under the current attempt's token.
Intended(e, token) ==
  IF e.state = "NONE" THEN [NoEffect EXCEPT !.state = "PENDING", !.token = token]
  ELSE IF e.state = "COMPLETED" THEN e ELSE [e EXCEPT !.token = token]

\* IndexStage: prepare_external, by the attempt that owns the task.
PrepareExternal(t) ==
  /\ task[t].status = "RUNNING" /\ ~Locked(t)
  /\ effect' = [effect EXCEPT ![t] = Intended(@, task[t].token)]
  /\ UNCHANGED <<task, indexed, disp>>

\* The index stage is the last one.
CompleteTask(t) ==
  /\ task[t].status = "RUNNING" /\ effect[t].state # "NONE"
  /\ task' = [task EXCEPT ![t].status = "SUCCEEDED"]
  /\ UNCHANGED <<effect, indexed, disp>>

FailTask(t) ==
  /\ task[t].status = "RUNNING"
  /\ \E s \in {"PENDING", "FAILED"} : task' = [task EXCEPT ![t].status = s]
  /\ UNCHANGED <<effect, indexed, disp>>

-----------------------------------------------------------------------------
\* Mutant: only waiting intents are claimed, a crashed dispatcher's never again.
DueWaiting(e) == e.state = "PENDING" /\ e.wait = 0

Due(e) ==
  \/ e.state = "PENDING" /\ e.wait = 0
  \/ e.state = "DISPATCHING" /\ e.left = 0

\* The claim does not look at attempt_count.
Leased(e, w) ==
  [state |-> "DISPATCHING", owner |-> w, left |-> LeaseTicks, wait |-> 0,
   attempts |-> e.attempts + 1, token |-> e.token + 1]

\* _claim_due, the first step of dispatch_due.
ClaimDue(d) ==
  LET due == {t \in Tasks : Due(effect[t]) /\ ~Locked(t) /\ effect[t].attempts < AttemptBound}
  IN /\ disp[d].pc = "idle" /\ due # {}
     /\ effect' = [t \in Tasks |-> IF t \in due THEN Leased(effect[t], WorkerOf[d]) ELSE effect[t]]
     /\ disp' = [disp EXCEPT ![d].pc = "working",
                   ![d].batch = [t \in Tasks |-> IF t \in due THEN effect'[t].token ELSE 0]]
     /\ UNCHANGED <<task, indexed>>

\* The intent the dispatcher turns to next: claims are worked off in order.
Turn(d, t) ==
  /\ disp[d].pc = "working" /\ disp[d].batch[t] # 0
  /\ \A u \in Tasks : u < t => disp[d].batch[u] = 0

\* Mutant: whoever holds the row's worker id owns it.
OwnedByName(e, w, token) == e.state = "DISPATCHING" /\ e.owner = w

\* _owned
Owned(e, w, token) ==
  e.state = "DISPATCHING" /\ e.owner = w /\ e.left > 0 /\ e.token = token

Owns(d, t) == Owned(effect[t], WorkerOf[d], disp[d].batch[t])

\* d is done with its current claim.
Dropped(d, t) ==
  LET rest == [disp[d].batch EXCEPT ![t] = 0]
  IN IF \A u \in Tasks : rest[u] = 0 THEN Resting
     ELSE [pc |-> "working", current |-> NoTask, batch |-> rest]

\* The units cannot be read back from SQL.
LoadFails(d, t) ==
  /\ Turn(d, t)
  /\ disp' = [disp EXCEPT ![d].pc = "failed", ![d].current = t]
  /\ UNCHANGED <<task, effect, indexed>>

\* Mutant: the receipt is committed before the call is made.
EnterCommitting(d, t) ==
  /\ Turn(d, t) /\ Owns(d, t) /\ ~Locked(t)
  /\ disp' = [disp EXCEPT ![d].pc = "sent", ![d].current = t]
  /\ UNCHANGED <<task, effect, indexed>>

\* _dispatch_claim takes the row lock and checks its ownership, ...
Enter(d, t) ==
  /\ Turn(d, t) /\ Owns(d, t) /\ ~Locked(t)
  /\ disp' = [disp EXCEPT ![d].pc = "locked", ![d].current = t]
  /\ UNCHANGED <<task, effect, indexed>>

\* ... calls the index, ...
Index(d, t) ==
  /\ disp[d].pc = "locked" /\ disp[d].current = t
  /\ indexed' = indexed \cup {t}
  /\ disp' = [disp EXCEPT ![d].pc = "sent"]
  /\ UNCHANGED <<task, effect>>

\* ... and commits, whatever time the call took.
Settle(d, t) ==
  /\ disp[d].pc = "sent" /\ disp[d].current = t
  /\ effect' = [effect EXCEPT ![t].state = "COMPLETED", ![t].owner = NoWorker, ![t].left = 0]
  /\ disp' = [disp EXCEPT ![d] = Dropped(d, t)]
  /\ UNCHANGED <<task, indexed>>

\* The call raises, possibly after it took effect; the lock is released.
IndexFails(d, t) ==
  /\ disp[d].pc = "locked" /\ disp[d].current = t
  /\ indexed' \in {indexed, indexed \cup {t}}
  /\ disp' = [disp EXCEPT ![d].pc = "failed"]
  /\ UNCHANGED <<task, effect>>

Least(a, b) == IF a < b THEN a ELSE b

\* The back-off of _retry.
Delay(attempts) == Least(RetryCap, RetryBase * 2 ^ Least(attempts - 1, 8))

Rescheduled(e) ==
  IF e.attempts >= MaxAttempts
  THEN [e EXCEPT !.state = "DEAD_LETTER", !.owner = NoWorker, !.left = 0]
  ELSE [e EXCEPT !.state = "PENDING", !.owner = NoWorker, !.left = 0,
                 !.wait = Delay(e.attempts)]

\* _retry
Retry(d, t) ==
  /\ disp[d].pc = "failed" /\ disp[d].current = t
  /\ Owns(d, t) /\ ~Locked(t)
  /\ effect' = [effect EXCEPT ![t] = Rescheduled(@)]
  /\ disp' = [disp EXCEPT ![d] = Dropped(d, t)]
  /\ UNCHANGED <<task, indexed>>

\* LOST: the claim was superseded, or lapsed before its turn came.
ClaimLost(d, t) ==
  /\ Turn(d, t) \/ (disp[d].pc = "failed" /\ disp[d].current = t)
  /\ ~Owns(d, t) /\ ~Locked(t)
  /\ disp' = [disp EXCEPT ![d] = Dropped(d, t)]
  /\ UNCHANGED <<task, effect, indexed>>

\* The process dies, its transaction is rolled back, and it starts again.
Crash(d) ==
  /\ disp[d].pc # "idle"
  /\ disp' = [disp EXCEPT ![d] = Resting]
  /\ UNCHANGED <<task, effect, indexed>>

Tick ==
  /\ effect' = [t \in Tasks |->
       [effect[t] EXCEPT !.left = IF @ > 0 THEN @ - 1 ELSE 0,
                         !.wait = IF @ > 0 THEN @ - 1 ELSE 0]]
  /\ UNCHANGED <<task, indexed, disp>>

ProjectionNext ==
  \/ Tick
  \/ \E t \in Tasks :
       ClaimTask(t) \/ PrepareExternal(t) \/ CompleteTask(t) \/ FailTask(t)
  \/ \E d \in Dispatchers :
       \/ ClaimDue(d) \/ Crash(d)
       \/ \E t \in Tasks :
            \/ LoadFails(d, t) \/ Enter(d, t) \/ Index(d, t) \/ IndexFails(d, t)
            \/ Settle(d, t) \/ Retry(d, t) \/ ClaimLost(d, t)

ProjectionSpec == ProjectionInit /\ [][ProjectionNext]_projectionVars

\* Time passes, dispatchers poll, and each call they make returns or raises.
\* Nothing keeps a dispatcher alive or inside its lease.
Fairness ==
  /\ WF_projectionVars(Tick)
  /\ \A d \in Dispatchers :
       /\ WF_projectionVars(ClaimDue(d))
       /\ WF_projectionVars(\E t \in Tasks : Enter(d, t) \/ LoadFails(d, t) \/ ClaimLost(d, t))
       /\ WF_projectionVars(\E t \in Tasks : Index(d, t) \/ IndexFails(d, t))
       /\ WF_projectionVars(\E t \in Tasks : Settle(d, t) \/ Retry(d, t))

FairSpec == ProjectionSpec /\ Fairness

-----------------------------------------------------------------------------
\* A settled receipt is backed by a call that took effect (_dispatch_claim).
CompletedMeansIndexed == \A t \in Tasks : effect[t].state = "COMPLETED" => t \in indexed

OwnsIntent(d, t) ==
  /\ effect[t].state = "DISPATCHING" /\ effect[t].owner = WorkerOf[d]
  /\ effect[t].token = disp[d].batch[t]

\* The index is called, and an intent completed or given back, only for the claim
\* that owns the intent at that moment, whose token the row carries: "a worker
\* paused here cannot write after a takeover".
OnlyOwnerActs ==
  [][\A t \in Tasks :
       /\ \A d \in Dispatchers :
            disp[d].pc = "locked" /\ disp[d].current = t /\ disp'[d].pc \in {"sent", "failed"}
              => OwnsIntent(d, t)
       /\ effect[t].state = "DISPATCHING" /\ effect'[t].state # "DISPATCHING"
            => \E d \in Dispatchers : OwnsIntent(d, t) /\ disp'[d] # disp[d]]_projectionVars

\* An intent is settled in the end whatever fails or dies on the way, unless it
\* reaches the bound on claims.
Settled(t) == effect[t].state \in {"COMPLETED", "DEAD_LETTER"} \/ effect[t].attempts = AttemptBound

EveryIntentSettles == \A t \in Tasks : effect[t].state # "NONE" ~> Settled(t)
=============================================================================
