------------------------ MODULE ContentTaskQueueProofs ------------------------
(***************************************************************************)
(* Proofs about ContentTaskQueue for every set of tasks and processes and  *)
(* every assignment of worker ids, retry budget, lease and delay; in the   *)
(* second part, about ContentWorker, the attempts of the same processes     *)
(* that work under those claims; and, in the third, about TaskRequests, the *)
(* posts and replays that make the rows.                                   *)
(***************************************************************************)
EXTENDS ContentTaskQueue, ContentWorker, TaskRequests, TLAPS, WellFoundedInduction

\* A process never holds a token newer than its row's, ...
TokenBound ==
  \A p \in Procs : \A t \in Tasks : Holds(p, t) => proc[p].token <= rows[t].token

\* ... and two processes never hold the same generation of one row.
DistinctClaims ==
  \A p, q \in Procs : \A t \in Tasks :
    Holds(p, t) /\ Holds(q, t) /\ proc[p].token = proc[q].token => p = q

\* The inductive invariant: the fence lets one process through because every
\* takeover makes a token newer than all that are held.
QueueInv == TypeOK /\ TokenBound /\ DistinctClaims /\ RetryBudget

ProcStates == [pc : Phases, task : Tasks \cup {NoTask}, token : Nat, age : 0 .. MaxDelay]

-----------------------------------------------------------------------------
\* Replacing fields of a row by values of their types yields a row.
LEMMA FieldsTyped ==
  ASSUME NEW r \in Rows, NEW st \in Statuses, NEW k \in Nat,
         NEW o \in WorkerIds \cup {NoWorker}, NEW n \in Int
  PROVE  /\ [r EXCEPT !.owner = o, !.left = n] \in Rows
         /\ [r EXCEPT !.status = st, !.token = k] \in Rows
         /\ [r EXCEPT !.status = st, !.result = k] \in Rows
         /\ [r EXCEPT !.retries = k, !.status = st] \in Rows
BY DEF Rows

\* Every update of a row yields a row.
LEMMA RowUpdatesTyped ==
  ASSUME NEW r \in Rows, NEW age \in 0 .. MaxDelay
  PROVE  /\ \A w \in WorkerIds : Claimed(r, w, age) \in Rows
         /\ Renewed(r, age) \in Rows
         /\ \A s \in Stages : Checkpointed(r, s) \in Rows
         /\ Committed(r) \in Rows
         /\ Failed(r) \in Rows
         /\ Elapsed(r) \in Rows
<1>0. /\ r.token \in Nat /\ r.token + 1 \in Nat
      /\ r.retries \in Nat /\ r.retries + 1 \in Nat
      /\ LeaseTicks - age \in Int /\ 0 \in Int
      /\ {"PENDING", "RUNNING", "SUCCEEDED", "FAILED"} \subseteq Statuses
  BY TimeAssumption DEF Rows, Statuses
<1>1. ASSUME NEW w \in WorkerIds
      PROVE  Claimed(r, w, age) \in Rows
  <2>1. Leased(r, w, age) \in Rows
    BY <1>0, FieldsTyped DEF Leased
  <2>2. "RUNNING" \in Statuses
    BY <1>0
  <2> QED
    BY <1>0, <2>1, <2>2, FieldsTyped DEF Claimed
<1>2. Renewed(r, age) \in Rows
  BY <1>0 DEF Renewed, Rows
<1>3. \A s \in Stages : Checkpointed(r, s) \in Rows
  BY DEF Checkpointed, Rows
<1>4. Released(r) \in Rows
  BY <1>0, FieldsTyped DEF Released
<1>5. Committed(r) \in Rows
  <2>1. "SUCCEEDED" \in Statuses
    BY <1>0
  <2> QED
    BY <1>0, <1>4, <2>1, FieldsTyped DEF Committed
<1>6. Failed(r) \in Rows
  <2>1. (IF r.retries + 1 >= MaxRetries THEN "FAILED" ELSE "PENDING") \in Statuses
    BY <1>0
  <2> QED
    BY <1>0, <1>4, <2>1, FieldsTyped DEF Failed
<1>7. Elapsed(r) \in Rows
  BY TimeAssumption DEF Elapsed, LongAgo, Rows
<1> QED
  BY <1>1, <1>2, <1>3, <1>5, <1>6, <1>7

LEMMA NewRowsTyped ==
  NoRow \in Rows /\ \A kind \in Kinds : Created(kind) \in Rows
BY DEF Rows, NoRow, Created, Statuses

\* What the invariants below need to know of each update.
LEMMA RowUpdateFacts ==
  ASSUME NEW r \in Rows, NEW age \in 0 .. MaxDelay
  PROVE  /\ \A w \in WorkerIds :
              /\ Claimed(r, w, age).status = "RUNNING"
              /\ Claimed(r, w, age).token = r.token + 1
              /\ Claimed(r, w, age).retries = r.retries
              /\ Claimed(r, w, age).done = r.done
              /\ Claimed(r, w, age).owner = w
         /\ /\ Renewed(r, age).status = r.status
            /\ Renewed(r, age).token = r.token
            /\ Renewed(r, age).retries = r.retries
            /\ Renewed(r, age).done = r.done
         /\ \A s \in Stages :
              /\ Checkpointed(r, s).status = r.status
              /\ Checkpointed(r, s).token = r.token
              /\ Checkpointed(r, s).retries = r.retries
              /\ Checkpointed(r, s).done = r.done \cup {s}
         /\ /\ Committed(r).status = "SUCCEEDED"
            /\ Committed(r).token = r.token
            /\ Committed(r).retries = r.retries
            /\ Committed(r).done = r.done
         /\ /\ Failed(r).status = IF r.retries + 1 >= MaxRetries THEN "FAILED" ELSE "PENDING"
            /\ Failed(r).token = r.token
            /\ Failed(r).retries = r.retries + 1
            /\ Failed(r).done = r.done
         /\ /\ Elapsed(r).status = r.status
            /\ Elapsed(r).token = r.token
            /\ Elapsed(r).retries = r.retries
            /\ Elapsed(r).done = r.done
            /\ Elapsed(r).result = r.result
<1> USE DEF Rows
<1>1. \A w \in WorkerIds :
        /\ Claimed(r, w, age).status = "RUNNING"
        /\ Claimed(r, w, age).token = r.token + 1
        /\ Claimed(r, w, age).retries = r.retries
        /\ Claimed(r, w, age).done = r.done
        /\ Claimed(r, w, age).owner = w
  BY DEF Claimed, Leased
<1>2. /\ Renewed(r, age).status = r.status
      /\ Renewed(r, age).token = r.token
      /\ Renewed(r, age).retries = r.retries
      /\ Renewed(r, age).done = r.done
  BY DEF Renewed
<1>3. \A s \in Stages :
        /\ Checkpointed(r, s).status = r.status
        /\ Checkpointed(r, s).token = r.token
        /\ Checkpointed(r, s).retries = r.retries
        /\ Checkpointed(r, s).done = r.done \cup {s}
  BY DEF Checkpointed
<1>4. /\ Committed(r).status = "SUCCEEDED"
      /\ Committed(r).token = r.token
      /\ Committed(r).retries = r.retries
      /\ Committed(r).done = r.done
  BY DEF Committed, Released
<1>5. /\ Failed(r).status = IF r.retries + 1 >= MaxRetries THEN "FAILED" ELSE "PENDING"
      /\ Failed(r).token = r.token
      /\ Failed(r).retries = r.retries + 1
      /\ Failed(r).done = r.done
  BY DEF Failed, Released
<1>6. /\ Elapsed(r).status = r.status
      /\ Elapsed(r).token = r.token
      /\ Elapsed(r).retries = r.retries
      /\ Elapsed(r).done = r.done
      /\ Elapsed(r).result = r.result
  BY DEF Elapsed
<1> QED
  BY <1>1, <1>2, <1>3, <1>4, <1>5, <1>6

-----------------------------------------------------------------------------
\* The states a process can be put in are process states.
LEMMA ProcUpdatesTyped ==
  /\ Idle \in ProcStates
  /\ [Idle EXCEPT !.pc = "claiming"] \in ProcStates
  /\ \A t \in Tasks : \A k \in Nat :
       [pc |-> "holding", task |-> t, token |-> k, age |-> 0] \in ProcStates
  /\ \A s \in ProcStates :
       /\ [s EXCEPT !.pc = "holding", !.age = 0] \in ProcStates
       /\ \A c \in Calls : [s EXCEPT !.pc = c, !.age = 0] \in ProcStates
       /\ s.age < MaxDelay => [s EXCEPT !.age = @ + 1] \in ProcStates
<1>1. 0 \in 0 .. MaxDelay /\ Calls \subseteq Phases /\ {"idle", "claiming", "holding"} \subseteq Phases
  BY TimeAssumption DEF Phases
<1>2. ASSUME NEW s \in ProcStates, NEW ph \in Phases, NEW a \in 0 .. MaxDelay
      PROVE  [s EXCEPT !.pc = ph, !.age = a] \in ProcStates
  BY DEF ProcStates
<1>3. Idle \in ProcStates /\ [Idle EXCEPT !.pc = "claiming"] \in ProcStates
  BY <1>1 DEF ProcStates, Idle
<1>4. ASSUME NEW t \in Tasks, NEW k \in Nat
      PROVE  [pc |-> "holding", task |-> t, token |-> k, age |-> 0] \in ProcStates
  BY <1>1 DEF ProcStates
<1>5. ASSUME NEW s \in ProcStates, s.age < MaxDelay
      PROVE  [s EXCEPT !.age = @ + 1] \in ProcStates
  BY <1>5, TimeAssumption DEF ProcStates
<1>6. ASSUME NEW s \in ProcStates, NEW c \in Calls
      PROVE  /\ [s EXCEPT !.pc = "holding", !.age = 0] \in ProcStates
             /\ [s EXCEPT !.pc = c, !.age = 0] \in ProcStates
  <2>1. c \in Phases /\ "holding" \in Phases
    BY <1>1
  <2> QED
    BY <1>1, <1>2, <2>1
<1>7. ASSUME NEW s \in ProcStates
      PROVE  [s EXCEPT !.pc = "holding", !.age = 0] \in ProcStates
  <2>1. "holding" \in Phases
    BY <1>1
  <2> QED
    BY <1>1, <1>2, <2>1
<1> QED
  BY <1>3, <1>4, <1>5, <1>6, <1>7

\* A fenced call replaces one row by its update and one process state.
LEMMA CallUpdates ==
  ASSUME TypeOK, NEW p \in Procs, NEW t \in Tasks, CallStep(p, t)
  PROVE  /\ rows'[t] \in Rows
         /\ rows'[t].token = rows[t].token
         /\ rows[t].done \subseteq rows'[t].done
         /\ rows' = [rows EXCEPT ![t] = rows'[t]]
         /\ proc' = [proc EXCEPT ![p] = proc'[p]]
         /\ \/ proc'[p] = Idle
            \/ proc'[p] = [proc[p] EXCEPT !.pc = "holding", !.age = 0]
         /\ Holds(p, t) /\ proc[p].pc \in Calls
         /\ rows'[t] # rows[t] =>
              /\ rows[t].status = "RUNNING" /\ proc[p].token = rows[t].token
              /\ \/ /\ rows'[t].status = "RUNNING" /\ rows'[t].retries = rows[t].retries
                    /\ proc'[p] = [proc[p] EXCEPT !.pc = "holding", !.age = 0]
                 \/ /\ rows'[t].status = "SUCCEEDED" /\ rows'[t].retries = rows[t].retries
                    /\ proc'[p] = Idle
                 \/ /\ rows'[t].retries = rows[t].retries + 1
                    /\ rows'[t].status =
                         IF rows[t].retries + 1 >= MaxRetries THEN "FAILED" ELSE "PENDING"
                    /\ proc'[p] = Idle
<1>1. /\ rows \in [Tasks -> Rows] /\ rows[t] \in Rows
      /\ proc \in [Procs -> ProcStates] /\ proc[p] \in ProcStates
      /\ proc[p].age \in 0 .. MaxDelay
  BY DEF TypeOK, ProcStates
<1>2. \A c \in Calls : c \notin {"idle", "claiming"}
  BY DEF Calls
<1>3. CASE LeaseLost(p, t)
  BY <1>1, <1>2, <1>3 DEF LeaseLost, Holds
<1> DEFINE Effect(fresh, next) ==
             /\ rows'[t] = fresh /\ proc'[p] = next
             /\ rows' = [rows EXCEPT ![t] = rows'[t]]
             /\ proc' = [proc EXCEPT ![p] = proc'[p]]
             /\ Holds(p, t) /\ proc[p].pc \in Calls
             /\ rows[t].status = "RUNNING" /\ proc[p].token = rows[t].token
<1>4. ASSUME NEW c \in Calls, NEW fresh \in Rows, NEW next,
             Call(p, c, t, fresh, next)
      PROVE  Effect(fresh, next)
  BY <1>1, <1>2, <1>4 DEF Call, Holds, Fenced
<1>5. {"renew", "update_progress", "checkpoint", "commit_effect", "fail"} = Calls
  BY DEF Calls
<1>6. CASE RenewLease(p, t)
  <2>1. Renewed(rows[t], proc[p].age) \in Rows
    BY <1>1, RowUpdatesTyped
  <2>2. Effect(Renewed(rows[t], proc[p].age), StillHolding(p))
    BY <1>4, <1>5, <1>6, <2>1 DEF RenewLease
  <2> QED
    BY <1>1, <2>1, <2>2, RowUpdateFacts DEF StillHolding
<1>7. CASE UpdateProgress(p, t)
  <2>1. Effect(rows[t], StillHolding(p))
    BY <1>1, <1>4, <1>5, <1>7 DEF UpdateProgress
  <2> QED
    BY <1>1, <2>1 DEF StillHolding
<1>8. CASE Checkpoint(p, t)
  <2>1. PICK s \in Stages :
          Call(p, "checkpoint", t, Checkpointed(rows[t], s), StillHolding(p))
    BY <1>8 DEF Checkpoint
  <2>2. Checkpointed(rows[t], s) \in Rows
    BY <1>1, RowUpdatesTyped
  <2>3. Effect(Checkpointed(rows[t], s), StillHolding(p))
    BY <1>4, <1>5, <2>1, <2>2
  <2> QED
    BY <1>1, <2>2, <2>3, RowUpdateFacts DEF StillHolding
<1>9. CASE CommitEffect(p, t)
  <2>1. Committed(rows[t]) \in Rows
    BY <1>1, RowUpdatesTyped
  <2>2. Effect(Committed(rows[t]), Idle)
    BY <1>4, <1>5, <1>9, <2>1 DEF CommitEffect
  <2> QED
    BY <1>1, <2>1, <2>2, RowUpdateFacts DEF StillHolding
<1>10. CASE Fail(p, t)
  <2>1. Failed(rows[t]) \in Rows
    BY <1>1, RowUpdatesTyped
  <2>2. Effect(Failed(rows[t]), Idle)
    BY <1>4, <1>5, <1>10, <2>1 DEF Fail
  <2> QED
    BY <1>1, <2>1, <2>2, RowUpdateFacts DEF StillHolding
<1> QED
  BY <1>3, <1>6, <1>7, <1>8, <1>9, <1>10 DEF CallStep

-----------------------------------------------------------------------------
\* Type correctness, for every value of the constants.
LEMMA TypeStep == TypeOK /\ [Next]_vars => TypeOK'
<1> SUFFICES ASSUME TypeOK, [Next]_vars
             PROVE  rows' \in [Tasks -> Rows] /\ proc' \in [Procs -> ProcStates]
  BY DEF TypeOK, ProcStates
<1>0. rows \in [Tasks -> Rows] /\ proc \in [Procs -> ProcStates]
  BY DEF TypeOK, ProcStates
<1>1. CASE Tick
  <2>1. \A t \in Tasks : Elapsed(rows[t]) \in Rows
    BY <1>0, TimeAssumption, RowUpdatesTyped
  <2>2. ASSUME NEW p \in Procs, InTransaction(p)
        PROVE  [proc[p] EXCEPT !.age = @ + 1] \in ProcStates
    <3>1. proc[p].age < MaxDelay
      BY <1>1, <2>2 DEF Tick
    <3> QED
      BY <1>0, <3>1, ProcUpdatesTyped
  <2> QED
    BY <1>0, <1>1, <2>1, <2>2 DEF Tick
<1>2. ASSUME NEW t \in Tasks, TaskStep(t)
      PROVE  rows' \in [Tasks -> Rows] /\ proc' = proc
  <2>1. CASE Create(t)
    BY <1>0, <2>1, NewRowsTyped, KindsAssumption DEF Create
  <2>2. CASE SucceedUnleased(t)
    BY <1>0, <2>2 DEF SucceedUnleased, Rows, Statuses
  <2>3. CASE FailUnleased(t)
    BY <1>0, <2>3 DEF FailUnleased, Rows, Statuses
  <2> QED
    BY <1>2, <2>1, <2>2, <2>3 DEF TaskStep
<1>3. ASSUME NEW p \in Procs, NEW t \in Tasks, Claim(p, t)
      PROVE  rows' \in [Tasks -> Rows] /\ proc' \in [Procs -> ProcStates]
  <2>1. Claimed(rows[t], WorkerOf[p], proc[p].age) \in Rows
    BY <1>0, ProcsAssumption, RowUpdatesTyped DEF ProcStates
  <2>2. rows' \in [Tasks -> Rows] /\ rows'[t] \in Rows
    BY <1>0, <1>3, <2>1 DEF Claim
  <2>3. [pc |-> "holding", task |-> t, token |-> rows'[t].token, age |-> 0] \in ProcStates
    BY <2>2, ProcUpdatesTyped DEF Rows
  <2> QED
    BY <1>0, <1>3, <2>2, <2>3 DEF Claim
<1>4. ASSUME NEW p \in Procs, NEW t \in Tasks, CallStep(p, t)
      PROVE  rows' \in [Tasks -> Rows] /\ proc' \in [Procs -> ProcStates]
  <2>1. \/ proc'[p] = Idle
        \/ proc'[p] = [proc[p] EXCEPT !.pc = "holding", !.age = 0]
    BY <1>4, CallUpdates
  <2>2. proc[p] \in ProcStates
    BY <1>0
  <2>3. proc'[p] \in ProcStates
    BY <2>1, <2>2, ProcUpdatesTyped
  <2>4. /\ rows'[t] \in Rows /\ rows' = [rows EXCEPT ![t] = rows'[t]]
        /\ proc' = [proc EXCEPT ![p] = proc'[p]]
    BY <1>4, CallUpdates
  <2> QED
    BY <1>0, <2>3, <2>4
<1>5. ASSUME NEW p \in Procs, ProcStep(p)
      PROVE  rows' \in [Tasks -> Rows] /\ proc' \in [Procs -> ProcStates]
  <2>0. proc[p] \in ProcStates /\ Idle \in ProcStates
        /\ [Idle EXCEPT !.pc = "claiming"] \in ProcStates
    BY <1>0, ProcUpdatesTyped
  <2>1. CASE BeginClaim(p)
    BY <1>0, <2>0, <2>1 DEF BeginClaim
  <2>2. CASE ClaimNothing(p)
    BY <1>0, <2>0, <2>2 DEF ClaimNothing
  <2>3. CASE Crash(p)
    BY <1>0, <2>0, <2>3 DEF Crash
  <2>4. ASSUME NEW c \in Calls, BeginCall(p, c)
        PROVE  rows' \in [Tasks -> Rows] /\ proc' \in [Procs -> ProcStates]
    <3>1. [proc[p] EXCEPT !.pc = c, !.age = 0] \in ProcStates
      BY <2>0, ProcUpdatesTyped
    <3>2. rows' = rows /\ proc' = [proc EXCEPT ![p] = [proc[p] EXCEPT !.pc = c, !.age = 0]]
      BY <1>0, <2>4 DEF BeginCall
    <3> QED
      BY <1>0, <3>1, <3>2
  <2> QED
    BY <1>3, <1>4, <1>5, <2>1, <2>2, <2>3, <2>4 DEF ProcStep
<1>6. CASE UNCHANGED vars
  BY <1>0, <1>6 DEF vars
<1> QED
  BY <1>0, <1>1, <1>2, <1>5, <1>6 DEF Next

THEOREM TypeCorrect == Spec => []TypeOK
<1>1. Init => TypeOK
  <2>1. NoRow \in Rows
    BY NewRowsTyped
  <2>2. Idle \in ProcStates
    BY ProcUpdatesTyped
  <2> QED
    BY <2>1, <2>2 DEF Init, TypeOK, ProcStates
<1> QED
  BY <1>1, TypeStep, PTL DEF Spec

-----------------------------------------------------------------------------
\* Tokens only grow, and a process that starts to hold a row in a step took a
\* token newer than the row's, with no other process moving.
LEMMA TokensAdvance ==
  ASSUME TypeOK, [Next]_vars
  PROVE  /\ \A t \in Tasks : rows[t].token <= rows'[t].token
         /\ \A p \in Procs : \A t \in Tasks : Holds(p, t)' =>
              \/ Holds(p, t) /\ proc'[p].token = proc[p].token
              \/ /\ rows[t].token < proc'[p].token
                 /\ proc'[p].token = rows'[t].token
                 /\ \A q \in Procs \ {p} : proc'[q] = proc[q]
<1> DEFINE Grows == \A t \in Tasks : rows[t].token <= rows'[t].token
           Keeps(p) == \A t \in Tasks : Holds(p, t)' =>
                         Holds(p, t) /\ proc'[p].token = proc[p].token
           Takes(p) == \A t \in Tasks : Holds(p, t)' =>
                         /\ rows[t].token < proc'[p].token
                         /\ proc'[p].token = rows'[t].token
                         /\ \A q \in Procs \ {p} : proc'[q] = proc[q]
<1> SUFFICES Grows /\ \A p \in Procs : Keeps(p) \/ Takes(p)
  OBVIOUS
<1>0. /\ rows \in [Tasks -> Rows] /\ proc \in [Procs -> ProcStates]
      /\ \A t \in Tasks : rows[t].token \in Nat
  BY DEF TypeOK, ProcStates, Rows
<1>1. ASSUME rows' = rows PROVE Grows
  BY <1>0, <1>1
<1>2. ASSUME NEW p \in Procs, proc'[p] = proc[p] PROVE Keeps(p)
  BY <1>2 DEF Holds
<1>3. ASSUME NEW p \in Procs, proc'[p].pc \in {"idle", "claiming"} PROVE Keeps(p)
  BY <1>3 DEF Holds
<1>4. CASE Tick
  <2>1. Grows
    BY <1>0, <1>4, TimeAssumption, RowUpdateFacts DEF Tick
  <2>2. ASSUME NEW p \in Procs PROVE Keeps(p)
    BY <1>0, <1>4 DEF Tick, Holds, ProcStates
  <2> QED
    BY <2>1, <2>2
<1>5. ASSUME NEW t \in Tasks, TaskStep(t) PROVE Grows /\ proc' = proc
  <2>1. NoRow.token = 0 /\ \A k \in Kinds : Created(k).token = 0
    BY DEF NoRow, Created
  <2>2. CASE Create(t)
    <3>1. rows'[t].token = 0 /\ rows[t].token = 0
      BY <1>0, <2>1, <2>2, KindsAssumption DEF Create
    <3> QED
      BY <1>0, <2>2, <3>1 DEF Create
  <2>3. CASE SucceedUnleased(t)
    BY <1>0, <2>3 DEF SucceedUnleased, Rows
  <2>4. CASE FailUnleased(t)
    BY <1>0, <2>4 DEF FailUnleased, Rows
  <2> QED
    BY <1>5, <2>2, <2>3, <2>4 DEF TaskStep
<1>6. ASSUME NEW p \in Procs, NEW t \in Tasks, Claim(p, t)
      PROVE  Grows /\ \A q \in Procs : Keeps(q) \/ Takes(q)
  <2>1. Claimed(rows[t], WorkerOf[p], proc[p].age).token = rows[t].token + 1
    BY <1>0, ProcsAssumption, RowUpdateFacts DEF ProcStates
  <2>2. rows'[t].token = rows[t].token + 1
        /\ \A u \in Tasks \ {t} : rows'[u] = rows[u]
    BY <1>0, <1>6, <2>1 DEF Claim
  <2>3. /\ proc'[p].task = t /\ proc'[p].token = rows'[t].token
        /\ \A q \in Procs \ {p} : proc'[q] = proc[q]
    BY <1>0, <1>6 DEF Claim
  <2>4. Takes(p)
    BY <1>0, <2>2, <2>3 DEF Holds
  <2> QED
    BY <1>0, <1>2, <2>2, <2>3, <2>4
<1>7. ASSUME NEW p \in Procs, NEW t \in Tasks, CallStep(p, t)
      PROVE  Grows /\ \A q \in Procs : Keeps(q)
  <2>1. /\ rows'[t].token = rows[t].token
        /\ rows' = [rows EXCEPT ![t] = rows'[t]]
        /\ proc' = [proc EXCEPT ![p] = proc'[p]]
        /\ \/ proc'[p] = Idle
           \/ proc'[p] = [proc[p] EXCEPT !.pc = "holding", !.age = 0]
        /\ Holds(p, t)
    BY <1>7, CallUpdates
  <2>2. Grows
    BY <1>0, <2>1
  <2>3. \A q \in Procs \ {p} : Keeps(q)
    BY <1>0, <1>2, <2>1
  <2>4. proc'[p] = Idle => Keeps(p)
    BY <1>3 DEF Idle
  <2>5. proc'[p] = [proc[p] EXCEPT !.pc = "holding", !.age = 0] => Keeps(p)
    BY <1>0, <2>1 DEF Holds, ProcStates
  <2> QED
    BY <2>1, <2>2, <2>3, <2>4, <2>5
<1>8. ASSUME NEW p \in Procs, ProcStep(p)
      PROVE  Grows /\ \A q \in Procs : Keeps(q) \/ Takes(q)
  <2>0. Idle.pc = "idle" /\ [Idle EXCEPT !.pc = "claiming"].pc = "claiming"
    BY DEF Idle
  <2>1. CASE BeginClaim(p)
    BY <1>0, <1>1, <1>2, <1>3, <2>0, <2>1 DEF BeginClaim
  <2>2. CASE ClaimNothing(p)
    BY <1>0, <1>1, <1>2, <1>3, <2>0, <2>2 DEF ClaimNothing
  <2>3. CASE Crash(p)
    BY <1>0, <1>1, <1>2, <1>3, <2>0, <2>3 DEF Crash
  <2>4. ASSUME NEW c \in Calls, BeginCall(p, c)
        PROVE  Grows /\ \A q \in Procs : Keeps(q)
    <3>1. /\ proc[p].pc = "holding" /\ rows' = rows
          /\ proc'[p].task = proc[p].task /\ proc'[p].token = proc[p].token
          /\ \A q \in Procs \ {p} : proc'[q] = proc[q]
      BY <1>0, <2>4 DEF BeginCall, ProcStates
    <3>2. Keeps(p)
      BY <3>1 DEF Holds
    <3> QED
      BY <1>1, <1>2, <3>1, <3>2
  <2> QED
    BY <1>6, <1>7, <1>8, <2>1, <2>2, <2>3, <2>4 DEF ProcStep
<1>9. CASE UNCHANGED vars
  BY <1>1, <1>2, <1>9 DEF vars
<1> QED
  BY <1>1, <1>2, <1>4, <1>5, <1>8, <1>9 DEF Next

\* The generations that processes hold stay distinct and never outrun the rows.
LEMMA ClaimsStep ==
  ASSUME TypeOK, TokenBound, DistinctClaims, [Next]_vars
  PROVE  TokenBound' /\ DistinctClaims'
<1>0. /\ \A p \in Procs : proc[p].token \in Nat
      /\ \A t \in Tasks : rows[t].token \in Nat /\ rows'[t].token \in Nat
  BY TypeStep DEF TypeOK, Rows
<1>1. TokenBound'
  BY <1>0, TokensAdvance DEF TokenBound
<1>2. ASSUME NEW p \in Procs, NEW q \in Procs, NEW t \in Tasks, p # q,
             Holds(p, t)', Holds(q, t)', proc'[p].token = proc'[q].token
      PROVE  FALSE
  <2>1. ASSUME NEW a \in Procs, NEW b \in Procs, a # b,
               Holds(b, t)', rows[t].token < proc'[a].token,
               proc'[b] = proc[b], proc'[a].token = proc'[b].token
        PROVE  FALSE
    <3>1. Holds(b, t)
      BY <2>1 DEF Holds
    <3> QED
      BY <1>0, <2>1, <3>1 DEF TokenBound
  <2>2. \/ Holds(p, t) /\ proc'[p].token = proc[p].token
        \/ rows[t].token < proc'[p].token /\ proc'[q] = proc[q]
    BY <1>2, TokensAdvance
  <2>3. \/ Holds(q, t) /\ proc'[q].token = proc[q].token
        \/ rows[t].token < proc'[q].token /\ proc'[p] = proc[p]
    BY <1>2, TokensAdvance
  <2> QED
    BY <1>2, <2>1, <2>2, <2>3 DEF DistinctClaims
<1> QED
  BY <1>1, <1>2 DEF DistinctClaims

\* No step strands a waiting or running row, or fails one early.
LEMMA BudgetStep ==
  ASSUME TypeOK, RetryBudget, [Next]_vars
  PROVE  RetryBudget'
<1> DEFINE Budget(r) == /\ r.status \in {"PENDING", "RUNNING"} => r.retries < MaxRetries
                        /\ r.status = "FAILED" => r.retries = MaxRetries
<1> SUFFICES ASSUME NEW t \in Tasks, KindOf[t] = "video_pipeline"
             PROVE  Budget(rows'[t])
  BY DEF RetryBudget
<1>0. /\ rows \in [Tasks -> Rows] /\ rows[t] \in Rows /\ rows[t].retries \in Nat
      /\ Budget(rows[t]) /\ MaxRetries \in Nat \ {0}
      /\ proc \in [Procs -> ProcStates]
  BY RetriesAssumption DEF TypeOK, ProcStates, Rows, RetryBudget
<1>1. ASSUME rows'[t] = rows[t] PROVE Budget(rows'[t])
  BY <1>0, <1>1
<1>2. CASE Tick
  BY <1>0, <1>2, TimeAssumption, RowUpdateFacts DEF Tick
<1>3. ASSUME NEW u \in Tasks, TaskStep(u) PROVE Budget(rows'[t])
  <2>1. CASE Create(u)
    <3>1. Budget(Created(KindOf[t]))
      BY <1>0 DEF Created, NoRow
    <3> QED
      BY <1>0, <1>1, <2>1, <3>1 DEF Create
  <2>2. CASE SucceedUnleased(u) \/ FailUnleased(u)
    <3>1. u # t
      BY <2>2 DEF SucceedUnleased, FailUnleased
    <3> QED
      BY <1>0, <1>1, <2>2, <3>1 DEF SucceedUnleased, FailUnleased
  <2> QED
    BY <1>3, <2>1, <2>2 DEF TaskStep
<1>4. ASSUME NEW p \in Procs, ProcStep(p) PROVE Budget(rows'[t])
  <2>1. CASE \E u \in Tasks : Claim(p, u)
    <3>1. PICK u \in Tasks : Claim(p, u)
      BY <2>1
    <3>2. CASE u # t
      BY <1>0, <1>1, <3>1, <3>2 DEF Claim
    <3>3. CASE u = t
      <4>1. rows'[t] = Claimed(rows[t], WorkerOf[p], proc[p].age) /\ rows[t].retries < MaxRetries
        BY <1>0, <3>1, <3>3 DEF Claim, Open, Claimable
      <4>2. rows'[t].status = "RUNNING" /\ rows'[t].retries = rows[t].retries
        BY <1>0, <4>1, ProcsAssumption, RowUpdateFacts DEF ProcStates
      <4> QED
        BY <4>1, <4>2
    <3> QED
      BY <3>2, <3>3
  <2>2. CASE \E u \in Tasks : CallStep(p, u)
    <3>1. PICK u \in Tasks : CallStep(p, u)
      BY <2>2
    <3>2. CASE u # t
      <4>1. rows' = [rows EXCEPT ![u] = rows'[u]]
        BY <3>1, CallUpdates
      <4> QED
        BY <1>0, <1>1, <3>2, <4>1
    <3>3. CASE u = t /\ rows'[t] # rows[t]
      <4>1. /\ rows[t].status = "RUNNING"
            /\ \/ rows'[t].status = "RUNNING" /\ rows'[t].retries = rows[t].retries
               \/ rows'[t].status = "SUCCEEDED"
               \/ /\ rows'[t].retries = rows[t].retries + 1
                  /\ rows'[t].status =
                       IF rows[t].retries + 1 >= MaxRetries THEN "FAILED" ELSE "PENDING"
        BY <3>1, <3>3, CallUpdates
      <4> QED
        BY <1>0, <4>1
    <3> QED
      BY <1>1, <3>2, <3>3
  <2>3. CASE BeginClaim(p) \/ ClaimNothing(p) \/ Crash(p) \/ \E c \in Calls : BeginCall(p, c)
    BY <1>1, <2>3 DEF BeginClaim, ClaimNothing, Crash, BeginCall
  <2> QED
    BY <1>4, <2>1, <2>2, <2>3 DEF ProcStep
<1>5. CASE UNCHANGED vars
  BY <1>1, <1>5 DEF vars
<1> QED
  BY <1>2, <1>3, <1>4, <1>5 DEF Next

-----------------------------------------------------------------------------
THEOREM QueueInvariant == Spec => []QueueInv
<1>1. Init => QueueInv
  <2> SUFFICES ASSUME Init PROVE QueueInv
    OBVIOUS
  <2>1. TypeOK
    BY NewRowsTyped, ProcUpdatesTyped DEF Init, TypeOK, ProcStates
  <2>2. \A p \in Procs : \A t \in Tasks : ~Holds(p, t)
    BY DEF Init, Holds, Idle
  <2>3. RetryBudget
    BY DEF Init, RetryBudget, NoRow
  <2> QED
    BY <2>1, <2>2, <2>3 DEF QueueInv, TokenBound, DistinctClaims
<1>2. QueueInv /\ [Next]_vars => QueueInv'
  BY TypeStep, ClaimsStep, BudgetStep DEF QueueInv
<1> QED
  BY <1>1, <1>2, PTL DEF Spec

\* A claim generation belongs to one process, whatever worker ids are shared.
THEOREM ExclusiveFence == Spec => []OneFencedProcess
<1>1. QueueInv => OneFencedProcess
  BY DEF QueueInv, DistinctClaims, OneFencedProcess, PassesFence, Fenced
<1> QED
  BY <1>1, QueueInvariant, PTL

\* The retry budget never strands or fails a row early.
THEOREM BudgetNeverStrands == Spec => []RetryBudget
BY QueueInvariant, PTL DEF QueueInv

-----------------------------------------------------------------------------
\* What one step can do to one row: the cases the remaining theorems share.
LEMMA RowStep ==
  ASSUME TypeOK, [Next]_vars, NEW t \in Tasks, rows'[t] # rows[t]
  PROVE  \/ rows'[t] = Elapsed(rows[t]) /\ Tick
         \/ Create(t) /\ rows[t].status = "ABSENT"
         \/ SucceedUnleased(t) \/ FailUnleased(t)
         \/ \E p \in Procs : Claim(p, t) \/ CallStep(p, t)
<1>0. /\ rows \in [Tasks -> Rows] /\ proc \in [Procs -> ProcStates]
  BY DEF TypeOK, ProcStates
<1>1. CASE Tick
  BY <1>0, <1>1 DEF Tick
<1>2. ASSUME NEW u \in Tasks, TaskStep(u)
      PROVE  u = t /\ (Create(t) => rows[t].status = "ABSENT")
  BY <1>0, <1>2 DEF TaskStep, Create, SucceedUnleased, FailUnleased, NoRow
<1>3. ASSUME NEW p \in Procs, NEW u \in Tasks, Claim(p, u) PROVE u = t
  BY <1>0, <1>3 DEF Claim
<1>4. ASSUME NEW p \in Procs, NEW u \in Tasks, CallStep(p, u) PROVE u = t
  BY <1>0, <1>4, CallUpdates
<1>5. ASSUME NEW p \in Procs, ProcStep(p)
      PROVE  \E u \in Tasks : Claim(p, u) \/ CallStep(p, u)
  BY <1>5 DEF ProcStep, BeginClaim, ClaimNothing, Crash, BeginCall
<1> QED
  BY <1>1, <1>2, <1>3, <1>4, <1>5 DEF Next, vars, TaskStep

\* A terminal row keeps its status and its result.
THEOREM TerminalNeverChanges == Spec => TerminalIsFinal
<1>1. TypeOK /\ [Next]_vars =>
        \A t \in Tasks : rows[t].status \in Terminal =>
          rows'[t].status = rows[t].status /\ rows'[t].result = rows[t].result
  <2> SUFFICES ASSUME TypeOK, [Next]_vars, NEW t \in Tasks,
                      rows[t].status \in Terminal, rows'[t] # rows[t]
               PROVE  rows'[t].status = rows[t].status /\ rows'[t].result = rows[t].result
    OBVIOUS
  <2>0. rows[t] \in Rows /\ rows[t].status \in {"SUCCEEDED", "FAILED"}
    BY DEF TypeOK, Terminal
  <2>1. CASE rows'[t] = Elapsed(rows[t])
    BY <2>0, <2>1, TimeAssumption, RowUpdateFacts
  <2>2. ~(Create(t) /\ rows[t].status = "ABSENT") /\ ~SucceedUnleased(t) /\ ~FailUnleased(t)
    BY <2>0 DEF SucceedUnleased, FailUnleased
  <2>3. \A p \in Procs : ~Claim(p, t)
    BY <2>0 DEF Claim, Open, Claimable
  <2>4. \A p \in Procs : ~CallStep(p, t)
    BY <2>0, CallUpdates
  <2> QED
    BY <2>1, <2>2, <2>3, <2>4, RowStep
<1> QED
  BY <1>1, TypeCorrect, PTL DEF Spec, TerminalIsFinal

\* No step forgets a stage a row has recorded.
THEOREM NoCheckpointLost == Spec => CheckpointsSurvive
<1>1. TypeOK /\ [Next]_vars => \A t \in Tasks : rows[t].done \subseteq rows'[t].done
  <2> SUFFICES ASSUME TypeOK, [Next]_vars, NEW t \in Tasks, rows'[t] # rows[t]
               PROVE  rows[t].done \subseteq rows'[t].done
    OBVIOUS
  <2>0. /\ rows \in [Tasks -> Rows] /\ rows[t] \in Rows
        /\ proc \in [Procs -> ProcStates]
    BY DEF TypeOK, ProcStates
  <2>1. CASE rows'[t] = Elapsed(rows[t])
    BY <2>0, <2>1, TimeAssumption, RowUpdateFacts
  <2>2. CASE Create(t)
    BY <2>0, <2>2 DEF Create, NoRow
  <2>3. CASE SucceedUnleased(t) \/ FailUnleased(t)
    BY <2>0, <2>3 DEF SucceedUnleased, FailUnleased, Rows
  <2>4. ASSUME NEW p \in Procs, Claim(p, t)
        PROVE  rows[t].done \subseteq rows'[t].done
    <3>1. rows'[t] = Claimed(rows[t], WorkerOf[p], proc[p].age)
      BY <2>0, <2>4 DEF Claim
    <3>2. proc[p].age \in 0 .. MaxDelay /\ WorkerOf[p] \in WorkerIds
      BY <2>0, ProcsAssumption DEF ProcStates
    <3> QED
      BY <2>0, <3>1, <3>2, RowUpdateFacts
  <2>5. ASSUME NEW p \in Procs, CallStep(p, t)
        PROVE  rows[t].done \subseteq rows'[t].done
    BY <2>5, CallUpdates
  <2> QED
    BY <2>1, <2>2, <2>3, <2>4, <2>5, RowStep
<1> QED
  BY <1>1, TypeCorrect, PTL DEF Spec, CheckpointsSurvive

\* What a row records of its task, its end and its stages, stays.
THEOREM RecordsOutlast == Spec => RecordsStay
  BY TerminalNeverChanges, NoCheckpointLost DEF RecordsStay

-----------------------------------------------------------------------------
\* The refinement.  A row whose status, token and holders do not change looks
\* the same to JobQueue.
LEMMA SameToJobQueue ==
  ASSUME NEW u \in Tasks,
         rows'[u].status = rows[u].status, rows'[u].token = rows[u].token,
         \A p \in Procs : Holds(p, u)' <=> Holds(p, u),
         \A p \in Procs : Holds(p, u) => proc'[p].token = proc[p].token
  PROVE  JobPhase(u)' = JobPhase(u) /\ Grantee(u)' = Grantee(u)
BY DEF JobPhase, Grantee

\* A process that lets go of its claim withdraws the grant, or nothing.
LEMMA LettingGo ==
  ASSUME QueueInv, NEW p \in Procs, rows' = rows, proc' = [proc EXCEPT ![p] = Idle]
  PROVE  JQ!Next \/ UNCHANGED JQ!vars
<1>0. proc \in [Procs -> ProcStates]
  BY DEF QueueInv, TypeOK, ProcStates
<1>1. /\ proc'[p] = Idle /\ \A q \in Procs \ {p} : proc'[q] = proc[q]
      /\ Idle.pc = "idle"
  BY <1>0 DEF Idle
<1>2. \A u \in Tasks : ~Holds(p, u)'
  BY <1>1 DEF Holds
<1>3. ASSUME NEW u \in Tasks
      PROVE  /\ JobPhase(u)' = JobPhase(u)
             /\ Grantee(u)' = Grantee(u) \ {p}
  BY <1>1, <1>2 DEF JobPhase, Grantee, Holds
<1>4. ASSUME NEW u \in Tasks, p \in Grantee(u) PROVE Grantee(u) \ {p} = {}
  BY <1>4 DEF QueueInv, DistinctClaims, Grantee
<1>5. ASSUME NEW u \in Tasks, NEW v \in Tasks, p \in Grantee(u), p \in Grantee(v)
      PROVE  u = v
  BY <1>5 DEF Grantee, Holds
<1>6. CASE \A u \in Queued : p \notin Grantee(u)
  BY <1>3, <1>6 DEF JQ!vars, Queued
<1>7. ASSUME NEW u \in Queued, p \in Grantee(u) PROVE JQ!Withdraw(u)
  <2>1. u \in Tasks /\ rows[u].status = "RUNNING" /\ JobPhase(u) = "granted"
    BY <1>7 DEF Queued, Grantee, JobPhase
  <2>2. Grantee(u)' = {} /\ \A v \in Queued \ {u} : Grantee(v)' = Grantee(v)
    BY <1>3, <1>4, <1>5, <1>7, <2>1 DEF Queued
  <2>3. \A v \in Queued : JobPhase(v)' = JobPhase(v)
    BY <1>3 DEF Queued
  <2> QED
    BY <2>1, <2>2, <2>3 DEF JQ!Withdraw
<1> QED
  BY <1>6, <1>7 DEF JQ!Next, JQ!Step

\* Every step of the table is a step of the job queue or invisible to it.
LEMMA QueueStepImplements ==
  ASSUME QueueInv, QueueInv', [Next]_vars
  PROVE  JQ!Next \/ UNCHANGED JQ!vars
<1>0. /\ rows \in [Tasks -> Rows] /\ proc \in [Procs -> ProcStates]
      /\ \A t \in Tasks : rows[t].token \in Nat /\ rows[t].retries \in Nat
      /\ Queued \subseteq Tasks /\ MaxRetries \in Nat \ {0}
  BY RetriesAssumption DEF QueueInv, TypeOK, ProcStates, Rows, Queued
<1> DEFINE Same(u) == /\ JobPhase(u)' = JobPhase(u) /\ Grantee(u)' = Grantee(u)
                      /\ rows'[u].retries = rows[u].retries
<1>1. ASSUME \A u \in Queued : Same(u) PROVE UNCHANGED JQ!vars
  BY <1>1 DEF JQ!vars
<1>2. ASSUME NEW u \in Tasks, rows'[u] = rows[u],
             \A q \in Procs : proc'[q] = proc[q] \/ (~Holds(q, u) /\ ~Holds(q, u)')
      PROVE  Same(u)
  <2>1. \A q \in Procs : /\ Holds(q, u)' <=> Holds(q, u)
                         /\ Holds(q, u) => proc'[q].token = proc[q].token
    BY <1>2 DEF Holds
  <2> QED
    BY <1>2, <2>1, SameToJobQueue
<1>3. ASSUME Tick, NEW u \in Tasks PROVE Same(u)
  <2>1. /\ rows'[u].status = rows[u].status /\ rows'[u].token = rows[u].token
        /\ rows'[u].retries = rows[u].retries
    BY <1>0, <1>3, TimeAssumption, RowUpdateFacts DEF Tick
  <2>2. \A q \in Procs : /\ Holds(q, u)' <=> Holds(q, u)
                         /\ proc'[q].token = proc[q].token
    BY <1>0, <1>3 DEF Tick, Holds, ProcStates
  <2> QED
    BY <2>1, <2>2, SameToJobQueue
<1>4. ASSUME NEW t \in Tasks, TaskStep(t) PROVE JQ!Next \/ UNCHANGED JQ!vars
  <2>1. proc' = proc /\ rows' = [rows EXCEPT ![t] = rows'[t]]
    BY <1>0, <1>4 DEF TaskStep, Create, SucceedUnleased, FailUnleased
  <2>2. \A u \in Tasks \ {t} : Same(u)
    BY <1>0, <1>2, <2>1
  <2>3. CASE t \notin Queued
    BY <1>0, <1>1, <2>2, <2>3
  <2>4. CASE t \in Queued
    <3>1. Create(t) /\ rows[t] = NoRow /\ rows'[t] = Created("video_pipeline")
      BY <1>0, <1>4, <2>4 DEF TaskStep, Create, SucceedUnleased, FailUnleased, Queued
    <3>2. /\ rows[t].status = "ABSENT" /\ rows[t].retries = 0
          /\ rows'[t].status = "PENDING" /\ rows'[t].retries = 0
      BY <3>1 DEF NoRow, Created
    <3>3. /\ JobPhase(t) = "none" /\ JobPhase(t)' = "waiting"
          /\ Grantee(t) = {} /\ Grantee(t)' = {}
      BY <3>2 DEF JobPhase, Grantee
    <3>4. JQ!Submit(t)
      BY <2>2, <2>4, <3>2, <3>3 DEF JQ!Submit, Queued
    <3> QED
      BY <2>4, <3>4 DEF JQ!Next, JQ!Step
  <2> QED
    BY <2>3, <2>4
<1>5. ASSUME NEW p \in Procs, NEW t \in Tasks, Claim(p, t) PROVE JQ!Next
  <2>1. /\ rows'[t] = Claimed(rows[t], WorkerOf[p], proc[p].age)
        /\ rows' = [rows EXCEPT ![t] = rows'[t]]
        /\ proc[p].pc = "claiming" /\ proc'[p].pc = "holding" /\ proc'[p].task = t
        /\ proc'[p].token = rows'[t].token
        /\ \A q \in Procs \ {p} : proc'[q] = proc[q]
        /\ t \in Queued /\ rows[t].status \in {"PENDING", "RUNNING"}
    BY <1>0, <1>5 DEF Claim, Open, Claimable, Queued
  <2>2. /\ rows'[t].status = "RUNNING" /\ rows'[t].token = rows[t].token + 1
        /\ rows'[t].retries = rows[t].retries
    BY <1>0, <2>1, ProcsAssumption, RowUpdateFacts DEF ProcStates
  <2>3. ASSUME NEW u \in Tasks \ {t} PROVE Same(u)
    <3>1. ~Holds(p, u) /\ ~Holds(p, u)' /\ rows'[u] = rows[u]
      BY <1>0, <2>1 DEF Holds
    <3> QED
      BY <1>2, <2>1, <3>1
  <2>4. Holds(p, t)' /\ p \in Grantee(t)'
    BY <2>1, <2>2 DEF Holds, Grantee
  <2>5. \A q \in Procs \ {p} : q \notin Grantee(t)'
    BY <2>1, <2>4 DEF Grantee, Holds, QueueInv, DistinctClaims
  <2>6. Grantee(t)' = {p}
    BY <2>4, <2>5 DEF Grantee
  <2>7. JobPhase(t) \in {"waiting", "granted"} /\ JobPhase(t)' = "granted"
    BY <2>1, <2>2 DEF JobPhase
  <2>8. JQ!Grant(t, p)
    BY <2>1, <2>2, <2>3, <2>6, <2>7 DEF JQ!Grant, Queued
  <2> QED
    BY <2>1, <2>8 DEF JQ!Next, JQ!Step
<1>6. ASSUME NEW p \in Procs, NEW t \in Tasks, CallStep(p, t), rows'[t] # rows[t]
      PROVE  JQ!Next \/ UNCHANGED JQ!vars
  <2>0. QueueInv => TypeOK
    BY DEF QueueInv
  <2>1. /\ rows'[t].token = rows[t].token
        /\ rows' = [rows EXCEPT ![t] = rows'[t]]
        /\ proc' = [proc EXCEPT ![p] = proc'[p]]
        /\ Holds(p, t) /\ proc[p].pc \in Calls
        /\ rows[t].status = "RUNNING" /\ proc[p].token = rows[t].token
    BY <1>6, <2>0, CallUpdates
  <2>2. \/ /\ rows'[t].status = "RUNNING" /\ rows'[t].retries = rows[t].retries
           /\ proc'[p] = [proc[p] EXCEPT !.pc = "holding", !.age = 0]
        \/ /\ rows'[t].status = "SUCCEEDED" /\ rows'[t].retries = rows[t].retries
           /\ proc'[p] = Idle
        \/ /\ rows'[t].retries = rows[t].retries + 1
           /\ rows'[t].status =
                IF rows[t].retries + 1 >= MaxRetries THEN "FAILED" ELSE "PENDING"
           /\ proc'[p] = Idle
    BY <1>6, <2>0, CallUpdates
  <2>3. ASSUME NEW u \in Tasks \ {t} PROVE Same(u)
    <3>1. /\ \A q \in Procs \ {p} : proc'[q] = proc[q]
          /\ rows'[u] = rows[u]
      BY <1>0, <2>1
    <3>2. proc[p].task = t /\ (proc'[p].task = t \/ proc'[p].pc = "idle")
      <4>1. proc[p] \in ProcStates /\ proc[p].task = t
        BY <1>0, <2>1 DEF Holds
      <4>2. Idle.pc = "idle"
        BY DEF Idle
      <4>3. [proc[p] EXCEPT !.pc = "holding", !.age = 0].task = proc[p].task
        BY <4>1 DEF ProcStates
      <4> QED
        BY <2>2, <4>1, <4>2, <4>3
    <3>3. ~Holds(p, u) /\ ~Holds(p, u)'
      BY <3>2 DEF Holds
    <3> QED
      BY <1>2, <3>1, <3>3
  <2>4. p \in Grantee(t) /\ JobPhase(t) = "granted"
    BY <2>1 DEF Grantee, JobPhase
  <2>5. CASE /\ rows'[t].status = "RUNNING" /\ rows'[t].retries = rows[t].retries
             /\ proc'[p] = [proc[p] EXCEPT !.pc = "holding", !.age = 0]
    <3>1. /\ proc'[p].pc = "holding" /\ proc'[p].task = proc[p].task
          /\ proc'[p].token = proc[p].token
          /\ \A q \in Procs \ {p} : proc'[q] = proc[q]
      BY <1>0, <2>1, <2>5 DEF ProcStates
    <3>2. \A q \in Procs : /\ Holds(q, t)' <=> Holds(q, t)
                           /\ proc'[q].token = proc[q].token
      BY <2>1, <3>1 DEF Holds
    <3>3. Same(t)
      BY <2>1, <2>5, <3>2, SameToJobQueue
    <3> QED
      BY <1>0, <1>1, <2>3, <3>3
  <2>6. CASE rows'[t].status = "SUCCEEDED" /\ rows'[t].retries = rows[t].retries
    <3>1. JobPhase(t)' = "done" /\ Grantee(t)' = {}
      BY <2>6 DEF JobPhase, Grantee
    <3>2. CASE t \in Queued
      <4>1. JQ!Finish(t)
        BY <2>3, <2>4, <2>6, <3>1, <3>2 DEF JQ!Finish, Queued
      <4> QED
        BY <3>2, <4>1 DEF JQ!Next, JQ!Step
    <3> QED
      BY <1>0, <1>1, <2>3, <3>2
  <2>7. CASE /\ rows'[t].retries = rows[t].retries + 1
             /\ rows'[t].status =
                  IF rows[t].retries + 1 >= MaxRetries THEN "FAILED" ELSE "PENDING"
    <3>1. CASE t \in Queued
      <4>1. rows[t].retries < MaxRetries
        BY <2>1, <3>1 DEF QueueInv, RetryBudget, Queued
      <4>2. rows[t].retries + 1 >= MaxRetries <=> rows[t].retries + 1 = MaxRetries
        BY <1>0, <4>1
      <4>3. /\ JobPhase(t)' = IF rows[t].retries + 1 = MaxRetries THEN "dead" ELSE "waiting"
            /\ Grantee(t)' = {}
        BY <2>7, <4>2 DEF JobPhase, Grantee
      <4>4. JQ!Strike(t)
        BY <1>0, <2>3, <2>4, <2>7, <3>1, <4>1, <4>3 DEF JQ!Strike, Queued
      <4> QED
        BY <3>1, <4>4 DEF JQ!Next, JQ!Step
    <3> QED
      BY <1>0, <1>1, <2>3, <3>1
  <2> QED
    BY <2>2, <2>5, <2>6, <2>7
<1>7. ASSUME NEW p \in Procs, NEW t \in Tasks, CallStep(p, t), rows'[t] = rows[t]
      PROVE  JQ!Next \/ UNCHANGED JQ!vars
  <2>1. /\ rows' = rows
        /\ proc' = [proc EXCEPT ![p] = proc'[p]]
        /\ \/ proc'[p] = Idle
           \/ proc'[p] = [proc[p] EXCEPT !.pc = "holding", !.age = 0]
        /\ Holds(p, t)
    <3>1. TypeOK
      BY DEF QueueInv
    <3>2. rows' = [rows EXCEPT ![t] = rows'[t]]
      BY <1>7, <3>1, CallUpdates
    <3>3. rows' = rows
      BY <1>0, <1>7, <3>2
    <3> QED
      BY <1>7, <3>1, <3>3, CallUpdates
  <2>2. CASE proc'[p] = Idle
    BY <2>1, <2>2, LettingGo
  <2>3. CASE proc'[p] = [proc[p] EXCEPT !.pc = "holding", !.age = 0]
    <3>1. \A u \in Tasks : \A q \in Procs :
            /\ Holds(q, u)' <=> Holds(q, u)
            /\ proc'[q].token = proc[q].token
      <4>1. \A q \in Procs \ {p} : proc'[q] = proc[q]
        BY <1>0, <2>1
      <4>2. proc[p] \in ProcStates
        BY <1>0
      <4>3. /\ proc'[p].task = proc[p].task /\ proc'[p].token = proc[p].token
            /\ proc'[p].pc = "holding"
        BY <2>3, <4>2 DEF ProcStates
      <4>4. proc[p].pc \notin {"idle", "claiming"}
        BY <2>1 DEF Holds
      <4>5. \A u \in Tasks : Holds(p, u)' <=> Holds(p, u)
        BY <4>3, <4>4 DEF Holds
      <4>6. \A q \in Procs \ {p} : \A u \in Tasks : Holds(q, u)' <=> Holds(q, u)
        BY <4>1 DEF Holds
      <4> QED
        BY <4>1, <4>3, <4>5, <4>6
    <3>2. \A u \in Tasks : Same(u)
      BY <2>1, <3>1, SameToJobQueue
    <3> QED
      BY <1>0, <1>1, <3>2
  <2> QED
    BY <2>1, <2>2, <2>3
<1>8. ASSUME NEW p \in Procs, NEW c \in Calls, BeginCall(p, c) PROVE UNCHANGED JQ!vars
  <2>1. \A u \in Tasks : \A q \in Procs :
          /\ Holds(q, u)' <=> Holds(q, u)
          /\ proc'[q].token = proc[q].token
    BY <1>0, <1>8 DEF BeginCall, Holds, ProcStates, Calls
  <2>2. \A u \in Tasks : Same(u)
    BY <1>8, <2>1, SameToJobQueue DEF BeginCall
  <2> QED
    BY <1>0, <1>1, <2>2
<1>9. ASSUME NEW p \in Procs, BeginClaim(p) \/ ClaimNothing(p) PROVE UNCHANGED JQ!vars
  <2>1. \A u \in Tasks : \A q \in Procs :
          proc'[q] = proc[q] \/ (~Holds(q, u) /\ ~Holds(q, u)')
    BY <1>0, <1>9 DEF BeginClaim, ClaimNothing, Holds, Idle
  <2>2. \A u \in Tasks : Same(u)
    BY <1>2, <1>9, <2>1 DEF BeginClaim, ClaimNothing
  <2> QED
    BY <1>0, <1>1, <2>2
<1>10. ASSUME NEW p \in Procs, Crash(p) PROVE JQ!Next \/ UNCHANGED JQ!vars
  BY <1>10, LettingGo DEF Crash
<1>11. CASE UNCHANGED vars
  <2>1. \A u \in Tasks : Same(u)
    BY <1>2, <1>11 DEF vars
  <2> QED
    BY <1>0, <1>1, <2>1
<1>12. CASE Tick
  BY <1>0, <1>1, <1>3, <1>12
<1> QED
  BY <1>4, <1>5, <1>6, <1>7, <1>8, <1>9, <1>10, <1>11, <1>12 DEF Next, ProcStep

\* The lease table implements the abstract job queue.
THEOREM Refinement == Spec => ImplementsJobQueue
<1>1. Init => JQ!Init
  BY DEF Init, JQ!Init, JobPhase, Grantee, NoRow, Queued
<1>2. QueueInv /\ QueueInv' /\ [Next]_vars => [JQ!Next]_(JQ!vars)
  BY QueueStepImplements
<1> QED
  BY <1>1, <1>2, QueueInvariant, PTL DEF Spec, ImplementsJobQueue, JQ!Spec

-----------------------------------------------------------------------------
(***************************************************************************)
(* The attempts that hold the claims: ContentWorker, with the same tasks,  *)
(* processes and worker ids.                                               *)
(***************************************************************************)
AttemptFields == {"pc", "task", "token", "run", "stage", "out"}
RowFields == {"status", "done", "result", "owner", "left", "token", "retries"}
IsRow(r) == DOMAIN r = RowFields /\ r.left \in Int
RunFields == {"state", "owner", "left", "token"}

\* What the tables look like, and that a stage that succeeded left its receipt.
TablesHold(tb, st) ==
  /\ DOMAIN tb = Tasks /\ \A t \in Tasks : IsRow(tb[t])
  /\ DOMAIN st = Tasks
  /\ \A t \in Tasks :
       /\ DOMAIN st[t] = Stages
       /\ \A s \in Stages : /\ DOMAIN st[t][s] = {"checkpoint", "receipt"}
                            /\ st[t][s].checkpoint = "SUCCEEDED" => st[t][s].receipt # 0

\* The attempt x has in hand what the receipts of the first n stages pin.
Reached(x, st, n) ==
  \A s \in Stages : s <= n => x.out[s] # 0 /\ x.out[s] = st[x.task][s].receipt

\* An attempt is backed, wherever it stands, by what the tables say.
Backed(x, tb, st) ==
  /\ DOMAIN x = AttemptFields /\ DOMAIN x.out = Stages
  /\ x.pc \notin {"idle", "dead"} => x.task \in Tasks
  /\ x.pc = "progress" => x.stage \in 1 .. Last + 1
  /\ x.pc \in {"execute", "record"} => x.stage \in Stages
  /\ x.pc \in {"progress", "execute"} => Reached(x, st, x.stage - 1)
  /\ x.pc = "record" => Reached(x, st, x.stage)
  /\ x.pc = "commit" => Reached(x, st, Last)
  /\ x.pc = "succeed_run" => tb[x.task].status = "SUCCEEDED"

AttemptsBacked ==
  DOMAIN attempt = Procs /\ \A p \in Procs : Backed(attempt[p], rows, store)

RunsHold == DOMAIN runs = Tasks /\ \A t \in Tasks : DOMAIN runs[t] = RunFields

WorkerInv ==
  /\ TablesHold(rows, store) /\ AttemptsBacked /\ RunsHold
  /\ StagesInOrder /\ RunSucceedsLast

\* Receipts and acknowledgements are for good.
NothingTakenBack ==
  /\ \A t \in Tasks : \A s \in Stages :
       store[t][s].receipt # 0 => store'[t][s].receipt = store[t][s].receipt
  /\ \A t \in Tasks : rows[t].status = "SUCCEEDED" => rows'[t].status = "SUCCEEDED"

\* What backed an attempt backs it still.
LEMMA BackedStays ==
  ASSUME NothingTakenBack, NEW x, Backed(x, rows, store)
  PROVE  Backed(x, rows', store')
BY DEF NothingTakenBack, Backed, Reached

LEMMA AttemptMoves ==
  ASSUME AttemptsBacked, NothingTakenBack, NEW p \in Procs, NEW x,
         attempt' = [attempt EXCEPT ![p] = x], Backed(x, rows', store')
  PROVE  AttemptsBacked'
<1>1. DOMAIN attempt' = Procs /\ attempt'[p] = x
      /\ \A q \in Procs : q # p => attempt'[q] = attempt[q]
  BY DEF AttemptsBacked
<1>2. \A q \in Procs : Backed(attempt[q], rows', store')
  BY BackedStays DEF AttemptsBacked
<1>3. \A q \in Procs : Backed(attempt'[q], rows', store')
  BY <1>1, <1>2
<1> QED
  BY <1>1, <1>3 DEF AttemptsBacked

\* An attempt that stands where nothing is asked of it.
LEMMA RestingIsBacked ==
  ASSUME NEW x, NEW tb, NEW st, DOMAIN x = AttemptFields, DOMAIN x.out = Stages,
         x.pc \in {"acquire", "restore", "failing", "fail_run", "idle", "dead"},
         x.pc \notin {"idle", "dead"} => x.task \in Tasks
  PROVE  Backed(x, tb, st)
BY DEF Backed

\* The next call of an attempt.
LEMMA GoesTo ==
  ASSUME AttemptsBacked, NEW p \in Procs, NEW pc, Goto(p, pc)
  PROVE  \E x : /\ attempt' = [attempt EXCEPT ![p] = x]
                /\ DOMAIN x = AttemptFields /\ DOMAIN x.out = Stages
                /\ x.pc = pc /\ x.task = attempt[p].task /\ x.stage = attempt[p].stage
                /\ x.out = attempt[p].out
<1> DEFINE x == [attempt[p] EXCEPT !.pc = pc]
<1>1. attempt' = [attempt EXCEPT ![p] = x]
  BY DEF Goto, AttemptsBacked
<1>2. /\ DOMAIN x = AttemptFields /\ DOMAIN x.out = Stages
      /\ x.pc = pc /\ x.task = attempt[p].task /\ x.stage = attempt[p].stage
      /\ x.out = attempt[p].out
  BY DEF AttemptsBacked, Backed, AttemptFields
<1> QED
  BY <1>1, <1>2

LEMMA IdleIs == DOMAIN NoAttempt = AttemptFields /\ DOMAIN NoAttempt.out = Stages /\ NoAttempt.pc = "idle"
BY DEF NoAttempt, NoOutput, AttemptFields

\* What each update makes of a row.
LEMMA RowIs ==
  ASSUME NEW r, IsRow(r)
  PROVE  /\ \A w : /\ IsRow(Claimed(r, w, 0))
                   /\ Claimed(r, w, 0).status = "RUNNING"
         /\ IsRow(Renewed(r, 0)) /\ Renewed(r, 0).status = r.status
         /\ \A s : /\ IsRow(Checkpointed(r, s))
                   /\ Checkpointed(r, s).status = r.status
         /\ IsRow(Committed(r)) /\ Committed(r).status = "SUCCEEDED"
         /\ IsRow(Failed(r))
         /\ IsRow(Elapsed(r)) /\ Elapsed(r).status = r.status
<1>1. \A w : /\ IsRow(Claimed(r, w, 0))
             /\ Claimed(r, w, 0).status = "RUNNING"
  BY TimeAssumption DEF IsRow, RowFields, Claimed, Leased
<1>2. IsRow(Renewed(r, 0)) /\ Renewed(r, 0).status = r.status
  BY TimeAssumption DEF IsRow, RowFields, Renewed
<1>3. \A s : /\ IsRow(Checkpointed(r, s))
             /\ Checkpointed(r, s).status = r.status
  BY TimeAssumption DEF IsRow, RowFields, Checkpointed
<1>4. /\ IsRow(Committed(r)) /\ Committed(r).status = "SUCCEEDED"
      /\ IsRow(Failed(r))
  BY TimeAssumption DEF IsRow, RowFields, Committed, Failed, Released
<1>5. IsRow(Elapsed(r)) /\ Elapsed(r).status = r.status
  BY TimeAssumption DEF IsRow, RowFields, Elapsed, LongAgo
<1> QED
  BY <1>1, <1>2, <1>3, <1>4, <1>5

RowsKept ==
  /\ DOMAIN rows' = Tasks /\ \A t \in Tasks : IsRow(rows'[t])
  /\ \A t \in Tasks : rows[t].status = "SUCCEEDED" => rows'[t].status = "SUCCEEDED"

LEMMA RowWrite ==
  ASSUME TablesHold(rows, store), NEW t \in Tasks, NEW r, rows' = [rows EXCEPT ![t] = r],
         IsRow(r), rows[t].status = "SUCCEEDED" => r.status = "SUCCEEDED"
  PROVE  RowsKept
BY DEF TablesHold, RowsKept

LEMMA RowsStep ==
  ASSUME TablesHold(rows, store), WorkerNext
  PROVE  RowsKept
<1>0. ASSUME rows' = rows PROVE RowsKept
  BY <1>0 DEF TablesHold, RowsKept
<1>1. CASE WorkerTick
  <2>1. /\ DOMAIN rows' = Tasks
        /\ \A t \in Tasks : rows'[t] = Elapsed(rows[t])
    BY <1>1 DEF WorkerTick
  <2> QED
    BY <2>1, RowIs DEF TablesHold, RowsKept
<1>2. ASSUME NEW t \in Tasks, Submit(t) PROVE RowsKept
  <2> DEFINE r == Created("video_pipeline")
  <2>1. IsRow(r) /\ rows[t].status # "SUCCEEDED"
    BY <1>2 DEF Submit, Created, NoRow, IsRow, RowFields
  <2> HIDE DEF r
  <2> QED
    BY <1>2, <2>1, RowWrite DEF Submit, r
<1>3. ASSUME NEW p \in Procs, NEW t \in Tasks, ClaimTask(p, t) PROVE RowsKept
  <2> DEFINE r == Claimed(rows[t], WorkerOf[p], 0)
  <2>1. rows' = [rows EXCEPT ![t] = r]
    BY <1>3 DEF ClaimTask, TablesHold
  <2>2. IsRow(r) /\ rows[t].status # "SUCCEEDED"
    BY <1>3, RowIs DEF ClaimTask, OpenTask, Claimable, TablesHold
  <2> HIDE DEF r
  <2> QED
    BY <2>1, <2>2, RowWrite
<1>4. ASSUME NEW p \in Procs, NEW t \in Tasks, Progress(p, t) PROVE RowsKept
  <2> DEFINE r == Renewed(rows[t], 0)
  <2>1. rows' = [rows EXCEPT ![t] = r]
    BY <1>4 DEF Progress, TablesHold
  <2>2. IsRow(r) /\ r.status = rows[t].status
    BY RowIs DEF TablesHold
  <2> HIDE DEF r
  <2> QED
    BY <2>1, <2>2, RowWrite
<1>5. ASSUME NEW p \in Procs, NEW t \in Tasks, Record(p, t) PROVE RowsKept
  <2> DEFINE n == Renewed(rows[t], 0)
             r == Checkpointed(n, attempt[p].stage)
  <2>1. rows' = [rows EXCEPT ![t] = r]
    BY <1>5 DEF Record, TablesHold
  <2>2. IsRow(n) /\ n.status = rows[t].status
    BY RowIs DEF TablesHold
  <2> HIDE DEF n
  <2>3. IsRow(r) /\ r.status = rows[t].status
    BY <2>2, RowIs
  <2> HIDE DEF r
  <2> QED
    BY <2>1, <2>3, RowWrite
<1>6. ASSUME NEW p \in Procs, NEW t \in Tasks, Commit(p, t) PROVE RowsKept
  <2> DEFINE r == Committed(rows[t])
  <2>1. rows' = [rows EXCEPT ![t] = r]
    BY <1>6 DEF Commit, TablesHold
  <2>2. IsRow(r) /\ r.status = "SUCCEEDED"
    BY RowIs DEF TablesHold
  <2> HIDE DEF r
  <2> QED
    BY <2>1, <2>2, RowWrite
<1>7. ASSUME NEW p \in Procs, NEW t \in Tasks, FailTask(p, t) PROVE RowsKept
  <2> DEFINE r == Failed(rows[t])
  <2>1. rows' = [rows EXCEPT ![t] = r]
    BY <1>7 DEF FailTask, TablesHold
  <2>2. IsRow(r) /\ rows[t].status # "SUCCEEDED"
    BY <1>7, RowIs DEF TablesHold, FailTask, Owns, Fenced
  <2> HIDE DEF r
  <2> QED
    BY <2>1, <2>2, RowWrite
<1>8. ASSUME NEW p \in Procs, NEW t \in Tasks, Attempt(p, t),
             ~ ClaimTask(p, t), ~ Progress(p, t), ~ Record(p, t), ~ Commit(p, t),
             ~ FailTask(p, t)
      PROVE  RowsKept
  BY <1>0, <1>8 DEF Attempt, AcquireRun, AcquireRefused, Restore, RestoreFails,
     Execute, ExecuteDrifts, ExecuteFails, SucceedRun, FailRun, LoseLease
<1>9. ASSUME NEW p \in Procs, WorkerCrash(p) \/ Restart(p) PROVE RowsKept
  BY <1>0, <1>9 DEF WorkerCrash, Restart
<1>10. ASSUME NEW t \in Tasks, NEW a \in Interventions, Operator(t, a) PROVE RowsKept
  BY <1>0, <1>10 DEF Operator
<1> QED
  BY <1>1, <1>2, <1>3, <1>4, <1>5, <1>6, <1>7, <1>8, <1>9, <1>10 DEF WorkerNext

\* The store after a step: only Execute and ExecuteFails write it.
StoreKept ==
  /\ TablesHold(rows, store')
  /\ \A t \in Tasks : \A s \in Stages :
       store[t][s].receipt # 0 => store'[t][s].receipt = store[t][s].receipt
  /\ StagesInOrder'

\* A stage's entry is written; where it had a receipt, that stays.
LEMMA EntryWrite ==
  ASSUME WorkerInv, NEW t \in Tasks, NEW s \in Stages, NEW e,
         store' = [store EXCEPT ![t] = [store[t] EXCEPT ![s] = e]],
         DOMAIN e = {"checkpoint", "receipt"},
         e.checkpoint = "SUCCEEDED" => e.receipt # 0,
         store[t][s].receipt # 0 => e.receipt = store[t][s].receipt,
         \A r \in Stages : r < s => store[t][r].receipt # 0
  PROVE  StoreKept
<1>1. /\ DOMAIN store' = Tasks /\ DOMAIN store'[t] = Stages /\ store'[t][s] = e
      /\ \A u \in Tasks : u # t => store'[u] = store[u]
      /\ \A r \in Stages : r # s => store'[t][r] = store[t][r]
  BY DEF WorkerInv, TablesHold
<1>2. TablesHold(rows, store')
  BY <1>1 DEF WorkerInv, TablesHold
<1>3. \A u \in Tasks : \A r \in Stages :
        store[u][r].receipt # 0 => store'[u][r].receipt = store[u][r].receipt
  BY <1>1
<1>4. StagesInOrder'
  <2> SUFFICES ASSUME NEW u \in Tasks, NEW k \in Stages, store'[u][k].checkpoint # "NONE",
                      NEW r \in 1 .. k - 1
               PROVE  store'[u][r].receipt # 0
    BY DEF StagesInOrder
  <2>1. r \in Stages /\ r < k
    BY StagesAssumption
  <2>2. store[u][r].receipt # 0
    BY <1>1, <2>1 DEF WorkerInv, StagesInOrder
  <2> QED
    BY <1>3, <2>1, <2>2
<1> QED
  BY <1>2, <1>3, <1>4 DEF StoreKept

\* What Execute leaves of a stage: its first payload for good.
LEMMA StoreStep ==
  ASSUME WorkerInv, WorkerNext
  PROVE  StoreKept
<1>0. ASSUME store' = store PROVE StoreKept
  BY <1>0 DEF WorkerInv, StoreKept, StagesInOrder
<1>1. ASSUME NEW p \in Procs, NEW t \in Tasks, attempt[p].pc = "execute", attempt[p].task = t
      PROVE  /\ attempt[p].stage \in Stages
             /\ \A r \in Stages : r < attempt[p].stage => store[t][r].receipt # 0
  <2>1. attempt[p].stage \in Stages /\ Reached(attempt[p], store, attempt[p].stage - 1)
    BY <1>1 DEF WorkerInv, AttemptsBacked, Backed
  <2>2. \A r \in Stages : r < attempt[p].stage => r <= attempt[p].stage - 1
    BY <2>1, StagesAssumption
  <2> QED
    BY <1>1, <2>1, <2>2 DEF Reached
<1>2. ASSUME NEW p \in Procs, NEW t \in Tasks, NEW payload, Execute(p, t, payload)
      PROVE  StoreKept
  <2> DEFINE s == attempt[p].stage
             e == IF store[t][s].receipt = 0
                  THEN [checkpoint |-> "SUCCEEDED", receipt |-> payload] ELSE store[t][s]
  <2>1. s \in Stages /\ \A r \in Stages : r < s => store[t][r].receipt # 0
    BY <1>1, <1>2 DEF Execute, At
  <2>2. store' = [store EXCEPT ![t] = [store[t] EXCEPT ![s] = e]]
    BY <1>2, <2>1 DEF Execute, WorkerInv, TablesHold
  <2>3. payload # 0
    BY <1>2 DEF Execute, Payloads
  <2>4. /\ DOMAIN e = {"checkpoint", "receipt"}
        /\ e.checkpoint = "SUCCEEDED" => e.receipt # 0
        /\ store[t][s].receipt # 0 => e.receipt = store[t][s].receipt
    BY <2>1, <2>3 DEF WorkerInv, TablesHold
  <2> HIDE DEF s, e
  <2> QED
    BY <2>1, <2>2, <2>4, EntryWrite
<1>3. ASSUME NEW p \in Procs, NEW t \in Tasks, ExecuteFails(p, t)
      PROVE  StoreKept
  <2> DEFINE s == attempt[p].stage
             e == [store[t][s] EXCEPT !.checkpoint = "FAILED"]
  <2>1. s \in Stages /\ \A r \in Stages : r < s => store[t][r].receipt # 0
    BY <1>1, <1>3 DEF ExecuteFails, At
  <2>2. store' = [store EXCEPT ![t] = [store[t] EXCEPT ![s] = e]]
    BY <1>3, <2>1 DEF ExecuteFails, WorkerInv, TablesHold
  <2>3. /\ DOMAIN e = {"checkpoint", "receipt"} /\ e.checkpoint = "FAILED"
        /\ e.receipt = store[t][s].receipt
    BY <2>1 DEF WorkerInv, TablesHold
  <2> HIDE DEF s, e
  <2> QED
    BY <2>1, <2>2, <2>3, EntryWrite
<1>4. ASSUME NEW p \in Procs, NEW t \in Tasks, Attempt(p, t), ~ ExecuteFails(p, t),
             ~ \E payload \in {1, 2} : Execute(p, t, payload)
      PROVE  StoreKept
  BY <1>0, <1>4 DEF Attempt, ClaimTask, AcquireRun, AcquireRefused, Restore,
     RestoreFails, Progress, ExecuteDrifts, Record, Commit, SucceedRun,
     FailTask, FailRun, LoseLease
<1>5. ASSUME NEW p \in Procs, WorkerCrash(p) \/ Restart(p) PROVE StoreKept
  BY <1>0, <1>5 DEF WorkerCrash, Restart
<1>6. ASSUME NEW t \in Tasks, Submit(t) \/ \E a \in Interventions : Operator(t, a)
      PROVE  StoreKept
  BY <1>0, <1>6 DEF Submit, Operator
<1>7. CASE WorkerTick
  BY <1>0, <1>7 DEF WorkerTick
<1> QED
  BY <1>2, <1>3, <1>4, <1>5, <1>6, <1>7 DEF WorkerNext

LEMMA LeastOfNaturals ==
  ASSUME NEW S, S \subseteq Nat, S # {}
  PROVE  \E m \in S : \A n \in S : m <= n
<1> DEFINE R == OpToRel(<, Nat)
<1>1. PICK m \in S : \A n \in S : <<n, m>> \notin R
  <2>1. IsWellFoundedOn(R, Nat)
    BY NatLessThanWellFounded
  <2> HIDE DEF R
  <2> QED
    BY <2>1, WFMin, Zenon
<1>2. ASSUME NEW n \in S PROVE m <= n
  <2>1. ~(n < m)
    BY <1>1 DEF OpToRel
  <2> QED
    BY <2>1
<1> QED
  BY <1>2

\* What Restore takes for durable: stages that succeeded, from the first on.  Of
\* the places where the prefix could end the earliest is one.
LEMMA DurableIs ==
  ASSUME NEW t \in Tasks
  PROVE  /\ Durable(t) \in 0 .. Last
         /\ \A s \in Stages : s <= Durable(t) => store[t][s].checkpoint = "SUCCEEDED"
<1> DEFINE good(s) == s \in Restorable /\ store[t][s].checkpoint = "SUCCEEDED"
           ends == {n \in Nat : n < Last => ~ good(n + 1)}
           Q(n) == /\ \A s \in 1 .. n : good(s)
                   /\ n < Last => ~ good(n + 1)
<1>1. Last \in ends /\ ends \subseteq Nat
  BY StagesAssumption
<1>2. PICK m \in ends : \A n \in ends : m <= n
  BY <1>1, LeastOfNaturals
<1>3. m \in 0 .. Last
  BY <1>1, <1>2, StagesAssumption
<1>4. ASSUME NEW s \in 1 .. m PROVE good(s)
  <2>1. s - 1 \in Nat /\ ~ (m <= s - 1) /\ (s - 1) + 1 = s
    BY <1>3
  <2>2. s - 1 \notin ends
    BY <1>2, <2>1
  <2> HIDE DEF good
  <2> QED
    BY <2>1, <2>2
<1>5. \E n \in 0 .. Last : Q(n)
  BY <1>2, <1>3, <1>4
<1>6. Durable(t) \in 0 .. Last /\ Q(Durable(t))
  BY <1>5 DEF Durable
<1>7. ASSUME NEW s \in Stages, s <= Durable(t) PROVE store[t][s].checkpoint = "SUCCEEDED"
  <2>1. s \in 1 .. Durable(t)
    BY <1>6, <1>7, StagesAssumption
  <2> QED
    BY <1>6, <2>1
<1> QED
  BY <1>6, <1>7

LEMMA AttemptsStep ==
  ASSUME WorkerInv, NothingTakenBack, WorkerNext
  PROVE  AttemptsBacked'
<1>0. ASSUME attempt' = attempt PROVE AttemptsBacked'
  BY <1>0, BackedStays DEF WorkerInv, AttemptsBacked
<1>1. ASSUME NEW p \in Procs,
             NEW pc \in {"acquire", "restore", "failing", "fail_run", "idle", "dead"},
             Goto(p, pc), pc = "dead" \/ attempt[p].task \in Tasks
      PROVE  AttemptsBacked'
  BY <1>1, GoesTo, RestingIsBacked, AttemptMoves DEF WorkerInv
<1>2. ASSUME NEW p \in Procs, attempt' = [attempt EXCEPT ![p] = NoAttempt]
      PROVE  AttemptsBacked'
  <2>1. Backed(NoAttempt, rows', store')
    BY IdleIs, RestingIsBacked
  <2> QED
    BY <1>2, <2>1, AttemptMoves DEF WorkerInv
<1>3. ASSUME NEW p \in Procs, NEW t \in Tasks, ClaimTask(p, t) PROVE AttemptsBacked'
  <2> DEFINE x == [NoAttempt EXCEPT !.pc = "acquire", !.task = t, !.token = rows'[t].token]
  <2>1. attempt' = [attempt EXCEPT ![p] = x]
    BY <1>3 DEF ClaimTask
  <2>2. DOMAIN x = AttemptFields /\ DOMAIN x.out = Stages /\ x.pc = "acquire" /\ x.task = t
    BY IdleIs DEF AttemptFields
  <2> HIDE DEF x
  <2> QED
    BY <2>1, <2>2, RestingIsBacked, AttemptMoves DEF WorkerInv
<1>4. ASSUME NEW p \in Procs, NEW t \in Tasks, AcquireRun(p, t) PROVE AttemptsBacked'
  <2> DEFINE x == [attempt[p] EXCEPT !.pc = "restore", !.run = runs'[t].token]
  <2>1. attempt' = [attempt EXCEPT ![p] = x]
    <3>1. attempt' = [attempt EXCEPT ![p].pc = "restore", ![p].run = runs'[t].token]
      BY <1>4 DEF AcquireRun
    <3>2. p \in DOMAIN attempt
      BY DEF WorkerInv, AttemptsBacked
    <3> QED
      BY <3>1, <3>2, Zenon
  <2>2. DOMAIN x = AttemptFields /\ DOMAIN x.out = Stages /\ x.pc = "restore" /\ x.task = t
    BY <1>4 DEF AcquireRun, At, AttemptFields, WorkerInv, AttemptsBacked, Backed
  <2> HIDE DEF x
  <2> QED
    BY <2>1, <2>2, RestingIsBacked, AttemptMoves DEF WorkerInv
<1>5. ASSUME NEW p \in Procs, NEW t \in Tasks, Restore(p, t) PROVE AttemptsBacked'
  <2> DEFINE n == Durable(t)
             out == [s \in Stages |-> IF s <= n THEN store[t][s].receipt ELSE 0]
             x == [attempt[p] EXCEPT !.pc = "progress", !.stage = n + 1, !.out = out]
  <2>1. attempt' = [attempt EXCEPT ![p] = x]
    BY <1>5 DEF Restore, WorkerInv, AttemptsBacked
  <2>2. /\ n \in 0 .. Last
        /\ \A s \in Stages : s <= n => store[t][s].checkpoint = "SUCCEEDED"
    BY DurableIs
  <2> HIDE DEF n
  <2>3. /\ DOMAIN x = AttemptFields /\ x.out = out /\ x.pc = "progress" /\ x.task = t
        /\ x.stage = n + 1
    BY <1>5 DEF Restore, At, AttemptFields, WorkerInv, AttemptsBacked, Backed
  <2>4. \A s \in Stages : s <= n => out[s] = store[t][s].receipt /\ out[s] # 0
    BY <2>2 DEF WorkerInv, TablesHold
  <2>5. DOMAIN out = Stages
    OBVIOUS
  <2> HIDE DEF x, out
  <2>6. n + 1 \in 1 .. Last + 1 /\ (n + 1) - 1 = n
    BY <2>2, StagesAssumption
  <2>7. Backed(x, rows, store)
    BY <2>3, <2>4, <2>5, <2>6 DEF Backed, Reached
  <2> QED
    BY <2>1, <2>7, BackedStays, AttemptMoves DEF WorkerInv
<1>6. ASSUME NEW p \in Procs, NEW t \in Tasks, Progress(p, t) PROVE AttemptsBacked'
  <2>1. /\ attempt[p].stage \in 1 .. Last + 1 /\ attempt[p].task \in Tasks
        /\ Reached(attempt[p], store, attempt[p].stage - 1)
    BY <1>6 DEF Progress, At, WorkerInv, AttemptsBacked, Backed
  <2>2. PICK x : /\ attempt' = [attempt EXCEPT ![p] = x]
                 /\ DOMAIN x = AttemptFields /\ DOMAIN x.out = Stages
                 /\ x.pc = (IF attempt[p].stage > Last THEN "commit" ELSE "execute")
                 /\ x.task = attempt[p].task /\ x.stage = attempt[p].stage
                 /\ x.out = attempt[p].out
    BY <1>6, GoesTo DEF Progress, WorkerInv
  <2>3. Reached(x, store, x.stage - 1)
    BY <2>1, <2>2 DEF Reached
  <2>4. CASE attempt[p].stage > Last
    <3>1. x.pc = "commit" /\ x.stage - 1 = Last
      BY <2>1, <2>2, <2>4, StagesAssumption
    <3>2. Backed(x, rows, store)
      BY <2>1, <2>2, <2>3, <3>1 DEF Backed
    <3> QED
      BY <2>2, <3>2, BackedStays, AttemptMoves DEF WorkerInv
  <2>5. CASE ~ (attempt[p].stage > Last)
    <3>1. x.pc = "execute" /\ x.stage \in Stages
      BY <2>1, <2>2, <2>5, StagesAssumption
    <3>2. Backed(x, rows, store)
      BY <2>1, <2>2, <2>3, <3>1 DEF Backed
    <3> QED
      BY <2>2, <3>2, BackedStays, AttemptMoves DEF WorkerInv
  <2> QED
    BY <2>4, <2>5
<1>7. ASSUME NEW p \in Procs, NEW t \in Tasks, NEW payload, Execute(p, t, payload)
      PROVE  AttemptsBacked'
  <2> DEFINE s == attempt[p].stage
             out == [attempt[p].out EXCEPT ![s] = payload]
             x == [attempt[p] EXCEPT !.pc = "record", !.out = out]
  <2>1. /\ s \in Stages /\ attempt[p].task = t /\ DOMAIN attempt[p].out = Stages
        /\ Reached(attempt[p], store, s - 1)
    BY <1>7 DEF Execute, At, WorkerInv, AttemptsBacked, Backed
  <2>2. attempt' = [attempt EXCEPT ![p] = x]
    BY <1>7 DEF Execute, WorkerInv, AttemptsBacked
  <2>3. /\ DOMAIN x = AttemptFields /\ x.out = out /\ x.pc = "record" /\ x.task = t
        /\ x.stage = s
    BY <2>1 DEF AttemptFields, WorkerInv, AttemptsBacked, Backed
  <2>4. payload # 0 /\ store'[t][s].receipt = payload
    BY <1>7, <2>1 DEF Execute, Payloads, Accepts, WorkerInv, TablesHold
  <2>5. DOMAIN out = Stages /\ out[s] = payload
        /\ \A r \in Stages : r # s => out[r] = attempt[p].out[r]
    BY <2>1
  <2>6. \A r \in Stages : r <= s => r = s \/ r <= s - 1
    BY <2>1, StagesAssumption
  <2> HIDE DEF x, out, s
  <2>7. Reached(x, store', s)
    <3> SUFFICES ASSUME NEW r \in Stages, r <= s
                 PROVE  out[r] # 0 /\ out[r] = store'[t][r].receipt
      BY <2>3 DEF Reached
    <3>1. CASE r = s
      BY <2>4, <2>5, <3>1
    <3>2. CASE r # s
      <4>1. attempt[p].out[r] # 0 /\ attempt[p].out[r] = store[t][r].receipt
        BY <2>1, <2>6, <3>2 DEF Reached
      <4> QED
        BY <2>5, <3>2, <4>1 DEF NothingTakenBack
    <3> QED
      BY <3>1, <3>2
  <2>8. Backed(x, rows', store')
    BY <2>1, <2>3, <2>5, <2>7 DEF Backed
  <2> QED
    BY <2>2, <2>8, AttemptMoves DEF WorkerInv
<1>8. ASSUME NEW p \in Procs, NEW t \in Tasks, Record(p, t) PROVE AttemptsBacked'
  <2> DEFINE x == [attempt[p] EXCEPT !.pc = "progress", !.stage = @ + 1]
  <2>1. /\ attempt[p].stage \in Stages /\ attempt[p].task = t
        /\ Reached(attempt[p], store, attempt[p].stage)
        /\ DOMAIN attempt[p].out = Stages
    BY <1>8 DEF Record, At, WorkerInv, AttemptsBacked, Backed
  <2>2. attempt' = [attempt EXCEPT ![p] = x]
    BY <1>8 DEF Record, WorkerInv, AttemptsBacked
  <2>3. /\ DOMAIN x = AttemptFields /\ x.out = attempt[p].out /\ x.pc = "progress"
        /\ x.task = t /\ x.stage = attempt[p].stage + 1
    BY <2>1 DEF AttemptFields, WorkerInv, AttemptsBacked, Backed
  <2> HIDE DEF x
  <2>4. x.stage \in 1 .. Last + 1 /\ x.stage - 1 = attempt[p].stage
    BY <2>1, <2>3, StagesAssumption
  <2>5. Backed(x, rows, store)
    BY <2>1, <2>3, <2>4 DEF Backed, Reached
  <2> QED
    BY <2>2, <2>5, BackedStays, AttemptMoves DEF WorkerInv
<1>9. ASSUME NEW p \in Procs, NEW t \in Tasks, Commit(p, t) PROVE AttemptsBacked'
  <2>1. rows'[t].status = "SUCCEEDED" /\ attempt[p].task = t
    BY <1>9, RowIs DEF Commit, At, WorkerInv, TablesHold
  <2>2. PICK x : /\ attempt' = [attempt EXCEPT ![p] = x]
                 /\ DOMAIN x = AttemptFields /\ DOMAIN x.out = Stages
                 /\ x.pc = "succeed_run" /\ x.task = attempt[p].task
    BY <1>9, GoesTo DEF Commit, WorkerInv
  <2>3. Backed(x, rows', store')
    BY <2>1, <2>2 DEF Backed
  <2> QED
    BY <2>2, <2>3, AttemptMoves DEF WorkerInv
<1>10. ASSUME NEW p \in Procs, NEW t \in Tasks,
              \/ AcquireRefused(p, t) \/ RestoreFails(p, t)
              \/ \E payload \in {1, 2} : ExecuteDrifts(p, t, payload)
              \/ ExecuteFails(p, t) \/ FailTask(p, t)
       PROVE  AttemptsBacked'
  BY <1>1, <1>10 DEF AcquireRefused, RestoreFails, ExecuteDrifts, ExecuteFails,
     FailTask, At
<1>11. ASSUME NEW p \in Procs, NEW t \in Tasks,
              SucceedRun(p, t) \/ FailRun(p, t) \/ LoseLease(p, t)
       PROVE  AttemptsBacked'
  BY <1>1, <1>2, <1>11 DEF SucceedRun, FailRun, LoseLease, At
<1>12. ASSUME NEW p \in Procs, WorkerCrash(p) \/ Restart(p) PROVE AttemptsBacked'
  BY <1>1, <1>2, <1>12 DEF WorkerCrash, Restart
<1>13. CASE WorkerTick \/ \E t \in Tasks : Submit(t) \/ \E a \in Interventions : Operator(t, a)
  BY <1>0, <1>13 DEF WorkerTick, Submit, Operator
<1> QED
  BY <1>3, <1>4, <1>5, <1>6, <1>7, <1>8, <1>9, <1>10, <1>11, <1>12, <1>13
  DEF WorkerNext, Attempt

\* A TaskRun succeeds only behind its task; operators make none succeed.
LEMMA RunsStep ==
  ASSUME WorkerInv, NothingTakenBack, WorkerNext
  PROVE  RunsHold' /\ RunSucceedsLast'
<1>0. ASSUME runs' = runs PROVE RunsHold' /\ RunSucceedsLast'
  BY <1>0 DEF WorkerInv, NothingTakenBack, RunsHold, RunSucceedsLast
<1>1. ASSUME NEW t \in Tasks, NEW r, runs' = [runs EXCEPT ![t] = r], DOMAIN r = RunFields,
             r.state = "SUCCEEDED" =>
               runs[t].state = "SUCCEEDED" \/ rows'[t].status = "SUCCEEDED"
      PROVE  RunsHold' /\ RunSucceedsLast'
  BY <1>1 DEF WorkerInv, NothingTakenBack, RunsHold, RunSucceedsLast
<1>2. ASSUME NEW p \in Procs, NEW t \in Tasks, AcquireRun(p, t)
      PROVE  RunsHold' /\ RunSucceedsLast'
  <2> DEFINE r == Run!Acquired(runs[t], WorkerOf[p], 0)
  <2>1. runs' = [runs EXCEPT ![t] = r]
    BY <1>2 DEF AcquireRun, WorkerInv, RunsHold
  <2>2. DOMAIN r = RunFields /\ r.state = "RUNNING"
    BY DEF Run!Acquired, RunFields
  <2> HIDE DEF r
  <2> QED
    BY <1>1, <2>1, <2>2
<1>3. ASSUME NEW p \in Procs, NEW t \in Tasks, SucceedRun(p, t)
      PROVE  RunsHold' /\ RunSucceedsLast'
  <2> DEFINE r == Run!Moved(runs[t], "SUCCEEDED")
  <2>1. runs' = [runs EXCEPT ![t] = r] \/ runs' = runs
    BY <1>3 DEF SucceedRun, WorkerInv, RunsHold
  <2>2. DOMAIN r = RunFields
    BY DEF Run!Moved, WorkerInv, RunsHold, RunFields
  <2>3. rows'[t].status = "SUCCEEDED"
    BY <1>3 DEF SucceedRun, At, WorkerInv, AttemptsBacked, Backed
  <2> HIDE DEF r
  <2> QED
    BY <1>0, <1>1, <2>1, <2>2, <2>3
<1>4. ASSUME NEW p \in Procs, NEW t \in Tasks, FailRun(p, t)
      PROVE  RunsHold' /\ RunSucceedsLast'
  <2> DEFINE r == IF Run!MayMove(runs[t], "FAILED", WorkerOf[p], attempt[p].run, 0)
                  THEN Run!Moved(runs[t], "FAILED") ELSE runs[t]
  <2>1. runs' = [runs EXCEPT ![t] = r]
    BY <1>4 DEF FailRun, WorkerInv, RunsHold
  <2>2. DOMAIN r = RunFields /\ (r.state = "SUCCEEDED" => runs[t].state = "SUCCEEDED")
    BY DEF Run!Moved, WorkerInv, RunsHold, RunFields
  <2> HIDE DEF r
  <2> QED
    BY <1>1, <2>1, <2>2
<1>5. ASSUME NEW t \in Tasks, NEW a \in Interventions, Operator(t, a)
      PROVE  RunsHold' /\ RunSucceedsLast'
  <2> DEFINE r == Run!Operated(runs[t], a)
  <2>1. runs' = [runs EXCEPT ![t] = r]
    BY <1>5 DEF Operator, WorkerInv, RunsHold
  <2>2. a \in {"pause", "resume", "retry", "invalidate", "rebuild"}
    BY InterventionsAssumption DEF Run!OperatorActions
  <2>3. DOMAIN r = RunFields /\ r.state # "SUCCEEDED"
    BY <2>2 DEF Run!Operated, WorkerInv, RunsHold, RunFields
  <2> HIDE DEF r
  <2> QED
    BY <1>1, <2>1, <2>3
<1>6. CASE WorkerTick
  <2>1. DOMAIN runs' = Tasks
        /\ \A t \in Tasks : DOMAIN runs'[t] = RunFields /\ runs'[t].state = runs[t].state
    BY <1>6 DEF WorkerTick, Run!Aged, WorkerInv, RunsHold, RunFields
  <2> QED
    BY <2>1 DEF WorkerInv, NothingTakenBack, RunsHold, RunSucceedsLast
<1>7. ASSUME NEW p \in Procs, NEW t \in Tasks, Attempt(p, t),
             ~ AcquireRun(p, t), ~ SucceedRun(p, t), ~ FailRun(p, t)
      PROVE  RunsHold' /\ RunSucceedsLast'
  BY <1>0, <1>7 DEF Attempt, ClaimTask, AcquireRefused, Restore, RestoreFails,
     Progress, Execute, ExecuteDrifts, ExecuteFails, Record, Commit, FailTask,
     LoseLease
<1>8. ASSUME NEW p \in Procs, WorkerCrash(p) \/ Restart(p)
      PROVE  RunsHold' /\ RunSucceedsLast'
  BY <1>0, <1>8 DEF WorkerCrash, Restart
<1>9. ASSUME NEW t \in Tasks, Submit(t)
      PROVE  RunsHold' /\ RunSucceedsLast'
  BY <1>0, <1>9 DEF Submit
<1> QED
  BY <1>2, <1>3, <1>4, <1>5, <1>6, <1>7, <1>8, <1>9 DEF WorkerNext

LEMMA WorkerInvInitially ==
  ASSUME WorkerInit
  PROVE  WorkerInv
<1>1. TablesHold(rows, store)
  BY DEF WorkerInit, NoRow, TablesHold, IsRow, RowFields
<1>2. AttemptsBacked
  BY IdleIs, RestingIsBacked DEF WorkerInit, AttemptsBacked
<1>3. RunsHold /\ RunSucceedsLast
  BY DEF WorkerInit, Run!NoRun, RunsHold, RunFields, RunSucceedsLast
<1>4. StagesInOrder
  BY DEF WorkerInit, StagesInOrder
<1> QED
  BY <1>1, <1>2, <1>3, <1>4 DEF WorkerInv

LEMMA WorkerInvStep ==
  ASSUME WorkerInv, [WorkerNext]_workerVars
  PROVE  WorkerInv'
<1>1. CASE UNCHANGED workerVars
  BY <1>1 DEF workerVars, WorkerInv, AttemptsBacked, RunsHold, StagesInOrder, RunSucceedsLast
<1>2. CASE WorkerNext
  <2>1. RowsKept /\ StoreKept
    BY <1>2, RowsStep, StoreStep DEF WorkerInv
  <2>2. NothingTakenBack
    BY <2>1 DEF RowsKept, StoreKept, NothingTakenBack
  <2>3. TablesHold(rows', store') /\ StagesInOrder'
    BY <2>1 DEF RowsKept, StoreKept, TablesHold
  <2> QED
    BY <1>2, <2>2, <2>3, AttemptsStep, RunsStep DEF WorkerInv
<1> QED
  BY <1>1, <1>2

THEOREM WorkerInvariant == WorkerSpec => []WorkerInv
<1>1. WorkerInit => WorkerInv
  BY WorkerInvInitially
<1>2. WorkerInv /\ [WorkerNext]_workerVars => WorkerInv'
  BY WorkerInvStep
<1> QED
  BY <1>1, <1>2, PTL DEF WorkerSpec

\* OutcomesAreBacked: a resume may read the checkpoints as a prefix, what is
\* acknowledged is what the receipts pin, and the operators' view never runs ahead
\* of the queue (stage_runner.execute, put_with_fenced_checkpoint,
\* _restore_resume_context, process_next, operator_action).
THEOREM OutcomesHaveReceipts == WorkerSpec => []OutcomesAreBacked
<1>1. WorkerInv => OutcomesAreBacked
  <2> SUFFICES ASSUME WorkerInv PROVE PublishedMatchesReceipts
    BY DEF WorkerInv, OutcomesAreBacked
  <2>1. \A s \in Stages : s <= Last
    BY StagesAssumption
  <2> QED
    BY <2>1 DEF WorkerInv, AttemptsBacked, Backed, Reached, PublishedMatchesReceipts
<1> QED
  BY <1>1, WorkerInvariant, PTL

-----------------------------------------------------------------------------
\* What attempts and rows say of their claims: no attempt is ahead of its row, and
\* no two attempts at a task work under one claim.
ClaimsHold ==
  /\ \A t \in Tasks : rows[t].token \in Nat
  /\ \A p \in Procs : attempt[p].token \in Nat
  /\ \A p \in Procs : attempt[p].task \in Tasks => attempt[p].token <= rows[attempt[p].task].token
  /\ \A p, q \in Procs :
       p # q /\ attempt[p].task = attempt[q].task /\ attempt[p].task \in Tasks
         => attempt[p].token # attempt[q].token

\* The token of a row is advanced by a claim and by nothing else.
LEMMA RowTokens ==
  ASSUME TablesHold(rows, store), WorkerNext, \A p \in Procs, t \in Tasks : ~ ClaimTask(p, t)
  PROVE  \A t \in Tasks : rows'[t].token = rows[t].token
<1>1. ASSUME NEW r, IsRow(r)
      PROVE  /\ Renewed(r, 0).token = r.token /\ Committed(r).token = r.token
             /\ \A s : Checkpointed(Renewed(r, 0), s).token = r.token
             /\ Failed(r).token = r.token /\ Elapsed(r).token = r.token
  BY <1>1 DEF IsRow, RowFields, Renewed, Committed, Checkpointed, Failed, Elapsed, Released
<1>2. \A t \in Tasks : IsRow(rows[t])
  BY DEF TablesHold
<1>3. CASE WorkerTick
  BY <1>1, <1>2, <1>3 DEF WorkerTick
<1>4. ASSUME NEW u \in Tasks, Submit(u) PROVE \A t \in Tasks : rows'[t].token = rows[t].token
  BY <1>4 DEF Submit, Created, NoRow, TablesHold
<1>5. ASSUME NEW u \in Tasks, NEW r, rows' = [rows EXCEPT ![u] = r], r.token = rows[u].token
      PROVE  \A t \in Tasks : rows'[t].token = rows[t].token
  BY <1>5 DEF TablesHold
<1>6. ASSUME NEW p \in Procs, NEW u \in Tasks, Attempt(p, u)
      PROVE  \A t \in Tasks : rows'[t].token = rows[t].token
  <2>1. CASE Progress(p, u)
    BY <1>1, <1>2, <1>5, <2>1 DEF Progress
  <2>2. CASE Record(p, u)
    BY <1>1, <1>2, <1>5, <2>2 DEF Record
  <2>3. CASE Commit(p, u)
    BY <1>1, <1>2, <1>5, <2>3 DEF Commit
  <2>4. CASE FailTask(p, u)
    BY <1>1, <1>2, <1>5, <2>4 DEF FailTask
  <2>5. CASE rows' = rows
    BY <2>5
  <2> QED
    BY <1>6, <2>1, <2>2, <2>3, <2>4, <2>5 DEF Attempt, AcquireRun, AcquireRefused, Restore,
       RestoreFails, Execute, ExecuteDrifts, ExecuteFails, SucceedRun, FailRun, LoseLease
<1>7. ASSUME rows' = rows PROVE \A t \in Tasks : rows'[t].token = rows[t].token
  BY <1>7
<1> QED
  BY <1>3, <1>4, <1>6, <1>7 DEF WorkerNext, WorkerCrash, Restart, Operator

\* An attempt keeps its claim until it ends.
LEMMA AttemptTokens ==
  ASSUME AttemptsBacked, WorkerNext, \A p \in Procs, t \in Tasks : ~ ClaimTask(p, t), NEW q \in Procs
  PROVE  \/ attempt'[q].task = attempt[q].task /\ attempt'[q].token = attempt[q].token
         \/ attempt'[q].task = NoTask /\ attempt'[q].token = 0
<1> DEFINE Same == attempt'[q].task = attempt[q].task /\ attempt'[q].token = attempt[q].token
           Gone == attempt'[q].task = NoTask /\ attempt'[q].token = 0
<1>1. ASSUME NEW p \in Procs, NEW x, attempt' = [attempt EXCEPT ![p] = x],
             \/ x.task = attempt[p].task /\ x.token = attempt[p].token
             \/ x = NoAttempt
      PROVE  Same \/ Gone
  BY <1>1 DEF AttemptsBacked, NoAttempt
<1>2. ASSUME NEW p \in Procs, NEW pc, Goto(p, pc) PROVE Same \/ Gone
  BY <1>2 DEF Goto, AttemptsBacked, Backed, AttemptFields
<1>3. DOMAIN attempt = Procs /\ \A p \in Procs : DOMAIN attempt[p] = AttemptFields
  BY DEF AttemptsBacked, Backed
<1>4. ASSUME NEW p \in Procs, NEW t \in Tasks, Attempt(p, t) PROVE Same \/ Gone
  <2>1. CASE AcquireRun(p, t)
    BY <1>3, <2>1 DEF AcquireRun, AttemptFields
  <2>2. CASE Restore(p, t)
    BY <1>3, <2>2 DEF Restore, AttemptFields
  <2>3. CASE \E payload \in {1, 2} : Execute(p, t, payload)
    BY <1>3, <2>3 DEF Execute, AttemptFields
  <2>4. CASE Record(p, t)
    BY <1>3, <2>4 DEF Record, AttemptFields
  <2>5. CASE SucceedRun(p, t)
    BY <1>1, <1>2, <2>5 DEF SucceedRun
  <2>6. CASE FailRun(p, t) \/ LoseLease(p, t)
    BY <1>1, <2>6 DEF FailRun, LoseLease
  <2>7. CASE \E pc : Goto(p, pc)
    BY <1>2, <2>7
  <2> QED
    BY <1>4, <2>1, <2>2, <2>3, <2>4, <2>5, <2>6, <2>7 DEF Attempt, AcquireRefused,
       RestoreFails, Progress, ExecuteDrifts, ExecuteFails, Commit, FailTask
<1>5. ASSUME NEW p \in Procs, WorkerCrash(p) \/ Restart(p) PROVE Same \/ Gone
  BY <1>1, <1>2, <1>5 DEF WorkerCrash, Restart
<1>6. ASSUME attempt' = attempt PROVE Same \/ Gone
  BY <1>6
<1> QED
  BY <1>4, <1>5, <1>6 DEF WorkerNext, WorkerTick, Submit, Operator

\* A claim makes a token later than all that attempts at its task hold.
LEMMA ClaimsHoldStep ==
  ASSUME WorkerInv, ClaimsHold, [WorkerNext]_workerVars
  PROVE  ClaimsHold'
<1>1. CASE UNCHANGED workerVars
  BY <1>1 DEF workerVars, ClaimsHold
<1>2. CASE WorkerNext /\ \A p \in Procs, t \in Tasks : ~ ClaimTask(p, t)
  <2>1. \A t \in Tasks : rows'[t].token = rows[t].token
    BY <1>2, RowTokens DEF WorkerInv
  <2>2. \A q \in Procs :
           \/ attempt'[q].task = attempt[q].task /\ attempt'[q].token = attempt[q].token
           \/ attempt'[q].task \notin Tasks /\ attempt'[q].token = 0
    BY <1>2, AttemptTokens, TasksAssumption DEF WorkerInv
  <2> QED
    BY <2>1, <2>2 DEF ClaimsHold
<1>3. ASSUME NEW p \in Procs, NEW t \in Tasks, ClaimTask(p, t)
      PROVE  ClaimsHold'
  <2>1. rows' = [rows EXCEPT ![t] = Claimed(rows[t], WorkerOf[p], 0)]
    BY <1>3 DEF ClaimTask, WorkerInv, TablesHold
  <2>2. Claimed(rows[t], WorkerOf[p], 0).token = rows[t].token + 1
    BY DEF Claimed, Leased, WorkerInv, TablesHold, IsRow, RowFields
  <2>3. /\ rows'[t].token = rows[t].token + 1
        /\ \A u \in Tasks \ {t} : rows'[u] = rows[u]
    BY <2>1, <2>2 DEF WorkerInv, TablesHold
  <2>4. /\ attempt'[p].task = t /\ attempt'[p].token = rows[t].token + 1
        /\ \A q \in Procs \ {p} : attempt'[q] = attempt[q]
    BY <1>3, <2>3 DEF ClaimTask, NoAttempt, WorkerInv, AttemptsBacked
  <2>5. /\ \A u \in Tasks : rows'[u].token \in Nat /\ rows[u].token <= rows'[u].token
        /\ \A q \in Procs : attempt'[q].token \in Nat
    BY <2>3, <2>4 DEF ClaimsHold
  <2>6. \A q \in Procs \ {p} : attempt[q].task = t => attempt[q].token < attempt'[p].token
    BY <2>4 DEF ClaimsHold
  <2>7. ASSUME NEW q \in Procs, attempt'[q].task \in Tasks
        PROVE  attempt'[q].token <= rows'[attempt'[q].task].token
    <3>1. CASE q = p
      BY <2>3, <2>4, <2>5, <3>1
    <3>2. CASE q # p
      BY <2>4, <2>5, <2>7, <3>2 DEF ClaimsHold
    <3> QED
      BY <3>1, <3>2
  <2>8. ASSUME NEW q \in Procs, NEW o \in Procs, q # o, attempt'[q].task = attempt'[o].task,
               attempt'[q].task \in Tasks
        PROVE  attempt'[q].token # attempt'[o].token
    <3>1. CASE q = p \/ o = p
      BY <2>4, <2>5, <2>6, <2>8, <3>1 DEF ClaimsHold
    <3>2. CASE q # p /\ o # p
      BY <2>4, <2>8, <3>2 DEF ClaimsHold
    <3> QED
      BY <3>1, <3>2
  <2> QED
    BY <2>5, <2>7, <2>8 DEF ClaimsHold
<1> QED
  BY <1>1, <1>2, <1>3

\* Claims stay apart whatever worker ids the processes share.
LEMMA ClaimsStayApart == WorkerSpec => [](WorkerInv /\ ClaimsHold)
<1>1. WorkerInit => WorkerInv /\ ClaimsHold
  BY WorkerInvInitially, TasksAssumption DEF WorkerInit, ClaimsHold, NoRow, NoAttempt
<1>2. WorkerInv /\ ClaimsHold /\ [WorkerNext]_workerVars => (WorkerInv /\ ClaimsHold)'
  BY WorkerInvStep, ClaimsHoldStep
<1> QED
  BY <1>1, <1>2, PTL DEF WorkerSpec

\* A superseded attempt leaves no recovery point and no outcome: whoever does is
\* ahead of everybody else at work on the task (put_with_fenced_checkpoint,
\* commit_effect, fail).
THEOREM RecordsAreOfTheClaim == WorkerSpec => OnlyCurrentClaimRecords
<1> DEFINE Traced(t) == \/ store'[t] # store[t]
                        \/ rows[t].status = "RUNNING" /\ rows'[t].status # "RUNNING"
           Ahead(p, t) == /\ attempt[p].task = t /\ attempt'[p] # attempt[p]
                          /\ \A q \in Procs \ {p} :
                               attempt[q].task = t => attempt[q].token < attempt[p].token
<1>1. ASSUME WorkerInv, ClaimsHold, [WorkerNext]_workerVars, NEW t \in Tasks, Traced(t)
      PROVE  \E p \in Procs : Ahead(p, t)
  <2>1. ~ UNCHANGED workerVars
    BY <1>1 DEF workerVars
  <2>2. \A u \in Tasks : IsRow(rows[u])
    BY <1>1 DEF WorkerInv, TablesHold
  <2>3. ~ WorkerTick
    BY <1>1, <2>2, RowIs DEF WorkerTick
  <2>4. \A u \in Tasks : ~ Submit(u) /\ \A a \in Interventions : ~ Operator(u, a)
    BY <1>1 DEF Submit, Operator, NoRow, WorkerInv, TablesHold
  <2>5. PICK p \in Procs, u \in Tasks : Attempt(p, u)
    BY <1>1, <2>1, <2>3, <2>4 DEF WorkerNext, WorkerCrash, Restart
  <2>6. \/ ExecuteFails(p, u) \/ Commit(p, u) \/ FailTask(p, u)
        \/ \E payload \in {1, 2} : Execute(p, u, payload)
    <3>1. ~ ClaimTask(p, u)
      <4>1. SUFFICES ASSUME ClaimTask(p, u) PROVE FALSE
        OBVIOUS
      <4>2. rows' = [rows EXCEPT ![u] = Claimed(rows[u], WorkerOf[p], 0)] /\ store' = store
        BY <4>1 DEF ClaimTask, WorkerInv, TablesHold
      <4>3. Claimed(rows[u], WorkerOf[p], 0).status = "RUNNING"
        BY <2>2 DEF Claimed, Leased, IsRow, RowFields
      <4> HIDE DEF Traced
      <4>4. \A r : rows' = [rows EXCEPT ![u] = r] /\ r.status = "RUNNING" /\ store' = store => ~ Traced(t)
        BY <1>1 DEF Traced, WorkerInv, TablesHold
      <4> QED
        BY <1>1, <4>2, <4>3, <4>4
    <3>2. ~ Progress(p, u)
      <4>1. SUFFICES ASSUME Progress(p, u) PROVE FALSE
        OBVIOUS
      <4>2. rows' = [rows EXCEPT ![u] = Renewed(rows[u], 0)] /\ store' = store
        BY <4>1 DEF Progress
      <4> QED
        BY <1>1, <2>2, <4>2, RowIs DEF WorkerInv, TablesHold
    <3>3. ~ Record(p, u)
      <4>1. SUFFICES ASSUME Record(p, u) PROVE FALSE
        OBVIOUS
      <4>2. /\ rows' = [rows EXCEPT ![u] = Checkpointed(Renewed(rows[u], 0), attempt[p].stage)]
            /\ store' = store
        BY <4>1 DEF Record
      <4>3. Checkpointed(Renewed(rows[u], 0), attempt[p].stage).status = rows[u].status
        <5>1. IsRow(Renewed(rows[u], 0)) /\ Renewed(rows[u], 0).status = rows[u].status
          BY <2>2, RowIs
        <5> QED
          BY <5>1, RowIs
      <4>4. \A r : rows' = [rows EXCEPT ![u] = r] /\ r.status = rows[u].status /\ store' = store
                     => ~ Traced(t)
        BY <1>1 DEF Traced, WorkerInv, TablesHold
      <4> HIDE DEF Traced
      <4> QED
        BY <1>1, <4>2, <4>3, <4>4
    <3> QED
      BY <1>1, <2>5, <3>1, <3>2, <3>3 DEF Attempt, AcquireRun, AcquireRefused, Restore,
         RestoreFails, ExecuteDrifts, SucceedRun, FailRun, LoseLease
  <2>7. u = t
    BY <1>1, <2>6 DEF ExecuteFails, Execute, Commit, FailTask, WorkerInv, TablesHold
  <2>8. attempt[p].task = t /\ Owns(p, t) /\ attempt[p].pc \in {"execute", "commit", "failing"}
    BY <2>6, <2>7 DEF ExecuteFails, Execute, Commit, FailTask, At
  <2>9. attempt'[p].pc \in {"record", "succeed_run", "fail_run"} \/
        (attempt[p].pc = "execute" /\ attempt'[p].pc = "failing")
    <3>1. DOMAIN attempt = Procs /\ DOMAIN attempt[p] = AttemptFields
      BY <1>1 DEF WorkerInv, AttemptsBacked, Backed
    <3>2. \A pc : Goto(p, pc) => attempt'[p].pc = pc
      BY <3>1 DEF Goto, AttemptFields
    <3>3. ASSUME NEW payload \in {1, 2}, Execute(p, u, payload) PROVE attempt'[p].pc = "record"
      BY <3>1, <3>3 DEF Execute, AttemptFields
    <3> QED
      BY <2>6, <3>2, <3>3 DEF ExecuteFails, Commit, FailTask, At
  <2>10. \A q \in Procs \ {p} : attempt[q].task = t => attempt[q].token < attempt[p].token
    <3>1. attempt[p].token = rows[t].token
      BY <2>8 DEF Owns, Fenced
    <3> QED
      BY <1>1, <2>8, <3>1 DEF ClaimsHold
  <2> QED
    BY <2>8, <2>9, <2>10
<1>2. WorkerInv /\ ClaimsHold /\ [WorkerNext]_workerVars =>
        [\A t \in Tasks :
           store'[t] # store[t] \/ (rows[t].status = "RUNNING" /\ rows'[t].status # "RUNNING") =>
             \E p \in Procs :
               /\ attempt[p].task = t /\ attempt'[p] # attempt[p]
               /\ \A q \in Procs \ {p} :
                    attempt[q].task = t => attempt[q].token < attempt[p].token]_workerVars
  BY <1>1
<1> QED
  BY <1>2, ClaimsStayApart, PTL DEF WorkerSpec, OnlyCurrentClaimRecords

-----------------------------------------------------------------------------
(***************************************************************************)
(* The requests that make rows of the same table: TaskRequests, for every   *)
(* set of askers, posts and demands.                                       *)
(***************************************************************************)

RequestsMade == Posts \cup Demands

\* What asker holds of a place in its request a, a row w and a replay's end m.
BeforeRow == {"idle", "look", "insert", "lost"}
AtReplay == {"replay", "compare", "raised"}
SameEnd(a, m) == m = "same" \/ a.mode = "MIGRATION"

\* A replay's row tells what became of it.
TellsEnd(w, a, m, n) ==
  /\ w.result # "nothing" <=> w.status = "SUCCEEDED"
  /\ w.status = "SUCCEEDED" => w.result = m /\ SameEnd(a, m)
  /\ w.status = "FAILED" /\ m # "nothing" => ~SameEnd(a, m) \/ n > 0

\* What a row and an answer are where the asker of a stands, n mishaps having been.
RowStands(a, place, w, m, n) ==
  /\ place \in BeforeRow => w = None
  /\ place \in BeforeRow \cup {"replay"} => m = "nothing"
  /\ place \in {"replay", "compare"} => w = Ended(a, "RUNNING", "nothing")
  /\ place = "compare" => m # "nothing"
  /\ place = "raised" =>
       \/ w = Ended(a, "RUNNING", "nothing") /\ (m = "nothing" \/ n > 0)
       \/ w = Ended(a, "SUCCEEDED", m) /\ m # "nothing" /\ SameEnd(a, m)
  /\ w # None => w \in TaskRows(a) /\ (~IsPost(a) => TellsEnd(w, a, m, n))

PlaceStands(a, place) ==
  /\ place # "idle" => a \in RequestsMade
  /\ place \in {"look", "lost"} => RowFor(a).key # None
  /\ place \in AtReplay => ~IsPost(a)

AskerStands(q) ==
  /\ PlaceStands(asked[q], at[q])
  /\ RowStands(asked[q], at[q], row[q], made[q], mishaps)
  /\ at[q] # "answered" => answer[q] = NoAnswer

AllRows == {None} \cup UNION {TaskRows(a) : a \in RequestsMade}

RequestShapes ==
  /\ asked \in [Askers -> RequestsMade \cup {None}]
  /\ at \in [Askers -> BeforeRow \cup AtReplay \cup {"answered", "dead"}]
  /\ row \in [Askers -> AllRows]
  /\ answer \in [Askers -> [says : Ends \cup {"NOTHING", "REFUSED", "CONFLICT", "TASK", "RUNNING",
                                             "FAILED", "NONDETERMINISTIC", "STALE"},
                            of : Askers \cup {None}]]
  /\ made \in [Askers -> Ends] /\ mishaps \in Nat /\ sealed \in BOOLEAN

KeysAreUnique ==
  \A r, t \in Askers :
    r # t /\ row[r] # None /\ row[t] # None /\ row[r].key # None => row[r].key # row[t].key

\* What r was told is so.
ToldTruth(r) ==
  LET t == answer[r].of IN
  /\ t # None /\ t # r => /\ row[t] # None /\ row[t].key = NewRow(r).key
                          /\ answer[r].says = "CONFLICT" <=> Asks(r) # Asks(t)
  /\ answer[r].says \in {"same", "others"} =>
       /\ t \in Askers /\ row[t] # None
       /\ row[t].status = "SUCCEEDED" /\ made[t] = answer[r].says

RequestInv ==
  /\ RequestShapes
  /\ \A q \in Askers : AskerStands(q) /\ ToldTruth(q)
  /\ KeysAreUnique

-----------------------------------------------------------------------------
\* The fields of a row, and that it is one.
LEMMA EndIs ==
  ASSUME NEW a \in RequestsMade, NEW status \in {"PENDING", "RUNNING", "SUCCEEDED", "FAILED"},
         NEW result \in Ends
  PROVE  /\ Ended(a, status, result) \in TaskRows(a) /\ Ended(a, status, result) # None
         /\ Ended(a, status, result).status = status /\ Ended(a, status, result).result = result
         /\ Ended(a, status, result).key = RowFor(a).key
         /\ Ended(a, status, result).hash = RowFor(a).hash
         /\ Ended(a, status, result).kind = RowFor(a).kind
<1> DEFINE w == Ended(a, status, result)
<1>1. w \in TaskRows(a)
  BY DEF TaskRows
<1>2. w # None
  BY <1>1, RequestsAssumption DEF RequestsMade
<1>3. DOMAIN RowFor(a) = {"kind", "key", "hash", "status", "type", "ref", "result"}
  BY DEF RowFor, ContentRow, ReplayRow
<1>4. /\ w.status = status /\ w.result = result
      /\ w.key = RowFor(a).key /\ w.hash = RowFor(a).hash /\ w.kind = RowFor(a).kind
  BY <1>3 DEF Ended
<1> QED
  BY <1>1, <1>2, <1>4

\* A row whose status and result are written is one that ends so.
Written(w, status, result) == [[w EXCEPT !.status = status] EXCEPT !.result = result]

LEMMA EndAgain ==
  ASSUME NEW a \in RequestsMade, NEW w \in TaskRows(a), NEW status, NEW result
  PROVE  Written(w, status, result) = Ended(a, status, result)
<1>1. PICK s \in {"PENDING", "RUNNING", "SUCCEEDED", "FAILED"}, e \in Ends : w = Ended(a, s, e)
  BY DEF TaskRows
<1>2. DOMAIN RowFor(a) = {"kind", "key", "hash", "status", "type", "ref", "result"}
  BY DEF RowFor, ContentRow, ReplayRow
<1> QED
  BY <1>1, <1>2 DEF Ended, Written

LEMMA RowIsAsMade ==
  ASSUME NEW a \in RequestsMade, NEW w \in TaskRows(a)
  PROVE  /\ w # None
         /\ w.key = RowFor(a).key /\ w.hash = RowFor(a).hash /\ w.kind = RowFor(a).kind
         /\ w.result \in Ends /\ w.status \in {"PENDING", "RUNNING", "SUCCEEDED", "FAILED"}
<1>1. PICK s \in {"PENDING", "RUNNING", "SUCCEEDED", "FAILED"}, e \in Ends : w = Ended(a, s, e)
  BY DEF TaskRows
<1> QED
  BY <1>1, EndIs

\* A new row as it is made.
LEMMA FirstEnd ==
  ASSUME NEW a \in RequestsMade
  PROVE  RowFor(a) = Ended(a, IF IsPost(a) THEN "PENDING" ELSE "RUNNING", "nothing")
<1> DEFINE r == RowFor(a)
<1>1. r = [kind |-> r.kind, key |-> r.key, hash |-> r.hash, status |-> r.status,
           type |-> r.type, ref |-> r.ref, result |-> r.result]
  BY DEF RowFor, ContentRow, ReplayRow
<1>2. r.status = (IF IsPost(a) THEN "PENDING" ELSE "RUNNING") /\ r.result = "nothing"
  BY DEF RowFor, ContentRow, ReplayRow
<1> HIDE DEF r
<1>3. r = [r EXCEPT !.status = r.status, !.result = r.result]
  BY <1>1
<1> QED
  BY <1>2, <1>3 DEF Ended, r

\* Two askers whose rows bear one key ask for one thing just when the hashes agree.
WantOf(a) == IF IsPost(a) THEN Command(a) ELSE Identity(a)

LEMMA HashTells ==
  ASSUME NEW a \in RequestsMade, NEW b \in RequestsMade, RowFor(a).key # None,
         RowFor(a).key = RowFor(b).key
  PROVE  /\ IsPost(a) <=> IsPost(b)
         /\ RowFor(a).hash = RowFor(b).hash <=> WantOf(a) = WantOf(b)
<1>1. ASSUME NEW c \in RequestsMade, RowFor(c).key # None
      PROVE  IF IsPost(c)
             THEN /\ RowFor(c).key \in {<<c.header>>, <<c.body>>}
                  /\ RowFor(c).hash = RequestHash(Command(c))
             ELSE RowFor(c).key = Identity(c) /\ RowFor(c).hash = Identity(c)
  BY <1>1 DEF RowFor, ContentRow, ReplayRow, PostKey
<1>2. \A c : Identity(c) = <<c.snapshot, c.pipeline, c.override>>
  BY DEF Identity
<1>3. IsPost(a) <=> IsPost(b)
  <2>1. \A x, u, v, w : <<x>> # <<u, v, w>>
    OBVIOUS
  <2> QED
    BY <1>1, <1>2, <2>1
<1>4. CASE ~IsPost(a)
  BY <1>1, <1>3, <1>4 DEF WantOf
<1>5. CASE IsPost(a)
  <2> DEFINE c == Command(a)
             d == Command(b)
  <2>1. RowFor(a).hash = <<c.type, c.ref, c.part, c.language>>
        /\ RowFor(b).hash = <<d.type, d.ref, d.part, d.language>>
    BY <1>1, <1>3, <1>5 DEF RequestHash
  <2>2. c = [type |-> c.type, ref |-> c.ref, part |-> c.part, language |-> c.language]
        /\ d = [type |-> d.type, ref |-> d.ref, part |-> d.part, language |-> d.language]
    BY DEF Command
  <2> HIDE DEF c, d
  <2>3. RowFor(a).hash = RowFor(b).hash <=> c = d
    BY <2>1, <2>2
  <2> QED
    BY <1>3, <1>5, <2>3 DEF WantOf, c, d
<1> QED
  BY <1>3, <1>4, <1>5

LEMMA AskerIs ==
  ASSUME RequestInv, NEW q \in Askers
  PROVE  /\ Asks(q) = WantOf(asked[q]) /\ NewRow(q) = RowFor(asked[q])
         /\ row[q] # None => at[q] \notin BeforeRow /\ asked[q] \in RequestsMade
                             /\ row[q] \in TaskRows(asked[q])
BY DEF Asks, WantOf, NewRow, RequestInv, AskerStands, RowStands, PlaceStands, BeforeRow

\* The step of one asker leaves the others alone.
OthersRest(r) ==
  \A q \in Askers \ {r} : /\ asked'[q] = asked[q] /\ at'[q] = at[q] /\ row'[q] = row[q]
                          /\ answer'[q] = answer[q] /\ made'[q] = made[q]

\* What r asks for stands once it has begun, and its row once it is there.
KeepsItsRow(r) ==
  /\ asked'[r] = asked[r] \/ at[r] = "idle"
  /\ row[r] # None =>
       /\ row'[r] # None /\ row'[r].key = row[r].key
       /\ row[r].status = "SUCCEEDED" => row'[r].status = "SUCCEEDED" /\ made'[r] = made[r]

\* A row it makes has a key that is no other's.
MakesItsOwn(r) ==
  row[r] = None /\ row'[r] # None /\ row'[r].key # None =>
    \A t \in Askers : row[t] # None => row[t].key # row'[r].key

LEMMA AskerMoves ==
  ASSUME RequestInv, NEW r \in Askers, RequestShapes', mishaps' >= mishaps,
         OthersRest(r), KeepsItsRow(r), MakesItsOwn(r), AskerStands(r)',
         answer'[r] = answer[r] \/ ToldTruth(r)'
  PROVE  RequestInv'
<1>1. \A q \in Askers \ {r} : AskerStands(q)'
  BY DEF RequestInv, RequestShapes, OthersRest, AskerStands, RowStands, TellsEnd
<1>2. \A t \in Askers : row[t] # None =>
        /\ asked'[t] = asked[t] /\ row'[t] # None /\ row'[t].key = row[t].key
        /\ row[t].status = "SUCCEEDED" => row'[t].status = "SUCCEEDED" /\ made'[t] = made[t]
  BY AskerIs DEF OthersRest, KeepsItsRow, BeforeRow
<1>3. \A q \in Askers : /\ Asks(q) = WantOf(asked[q]) /\ Asks(q)' = WantOf(asked'[q])
                        /\ NewRow(q) = RowFor(asked[q]) /\ NewRow(q)' = RowFor(asked'[q])
  BY DEF Asks, WantOf, NewRow
<1>4. ASSUME NEW q \in Askers, answer'[q] = answer[q] PROVE ToldTruth(q)'
  <2>1. CASE asked'[q] # asked[q]
    <3>1. answer[q] = NoAnswer
      BY <2>1 DEF OthersRest, KeepsItsRow, RequestInv, AskerStands
    <3> QED
      BY <1>4, <3>1 DEF ToldTruth, NoAnswer
  <2>2. CASE asked'[q] = asked[q]
    <3> DEFINE t == answer[q].of
    <3>1. t \in Askers \cup {None} /\ answer'[q].of = t
      BY <1>4 DEF RequestInv, RequestShapes
    <3>2. ToldTruth(q)
      BY DEF RequestInv
    <3> QED
      BY <1>2, <1>3, <1>4, <2>2, <3>1, <3>2 DEF ToldTruth
  <2> QED
    BY <2>1, <2>2
<1>5. \A q \in Askers : ToldTruth(q)'
  BY <1>4 DEF OthersRest
<1>6. KeysAreUnique'
  BY <1>2 DEF RequestInv, KeysAreUnique, OthersRest, MakesItsOwn
<1> QED
  BY <1>1, <1>5, <1>6 DEF RequestInv

\* An answer to r, and where it stands then.
LEMMA SayIs ==
  ASSUME RequestShapes, NEW r \in Askers, NEW what, NEW t, Say(r, what, t)
  PROVE  /\ answer'[r].says = what /\ answer'[r].of = t /\ at'[r] = "answered"
         /\ answer' = [answer EXCEPT ![r] = [says |-> what, of |-> t]]
         /\ at' = [at EXCEPT ![r] = "answered"]
BY DEF Say, GoTo, RequestShapes

LEMMA GoToIs ==
  ASSUME RequestShapes, NEW r \in Askers, NEW place, GoTo(r, place)
  PROVE  at'[r] = place /\ at' = [at EXCEPT ![r] = place]
BY DEF GoTo, RequestShapes

\* Asking.
LEMMA AskStep ==
  ASSUME RequestInv, NEW r \in Askers, Post(r) \/ Demand(r)
  PROVE  RequestInv'
<1>1. at[r] = "idle" /\ row' = row /\ made' = made /\ mishaps' = mishaps /\ sealed' = sealed
  BY DEF Post, Demand
<1>2. row[r] = None /\ made[r] = "nothing" /\ answer[r] = NoAnswer
  BY <1>1 DEF RequestInv, AskerStands, RowStands, BeforeRow
<1>3. PICK a \in RequestsMade, place \in {"look", "insert", "answered"} :
        /\ asked' = [asked EXCEPT ![r] = a]
        /\ at' = [at EXCEPT ![r] = place]
        /\ place = "look" => RowFor(a).key # None
        /\ IF place = "answered"
           THEN answer' = [answer EXCEPT ![r] = [says |-> "REFUSED", of |-> None]]
           ELSE answer' = answer
  <2>1. CASE Post(r)
    <3>1. PICK p \in Posts :
            /\ asked' = [asked EXCEPT ![r] = p]
            /\ IF Normalizes(p)
               THEN GoTo(r, IF PostKey(p) = None THEN "insert" ELSE "look") /\ UNCHANGED answer
               ELSE Say(r, "REFUSED", None)
      BY <2>1 DEF Post
    <3>2. PostKey(p) # None => RowFor(p).key # None
      BY RequestsAssumption DEF RowFor, ContentRow
    <3>3. p \in RequestsMade /\ RequestShapes
      BY DEF RequestInv, RequestsMade
    <3>4. CASE Normalizes(p)
      <4> DEFINE place == IF PostKey(p) = None THEN "insert" ELSE "look"
      <4>1. /\ GoTo(r, place) /\ answer' = answer /\ place \in {"look", "insert"}
            /\ place = "look" => PostKey(p) # None
        BY <3>1, <3>4
      <4> HIDE DEF place
      <4>2. at' = [at EXCEPT ![r] = place]
        BY <3>3, <4>1, GoToIs
      <4> QED
        BY <3>1, <3>2, <3>3, <4>1, <4>2
    <3>5. CASE ~Normalizes(p)
      <4>1. /\ at' = [at EXCEPT ![r] = "answered"]
            /\ answer' = [answer EXCEPT ![r] = [says |-> "REFUSED", of |-> None]]
        BY <3>1, <3>3, <3>5, SayIs
      <4> QED
        BY <3>1, <3>3, <4>1
    <3> QED
      BY <3>4, <3>5
  <2>2. CASE Demand(r)
    <3>1. PICK d \in Demands :
            /\ asked' = [asked EXCEPT ![r] = d]
            /\ IF sealed /\ ~Forbidden(d) /\ (d.mode = "MIGRATION" => d.pipeline # None)
               THEN GoTo(r, IF d.mode = "MIGRATION" THEN "look" ELSE "insert") /\ UNCHANGED answer
               ELSE Say(r, "REFUSED", None)
      BY <2>2 DEF Demand
    <3>2. d.mode = "MIGRATION" => RowFor(d).key # None
      BY RequestsAssumption DEF RowFor, ReplayRow
    <3>3. d \in RequestsMade /\ RequestShapes
      BY DEF RequestInv, RequestsMade
    <3>4. CASE sealed /\ ~Forbidden(d) /\ (d.mode = "MIGRATION" => d.pipeline # None)
      <4> DEFINE place == IF d.mode = "MIGRATION" THEN "look" ELSE "insert"
      <4>1. /\ GoTo(r, place) /\ answer' = answer /\ place \in {"look", "insert"}
            /\ place = "look" => d.mode = "MIGRATION"
        BY <3>1, <3>4
      <4> HIDE DEF place
      <4>2. at' = [at EXCEPT ![r] = place]
        BY <3>3, <4>1, GoToIs
      <4> QED
        BY <3>1, <3>2, <3>3, <4>1, <4>2
    <3>5. CASE ~(sealed /\ ~Forbidden(d) /\ (d.mode = "MIGRATION" => d.pipeline # None))
      <4>1. /\ at' = [at EXCEPT ![r] = "answered"]
            /\ answer' = [answer EXCEPT ![r] = [says |-> "REFUSED", of |-> None]]
        BY <3>1, <3>3, <3>5, SayIs
      <4> QED
        BY <3>1, <3>3, <4>1
    <3> QED
      BY <3>4, <3>5
  <2> QED
    BY <2>1, <2>2
<1>4. /\ asked'[r] = a /\ at'[r] = place
      /\ place = "answered" => answer'[r] = [says |-> "REFUSED", of |-> None]
      /\ place # "answered" => answer'[r] = answer[r]
  BY <1>3 DEF RequestInv, RequestShapes
<1>5. RequestShapes'
  BY <1>1, <1>3 DEF RequestInv, RequestShapes, BeforeRow, AtReplay
<1>6. OthersRest(r) /\ mishaps' >= mishaps
  BY <1>1, <1>3 DEF RequestInv, RequestShapes, OthersRest
<1>7. AskerStands(r)'
  BY <1>1, <1>2, <1>3, <1>4
  DEF AskerStands, RowStands, PlaceStands, BeforeRow, AtReplay
<1>8. answer'[r] = answer[r] \/ ToldTruth(r)'
  BY <1>4 DEF ToldTruth, Ends
<1> QED
  BY <1>1, <1>2, <1>5, <1>6, <1>7, <1>8, AskerMoves DEF KeepsItsRow, MakesItsOwn

\* What an existing row makes an asker be told is so.
LEMMA ReserveIs ==
  ASSUME RequestInv, NEW r \in Askers, NEW t \in SameKey(r), at[r] \in {"look", "lost"},
         Reserve(r, t), UNCHANGED <<asked, row, sealed, made, mishaps>>
  PROVE  RequestInv'
<1>1. /\ row[r] = None /\ asked[r] \in RequestsMade /\ RowFor(asked[r]).key # None
      /\ answer[r] = NoAnswer /\ made[r] = "nothing"
  BY DEF RequestInv, AskerStands, RowStands, PlaceStands, BeforeRow
<1>2. t \in Askers /\ row[t] # None /\ row[t].key = RowFor(asked[r]).key /\ t # r
  BY <1>1 DEF SameKey, NewRow
<1>3. /\ asked[t] \in RequestsMade /\ row[t] \in TaskRows(asked[t])
      /\ ~IsPost(asked[t]) => TellsEnd(row[t], asked[t], made[t], mishaps)
  BY <1>2, AskerIs DEF RequestInv, AskerStands, RowStands
<1>4. /\ row[t].key = RowFor(asked[t]).key /\ row[t].hash = RowFor(asked[t]).hash
      /\ row[t].result \in Ends
      /\ row[t].status \in {"PENDING", "RUNNING", "SUCCEEDED", "FAILED"}
  BY <1>3, RowIsAsMade
<1>5. /\ IsPost(asked[r]) <=> IsPost(asked[t])
      /\ row[t].hash = NewRow(r).hash <=> WantOf(asked[r]) = WantOf(asked[t])
  BY <1>1, <1>2, <1>3, <1>4, HashTells DEF NewRow
<1> DEFINE told == IF row[t].hash # NewRow(r).hash THEN "CONFLICT" ELSE Told(r, t)
<1>6. Say(r, told, t)
  BY DEF Reserve
<1>7. /\ Told(r, t) \in Ends \cup {"TASK", "RUNNING", "FAILED"}
      /\ Told(r, t) \in {"same", "others"} =>
           row[t].status = "SUCCEEDED" /\ row[t].result = Told(r, t) /\ ~IsPost(asked[t])
  BY <1>4, <1>5 DEF Told, Ends
<1>8. /\ told \in Ends \cup {"CONFLICT", "TASK", "RUNNING", "FAILED"}
      /\ told = "CONFLICT" <=> WantOf(asked[r]) # WantOf(asked[t])
      /\ told \in {"same", "others"} => row[t].status = "SUCCEEDED" /\ made[t] = told
  BY <1>3, <1>5, <1>7 DEF TellsEnd, Ends
<1> HIDE DEF told
<1>9. /\ answer'[r].says = told /\ answer'[r].of = t /\ at'[r] = "answered"
      /\ answer' = [answer EXCEPT ![r] = [says |-> told, of |-> t]]
      /\ at' = [at EXCEPT ![r] = "answered"]
  BY <1>6, SayIs DEF RequestInv
<1>10. RequestShapes' /\ mishaps' >= mishaps
  BY <1>2, <1>8, <1>9 DEF RequestInv, RequestShapes
<1>11. OthersRest(r)
  BY <1>9 DEF RequestInv, RequestShapes, OthersRest
<1>12. AskerStands(r)'
  BY <1>1, <1>9 DEF AskerStands, RowStands, PlaceStands, BeforeRow, AtReplay
<1>13. ToldTruth(r)'
  BY <1>1, <1>2, <1>4, <1>8, <1>9 DEF ToldTruth, Asks, WantOf, NewRow
<1> QED
  BY <1>1, <1>10, <1>11, <1>12, <1>13, AskerMoves DEF KeepsItsRow, MakesItsOwn

LEMMA LookStep ==
  ASSUME RequestInv, NEW r \in Askers, Look(r) \/ LookAgain(r)
  PROVE  RequestInv'
<1>1. CASE SameKey(r) = {} /\ Look(r)
  <2>1. GoTo(r, "insert") /\ at[r] = "look" /\ UNCHANGED <<asked, row, answer, sealed, made, mishaps>>
    BY <1>1 DEF Look
  <2>2. at'[r] = "insert" /\ at' = [at EXCEPT ![r] = "insert"]
    BY <2>1, GoToIs DEF RequestInv
  <2>3. RequestShapes' /\ OthersRest(r) /\ mishaps' >= mishaps
    BY <2>1, <2>2 DEF RequestInv, RequestShapes, OthersRest, BeforeRow
  <2>4. AskerStands(r)'
    BY <2>1, <2>2 DEF RequestInv, AskerStands, RowStands, PlaceStands, BeforeRow, AtReplay
  <2> QED
    BY <2>1, <2>3, <2>4, AskerMoves DEF KeepsItsRow, MakesItsOwn
<1>2. CASE \E t \in SameKey(r) : Reserve(r, t)
  BY <1>2, ReserveIs DEF Look, LookAgain
<1> QED
  BY <1>1, <1>2 DEF Look, LookAgain

\* A row is made, or a rival's was first.
LEMMA InsertStep ==
  ASSUME RequestInv, NEW r \in Askers, Insert(r)
  PROVE  RequestInv'
<1>1. /\ at[r] = "insert" /\ asked' = asked /\ sealed' = sealed /\ made' = made /\ mishaps' = mishaps
      /\ asked[r] \in RequestsMade /\ row[r] = None /\ made[r] = "nothing" /\ answer[r] = NoAnswer
  BY DEF Insert, RequestInv, AskerStands, RowStands, PlaceStands, BeforeRow
<1>2. CASE Taken(r)
  <2>1. GoTo(r, "lost") /\ row' = row /\ answer' = answer
    BY <1>2 DEF Insert
  <2>2. at'[r] = "lost" /\ at' = [at EXCEPT ![r] = "lost"]
    BY <2>1, GoToIs DEF RequestInv
  <2>3. RequestShapes' /\ OthersRest(r) /\ mishaps' >= mishaps
    BY <1>1, <2>1, <2>2 DEF RequestInv, RequestShapes, OthersRest, BeforeRow
  <2>4. AskerStands(r)'
    BY <1>1, <1>2, <2>1, <2>2
    DEF AskerStands, RowStands, PlaceStands, BeforeRow, AtReplay, Taken, NewRow
  <2> QED
    BY <1>1, <2>1, <2>3, <2>4, AskerMoves DEF KeepsItsRow, MakesItsOwn
<1>3. CASE ~Taken(r)
  <2> DEFINE a == asked[r]
             w == Ended(a, IF IsPost(a) THEN "PENDING" ELSE "RUNNING", "nothing")
             place == IF IsPost(a) THEN "answered" ELSE "replay"
  <2>1. /\ NewRow(r) = w /\ w \in TaskRows(a) /\ w # None
        /\ w.key = RowFor(a).key /\ w.result = "nothing" /\ w.status \in {"PENDING", "RUNNING"}
    BY <1>1, FirstEnd, EndIs DEF NewRow, Ends
  <2>2. /\ row' = [row EXCEPT ![r] = w]
        /\ IF IsPost(a) THEN Say(r, "TASK", r) ELSE GoTo(r, "replay") /\ UNCHANGED answer
    BY <1>3, <2>1 DEF Insert
  <2>3. /\ at'[r] = place /\ at' = [at EXCEPT ![r] = place]
        /\ IsPost(a) => /\ answer' = [answer EXCEPT ![r] = [says |-> "TASK", of |-> r]]
                        /\ answer'[r].says = "TASK" /\ answer'[r].of = r
        /\ ~IsPost(a) => answer' = answer
    BY <2>2, SayIs, GoToIs DEF RequestInv
  <2>4. row'[r] = w /\ ~IsPost(a) => w = Ended(a, "RUNNING", "nothing")
    BY <2>2 DEF RequestInv, RequestShapes
  <2>5. w.key # None => \A t \in Askers : row[t] # None => row[t].key # w.key
    BY <1>3, <2>1 DEF Taken, SameKey
  <2>6. row'[r] = w
    BY <2>2 DEF RequestInv, RequestShapes
  <2> HIDE DEF w
  <2>7. RequestShapes' /\ OthersRest(r) /\ mishaps' >= mishaps
    BY <1>1, <2>1, <2>2, <2>3 DEF RequestInv, RequestShapes, OthersRest, AtReplay, AllRows
  <2>8. AskerStands(r)'
    BY <1>1, <2>1, <2>3, <2>4, <2>6
    DEF AskerStands, RowStands, PlaceStands, BeforeRow, AtReplay, TellsEnd
  <2>9. answer'[r] = answer[r] \/ ToldTruth(r)'
    BY <1>1, <2>3 DEF ToldTruth
  <2> QED
    BY <1>1, <2>1, <2>5, <2>6, <2>7, <2>8, <2>9, AskerMoves DEF KeepsItsRow, MakesItsOwn
<1> QED
  BY <1>2, <1>3

-----------------------------------------------------------------------------
(* The replay. *)

LEMMA CloseIs ==
  ASSUME RequestShapes, NEW r \in Askers, NEW status, NEW result, asked[r] \in RequestsMade,
         row[r] \in TaskRows(asked[r]), Close(r, status, result)
  PROVE  /\ row' = [row EXCEPT ![r] = Ended(asked[r], status, result)]
         /\ row'[r] = Ended(asked[r], status, result)
<1>1. row' = [row EXCEPT ![r] = Written(row[r], status, result)]
  <2>1. row' = [[row EXCEPT ![r].status = status] EXCEPT ![r].result = result]
    BY Zenon DEF Close
  <2> QED
    BY <2>1 DEF RequestShapes, Written
<1>2. Written(row[r], status, result) = Ended(asked[r], status, result)
  BY EndAgain
<1>3. row' = [row EXCEPT ![r] = Ended(asked[r], status, result)]
  BY <1>1, <1>2, Zenon
<1> QED
  BY <1>3 DEF RequestShapes

\* Where r is at its replay.
LEMMA AtItsReplay ==
  ASSUME RequestInv, NEW r \in Askers, at[r] \in AtReplay
  PROVE  /\ asked[r] \in RequestsMade /\ ~IsPost(asked[r]) /\ row[r] \in TaskRows(asked[r])
         /\ row[r] # None /\ answer[r] = NoAnswer /\ row[r].key = RowFor(asked[r]).key
         /\ row[r].status \in {"RUNNING", "SUCCEEDED"}
         /\ row[r].status = "RUNNING" => row[r] = Ended(asked[r], "RUNNING", "nothing")
         /\ made[r] \in Ends
<1>1. /\ asked[r] \in RequestsMade /\ ~IsPost(asked[r]) /\ made[r] \in Ends /\ answer[r] = NoAnswer
      /\ \/ row[r] = Ended(asked[r], "RUNNING", "nothing")
         \/ row[r] = Ended(asked[r], "SUCCEEDED", made[r])
  BY DEF RequestInv, RequestShapes, AskerStands, RowStands, PlaceStands, AtReplay
<1> QED
  BY <1>1, EndIs DEF Ends

\* Any move of a replay that has its row: to a place, with a row and a snapshot.
ReplayGoes(r, place, w, m) ==
  /\ asked' = asked /\ sealed' \in BOOLEAN /\ mishaps' \in Nat /\ mishaps' >= mishaps
  /\ place \in AtReplay \cup {"answered", "dead"} /\ at' = [at EXCEPT ![r] = place]
  /\ w \in TaskRows(asked[r]) /\ row' = [row EXCEPT ![r] = w]
  /\ m \in Ends /\ made' = [made EXCEPT ![r] = m]
  /\ row[r].status = "SUCCEEDED" => w = row[r] /\ m = made[r]
  /\ RowStands(asked[r], place, w, m, mishaps')
  /\ \/ answer' = answer /\ place # "answered"
     \/ \E what \in Ends \cup {"STALE", "FAILED", "NONDETERMINISTIC"} :
          /\ place = "answered" /\ answer' = [answer EXCEPT ![r] = [says |-> what, of |-> r]]
          /\ what \in {"same", "others"} => w.status = "SUCCEEDED" /\ m = what

LEMMA ReplayMoves ==
  ASSUME RequestInv, NEW r \in Askers, at[r] \in AtReplay,
         NEW place, NEW w, NEW m, ReplayGoes(r, place, w, m)
  PROVE  RequestInv'
<1>1. /\ asked[r] \in RequestsMade /\ ~IsPost(asked[r]) /\ row[r] \in TaskRows(asked[r])
      /\ row[r] # None /\ answer[r] = NoAnswer /\ row[r].key = RowFor(asked[r]).key
      /\ w # None /\ w.key = RowFor(asked[r]).key
  BY AtItsReplay, RowIsAsMade DEF ReplayGoes
<1>2. at'[r] = place /\ row'[r] = w /\ made'[r] = m
  BY DEF ReplayGoes, RequestInv, RequestShapes
<1>3. RequestShapes'
  BY <1>1 DEF ReplayGoes, RequestInv, RequestShapes, AllRows
<1>4. OthersRest(r)
  BY DEF RequestInv, RequestShapes, OthersRest, ReplayGoes
<1>5. AskerStands(r)'
  BY <1>1, <1>2 DEF ReplayGoes, AskerStands, PlaceStands, BeforeRow, AtReplay
<1>6. answer'[r] = answer[r] \/ ToldTruth(r)'
  BY <1>1, <1>2 DEF ReplayGoes, ToldTruth, RequestInv, RequestShapes
<1> QED
  BY <1>1, <1>2, <1>3, <1>4, <1>5, <1>6, AskerMoves DEF ReplayGoes, KeepsItsRow, MakesItsOwn

LEMMA ProcessStep ==
  ASSUME RequestInv, NEW r \in Askers, Process(r)
  PROVE  RequestInv'
<1>1. /\ at[r] = "replay" /\ at[r] \in AtReplay
      /\ asked' = asked /\ row' = row /\ answer' = answer /\ mishaps' = mishaps
      /\ mishaps' \in Nat /\ mishaps' >= mishaps /\ sealed' \in BOOLEAN
      /\ row[r] = Ended(asked[r], "RUNNING", "nothing") /\ made[r] = "nothing"
      /\ row' = [row EXCEPT ![r] = row[r]]
  BY DEF Process, RequestInv, RequestShapes, AskerStands, RowStands, AtReplay
<1>2. /\ row[r] \in TaskRows(asked[r]) /\ row[r] # None /\ row[r].status = "RUNNING"
      /\ row[r].result = "nothing" /\ made[r] \in Ends
  BY <1>1, AtItsReplay, EndIs DEF Ends
<1>3. ASSUME NEW place \in {"raised", "compare"}, NEW m \in Ends, at' = [at EXCEPT ![r] = place],
             made' = [made EXCEPT ![r] = m], RowStands(asked[r], place, row[r], m, mishaps')
      PROVE  RequestInv'
  <2>1. ReplayGoes(r, place, row[r], m)
    BY <1>1, <1>2, <1>3 DEF ReplayGoes, AtReplay
  <2> QED
    BY <1>1, <2>1, ReplayMoves
<1>4. CASE GoTo(r, "raised") /\ UNCHANGED made
  <2>1. at' = [at EXCEPT ![r] = "raised"] /\ made' = [made EXCEPT ![r] = made[r]]
    BY <1>4, GoToIs DEF RequestInv, RequestShapes
  <2>2. RowStands(asked[r], "raised", row[r], made[r], mishaps')
    BY <1>1, <1>2 DEF RowStands, TellsEnd, BeforeRow
  <2> QED
    BY <1>2, <1>3, <2>1, <2>2
<1>5. ASSUME NEW outcome \in {"same", "others"}, made' = [made EXCEPT ![r] = outcome],
             GoTo(r, "compare")
      PROVE  RequestInv'
  <2>1. at' = [at EXCEPT ![r] = "compare"] /\ outcome \in Ends
    BY <1>5, GoToIs DEF RequestInv, Ends
  <2>2. RowStands(asked[r], "compare", row[r], outcome, mishaps')
    BY <1>1, <1>2 DEF RowStands, TellsEnd, BeforeRow
  <2> QED
    BY <1>3, <1>5, <2>1, <2>2
<1> QED
  BY <1>4, <1>5 DEF Process

\* The four that write the row, or cannot.
LEMMA CloseStep ==
  ASSUME RequestInv, NEW r \in Askers, Succeed(r) \/ Differ(r) \/ FailReplay(r) \/ LoseWrite(r)
  PROVE  RequestInv'
<1> DEFINE a == asked[r]
           m == made[r]
<1>1. /\ at[r] \in {"compare", "raised"} /\ at[r] \in AtReplay
      /\ asked' = asked /\ sealed' = sealed /\ made' = made
      /\ mishaps' \in Nat /\ mishaps' >= mishaps /\ mishaps \in Nat /\ sealed \in BOOLEAN
      /\ LoseWrite(r) => mishaps' > 0
      /\ made' = [made EXCEPT ![r] = m] /\ sealed' \in BOOLEAN
  BY DEF Succeed, Differ, FailReplay, LoseWrite, Mishap, RequestInv, RequestShapes, AtReplay
<1>2. /\ a \in RequestsMade /\ ~IsPost(a) /\ row[r] \in TaskRows(a) /\ m \in Ends
      /\ row[r].status = "RUNNING" => row[r] = Ended(a, "RUNNING", "nothing")
  BY <1>1, AtItsReplay
<1>3. RowStands(a, at[r], row[r], m, mishaps)
  BY DEF RequestInv, AskerStands
<1>4. \A status \in {"PENDING", "RUNNING", "SUCCEEDED", "FAILED"}, e \in Ends :
        /\ Ended(a, status, e) \in TaskRows(a) /\ Ended(a, status, e).status = status
        /\ Ended(a, status, e).result = e /\ Ended(a, status, e) # None
  BY <1>2, EndIs
<1>5. \A status, e : Close(r, status, e) => row' = [row EXCEPT ![r] = Ended(a, status, e)]
  BY <1>2, CloseIs DEF RequestInv
<1>6. Matches(r) <=> SameEnd(a, m)
  BY DEF Matches, SameEnd
<1>7. row' = row => row' = [row EXCEPT ![r] = row[r]]
  BY DEF RequestInv, RequestShapes
<1>8. \A what, t : Say(r, what, t) => /\ answer' = [answer EXCEPT ![r] = [says |-> what, of |-> t]]
                                      /\ at' = [at EXCEPT ![r] = "answered"]
  BY SayIs DEF RequestInv
<1> HIDE DEF a, m
<1>9. ASSUME NEW w \in TaskRows(a), NEW what \in Ends \cup {"STALE", "FAILED", "NONDETERMINISTIC"},
             row' = [row EXCEPT ![r] = w], row[r].status # "SUCCEEDED" \/ w = row[r],
             RowStands(a, "answered", w, m, mishaps'), Say(r, what, r),
             what \in {"same", "others"} => w.status = "SUCCEEDED" /\ m = what
      PROVE  RequestInv'
  <2>1. /\ answer' = [answer EXCEPT ![r] = [says |-> what, of |-> r]]
        /\ at' = [at EXCEPT ![r] = "answered"]
    BY <1>8, <1>9
  <2>2. ReplayGoes(r, "answered", w, m)
    BY <1>1, <1>2, <1>9, <2>1 DEF ReplayGoes, a, m
  <2> QED
    BY <1>1, <2>2, ReplayMoves
<1>10. CASE Succeed(r)
  <2>1. /\ at[r] = "compare" /\ SameEnd(a, m) /\ row[r].status = "RUNNING"
        /\ Close(r, "SUCCEEDED", m) /\ Say(r, m, r)
    BY <1>6, <1>10 DEF Succeed, m
  <2>2. m # "nothing"
    BY <1>3, <2>1 DEF RowStands
  <2>3. RowStands(a, "answered", Ended(a, "SUCCEEDED", m), m, mishaps')
    BY <1>2, <1>4, <2>1, <2>2 DEF RowStands, TellsEnd, BeforeRow
  <2> QED
    BY <1>2, <1>4, <1>5, <1>9, <2>1, <2>3
<1>11. CASE Differ(r)
  <2>1. /\ at[r] = "compare" /\ ~SameEnd(a, m) /\ row[r].status = "RUNNING"
        /\ Close(r, "FAILED", "nothing") /\ Say(r, "NONDETERMINISTIC", r)
    BY <1>6, <1>11 DEF Differ
  <2>2. RowStands(a, "answered", Ended(a, "FAILED", "nothing"), m, mishaps')
    BY <1>2, <1>4, <2>1 DEF RowStands, TellsEnd, BeforeRow, Ends
  <2> QED
    BY <1>4, <1>5, <1>9, <2>1, <2>2 DEF Ends
<1>12. CASE FailReplay(r) /\ row[r].status = "RUNNING"
  <2>1. at[r] = "raised" /\ Close(r, "FAILED", "nothing") /\ Say(r, "FAILED", r) /\ mishaps' = mishaps
    BY <1>12 DEF FailReplay
  <2>2. m = "nothing" \/ mishaps > 0
    BY <1>3, <1>4, <1>2, <1>12, <2>1 DEF RowStands, Ends
  <2>3. RowStands(a, "answered", Ended(a, "FAILED", "nothing"), m, mishaps')
    BY <1>2, <1>4, <2>1, <2>2 DEF RowStands, TellsEnd, BeforeRow, Ends
  <2> QED
    BY <1>4, <1>5, <1>9, <1>12, <2>1, <2>3 DEF Ends
<1>13. CASE FailReplay(r) /\ row[r].status # "RUNNING"
  <2>1. Say(r, "STALE", r) /\ row' = row /\ mishaps' = mishaps
    BY <1>13 DEF FailReplay
  <2>2. RowStands(a, "answered", row[r], m, mishaps')
    BY <1>2, <1>3, <2>1 DEF RowStands, BeforeRow
  <2> QED
    BY <1>2, <1>7, <1>9, <2>1, <2>2
<1>14. CASE LoseWrite(r)
  <2>1. /\ at[r] = "compare" /\ answer' = answer
        /\ \/ row' = row
           \/ row[r].status = "RUNNING" /\ SameEnd(a, m) /\ Close(r, "SUCCEEDED", m)
    BY <1>6, <1>14 DEF LoseWrite, m
  <2>2. at' = [at EXCEPT ![r] = "raised"]
    BY <1>14, GoToIs DEF LoseWrite, RequestInv
  <2>3. m # "nothing" /\ row[r] = Ended(a, "RUNNING", "nothing") /\ row[r].status = "RUNNING"
    BY <1>2, <1>3, <1>4, <2>1 DEF RowStands, Ends
  <2>4. ASSUME NEW w \in TaskRows(a), row' = [row EXCEPT ![r] = w],
               RowStands(a, "raised", w, m, mishaps')
        PROVE  RequestInv'
    <3>1. ReplayGoes(r, "raised", w, m)
      BY <1>1, <1>2, <2>1, <2>2, <2>3, <2>4 DEF ReplayGoes, AtReplay, a, m
    <3> QED
      BY <1>1, <3>1, ReplayMoves
  <2>5. CASE row' = row
    <3>1. RowStands(a, "raised", row[r], m, mishaps')
      BY <1>1, <1>2, <1>4, <1>14, <2>3 DEF RowStands, TellsEnd, BeforeRow, Ends
    <3> QED
      BY <1>2, <1>7, <2>4, <2>5, <3>1
  <2>6. CASE SameEnd(a, m) /\ Close(r, "SUCCEEDED", m)
    <3>1. RowStands(a, "raised", Ended(a, "SUCCEEDED", m), m, mishaps')
      BY <1>1, <1>2, <1>4, <1>14, <2>3, <2>6 DEF RowStands, TellsEnd, BeforeRow
    <3> QED
      BY <1>2, <1>4, <1>5, <2>4, <2>6, <3>1
  <2> QED
    BY <2>1, <2>5, <2>6
<1> QED
  BY <1>10, <1>11, <1>12, <1>13, <1>14

\* A death, anywhere on the way.
LEMMA DieStep ==
  ASSUME RequestInv, NEW r \in Askers, Die(r)
  PROVE  RequestInv'
<1>1. /\ at[r] \in {"look", "insert", "lost", "replay", "compare", "raised"}
      /\ UNCHANGED <<asked, row, answer, sealed, made>> /\ mishaps' = mishaps + 1
  BY DEF Die, Mishap
<1>2. at'[r] = "dead" /\ at' = [at EXCEPT ![r] = "dead"]
  BY GoToIs DEF Die, RequestInv
<1>3. RequestShapes' /\ OthersRest(r) /\ mishaps' >= mishaps
  BY <1>1, <1>2 DEF RequestInv, RequestShapes, OthersRest
<1>4. AskerStands(r)'
  BY <1>1, <1>2
  DEF RequestInv, RequestShapes, AskerStands, RowStands, PlaceStands, TellsEnd, BeforeRow, AtReplay
<1> QED
  BY <1>1, <1>3, <1>4, AskerMoves DEF KeepsItsRow, MakesItsOwn

-----------------------------------------------------------------------------
LEMMA RequestsBegin ==
  RequestInit => RequestInv
<1> SUFFICES ASSUME RequestInit PROVE RequestInv
  OBVIOUS
<1>1. \A q \in Askers : /\ asked[q] = None /\ at[q] = "idle" /\ row[q] = None
                        /\ answer[q] = NoAnswer /\ made[q] = "nothing"
  BY DEF RequestInit
<1>2. RequestShapes
  BY DEF RequestInit, RequestShapes, AllRows, NoAnswer, BeforeRow, Ends
<1>3. KeysAreUnique
  BY <1>1 DEF KeysAreUnique
<1>4. \A q \in Askers : AskerStands(q) /\ ToldTruth(q)
  BY <1>1 DEF AskerStands, RowStands, PlaceStands, ToldTruth, NoAnswer, BeforeRow, AtReplay
<1> QED
  BY <1>2, <1>3, <1>4 DEF RequestInv

LEMMA RequestStep ==
  RequestInv /\ [RequestNext]_requestVars => RequestInv'
<1> SUFFICES ASSUME RequestInv, [RequestNext]_requestVars PROVE RequestInv'
  OBVIOUS
<1>1. ASSUME UNCHANGED <<asked, at, row, answer, made, mishaps>>, sealed' \in BOOLEAN
      PROVE  RequestInv'
  <2>1. RequestShapes'
    BY <1>1 DEF RequestInv, RequestShapes
  <2>2. \A q \in Askers : AskerStands(q)'
    BY <1>1 DEF RequestInv, AskerStands
  <2>3. \A q \in Askers : ToldTruth(q)'
    BY <1>1 DEF RequestInv, ToldTruth, NewRow, Asks
  <2>4. KeysAreUnique'
    BY <1>1 DEF RequestInv, KeysAreUnique
  <2> QED
    BY <2>1, <2>2, <2>3, <2>4 DEF RequestInv
<1>2. CASE ExpireMedia \/ UNCHANGED requestVars
  BY <1>1, <1>2 DEF ExpireMedia, requestVars, RequestInv, RequestShapes
<1>3. ASSUME NEW r \in Askers,
             \/ Post(r) \/ Demand(r) \/ Look(r) \/ Insert(r) \/ LookAgain(r)
             \/ Process(r) \/ Succeed(r) \/ Differ(r) \/ FailReplay(r)
             \/ LoseWrite(r) \/ Die(r)
      PROVE  RequestInv'
  BY <1>3, AskStep, LookStep, InsertStep, ProcessStep, CloseStep, DieStep
<1> QED
  BY <1>2, <1>3 DEF RequestNext

\* Rows, places and answers fit each other in every state (TaskRequests as a whole).
THEOREM RequestInvariant == RequestSpec => []RequestInv
<1> QED
  BY RequestsBegin, RequestStep, PTL DEF RequestSpec

\* RequestTypeOK: every row is one that a request of its asker makes.
THEOREM RequestTypeCorrect == RequestSpec => []RequestTypeOK
<1>1. RequestInv => RequestTypeOK
  <2> SUFFICES ASSUME RequestInv PROVE RequestTypeOK
    OBVIOUS
  <2>1. \A r \in Askers : row[r] = None \/ row[r] \in TaskRows(asked[r])
    BY DEF RequestInv, AskerStands, RowStands
  <2> QED
    BY <2>1 DEF RequestTypeOK, RequestInv, RequestShapes, BeforeRow, AtReplay, RequestsMade
<1> QED
  BY <1>1, RequestInvariant, PTL

\* However requests race and whatever is lost, a key has one row, an answer
\* speaks truly of the row it names, and the row of a replay tells its end
\* (create, _reserve_existing, _reprocess, _reuse_replay_task).
THEOREM RowsAreTrue == RequestSpec => []RowsTellTheTruth
<1>1. RequestInv => OneTaskPerKey
  BY DEF RequestInv, KeysAreUnique, ToldTruth, OneTaskPerKey
<1>2. RequestInv => RowTellsTheReplay
  <2> SUFFICES ASSUME RequestInv, NEW r \in Askers
               PROVE  /\ row[r] # None /\ row[r].kind = "replay" =>
                           TellsEnd(row[r], asked[r], made[r], mishaps)
                      /\ answer[r].says \in {"same", "others"} =>
                           row[answer[r].of].status = "SUCCEEDED" /\ made[answer[r].of] = answer[r].says
    BY DEF RowTellsTheReplay, TellsEnd, SameEnd, Matches
  <2>1. ToldTruth(r)
    BY DEF RequestInv
  <2>2. ASSUME row[r] # None, row[r].kind = "replay"
        PROVE  TellsEnd(row[r], asked[r], made[r], mishaps)
    <3>1. asked[r] \in RequestsMade /\ row[r] \in TaskRows(asked[r])
      BY <2>2, AskerIs
    <3>2. RowFor(asked[r]).kind = "replay"
      BY <2>2, <3>1, RowIsAsMade
    <3>3. ~IsPost(asked[r])
      BY <3>2 DEF RowFor, ContentRow
    <3> QED
      BY <2>2, <3>3 DEF RequestInv, AskerStands, RowStands
  <2> QED
    BY <2>1, <2>2 DEF ToldTruth
<1> QED
  BY <1>1, <1>2, RequestInvariant, PTL DEF RowsTellTheTruth
=============================================================================
