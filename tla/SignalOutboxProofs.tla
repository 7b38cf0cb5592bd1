-------------------------- MODULE SignalOutboxProofs --------------------------
(***************************************************************************)
(* Proofs about SignalOutbox for every set of signals, payloads and        *)
(* publisher processes, every lease and every schedule of retries.         *)
(***************************************************************************)
EXTENDS SignalOutbox, TLAPS

Rows == [status : Statuses, payload : Payloads \cup {NoPayload}, leased : BOOLEAN,
         left : Int, wait : Nat, attempts : 0 .. Attempts + 1]
Seen == [status : Statuses, attempts : 0 .. Attempts]
Passes == [pc : {"idle", "next", "posted", "marking", "failed", "retrying"},
           row : Signals \cup {NoSignal}, batch : SUBSET Signals,
           age : 0 .. PassTicks, seen : Seen]

\* What a row says of itself and of its deliveries: nothing is delivered that was
\* not enqueued, a settled row has no clock running, and one that is not can be
\* tried again.
RowIsTrue(s) ==
  /\ received[s] # {} => outbox[s].status # "ABSENT"
  /\ outbox[s].status # "ABSENT" => outbox[s].payload \in Payloads
  /\ outbox[s].status \in Settled => ~outbox[s].leased /\ outbox[s].wait = 0
  /\ outbox[s].status \notin Settled => outbox[s].attempts <= Attempts
  /\ outbox[s].status = "PUBLISHED" => received[s] # {}
  /\ received[s] \subseteq {outbox[s].payload}

\* A pass holds rows that exist, and is at one of them from the call on; it has
\* delivered what its call returned for, and is about to mark only a row that it
\* saw being published.
PassIsTrue(p) ==
  /\ \A s \in proc[p].batch : outbox[s].status # "ABSENT"
  /\ proc[p].pc \in {"posted", "marking", "failed", "retrying"} => proc[p].row \in proc[p].batch
  /\ proc[p].pc \in {"posted", "marking"} => received[proc[p].row] # {}
  /\ proc[p].pc \in {"marking", "retrying"} => proc[p].seen.status = "PUBLISHING"

\* The inductive invariant: what is marked published was received because the
\* mark was preceded by the pass's own call, whoever holds the row by now.
OutboxInv ==
  /\ TypeOK
  /\ \A s \in Signals : RowIsTrue(s)
  /\ \A p \in Procs : PassIsTrue(p)

-----------------------------------------------------------------------------
LEMMA AttemptsInNat == Attempts \in Nat
BY DelaysAssumption DEF Attempts

LEMMA Constants ==
  /\ NoRow \in Rows /\ Read(NoRow) \in Seen /\ Idle \in Passes
  /\ Settled \subseteq Statuses /\ {"PENDING", "PUBLISHING", "RETRY", "ABSENT"} \subseteq Statuses
BY AttemptsInNat, TicksAssumption DEF NoRow, Read, Rows, Seen, Idle, Passes, Statuses, Settled

LEMMA LeaseReplaced ==
  ASSUME NEW r \in Rows, NEW leased \in BOOLEAN, NEW left \in Int, NEW wait \in Nat
  PROVE  [r EXCEPT !.leased = leased, !.left = left, !.wait = wait] \in Rows
BY Zenon DEF Rows

LEMMA ClearedRow ==
  ASSUME NEW r \in Rows
  PROVE  /\ Cleared(r) \in Rows /\ Cleared(r).payload = r.payload
         /\ Cleared(r).leased = FALSE /\ Cleared(r).wait = 0
<1>1. Cleared(r) \in Rows
  <2> DEFINE unleased == FALSE
             zero == 0
  <2>1. unleased \in BOOLEAN /\ zero \in Int /\ zero \in Nat
    OBVIOUS
  <2> HIDE DEF unleased, zero
  <2>2. [r EXCEPT !.leased = unleased, !.left = zero, !.wait = zero] \in Rows
    BY <2>1, LeaseReplaced
  <2> QED
    BY <2>2, Zenon DEF Cleared, unleased, zero
<1>2. Cleared(r).payload = r.payload /\ Cleared(r).leased = FALSE /\ Cleared(r).wait = 0
  BY DEF Cleared, Rows
<1> QED
  BY <1>1, <1>2

\* The rows that a claim, a mark and the clock write.
Claimed(r) == [r EXCEPT !.status = "PUBLISHING", !.leased = TRUE, !.left = LeaseTicks]
Published(r) == [Cleared(r) EXCEPT !.status = "PUBLISHED"]
Elapsed(r) == [r EXCEPT !.left = IF r.leased /\ @ > -PassTicks THEN @ - 1 ELSE @,
                        !.wait = IF @ > 0 THEN @ - 1 ELSE 0]

LEMMA EnqueuedRow ==
  ASSUME NEW r \in Rows, NEW payload \in Payloads
  PROVE  /\ Enqueued(r, payload) \in Rows /\ Enqueued(r, payload).status # "ABSENT"
         /\ r.status # "ABSENT" => Enqueued(r, payload) = r
         /\ r.status = "ABSENT" =>
              /\ Enqueued(r, payload).status = "PENDING" /\ Enqueued(r, payload).payload = payload
              /\ Enqueued(r, payload).attempts = r.attempts
BY DEF Enqueued, Rows, Statuses

LEMMA ClaimedRow ==
  ASSUME NEW r \in Rows
  PROVE  /\ Claimed(r) \in Rows /\ Claimed(r).status = "PUBLISHING"
         /\ Claimed(r).payload = r.payload /\ Claimed(r).attempts = r.attempts
<1>1. LeaseTicks \in Int
  BY TicksAssumption
<1> QED
  BY <1>1 DEF Rows, Statuses, Claimed

LEMMA PublishedRow ==
  ASSUME NEW r \in Rows
  PROVE  /\ Published(r) \in Rows /\ Published(r).status = "PUBLISHED"
         /\ Published(r).payload = r.payload
         /\ Published(r).leased = FALSE /\ Published(r).wait = 0
<1> DEFINE cleared == Cleared(r)
<1>1. /\ cleared \in Rows /\ cleared.payload = r.payload
      /\ cleared.leased = FALSE /\ cleared.wait = 0 /\ "PUBLISHED" \in Statuses
  BY ClearedRow DEF Statuses
<1>2. Published(r) = [cleared EXCEPT !.status = "PUBLISHED"]
  BY DEF Published
<1> HIDE DEF cleared
<1> QED
  BY <1>1, <1>2 DEF Rows

LEMMA ElapsedRow ==
  ASSUME NEW r \in Rows
  PROVE  /\ Elapsed(r) \in Rows /\ Elapsed(r).status = r.status
         /\ Elapsed(r).payload = r.payload
         /\ Elapsed(r).leased = r.leased /\ Elapsed(r).attempts = r.attempts
         /\ r.wait = 0 => Elapsed(r).wait = 0
         /\ ~r.leased /\ r.wait = 0 => Elapsed(r) = r
<1> DEFINE left == IF r.leased /\ r.left > -PassTicks THEN r.left - 1 ELSE r.left
           wait == IF r.wait > 0 THEN r.wait - 1 ELSE 0
           elapsed == [r EXCEPT !.left = left, !.wait = wait]
<1>1. left \in Int /\ wait \in Nat
  BY DEF Rows
<1>2. (r.wait = 0 => wait = 0) /\ (~r.leased /\ r.wait = 0 => left = r.left /\ wait = r.wait)
  OBVIOUS
<1>3. Elapsed(r) = elapsed
  BY DEF Elapsed
<1> HIDE DEF left, wait
<1>4. /\ elapsed \in Rows /\ elapsed.status = r.status /\ elapsed.payload = r.payload
      /\ elapsed.leased = r.leased /\ elapsed.attempts = r.attempts
      /\ elapsed.wait = wait /\ elapsed.left = left
  BY <1>1 DEF Rows
<1>5. left = r.left /\ wait = r.wait => elapsed = r
  BY <1>1 DEF Rows
<1> QED
  BY <1>2, <1>3, <1>4, <1>5

\* A retry writes a row that is dead or, with an attempt counted that the
\* schedule still allows, waits.
LEMMA RetryUpdate ==
  ASSUME NEW r \in Rows, NEW attempts \in 0 .. Attempts, NEW age \in 0 .. PassTicks
  PROVE  LET retried == Retried(r, attempts, age) IN
         /\ retried \in Rows /\ retried.payload = r.payload /\ retried.status # "ABSENT"
         /\ retried.status # "PUBLISHED"
         /\ retried.status \in Settled => ~retried.leased /\ retried.wait = 0
         /\ retried.status \notin Settled => retried.attempts <= Attempts
<1>0. attempts + 1 \in 0 .. Attempts + 1 /\ Attempts \in Nat /\ age \in Nat
  BY AttemptsInNat, TicksAssumption
<1> DEFINE cleared == Cleared(r)
<1>9. /\ cleared \in Rows /\ cleared.payload = r.payload
      /\ cleared.leased = FALSE /\ cleared.wait = 0
  BY ClearedRow
<1>1. CASE attempts + 1 > Attempts
  <2>1. Retried(r, attempts, age) =
          [cleared EXCEPT !.attempts = attempts + 1, !.status = "DEAD_LETTER"]
    BY <1>1 DEF Retried
  <2> HIDE DEF cleared
  <2> QED
    BY <1>0, <1>9, <2>1 DEF Rows, Statuses, Settled
<1>2. CASE ~(attempts + 1 > Attempts)
  <2> DEFINE delay == RetryDelays[attempts + 1]
  <2>1. delay \in Nat
    BY <1>0, <1>2, DelaysAssumption DEF Attempts
  <2>2. delay - AtMost(age, delay) \in Nat
    BY <1>0, <2>1 DEF AtMost
  <2>3. Retried(r, attempts, age) =
          [cleared EXCEPT !.attempts = attempts + 1, !.status = "RETRY",
                          !.wait = delay - AtMost(age, delay)]
    BY <1>2 DEF Retried
  <2> DEFINE wait == delay - AtMost(age, delay)
  <2>4. /\ attempts + 1 <= Attempts /\ wait \in Nat /\ "RETRY" \in Statuses
        /\ Retried(r, attempts, age) =
             [cleared EXCEPT !.attempts = attempts + 1, !.status = "RETRY", !.wait = wait]
    BY <1>0, <1>2, <2>2, <2>3 DEF Statuses
  <2> HIDE DEF delay, cleared, wait
  <2>5. Retried(r, attempts, age) =
          [status |-> "RETRY", payload |-> cleared.payload, leased |-> cleared.leased,
           left |-> cleared.left, wait |-> wait, attempts |-> attempts + 1]
    BY <1>9, <2>4 DEF Rows
  <2> QED
    BY <1>0, <1>9, <2>4, <2>5 DEF Rows, Settled
<1> QED
  BY <1>1, <1>2

-----------------------------------------------------------------------------
LEMMA TypeInit == Init => TypeOK
BY Constants, TicksAssumption DEF Init, TypeOK, Rows, Passes, Seen

\* TypeOK, in terms of the sets above.
LEMMA Types ==
  TypeOK <=> /\ outbox \in [Signals -> Rows] /\ received \in [Signals -> SUBSET Payloads]
             /\ crashes \in 0 .. MaxCrashes /\ proc \in [Procs -> Passes]
BY DEF TypeOK, Rows, Passes, Seen

\* What Advance leaves: an idle pass, or one about to post another row of its batch.
Advanced(a) ==
  IF a.batch \ {a.row} = {} THEN Idle
  ELSE [a EXCEPT !.pc = "next", !.row = NoSignal, !.batch = a.batch \ {a.row}, !.seen = Read(NoRow)]

LEMMA AdvancedTyped ==
  ASSUME NEW a \in Passes
  PROVE  Advanced(a) \in Passes /\ Advanced(a).batch \subseteq a.batch
         /\ Advanced(a).pc \in {"idle", "next"}
<1>0. Idle \in Passes /\ Idle.batch = {} /\ Idle.pc = "idle" /\ Read(NoRow) \in Seen
  BY Constants DEF Idle
<1> DEFINE seen == Read(NoRow)
           rest == a.batch \ {a.row}
           next == [a EXCEPT !.pc = "next", !.row = NoSignal, !.batch = rest, !.seen = seen]
<1>1. rest \in SUBSET Signals /\ rest \subseteq a.batch /\ seen \in Seen
  BY <1>0 DEF Passes
<1> HIDE DEF seen, rest
<1>2. NoSignal \in Signals \cup {NoSignal}
      /\ "next" \in {"idle", "next", "posted", "marking", "failed", "retrying"}
  OBVIOUS
<1>3. next \in Passes /\ next.batch = rest /\ next.pc = "next"
  BY <1>1, <1>2, Zenon DEF Passes
<1>4. Advanced(a) = IF rest = {} THEN Idle ELSE next
  BY DEF Advanced, rest, seen
<1> QED
  BY <1>0, <1>1, <1>3, <1>4

LEMMA AdvanceIs ==
  ASSUME NEW p \in Procs, proc \in [Procs -> Passes], Advance(p)
  PROVE  proc' = [proc EXCEPT ![p] = Advanced(proc[p])]
BY DEF Advance, Advanced

\* A step of a pass: its own state goes from a to b, its row from r to q.
LEMMA PassUpdates ==
  ASSUME NEW a \in Passes, NEW s \in Signals, NEW seen \in Seen,
         NEW pc \in {"idle", "next", "posted", "marking", "failed", "retrying"}
  PROVE  /\ [a EXCEPT !.pc = pc, !.row = s] \in Passes
         /\ [a EXCEPT !.pc = pc, !.seen = seen] \in Passes
         /\ [a EXCEPT !.pc = pc] \in Passes
BY DEF Passes

-----------------------------------------------------------------------------
LEMMA TypeStep ==
  ASSUME OutboxInv, [Next]_vars
  PROVE  TypeOK'
<1>0. /\ outbox \in [Signals -> Rows] /\ received \in [Signals -> SUBSET Payloads]
      /\ crashes \in 0 .. MaxCrashes /\ proc \in [Procs -> Passes]
  BY Types DEF OutboxInv
<1> SUFFICES /\ outbox' \in [Signals -> Rows] /\ received' \in [Signals -> SUBSET Payloads]
             /\ crashes' \in 0 .. MaxCrashes /\ proc' \in [Procs -> Passes]
  BY Types DEF TypeOK, Rows, Passes, Seen
<1>1. CASE Tick
  <2>1. outbox' \in [Signals -> Rows]
    <3>1. outbox' = [s \in Signals |-> Elapsed(outbox[s])]
      BY <1>1 DEF Tick, Elapsed
    <3> QED
      BY <1>0, <3>1, ElapsedRow
  <2>2. ASSUME NEW p \in Procs, proc[p].pc # "idle"
        PROVE  [proc[p] EXCEPT !.age = @ + 1] \in Passes
    <3>1. proc[p] \in Passes /\ proc[p].age + 1 \in 0 .. PassTicks
      <4>1. proc[p] \in Passes /\ proc[p].age < PassTicks
        BY <1>0, <1>1, <2>2 DEF Tick
      <4>2. proc[p].age \in 0 .. PassTicks
        BY <4>1 DEF Passes
      <4> QED
        BY <4>1, <4>2, TicksAssumption
    <3> QED
      BY <3>1 DEF Passes
  <2>3. proc' \in [Procs -> Passes]
    BY <1>0, <1>1, <2>2 DEF Tick
  <2> QED
    BY <1>0, <1>1, <2>1, <2>3 DEF Tick
<1>2. ASSUME NEW s \in Signals, NEW payload \in Payloads, Enqueue(s, payload)
      PROVE  outbox' \in [Signals -> Rows] /\ UNCHANGED <<received, crashes, proc>>
  BY <1>0, <1>2, EnqueuedRow DEF Enqueue
<1>3. ASSUME NEW p \in Procs, ClaimDue(p)
      PROVE  outbox' \in [Signals -> Rows] /\ proc' \in [Procs -> Passes] /\ UNCHANGED <<received, crashes>>
  <2> DEFINE due == {s \in Signals : Due(outbox[s])}
             claimed == [Idle EXCEPT !.pc = "next", !.batch = due]
  <2>1. outbox' \in [Signals -> Rows]
    <3>1. outbox' = [s \in Signals |-> IF s \in due THEN Claimed(outbox[s]) ELSE outbox[s]]
      BY <1>3 DEF ClaimDue, Claimed
    <3> QED
      BY <1>0, <3>1, ClaimedRow
  <2>2. due \in SUBSET Signals
    OBVIOUS
  <2>3. claimed \in Passes
    BY Constants, <2>2, Zenon DEF Passes
  <2>4. proc' \in [Procs -> Passes]
    BY <1>0, <1>3, <2>3 DEF ClaimDue
  <2> QED
    BY <1>3, <2>1, <2>4 DEF ClaimDue
<1>4. ASSUME NEW p \in Procs, Crash(p)
      PROVE  proc' \in [Procs -> Passes] /\ crashes' \in 0 .. MaxCrashes /\ UNCHANGED <<outbox, received>>
  BY <1>0, <1>4, Constants, TicksAssumption DEF Crash, Abort
<1>5. ASSUME NEW p \in Procs, NEW s \in Signals, Publish(p, s)
      PROVE  proc' \in [Procs -> Passes] /\ received' \in [Signals -> SUBSET Payloads]
             /\ UNCHANGED <<outbox, crashes>>
  <2>1. outbox[s].payload \in Payloads
    BY <1>0, <1>5 DEF Publish, Turn, OutboxInv, PassIsTrue, RowIsTrue, Passes
  <2>2. received' \in [Signals -> SUBSET Payloads]
    BY <1>0, <1>5, <2>1 DEF Publish
  <2>3. PICK pc \in {"posted", "failed"} : proc' = [proc EXCEPT ![p].pc = pc, ![p].row = s]
    BY <1>5 DEF Publish
  <2>4. [proc[p] EXCEPT !.pc = pc, !.row = s] \in Passes
    BY <1>0, PassUpdates, Constants
  <2>5. proc' = [proc EXCEPT ![p] = [proc[p] EXCEPT !.pc = pc, !.row = s]]
    BY <1>0, <2>3
  <2> QED
    BY <1>0, <1>5, <2>2, <2>4, <2>5 DEF Publish
<1>6. ASSUME NEW s \in Signals, NEW age, Owns(outbox[s], age)
      PROVE  Read(outbox[s]) \in Seen
  BY <1>0, <1>6, AttemptsInNat DEF Owns, OutboxInv, RowIsTrue, Read, Seen, Rows, Settled
<1>7. ASSUME NEW p \in Procs, NEW s \in Signals, BeginMark(p, s)
      PROVE  proc' \in [Procs -> Passes] /\ UNCHANGED <<outbox, received, crashes>>
  BY <1>0, <1>6, <1>7, PassUpdates, Constants DEF BeginMark
<1>8. ASSUME NEW p \in Procs, NEW s \in Signals, BeginRetry(p, s)
      PROVE  proc' \in [Procs -> Passes] /\ UNCHANGED <<outbox, received, crashes>>
  <2>1. CASE Owns(outbox[s], proc[p].age)
    <3>1. [proc[p] EXCEPT !.pc = "retrying", !.seen = Read(outbox[s])] \in Passes
      BY <1>0, <1>6, <2>1, PassUpdates
    <3>2. proc' = [proc EXCEPT ![p] = [proc[p] EXCEPT !.pc = "retrying", !.seen = Read(outbox[s])]]
      BY <1>0, <1>8, <2>1 DEF BeginRetry
    <3> QED
      BY <1>0, <1>8, <3>1, <3>2 DEF BeginRetry
  <2>2. CASE ~Owns(outbox[s], proc[p].age)
    BY <1>0, <1>8, <2>2, Constants DEF BeginRetry, Abort
  <2> QED
    BY <2>1, <2>2
<1>9. ASSUME NEW p \in Procs, NEW s \in Signals, MarkPublished(p, s)
      PROVE  proc' \in [Procs -> Passes] /\ outbox' \in [Signals -> Rows] /\ UNCHANGED <<received, crashes>>
  <2>1. outbox' = [outbox EXCEPT ![s] = Published(outbox[s])]
    BY <1>0, <1>9 DEF MarkPublished, Published
  <2>2. outbox' \in [Signals -> Rows]
    BY <1>0, <2>1, PublishedRow
  <2>3. proc' \in [Procs -> Passes]
    BY <1>0, <1>9, AdvanceIs, AdvancedTyped DEF MarkPublished
  <2> QED
    BY <1>9, <2>2, <2>3 DEF MarkPublished
<1>10. ASSUME NEW p \in Procs, NEW s \in Signals, MarkRetry(p, s)
       PROVE  proc' \in [Procs -> Passes] /\ outbox' \in [Signals -> Rows] /\ UNCHANGED <<received, crashes>>
  <2>1. proc[p].seen.attempts \in 0 .. Attempts /\ proc[p].age \in 0 .. PassTicks
    BY <1>0 DEF Passes, Seen
  <2>2. Retried(outbox[s], proc[p].seen.attempts, proc[p].age) \in Rows
    BY <1>0, <2>1, RetryUpdate
  <2>3. outbox' \in [Signals -> Rows]
    BY <1>0, <1>10, <2>2 DEF MarkRetry
  <2>4. proc' \in [Procs -> Passes]
    BY <1>0, <1>10, AdvanceIs, AdvancedTyped DEF MarkRetry
  <2> QED
    BY <1>10, <2>3, <2>4 DEF MarkRetry
<1>11. CASE UNCHANGED vars
  BY <1>0, <1>11 DEF vars
<1> QED
  BY <1>0, <1>1, <1>2, <1>3, <1>4, <1>5, <1>7, <1>8, <1>9, <1>10, <1>11 DEF Next, PassStep

-----------------------------------------------------------------------------
\* One step keeps the rows true, loses none of them and withdraws no delivery.
LEMMA RowStep ==
  ASSUME OutboxInv, [Next]_vars, NEW s \in Signals
  PROVE  /\ RowIsTrue(s)'
         /\ outbox[s].status # "ABSENT" => outbox'[s].status # "ABSENT"
         /\ received[s] \subseteq received'[s]
<1>0. /\ outbox \in [Signals -> Rows] /\ received \in [Signals -> SUBSET Payloads]
      /\ proc \in [Procs -> Passes] /\ outbox[s] \in Rows /\ received[s] \subseteq Payloads
      /\ RowIsTrue(s) /\ Attempts \in Nat
  BY Types, AttemptsInNat DEF OutboxInv
<1> DEFINE Goal == /\ RowIsTrue(s)'
                   /\ outbox[s].status # "ABSENT" => outbox'[s].status # "ABSENT"
                   /\ received[s] \subseteq received'[s]
<1>1. ASSUME outbox'[s] = outbox[s], received' = received
      PROVE  Goal
  BY <1>0, <1>1 DEF RowIsTrue
<1>2. CASE Tick
  <2>1. outbox'[s] = Elapsed(outbox[s]) /\ received' = received
    BY <1>2 DEF Tick, Elapsed
  <2> QED
    BY <1>0, <2>1, ElapsedRow DEF RowIsTrue
<1>3. ASSUME NEW u \in Signals, NEW payload \in Payloads, Enqueue(u, payload)
      PROVE  Goal
  <2>1. /\ outbox'[s] = IF s = u THEN Enqueued(outbox[s], payload) ELSE outbox[s]
        /\ received' = received
    BY <1>0, <1>3 DEF Enqueue
  <2>2. "PENDING" \notin Settled /\ "ABSENT" \notin Settled
    BY DEF Settled
  <2> QED
    BY <1>0, <1>1, <2>1, <2>2, EnqueuedRow DEF RowIsTrue
<1>4. ASSUME NEW p \in Procs, ClaimDue(p)
      PROVE  Goal
  <2>1. received' = received /\ outbox'[s] = IF Due(outbox[s]) THEN Claimed(outbox[s]) ELSE outbox[s]
    BY <1>4 DEF ClaimDue, Claimed
  <2>2. Due(outbox[s]) => outbox[s].status \notin Settled /\ outbox[s].status # "ABSENT"
    BY DEF Due, Settled
  <2>3. "PUBLISHING" \notin Settled
    BY DEF Settled
  <2> QED
    BY <1>0, <1>1, <2>1, <2>2, <2>3, ClaimedRow DEF RowIsTrue
<1>5. ASSUME NEW p \in Procs, NEW u \in Signals, Publish(p, u)
      PROVE  Goal
  <2>1. /\ outbox' = outbox /\ received[s] \subseteq received'[s]
        /\ received'[s] = received[s] \/ (s = u /\ received'[s] \subseteq received[s] \cup {outbox[u].payload})
    BY <1>0, <1>5 DEF Publish
  <2>2. outbox[u].status # "ABSENT"
    BY <1>5 DEF Publish, Turn, OutboxInv, PassIsTrue
  <2> QED
    BY <1>0, <2>1, <2>2 DEF RowIsTrue
<1>6. ASSUME NEW p \in Procs, NEW u \in Signals, MarkPublished(p, u)
      PROVE  Goal
  <2>1. /\ outbox'[s] = IF s = u THEN Published(outbox[s]) ELSE outbox[s]
        /\ received' = received
    BY <1>0, <1>6 DEF MarkPublished, Published
  <2>2. proc[p].row = u /\ received[u] # {}
    BY <1>6 DEF MarkPublished, At, OutboxInv, PassIsTrue
  <2>3. "PUBLISHED" \in Settled
    BY DEF Settled
  <2> QED
    BY <1>0, <1>1, <2>1, <2>2, <2>3, PublishedRow DEF RowIsTrue
<1>7. ASSUME NEW p \in Procs, NEW u \in Signals, MarkRetry(p, u)
      PROVE  Goal
  <2>1. /\ outbox'[s] = IF s = u THEN Retried(outbox[s], proc[p].seen.attempts, proc[p].age) ELSE outbox[s]
        /\ received' = received
    BY <1>0, <1>7 DEF MarkRetry
  <2>2. /\ proc[p].row = u /\ proc[p].row \in Signals
        /\ proc[p].seen.attempts \in 0 .. Attempts /\ proc[p].age \in 0 .. PassTicks
    BY <1>0, <1>7 DEF MarkRetry, At, OutboxInv, PassIsTrue, Passes, Seen
  <2>3. CASE s = u
    <3> DEFINE retried == Retried(outbox[s], proc[p].seen.attempts, proc[p].age)
    <3>1. /\ retried \in Rows /\ retried.payload = outbox[s].payload /\ retried.status # "ABSENT"
          /\ retried.status # "PUBLISHED"
          /\ retried.status \in Settled => ~retried.leased /\ retried.wait = 0
          /\ retried.status \notin Settled => retried.attempts <= Attempts
      BY <1>0, <2>2, RetryUpdate
    <3>2. outbox'[s] = retried
      BY <2>1, <2>3
    <3> HIDE DEF retried
    <3>3. outbox[s].status # "ABSENT"
      BY <1>7, <2>2, <2>3 DEF OutboxInv, PassIsTrue, MarkRetry, At
    <3> QED
      BY <1>0, <2>1, <3>1, <3>2, <3>3 DEF RowIsTrue
  <2> QED
    BY <1>1, <2>1, <2>3
<1>8. ASSUME NEW p \in Procs, NEW u \in Signals, Crash(p) \/ BeginMark(p, u) \/ BeginRetry(p, u)
      PROVE  Goal
  BY <1>1, <1>8 DEF Crash, BeginMark, BeginRetry
<1>9. CASE UNCHANGED vars
  BY <1>1, <1>9 DEF vars
<1> QED
  BY <1>2, <1>3, <1>4, <1>5, <1>6, <1>7, <1>8, <1>9 DEF Next, PassStep

\* One step keeps what every pass knows true.
LEMMA PassStepTrue ==
  ASSUME OutboxInv, [Next]_vars, NEW q \in Procs
  PROVE  PassIsTrue(q)'
<1>0. /\ outbox \in [Signals -> Rows] /\ received \in [Signals -> SUBSET Payloads]
      /\ proc \in [Procs -> Passes] /\ PassIsTrue(q) /\ proc[q].batch \subseteq Signals
  BY Types DEF OutboxInv, Passes
<1>1. \A s \in Signals : /\ outbox[s].status # "ABSENT" => outbox'[s].status # "ABSENT"
                         /\ received[s] \subseteq received'[s]
  BY RowStep
<1>2. ASSUME proc'[q].batch = proc[q].batch, proc'[q].pc = proc[q].pc,
             proc'[q].row = proc[q].row, proc'[q].seen = proc[q].seen
      PROVE  PassIsTrue(q)'
  BY <1>0, <1>1, <1>2 DEF PassIsTrue
<1>3. ASSUME proc'[q].pc \in {"idle", "next"}, proc'[q].batch \subseteq proc[q].batch
      PROVE  PassIsTrue(q)'
  BY <1>0, <1>1, <1>3 DEF PassIsTrue
<1>4. CASE Tick
  BY <1>0, <1>2, <1>4 DEF Tick, Passes
<1>5. ASSUME NEW s \in Signals, NEW payload \in Payloads, Enqueue(s, payload)
      PROVE  PassIsTrue(q)'
  BY <1>2, <1>5 DEF Enqueue
<1>6. ASSUME NEW p \in Procs, ClaimDue(p)
      PROVE  PassIsTrue(q)'
  <2> DEFINE due == {s \in Signals : Due(outbox[s])}
  <2>1. CASE p = q
    <3>1. proc'[q].pc = "next" /\ proc'[q].batch = due
      BY <1>0, <1>6, <2>1 DEF ClaimDue, Idle
    <3>2. \A s \in due : outbox[s].status # "ABSENT"
      BY DEF Due
    <3> QED
      BY <1>1, <3>1, <3>2 DEF PassIsTrue
  <2>2. CASE p # q
    BY <1>0, <1>2, <1>6, <2>2 DEF ClaimDue
  <2> QED
    BY <2>1, <2>2
<1>7. ASSUME NEW p \in Procs, Abort(p)
      PROVE  PassIsTrue(q)'
  BY <1>0, <1>2, <1>3, <1>7 DEF Abort, Idle
<1>8. ASSUME NEW p \in Procs, NEW s \in Signals, Publish(p, s)
      PROVE  PassIsTrue(q)'
  <2>1. CASE p = q
    <3>1. /\ proc'[q].batch = proc[q].batch /\ proc'[q].row = s /\ s \in proc[q].batch
          /\ \/ proc'[q].pc = "posted" /\ received'[s] # {}
             \/ proc'[q].pc = "failed"
      <4>1. PICK accepted, ok \in BOOLEAN :
              /\ ok => accepted
              /\ received' = IF accepted THEN [received EXCEPT ![s] = @ \cup {outbox[s].payload}] ELSE received
              /\ proc' = [proc EXCEPT ![p].pc = IF ok THEN "posted" ELSE "failed", ![p].row = s]
        BY <1>8 DEF Publish
      <4>2. s \in proc[q].batch
        BY <1>8, <2>1 DEF Publish, Turn
      <4>3. proc'[q].batch = proc[q].batch /\ proc'[q].row = s
        BY <1>0, <2>1, <4>1 DEF Passes
      <4>4. CASE ok
        BY <1>0, <2>1, <4>1, <4>2, <4>3, <4>4 DEF Passes
      <4>5. CASE ~ok
        BY <1>0, <2>1, <4>1, <4>2, <4>3, <4>5 DEF Passes
      <4> QED
        BY <4>4, <4>5
    <3> QED
      BY <1>0, <1>1, <3>1 DEF PassIsTrue
  <2>2. CASE p # q
    BY <1>0, <1>2, <1>8, <2>2 DEF Publish
  <2> QED
    BY <2>1, <2>2
<1>9. ASSUME NEW p \in Procs, NEW s \in Signals, BeginMark(p, s)
      PROVE  PassIsTrue(q)'
  <2>1. CASE p = q
    <3>1. /\ proc'[q].batch = proc[q].batch /\ proc'[q].row = proc[q].row /\ proc[q].pc = "posted"
          /\ \/ proc'[q].pc = "marking" /\ proc'[q].seen.status = "PUBLISHING"
             \/ proc'[q].pc = "failed"
      BY <1>0, <1>9, <2>1 DEF BeginMark, At, Passes, Owns, Read
    <3> QED
      BY <1>0, <1>1, <3>1 DEF PassIsTrue
  <2>2. CASE p # q
    BY <1>0, <1>2, <1>9, <2>2 DEF BeginMark
  <2> QED
    BY <2>1, <2>2
<1>10. ASSUME NEW p \in Procs, NEW s \in Signals, BeginRetry(p, s)
       PROVE  PassIsTrue(q)'
  <2>1. CASE p = q /\ Owns(outbox[s], proc[p].age)
    <3>1. /\ proc'[q].batch = proc[q].batch /\ proc'[q].row = proc[q].row /\ proc[q].pc = "failed"
          /\ proc'[q].pc = "retrying" /\ proc'[q].seen.status = "PUBLISHING"
      BY <1>0, <1>10, <2>1 DEF BeginRetry, At, Passes, Owns, Read
    <3> QED
      BY <1>0, <1>1, <3>1 DEF PassIsTrue
  <2>2. CASE ~Owns(outbox[s], proc[p].age)
    BY <1>7, <1>10, <2>2 DEF BeginRetry
  <2>3. CASE p # q /\ Owns(outbox[s], proc[p].age)
    BY <1>0, <1>2, <1>10, <2>3 DEF BeginRetry
  <2> QED
    BY <2>1, <2>2, <2>3
<1>11. ASSUME NEW p \in Procs, Advance(p)
       PROVE  PassIsTrue(q)'
  <2>1. proc' = [proc EXCEPT ![p] = Advanced(proc[p])]
    BY <1>0, <1>11, AdvanceIs
  <2>2. CASE p = q
    BY <1>0, <1>3, <2>1, <2>2, AdvancedTyped
  <2>3. CASE p # q
    BY <1>0, <1>2, <2>1, <2>3
  <2> QED
    BY <2>2, <2>3
<1>12. CASE UNCHANGED vars
  BY <1>2, <1>12 DEF vars
<1> QED
  BY <1>4, <1>5, <1>6, <1>7, <1>8, <1>9, <1>10, <1>11, <1>12
  DEF Next, PassStep, Crash, MarkPublished, MarkRetry

-----------------------------------------------------------------------------
LEMMA OutboxInvInit == Init => OutboxInv
<1> SUFFICES ASSUME Init
             PROVE  OutboxInv
  OBVIOUS
<1>1. TypeOK
  BY TypeInit
<1>2. \A s \in Signals : RowIsTrue(s)
  BY AttemptsInNat DEF Init, RowIsTrue, NoRow, Settled
<1>3. \A p \in Procs : PassIsTrue(p)
  BY DEF Init, PassIsTrue, Idle
<1> QED
  BY <1>1, <1>2, <1>3 DEF OutboxInv

\* The invariant holds of every state that publications and publishers reach.
THEOREM OutboxInvariant == Spec => []OutboxInv
<1>1. OutboxInv /\ [Next]_vars => OutboxInv'
  BY TypeStep, RowStep, PassStepTrue DEF OutboxInv
<1> QED
  BY <1>1, OutboxInvInit, PTL DEF Spec

\* Every row and every pass keeps its shape (signal_outbox in models.py).
THEOREM TypeCorrect == Spec => []TypeOK
<1>1. OutboxInv => TypeOK
  BY DEF OutboxInv
<1> QED
  BY <1>1, OutboxInvariant, PTL

\* A published row was received and all the receiver ever gets under a signal's
\* idempotency key is the payload on record, whatever passes overlap under the one
\* worker id (run_once, mark_published, enqueue_in_session).
THEOREM DeliveredIsRecorded == Spec => []DeliveredAsRecorded
<1>1. OutboxInv => DeliveredAsRecorded
  BY DEF OutboxInv, RowIsTrue, DeliveredAsRecorded, PublishedWasReceived, OnePayloadPerSignal
<1> QED
  BY <1>1, OutboxInvariant, PTL

\* What one step does to a settled row.
LateMarkStep ==
  \A s \in Signals : outbox[s].status \in Settled /\ outbox'[s] # outbox[s] =>
    \E p \in Procs : /\ proc[p].row = s /\ proc[p].seen.status = "PUBLISHING"
                     /\ proc'[p] # proc[p]

LEMMA LateMarkSteps ==
  ASSUME OutboxInv, [Next]_vars
  PROVE  LateMarkStep
<1>0. /\ outbox \in [Signals -> Rows] /\ proc \in [Procs -> Passes]
  BY Types DEF OutboxInv
<1> SUFFICES ASSUME NEW s \in Signals, outbox[s].status \in Settled, outbox'[s] # outbox[s]
             PROVE  \E p \in Procs : /\ proc[p].row = s /\ proc[p].seen.status = "PUBLISHING"
                                     /\ proc'[p] # proc[p]
  BY DEF LateMarkStep
<1>1. ~Tick
  <2> SUFFICES ASSUME Tick
               PROVE  FALSE
    OBVIOUS
  <2>1. outbox'[s] = Elapsed(outbox[s])
    BY DEF Tick, Elapsed
  <2>2. ~outbox[s].leased /\ outbox[s].wait = 0
    BY DEF OutboxInv, RowIsTrue
  <2> QED
    BY <1>0, <2>1, <2>2, ElapsedRow
<1>2. ASSUME NEW u \in Signals, NEW payload \in Payloads
      PROVE  ~Enqueue(u, payload)
  BY <1>0, EnqueuedRow DEF Enqueue, Settled
<1>3. ASSUME NEW p \in Procs
      PROVE  ~ClaimDue(p)
  BY <1>0 DEF ClaimDue, Due, Settled
<1>4. PICK p \in Procs : MarkPublished(p, s) \/ MarkRetry(p, s)
  BY <1>0, <1>1, <1>2, <1>3
  DEF Next, PassStep, vars, Crash, Publish, BeginMark, BeginRetry, MarkPublished, MarkRetry
<1>5. proc[p].row = s /\ proc[p].pc \in {"marking", "retrying"}
  BY <1>4 DEF MarkPublished, MarkRetry, At
<1>6. proc'[p].pc \in {"idle", "next"}
  BY <1>0, <1>4, AdvanceIs, AdvancedTyped DEF MarkPublished, MarkRetry
<1> QED
  BY <1>5, <1>6 DEF OutboxInv, PassIsTrue

\* A settled row is put back only by a mark that read it while it was being
\* published: no claim, repeated publication or passage of time touches it
\* (mark_published, mark_retry).
THEOREM OnlyLateMarksUndo == Spec => UndoneOnlyByALateMark
<1>1. OutboxInv /\ [Next]_vars =>
        \A s \in Signals : outbox[s].status \in Settled /\ outbox'[s] # outbox[s] =>
          \E p \in Procs : /\ proc[p].row = s /\ proc[p].seen.status = "PUBLISHING"
                           /\ proc'[p] # proc[p]
  BY LateMarkSteps DEF LateMarkStep
<1> QED
  BY <1>1, OutboxInvariant, PTL DEF Spec, UndoneOnlyByALateMark
=============================================================================
