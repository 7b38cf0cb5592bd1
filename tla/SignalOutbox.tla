----------------------------- MODULE SignalOutbox -----------------------------
(***************************************************************************)
(* The signal outbox: a publication enqueues signals in its own            *)
(* transaction, and passes of SignalPublisherApplication.run_once claim    *)
(* due rows, post each to the receiver and record the outcome.  As in the  *)
(* verification worker a pass reads its clock once; `age' is the ticks     *)
(* since.  Every publisher process runs under the same worker id, and a    *)
(* claim has no token: what tells two passes apart is the row's status.    *)
(* mark_published and mark_retry read the row without a lock and update it *)
(* later: each is a read step and a write step, and `seen' is what the     *)
(* write relies on.                                                        *)
(*                                                                         *)
(* A signal is its number; a payload is one of two values, and a signal id *)
(* enqueued with another payload than its first is refused.  The receiver  *)
(* is external and keeps what it was sent.  Left out: the batch limit.     *)
(***************************************************************************)
EXTENDS Integers, Sequences, FiniteSets

CONSTANTS
  Signals,       \* numbered in order of created_at
  Payloads,
  Procs, NoSignal, NoPayload,
  LeaseTicks,
  RetryDelays,   \* OUTBOX_RETRY_SECONDS, in ticks
  PassTicks,     \* bound: ticks one pass may last
  MaxCrashes     \* bound on the deaths of publisher processes

ASSUME SignalsAssumption == Signals \subseteq Nat /\ NoSignal \notin Signals
ASSUME PayloadsAssumption == NoPayload \notin Payloads
ASSUME TicksAssumption == LeaseTicks \in Nat \ {0} /\ PassTicks \in Nat /\ MaxCrashes \in Nat
ASSUME DelaysAssumption == RetryDelays \in Seq(Nat)

VARIABLES
  outbox,    \* signal_outbox rows
  received,  \* receiver: the payloads accepted for each signal id
  crashes,
  proc       \* each publisher's pass

vars == <<outbox, received, crashes, proc>>

Statuses == {"ABSENT", "PENDING", "PUBLISHING", "RETRY", "PUBLISHED", "DEAD_LETTER"}
Settled == {"PUBLISHED", "DEAD_LETTER"}

Attempts == Len(RetryDelays)

\* lease_owner is the one worker id or NULL, that is leased or not.
NoRow == [status |-> "ABSENT", payload |-> NoPayload, leased |-> FALSE, left |-> 0,
          wait |-> 0, attempts |-> 0]

\* What a mark remembers of the row it read.
Read(r) == [status |-> r.status, attempts |-> r.attempts]
Idle == [pc |-> "idle", row |-> NoSignal, batch |-> {}, age |-> 0, seen |-> Read(NoRow)]

TypeOK ==
  /\ outbox \in [Signals -> [status : Statuses, payload : Payloads \cup {NoPayload},
                             leased : BOOLEAN, left : Int, wait : Nat,
                             attempts : 0 .. Attempts + 1]]
  /\ received \in [Signals -> SUBSET Payloads]
  /\ crashes \in 0 .. MaxCrashes
  /\ proc \in [Procs -> [pc : {"idle", "next", "posted", "marking", "failed", "retrying"},
                         row : Signals \cup {NoSignal}, batch : SUBSET Signals,
                         age : 0 .. PassTicks,
                         seen : [status : Statuses, attempts : 0 .. Attempts]]]

Init ==
  /\ outbox = [s \in Signals |-> NoRow]
  /\ received = [s \in Signals |-> {}]
  /\ crashes = 0
  /\ proc = [p \in Procs |-> Idle]

-----------------------------------------------------------------------------
\* enqueue_in_session: ON CONFLICT DO NOTHING, then a comparison.  A different
\* payload raises, which rolls the publication back: the row is untouched.
Enqueued(r, payload) ==
  IF r.status = "ABSENT" THEN [r EXCEPT !.status = "PENDING", !.payload = payload] ELSE r

Enqueue(s, payload) ==
  /\ \A u \in Signals : u < s => outbox[u].status # "ABSENT"
  /\ outbox' = [outbox EXCEPT ![s] = Enqueued(@, payload)]
  /\ UNCHANGED <<received, crashes, proc>>

\* Mutant: a row whose publisher died is not due again.
DueWaiting(r) == r.status \in {"PENDING", "RETRY"} /\ r.wait = 0

\* claim_due's WHERE clause.
Due(r) ==
  /\ r.status \in {"PENDING", "RETRY", "PUBLISHING"}
  /\ r.wait = 0
  /\ ~r.leased \/ r.left <= 0

ClaimDue(p) ==
  LET due == {s \in Signals : Due(outbox[s])} IN
  /\ proc[p].pc = "idle" /\ due # {}
  /\ outbox' = [s \in Signals |->
       IF s \in due
       THEN [outbox[s] EXCEPT !.status = "PUBLISHING", !.leased = TRUE, !.left = LeaseTicks]
       ELSE outbox[s]]
  /\ proc' = [proc EXCEPT ![p] = [Idle EXCEPT !.pc = "next", !.batch = due]]
  /\ UNCHANGED <<received, crashes>>

Turn(p, s) ==
  /\ proc[p].pc = "next" /\ s \in proc[p].batch
  /\ \A u \in proc[p].batch : s <= u

\* publish, with the payload as claimed (a row's payload never changes): the
\* receiver may have accepted it though the call failed.
Publish(p, s) ==
  LET sent == outbox[s].payload IN
  /\ Turn(p, s)
  /\ \E accepted, ok \in BOOLEAN :
       /\ ok => accepted
       /\ received' = IF accepted THEN [received EXCEPT ![s] = @ \cup {sent}] ELSE received
       /\ proc' = [proc EXCEPT ![p].pc = IF ok THEN "posted" ELSE "failed",
                               ![p].row = s]
  /\ UNCHANGED <<outbox, crashes>>

\* Mutant: nobody checks who publishes the row.
OwnsUnchecked(r, age) == TRUE

\* _assert_owner: the row is being published and, by the clock of the pass,
\* the lease is good.
Owns(r, age) == r.status = "PUBLISHING" /\ r.leased /\ r.left + age > 0

Cleared(r) == [r EXCEPT !.leased = FALSE, !.left = 0, !.wait = 0]

\* An exception ends the pass: the rest of its batch stays leased.
Abort(p) == proc' = [proc EXCEPT ![p] = Idle]

At(p, s, pc) == proc[p].pc = pc /\ proc[p].row = s

Advance(p) ==
  LET rest == proc[p].batch \ {proc[p].row} IN
  proc' = [proc EXCEPT ![p] =
             IF rest = {} THEN Idle
             ELSE [@ EXCEPT !.pc = "next", !.row = NoSignal, !.batch = rest,
                            !.seen = Read(NoRow)]]

\* mark_published reads the row.  Its refusal is caught and sends the row the
\* way of a failed call.
BeginMark(p, s) ==
  /\ At(p, s, "posted")
  /\ proc' = [proc EXCEPT ![p] =
                IF Owns(outbox[s], proc[p].age)
                THEN [@ EXCEPT !.pc = "marking", !.seen = Read(outbox[s])]
                ELSE [@ EXCEPT !.pc = "failed"]]
  /\ UNCHANGED <<outbox, received, crashes>>

\* Mutant: the row is marked whatever came of the call.
MarkPublishedEarly(p, s) ==
  /\ proc[p].pc \in {"marking", "failed"} /\ proc[p].row = s
  /\ outbox' = [outbox EXCEPT ![s] = [Cleared(@) EXCEPT !.status = "PUBLISHED"]]
  /\ Advance(p)
  /\ UNCHANGED <<received, crashes>>

MarkPublished(p, s) ==
  /\ At(p, s, "marking")
  /\ outbox' = [outbox EXCEPT ![s] = [Cleared(@) EXCEPT !.status = "PUBLISHED"]]
  /\ Advance(p)
  /\ UNCHANGED <<received, crashes>>

AtMost(a, b) == IF a < b THEN a ELSE b

\* mark_retry's update of the row r; next_attempt_at counts from the start of
\* the pass.
Retried(r, attempts, age) ==
  IF attempts + 1 > Attempts
  THEN [Cleared(r) EXCEPT !.attempts = attempts + 1, !.status = "DEAD_LETTER"]
  ELSE [Cleared(r) EXCEPT !.attempts = attempts + 1, !.status = "RETRY",
          !.wait = RetryDelays[attempts + 1] - AtMost(age, RetryDelays[attempts + 1])]

\* mark_retry is called in the except clause: if it raises too, the pass ends.
BeginRetry(p, s) ==
  /\ At(p, s, "failed")
  /\ IF Owns(outbox[s], proc[p].age)
     THEN proc' = [proc EXCEPT ![p].pc = "retrying", ![p].seen = Read(outbox[s])]
     ELSE Abort(p)
  /\ UNCHANGED <<outbox, received, crashes>>

MarkRetry(p, s) ==
  /\ At(p, s, "retrying")
  /\ outbox' = [outbox EXCEPT ![s] = Retried(@, proc[p].seen.attempts, proc[p].age)]
  /\ Advance(p)
  /\ UNCHANGED <<received, crashes>>

Crash(p) ==
  /\ proc[p].pc # "idle" /\ crashes < MaxCrashes
  /\ Abort(p)
  /\ crashes' = crashes + 1
  /\ UNCHANGED <<outbox, received>>

Tick ==
  /\ \A p \in Procs : proc[p].pc # "idle" => proc[p].age < PassTicks
  /\ outbox' = [s \in Signals |->
       [outbox[s] EXCEPT !.left = IF outbox[s].leased /\ @ > -PassTicks THEN @ - 1 ELSE @,
                         !.wait = IF @ > 0 THEN @ - 1 ELSE 0]]
  /\ proc' = [p \in Procs |->
       IF proc[p].pc = "idle" THEN proc[p] ELSE [proc[p] EXCEPT !.age = @ + 1]]
  /\ UNCHANGED <<received, crashes>>

PassStep(p, s) ==
  \/ Publish(p, s) \/ BeginMark(p, s) \/ MarkPublished(p, s)
  \/ BeginRetry(p, s) \/ MarkRetry(p, s)

Next ==
  \/ Tick
  \/ \E s \in Signals : \E payload \in Payloads : Enqueue(s, payload)
  \/ \E p \in Procs : ClaimDue(p) \/ Crash(p) \/ \E s \in Signals : PassStep(p, s)

Spec == Init /\ [][Next]_vars

\* Time passes, publishers poll, and the calls of a pass return or raise.
Fairness ==
  /\ WF_vars(Tick)
  /\ \A p \in Procs : WF_vars(ClaimDue(p)) /\ WF_vars(\E s \in Signals : PassStep(p, s))

FairSpec == Spec /\ Fairness

-----------------------------------------------------------------------------
\* A row is PUBLISHED only if the receiver has its signal, although passes with
\* one worker id overlap and mark each other's rows (run_once, mark_published).
PublishedWasReceived ==
  \A s \in Signals : outbox[s].status = "PUBLISHED" => received[s] # {}

\* Redelivery repeats, it never contradicts: all the receiver ever gets under
\* one signal id, the idempotency key, is one payload, the one on record.
OnePayloadPerSignal ==
  \A s \in Signals : received[s] \subseteq {outbox[s].payload}

\* What the outbox says of a signal is what the receiver has of it: published
\* means received, and redeliveries never bring another payload.
DeliveredAsRecorded == PublishedWasReceived /\ OnePayloadPerSignal

\* A settled row is put back only by a mark that had read it before it was
\* settled: no claim and no repeated publication touches it again.
UndoneOnlyByALateMark ==
  [][\A s \in Signals : outbox[s].status \in Settled /\ outbox'[s] # outbox[s] =>
       \E p \in Procs : /\ proc[p].row = s /\ proc[p].seen.status = "PUBLISHING"
                        /\ proc'[p] # proc[p]]_vars

\* Every signal that was enqueued is published or dead-lettered in the end.
EverySignalSettles ==
  \A s \in Signals : outbox[s].status = "PENDING" ~> outbox[s].status \in Settled
=============================================================================
