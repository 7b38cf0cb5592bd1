------------------------------ MODULE SourceHeads ------------------------------
(***************************************************************************)
(* Content snapshots and the head of each source.  Two writers move a      *)
(* head: SnapshotRecordingStage, which publishes an ingest under the locks *)
(* of its claims, and VerificationRefreshService.complete, which publishes *)
(* the answer of one verification job on top of an older snapshot.         *)
(*                                                                         *)
(* A claim is a hash of its content, so sources share claims, and all of   *)
(* them share the claim's one job.  An ingest fixes its snapshot time when *)
(* its occurrences are written and publishes several stages later; a pass  *)
(* reads its clock when it leases the job and completes after the provider *)
(* has returned.  Both publish with the older time.                        *)
(*                                                                         *)
(* Each publication is one step: it holds the claim locks from its first   *)
(* read to its commit, and the row of the head from the moment it looks at *)
(* it.  The pass reads the job before it has the lock (VerificationJobs),  *)
(* and its parent in an earlier transaction.                               *)
(*                                                                         *)
(* Left out: claims that need no external answer, the retry schedule       *)
(* (here the lease of an abandoned pass runs out), the TaskRun and, since   *)
(* it stops their passes, manual retries (all in VerificationJobs), the     *)
(* artifacts, signals and state events written in the same transactions,   *)
(* answers under another version of the rules (there is one version here), *)
(* and a publication repeated under a snapshot id that is there, which      *)
(* writes nothing.                                                         *)
(***************************************************************************)
EXTENDS VerificationWorkers, Naturals, FiniteSets

CONSTANTS
  Sources, Claims,
  Contents,      \* Sources -> the sets of claims an ingest of it may find
  Ingests,       \* the workers that ingest
  Statuses,      \* what a provider may answer; VERIFIED is one of them
  Pending,       \* the view of a claim that has no answer
  SnapshotIds,   \* hashes: ordered, but in no order of time.  Bounds the snapshots
  MaxTime        \* bound on the clock

ASSUME SnapshotIdsAssumption == SnapshotIds \subseteq Nat \ {0}
ASSUME ContentsAssumption == Contents \in [Sources -> SUBSET SUBSET Claims]
ASSUME TimeAssumption == MaxTime \in Nat /\ LeaseTicks \in Nat
ASSUME PendingAssumption == Pending \notin [at : 0 .. MaxTime, status : Statuses]

VARIABLES
  clock,
  snapshots,  \* content_snapshot; `planned' is the instant of the ingest its parents lead to
  head,       \* content_source_head.latest_snapshot_id; updated_at is its created_at
  verified,   \* content_source_head.latest_verified_snapshot_id
  jobs,       \* claim_verification_job
  results,    \* claim_verification_result, by claim
  ingest,     \* the ingests between the fixing of their time and publication
  pass        \* the verification passes

vars == <<clock, snapshots, head, verified, jobs, results, ingest, pass>>

Times == 0 .. MaxTime
Results == [at : Times, status : Statuses]   \* at: available_at
None == 0

NoJob == [status |-> "ABSENT", owner |-> NoWorker, until |-> 0, created |-> 0]
NoIngest == [source |-> None, claims |-> {}, at |-> 0]
NoPass == [pc |-> "idle", claim |-> None, now |-> 0, parent |-> None, mine |-> FALSE]

Made == DOMAIN snapshots
Snapshots ==
  UNION {[source : Sources, at : Times, planned : Times, view : [members -> Results \cup {Pending}]] :
           members \in SUBSET Claims}

TypeOK ==
  /\ clock \in Times
  /\ Made \subseteq SnapshotIds /\ \A i \in Made : snapshots[i] \in Snapshots
  /\ head \in [Sources -> Made \cup {None}] /\ verified \in [Sources -> Made \cup {None}]
  /\ jobs \in [Claims -> [status : {"ABSENT", "PENDING", "LEASED", "DONE"},
                          owner : WorkerIds \cup {NoWorker}, until : Nat, created : Times]]
  /\ results \in [Claims -> SUBSET Results]
  /\ ingest \in [Ingests -> [source : Sources \cup {None}, claims : SUBSET Claims, at : Times]]
  /\ pass \in [Workers -> [pc : {"idle", "call", "resolved", "completing"},
                           claim : Claims \cup {None}, now : Times,
                           parent : Made \cup {None}, mine : BOOLEAN]]

\* Bound: whatever is begun has a snapshot id left to end with.
Room ==
  Cardinality(Made) + Cardinality({p \in Ingests : ingest[p] # NoIngest})
    + Cardinality({w \in Workers : pass[w] # NoPass}) < Cardinality(SnapshotIds)

Init ==
  /\ clock = 0
  /\ snapshots = [i \in {} |-> NoIngest]
  /\ head = [s \in Sources |-> None] /\ verified = [s \in Sources |-> None]
  /\ jobs = [c \in Claims |-> NoJob]
  /\ results = [c \in Claims |-> {}]
  /\ ingest = [p \in Ingests |-> NoIngest]
  /\ pass = [w \in Workers |-> NoPass]

-----------------------------------------------------------------------------
Members(i) == DOMAIN snapshots[i].view

\* The order of (created_at, content_snapshot_id).
Newer(at, i, than) ==
  \/ than = None
  \/ at > snapshots[than].at
  \/ at = snapshots[than].at /\ i > than

With(i, snapshot) == [k \in Made \cup {i} |-> IF k = i THEN snapshot ELSE snapshots[k]]

\* What verify_initial_verification_closure demands of the entries of a
\* snapshot taken at `at': every job existed, every answer was available.
Closed(view, at, created, recorded) ==
  \A c \in DOMAIN view :
    IF view[c] = Pending THEN created[c] <= at
    ELSE view[c] \in recorded[c] /\ view[c].at <= at

-----------------------------------------------------------------------------
\* ClaimOccurrencePersistenceStage fixes the snapshot time.
BeginIngest(p, s, claims) ==
  /\ ingest[p] = NoIngest /\ claims \in Contents[s] /\ Room
  /\ ingest' = [ingest EXCEPT ![p] = [source |-> s, claims |-> claims, at |-> clock]]
  /\ UNCHANGED <<clock, snapshots, head, verified, jobs, results, pass>>

Available(c, at) == {r \in results[c] : r.at <= at}

\* Mutant: the planner always starts a claim afresh.
PlannedAfresh(c, at) == Pending

\* The entry planned for a claim: latest_terminal_as_of, or a job.  Two answers
\* of one instant are ordered by their hashes.
Planned(c, at) ==
  LET known == Available(c, at) IN
  IF known = {} THEN Pending
  ELSE CHOOSE r \in known : \A other \in known : other.at <= r.at

\* Mutant: the insert of a planned job overwrites an existing one's creation.
JobsForUpserted(view, at) ==
  [c \in Claims |->
     IF c \in DOMAIN view /\ view[c] = Pending
     THEN [(IF jobs[c].status = "ABSENT" THEN [NoJob EXCEPT !.status = "PENDING"] ELSE jobs[c])
             EXCEPT !.created = at]
     ELSE jobs[c]]

\* The insert of a planned job leaves an existing one alone.
JobsFor(view, at) ==
  [c \in Claims |->
     IF c \in DOMAIN view /\ view[c] = Pending /\ jobs[c].status = "ABSENT"
     THEN [NoJob EXCEPT !.status = "PENDING", !.created = at]
     ELSE jobs[c]]

PlanOf(p) == [c \in ingest[p].claims |-> Planned(c, ingest[p].at)]

Refuses(p) ==
  LET planned == JobsFor(PlanOf(p), ingest[p].at) IN
  ~Closed(PlanOf(p), ingest[p].at, [c \in Claims |-> planned[c].created], results)

\* Mutant: the last to commit is the head.
UpsertedLast(s, i, at) == i

\* _upsert_source_head
Upserted(s, i, at) == IF Newer(at, i, head[s]) THEN i ELSE head[s]

Publish(p, i) ==
  LET s == ingest[p].source
      at == ingest[p].at
  IN
  /\ ingest[p] # NoIngest /\ ~Refuses(p)
  /\ i \in SnapshotIds \ Made
  /\ jobs' = JobsFor(PlanOf(p), at)
  /\ snapshots' = With(i, [source |-> s, at |-> at, planned |-> at, view |-> PlanOf(p)])
  /\ head' = [head EXCEPT ![s] = Upserted(s, i, at)]
  /\ ingest' = [ingest EXCEPT ![p] = NoIngest]
  /\ UNCHANGED <<clock, verified, results, pass>>

\* CONTENT_SNAPSHOT_PERSIST_FAILED: nothing is published.
PublishRefused(p) ==
  /\ ingest[p] # NoIngest /\ Refuses(p)
  /\ ingest' = [ingest EXCEPT ![p] = NoIngest]
  /\ UNCHANGED <<clock, snapshots, head, verified, jobs, results, pass>>

-----------------------------------------------------------------------------
Due(c) ==
  \/ jobs[c].status = "PENDING"
  \/ jobs[c].status = "LEASED" /\ jobs[c].until <= clock

ClaimDue(w, c) ==
  /\ pass[w].pc = "idle" /\ Due(c) /\ Room
  /\ jobs' = [jobs EXCEPT ![c].status = "LEASED", ![c].owner = WorkerOf[w], ![c].until = clock + LeaseTicks]
  /\ pass' = [pass EXCEPT ![w] = [NoPass EXCEPT !.pc = "call", !.claim = c, !.now = clock]]
  /\ UNCHANGED <<clock, snapshots, head, verified, results, ingest>>

\* resolve_parent_snapshot_id, after the provider has answered.
ResolveParent(w) ==
  /\ pass[w].pc = "call"
  /\ \E i \in Made :
       /\ pass[w].claim \in Members(i)
       /\ \A k \in Made \ {i} : pass[w].claim \in Members(k) => Newer(snapshots[i].at, i, k)
       /\ pass' = [pass EXCEPT ![w].pc = "resolved", ![w].parent = i]
  /\ UNCHANGED <<clock, snapshots, head, verified, jobs, results, ingest>>

\* complete reads the job, then waits for the lock of its claim.
BeginComplete(w) ==
  LET job == jobs[pass[w].claim] IN
  /\ pass[w].pc = "resolved"
  /\ pass' = [pass EXCEPT ![w].pc = "completing",
                          ![w].mine = job.owner = WorkerOf[w] /\ job.status = "LEASED"]
  /\ UNCHANGED <<clock, snapshots, head, verified, jobs, results, ingest>>

\* Mutant: the parent the pass resolved before.
RequestedParent(c, requested) == requested

\* The locked head if it has the claim, else the parent the pass resolved.
Parent(c, requested) ==
  LET current == head[snapshots[requested].source] IN
  IF current # None /\ c \in Members(current) THEN current ELSE requested

Later(a, b) == IF a > b THEN a ELSE b

\* The parent's view with one answer replaced, no older than the parent.
Refreshed(parent, c, r) ==
  [source |-> snapshots[parent].source,
   at |-> Later(r.at, snapshots[parent].at),
   planned |-> snapshots[parent].planned,
   view |-> [snapshots[parent].view EXCEPT ![c] = r]]

\* verification_timestamp and available_at are the time of the pass, and two
\* passes lease the job at different times: an answer is never on record yet.
Answer(w, status) == [at |-> pass[w].now, status |-> status]

ClosedRefresh(w, status) ==
  LET c == pass[w].claim
      r == Answer(w, status)
      refreshed == Refreshed(Parent(c, pass[w].parent), c, r)
  IN Closed(refreshed.view, refreshed.at, [k \in Claims |-> jobs[k].created],
            [results EXCEPT ![c] = @ \cup {r}])

Done(c) == jobs' = [jobs EXCEPT ![c].status = "DONE", ![c].owner = NoWorker, ![c].until = 0]
EndPass(w) == pass' = [pass EXCEPT ![w] = NoPass]

Complete(w, status, i) ==
  LET c == pass[w].claim
      r == Answer(w, status)
      parent == Parent(c, pass[w].parent)
      s == snapshots[parent].source
      onHead == head[s] = parent
  IN
  /\ pass[w].pc = "completing" /\ pass[w].mine
  /\ ClosedRefresh(w, status)
  /\ i \in SnapshotIds \ Made
  /\ results' = [results EXCEPT ![c] = @ \cup {r}]
  /\ snapshots' = With(i, Refreshed(parent, c, r))
  /\ head' = IF onHead THEN [head EXCEPT ![s] = i] ELSE head
  /\ verified' = IF onHead /\ status = "VERIFIED" THEN [verified EXCEPT ![s] = i] ELSE verified
  /\ Done(c) /\ EndPass(w)
  /\ UNCHANGED <<clock, ingest>>

\* The provider fails, the lease was lost, the refresh is rolled back, or the
\* worker dies.
Abandon(w) ==
  /\ pass[w].pc \in {"call", "completing"}
  /\ EndPass(w)
  /\ UNCHANGED <<clock, snapshots, head, verified, jobs, results, ingest>>

Tick ==
  /\ clock < MaxTime
  /\ clock' = clock + 1
  /\ UNCHANGED <<snapshots, head, verified, jobs, results, ingest, pass>>

Next ==
  \/ Tick
  \/ \E p \in Ingests :
       \/ \E s \in Sources : \E claims \in Contents[s] : BeginIngest(p, s, claims)
       \/ \E i \in SnapshotIds : Publish(p, i)
       \/ PublishRefused(p)
  \/ \E w \in Workers : \E c \in Claims : ClaimDue(w, c)
  \/ \E w \in Workers :
       \/ ResolveParent(w) \/ BeginComplete(w) \/ Abandon(w)
       \/ \E status \in Statuses : \E i \in SnapshotIds : Complete(w, status, i)

Spec == Init /\ [][Next]_vars

-----------------------------------------------------------------------------
\* What the head of a source shows.
Shown(s) == IF head[s] = None THEN [c \in {} |-> Pending] ELSE snapshots[head[s]].view

\* "The transaction that commits last cannot roll the head back to an older
\* snapshot": neither the head nor the verified head (_upsert_source_head, 825-834;
\* complete, 280-286).
HeadsNeverGoBack ==
  [][\A s \in Sources :
       /\ head[s] # None => snapshots'[head'[s]].at >= snapshots[head[s]].at
       /\ verified[s] # None => snapshots'[verified'[s]].at >= snapshots[verified[s]].at]_vars

\* Once the head of a source shows an answer for a claim it shows one as long as
\* it has the claim, whatever is ingested or refreshed with an older time or
\* parent: "all sibling claims remain represented" (complete, 144-149, 182-183).
AnswersStay ==
  [][\A s \in Sources : \A c \in DOMAIN Shown(s) \cap DOMAIN Shown(s)' :
       Shown(s)[c] # Pending => Shown(s)'[c] # Pending]_vars

\* The answer of a pass shows on the head of the source it resolved its parent
\* from if that head still has the claim, however stale the parent is
\* (complete, 150-170 and 280-286).
AnswerReachesHead ==
  [][\A w \in Workers : \A s \in Sources : \A c \in DOMAIN Shown(s) :
       /\ pass[w].pc = "completing" /\ pass[w].claim = c
       /\ snapshots[pass[w].parent].source = s
       /\ pass'[w] = NoPass /\ results'[c] # results[c]
       => Shown(s)'[c] \in results'[c] \ results[c]]_vars

\* An answer reaches the head it was asked for and stays there.
AnswersReachAndStay == AnswersStay /\ AnswerReachesHead

\* _validate_verification_closure: each entry of a snapshot, against the rows as
\* they are when it is replayed.
HistoricallyClosed(i) ==
  \A c \in Members(i) :
    LET entry == snapshots[i].view[c] IN
    IF entry = Pending THEN jobs[c].status # "ABSENT" /\ jobs[c].created <= snapshots[i].at
    ELSE entry \in results[c] /\ entry.at <= snapshots[i].at

\* What the replay of a snapshot finds at any later time.  Its entries are still
\* those of its own instant, whatever the jobs have become since.  And a claim is
\* pending on a head only if no answer was available when the ingest behind the
\* head fixed its time, or the answer went to a snapshot of another source that
\* shares the claim (_active_job, latest_terminal_as_of, complete 150-183).
PendingIsExcused(s, c) ==
  \/ Available(c, snapshots[head[s]].planned) = {}
  \/ \E i \in Made : snapshots[i].source # s /\ c \in Members(i) /\ snapshots[i].view[c] # Pending

AuditsForEver ==
  /\ \A i \in Made : HistoricallyClosed(i)
  /\ \A s \in Sources : \A c \in DOMAIN Shown(s) :
       Shown(s)[c] = Pending => PendingIsExcused(s, c)
=============================================================================
