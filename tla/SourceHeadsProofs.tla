--------------------------- MODULE SourceHeadsProofs ---------------------------
(***************************************************************************)
(* Proofs about SourceHeads for every set of sources, claims and workers,  *)
(* every assignment of worker ids and contents, every lease and any number *)
(* of snapshots; and, in the second part, about VerificationJobs, the queue *)
(* the same workers' passes take their jobs from.                          *)
(***************************************************************************)
EXTENDS SourceHeads, VerificationJobs, TLAPS, WellFoundedInduction

HeadsOfTheirSource ==
  \A s \in Sources : head[s] # None => snapshots[head[s]].source = s

VerifiedBehindHead ==
  \A s \in Sources : verified[s] # None =>
    head[s] # None /\ snapshots[verified[s]].at <= snapshots[head[s]].at

IngestsHaveSources == \A p \in Ingests : ingest[p] # NoIngest => ingest[p].source \in Sources

\* What a pass has resolved stays a snapshot of its claim.
PassesHaveParents ==
  \A w \in Workers :
    /\ pass[w].pc # "idle" => pass[w].claim \in Claims
    /\ pass[w].pc \in {"resolved", "completing"} =>
         pass[w].parent \in Made /\ pass[w].claim \in Members(pass[w].parent)

\* The inductive invariant: a head that lacks an available answer can only have
\* missed it to another source, because a completion looks at the head again.
HeadsInv ==
  /\ TypeOK /\ HeadsOfTheirSource /\ VerifiedBehindHead
  /\ IngestsHaveSources /\ PassesHaveParents /\ AuditsForEver

-----------------------------------------------------------------------------
\* None is no snapshot.
LEMMA NoneIsNoId ==
  ASSUME TypeOK
  PROVE  /\ None \notin Made /\ Made \subseteq Nat
         /\ \A s \in Sources : head[s] # None => head[s] \in Made
         /\ \A s \in Sources : verified[s] # None => verified[s] \in Made
BY SnapshotIdsAssumption DEF TypeOK, None

\* The parts of a snapshot.
LEMMA SnapshotParts ==
  ASSUME NEW x \in Snapshots
  PROVE  /\ x.source \in Sources /\ x.at \in Times /\ x.planned \in Times
         /\ DOMAIN x.view \subseteq Claims
         /\ \A c \in DOMAIN x.view : x.view[c] \in Results \cup {Pending}
<1>1. PICK members \in SUBSET Claims :
        x \in [source : Sources, at : Times, planned : Times,
               view : [members -> Results \cup {Pending}]]
  BY DEF Snapshots
<1> QED
  BY <1>1

LEMMA MembersAreClaims ==
  ASSUME TypeOK, NEW k \in Made
  PROVE  Members(k) \subseteq Claims
<1>1. snapshots[k] \in Snapshots
  BY DEF TypeOK
<1> QED
  BY <1>1, SnapshotParts DEF Members

LEMMA SnapshotTyped ==
  ASSUME NEW s \in Sources, NEW at \in Times, NEW planned \in Times,
         NEW members \in SUBSET Claims, NEW view \in [members -> Results \cup {Pending}]
  PROVE  [source |-> s, at |-> at, planned |-> planned, view |-> view] \in Snapshots
BY DEF Snapshots

\* Of the answers on record one is the latest.
LEMMA LatestExists ==
  ASSUME NEW known \in SUBSET Results, known # {}
  PROVE  \E r \in known : \A other \in known : other.at <= r.at
<1> DEFINE ages == {MaxTime - r.at : r \in known}
           Less == OpToRel(<, Nat)
<1>0. \A r \in known : r.at \in Int /\ r.at <= MaxTime /\ MaxTime - r.at \in Nat
  BY TimeAssumption DEF Results, Times
<1>1. ages \subseteq Nat /\ ages # {}
  BY <1>0
<1>2. IsWellFoundedOn(Less, Nat)
  BY NatLessThanWellFounded
<1>3. PICK age \in ages : \A other \in ages : ~ (<<other, age>> \in Less)
  <2> HIDE DEF ages, Less
  <2> QED
    BY <1>1, <1>2, WFMin
<1>4. PICK r \in known : age = MaxTime - r.at
  BY <1>3
<1>5. ASSUME NEW other \in known
      PROVE  other.at <= r.at
  <2>1. MaxTime - other.at \in ages /\ MaxTime - other.at \in Nat /\ age \in Nat
    BY <1>0, <1>1
  <2>2. ~ (MaxTime - other.at < age)
    BY <1>3, <2>1 DEF OpToRel
  <2> QED
    BY <2>2, <1>0, <1>4, TimeAssumption
<1> QED
  BY <1>5

LEMMA PendingIsNoResult == Pending \notin Results
BY PendingAssumption DEF Results, Times

\* An entry is planned pending exactly when no answer is available.
LEMMA PlannedEntry ==
  ASSUME TypeOK, NEW c \in Claims, NEW at \in Times
  PROVE  /\ Planned(c, at) = Pending <=> Available(c, at) = {}
         /\ Planned(c, at) # Pending => Planned(c, at) \in Available(c, at)
         /\ Planned(c, at) \in Results \cup {Pending}
<1>1. Available(c, at) \subseteq Results
  BY DEF Available, TypeOK
<1>2. CASE Available(c, at) = {}
  BY <1>2 DEF Planned
<1>3. CASE Available(c, at) # {}
  <2>1. \E r \in Available(c, at) : \A other \in Available(c, at) : other.at <= r.at
    BY <1>1, <1>3, LatestExists
  <2>2. Planned(c, at) \in Available(c, at)
    BY <2>1, <1>3 DEF Planned
  <2> QED
    BY <2>2, <1>1, <1>3, PendingIsNoResult
<1> QED
  BY <1>2, <1>3

-----------------------------------------------------------------------------
\* A step adds one snapshot and leaves the others as they are.
Adds(i, x) ==
  /\ i \in SnapshotIds /\ i \notin Made
  /\ Made' = Made \cup {i}
  /\ snapshots'[i] = x
  /\ \A k \in Made : snapshots'[k] = snapshots[k]

LEMMA WithAdds ==
  ASSUME NEW i \in SnapshotIds \ Made, NEW x, snapshots' = With(i, x)
  PROVE  Adds(i, x)
BY DEF Adds, With, Made

JobRows == [status : {"ABSENT", "PENDING", "LEASED", "DONE"},
         owner : WorkerIds \cup {NoWorker}, until : Nat, created : Times]

\* Jobs keep their types, and once there keep their creation; a pending entry
\* has a job.
LEMMA JobsForKeeps ==
  ASSUME TypeOK, NEW at \in Times, NEW view
  PROVE  /\ JobsFor(view, at) \in [Claims -> JobRows]
         /\ \A c \in Claims : jobs[c].status # "ABSENT" => JobsFor(view, at)[c] = jobs[c]
         /\ \A c \in Claims \cap DOMAIN view : view[c] = Pending => JobsFor(view, at)[c].status # "ABSENT"
<1> DEFINE fresh == [NoJob EXCEPT !.status = "PENDING", !.created = at]
<1>1. fresh \in JobRows /\ fresh.status = "PENDING"
  BY DEF NoJob, JobRows
<1>2. \A c \in Claims : jobs[c] \in JobRows
  BY DEF TypeOK, JobRows
<1>3. JobsFor(view, at) = [c \in Claims |->
        IF c \in DOMAIN view /\ view[c] = Pending /\ jobs[c].status = "ABSENT" THEN fresh ELSE jobs[c]]
  BY DEF JobsFor
<1> HIDE DEF fresh
<1>4. JobsFor(view, at) \in [Claims -> JobRows]
  BY <1>1, <1>2, <1>3
<1>5. \A c \in Claims : jobs[c].status # "ABSENT" => JobsFor(view, at)[c] = jobs[c]
  BY <1>3
<1>6. \A c \in Claims \cap DOMAIN view : view[c] = Pending => JobsFor(view, at)[c].status # "ABSENT"
  BY <1>1, <1>3
<1> QED
  BY <1>4, <1>5, <1>6

\* The snapshot an ingest publishes.
Ingested(p) ==
  [source |-> ingest[p].source, at |-> ingest[p].at, planned |-> ingest[p].at, view |-> PlanOf(p)]

LEMMA PublishAdds ==
  ASSUME TypeOK, IngestsHaveSources, NEW p \in Ingests, NEW i \in SnapshotIds, Publish(p, i)
  PROVE  /\ Adds(i, Ingested(p)) /\ Ingested(p) \in Snapshots
         /\ ingest[p].source \in Sources /\ ingest[p].at \in Times
         /\ PlanOf(p) \in [ingest[p].claims -> Results \cup {Pending}]
         /\ ingest[p].claims \subseteq Claims
         /\ \A c \in ingest[p].claims : PlanOf(p)[c] = Planned(c, ingest[p].at)
<1>1. /\ ingest[p].source \in Sources /\ ingest[p].at \in Times
      /\ ingest[p].claims \subseteq Claims
  BY DEF TypeOK, IngestsHaveSources, Publish
<1>2. /\ \A c \in ingest[p].claims : PlanOf(p)[c] = Planned(c, ingest[p].at)
      /\ PlanOf(p) \in [ingest[p].claims -> Results \cup {Pending}]
  BY <1>1, PlannedEntry DEF PlanOf
<1>3. Adds(i, Ingested(p))
  BY WithAdds DEF Publish, Ingested
<1>4. Ingested(p) \in Snapshots
  BY <1>1, <1>2, SnapshotTyped DEF Ingested
<1> QED
  BY <1>1, <1>2, <1>3, <1>4

\* The snapshot a completion publishes: its parent's with one answer more.
LEMMA RefreshedFacts ==
  ASSUME TypeOK, NEW parent \in Made, NEW c \in Members(parent), NEW r \in Results
  PROVE  /\ Refreshed(parent, c, r) \in Snapshots
         /\ Refreshed(parent, c, r).source = snapshots[parent].source
         /\ Refreshed(parent, c, r).planned = snapshots[parent].planned
         /\ Refreshed(parent, c, r).at >= snapshots[parent].at
         /\ DOMAIN Refreshed(parent, c, r).view = Members(parent)
         /\ Refreshed(parent, c, r).view[c] = r
         /\ \A k \in Members(parent) \ {c} : Refreshed(parent, c, r).view[k] = snapshots[parent].view[k]
<1> DEFINE x == snapshots[parent]
           view == [x.view EXCEPT ![c] = r]
           at == Later(r.at, x.at)
<1>1. x \in Snapshots
  BY DEF TypeOK
<1>2. /\ x.source \in Sources /\ x.at \in Times /\ x.planned \in Times
      /\ DOMAIN x.view \subseteq Claims
      /\ \A k \in DOMAIN x.view : x.view[k] \in Results \cup {Pending}
  <2> HIDE DEF x
  <2> QED
    BY <1>1, SnapshotParts
<1>3. at \in Times /\ at >= x.at
  BY <1>2, TimeAssumption DEF Later, Times, Results
<1>4. /\ view \in [Members(parent) -> Results \cup {Pending}]
      /\ DOMAIN view = Members(parent) /\ view[c] = r
      /\ \A k \in Members(parent) \ {c} : view[k] = x.view[k]
  BY <1>2 DEF Members
<1>5. Members(parent) \subseteq Claims
  BY <1>2 DEF Members
<1>6. Refreshed(parent, c, r) = [source |-> x.source, at |-> at, planned |-> x.planned, view |-> view]
  BY DEF Refreshed
<1> HIDE DEF x, view, at
<1>7. Refreshed(parent, c, r) \in Snapshots
  BY <1>2, <1>3, <1>4, <1>5, <1>6, SnapshotTyped
<1> QED
  BY <1>3, <1>4, <1>6, <1>7 DEF x

\* A completion replaces the entry of its claim in the head of the source it
\* resolved its parent from, if that has the claim, else in that parent.
CompletedParent(w) == Parent(pass[w].claim, pass[w].parent)

LEMMA CompleteAdds ==
  ASSUME TypeOK, HeadsOfTheirSource, PassesHaveParents,
         NEW w \in Workers, NEW status \in Statuses, NEW i \in SnapshotIds, Complete(w, status, i)
  PROVE  /\ pass[w].claim \in Claims /\ pass[w].parent \in Made
         /\ Answer(w, status) \in Results
         /\ CompletedParent(w) \in Made /\ pass[w].claim \in Members(CompletedParent(w))
         /\ snapshots[CompletedParent(w)].source = snapshots[pass[w].parent].source
         /\ snapshots[CompletedParent(w)].source \in Sources
         /\ LET s == snapshots[CompletedParent(w)].source IN
              head[s] # None /\ pass[w].claim \in Members(head[s]) => CompletedParent(w) = head[s]
         /\ Adds(i, Refreshed(CompletedParent(w), pass[w].claim, Answer(w, status)))
<1> DEFINE c == pass[w].claim
           requested == pass[w].parent
           t == snapshots[requested].source
<1>1. /\ c \in Claims /\ requested \in Made /\ c \in Members(requested)
      /\ pass[w].now \in Times
  BY DEF PassesHaveParents, Complete, TypeOK
<1>2. Answer(w, status) \in Results
  BY <1>1 DEF Answer, Results
<1>3. t \in Sources
  <2>1. snapshots[requested] \in Snapshots
    BY <1>1 DEF TypeOK
  <2> QED
    BY <2>1, SnapshotParts
<1>4. CASE head[t] # None /\ c \in Members(head[t])
  <2>1. CompletedParent(w) = head[t]
    BY <1>4 DEF CompletedParent, Parent
  <2>2. head[t] \in Made /\ snapshots[head[t]].source = t
    BY <1>3, <1>4, NoneIsNoId DEF HeadsOfTheirSource
  <2>3. Adds(i, Refreshed(CompletedParent(w), c, Answer(w, status)))
    BY WithAdds DEF Complete, CompletedParent
  <2> QED
    BY <1>1, <1>2, <1>3, <1>4, <2>1, <2>2, <2>3
<1>5. CASE ~(head[t] # None /\ c \in Members(head[t]))
  <2>1. CompletedParent(w) = requested
    BY <1>5 DEF CompletedParent, Parent
  <2>2. Adds(i, Refreshed(CompletedParent(w), c, Answer(w, status)))
    BY WithAdds DEF Complete, CompletedParent
  <2> QED
    BY <1>1, <1>2, <1>3, <1>5, <2>1, <2>2
<1> QED
  BY <1>4, <1>5

-----------------------------------------------------------------------------
\* A job whose lease is given or taken is a job, as old as it was.
LEMMA JobUpdated ==
  ASSUME NEW job \in JobRows, NEW status \in {"ABSENT", "PENDING", "LEASED", "DONE"},
         NEW owner \in WorkerIds \cup {NoWorker}, NEW until \in Nat
  PROVE  LET updated == [job EXCEPT !.status = status, !.owner = owner, !.until = until] IN
         updated \in JobRows /\ updated.status = status /\ updated.created = job.created
BY DEF JobRows

LEMMA TypeInit == Init => TypeOK
BY TimeAssumption, SnapshotIdsAssumption DEF Init, TypeOK, Made, NoJob, NoIngest, NoPass, Times, None

\* What stays typed when a snapshot is added.
LEMMA AddsTyped ==
  ASSUME TypeOK, NEW i, NEW x \in Snapshots, Adds(i, x)
  PROVE  /\ Made' \subseteq SnapshotIds /\ \A k \in Made' : snapshots'[k] \in Snapshots
         /\ \A h \in [Sources -> Made \cup {None}] : h \in [Sources -> Made' \cup {None}]
         /\ Made \subseteq Made' /\ i \in Made'
<1>1. /\ Made' = Made \cup {i} /\ i \in SnapshotIds
      /\ snapshots'[i] = x /\ \A k \in Made : snapshots'[k] = snapshots[k]
  BY DEF Adds
<1>2. Made \subseteq SnapshotIds /\ \A k \in Made : snapshots[k] \in Snapshots
  BY DEF TypeOK
<1> QED
  BY <1>1, <1>2

LEMMA TypeStep ==
  ASSUME TypeOK, HeadsOfTheirSource, IngestsHaveSources, PassesHaveParents, [Next]_vars
  PROVE  TypeOK'
<1> DEFINE Loads == [source : Sources \cup {None}, claims : SUBSET Claims, at : Times]
           Passes == [pc : {"idle", "call", "resolved", "completing"}, claim : Claims \cup {None},
                      now : Times, parent : Made \cup {None}, mine : BOOLEAN]
<1>0. /\ NoIngest \in Loads /\ NoPass \in Passes /\ Times \subseteq Nat
      /\ jobs \in [Claims -> JobRows] /\ ingest \in [Ingests -> Loads] /\ pass \in [Workers -> Passes]
      /\ clock \in Times
  BY TimeAssumption DEF TypeOK, NoIngest, NoPass, Times, None, JobRows
<1>1. ASSUME Tick
      PROVE  TypeOK'
  <2>1. clock' \in Times
    BY <1>1, TimeAssumption DEF Tick, TypeOK, Times
  <2> QED
    BY <1>1, <2>1 DEF Tick, TypeOK, Made
<1>2. ASSUME NEW p \in Ingests, NEW s \in Sources, NEW claims \in Contents[s], BeginIngest(p, s, claims)
      PROVE  TypeOK'
  <2>1. claims \in SUBSET Claims
    BY ContentsAssumption
  <2>2. ingest' \in [Ingests -> Loads]
    BY <1>0, <1>2, <2>1 DEF BeginIngest
  <2> QED
    BY <1>2, <2>2 DEF BeginIngest, TypeOK, Made
<1>3. ASSUME NEW p \in Ingests, NEW i \in SnapshotIds, Publish(p, i)
      PROVE  TypeOK'
  <2>1. /\ Adds(i, Ingested(p)) /\ Ingested(p) \in Snapshots
        /\ ingest[p].source \in Sources /\ ingest[p].at \in Times
    BY <1>3, PublishAdds
  <2>2. /\ Made' \subseteq SnapshotIds /\ \A k \in Made' : snapshots'[k] \in Snapshots
        /\ \A h \in [Sources -> Made \cup {None}] : h \in [Sources -> Made' \cup {None}]
        /\ Made \subseteq Made' /\ i \in Made'
    BY <2>1, AddsTyped
  <2>3. head' \in [Sources -> Made' \cup {None}] /\ verified' \in [Sources -> Made' \cup {None}]
    <3>1. head \in [Sources -> Made' \cup {None}] /\ verified \in [Sources -> Made' \cup {None}]
      BY <2>2 DEF TypeOK
    <3>2. Upserted(ingest[p].source, i, ingest[p].at) \in Made' \cup {None}
      BY <2>1, <2>2, <3>1 DEF Upserted
    <3> QED
      BY <1>3, <3>1, <3>2 DEF Publish
  <2>4. jobs' \in [Claims -> JobRows]
    BY <1>3, <2>1, JobsForKeeps DEF Publish
  <2>5. ingest' \in [Ingests -> Loads]
    BY <1>0, <1>3 DEF Publish
  <2> QED
    BY <1>3, <2>2, <2>3, <2>4, <2>5 DEF Publish, TypeOK, JobRows
<1>4. ASSUME NEW p \in Ingests, PublishRefused(p)
      PROVE  TypeOK'
  <2>1. ingest' \in [Ingests -> Loads]
    BY <1>0, <1>4 DEF PublishRefused
  <2> QED
    BY <1>4, <2>1 DEF PublishRefused, TypeOK, Made
<1>5. ASSUME NEW w \in Workers, NEW c \in Claims, ClaimDue(w, c)
      PROVE  TypeOK'
  <2>1. jobs' \in [Claims -> JobRows]
    <3>1. WorkerOf[w] \in WorkerIds /\ clock + LeaseTicks \in Nat
      BY <1>0, WorkersAssumption, TimeAssumption
    <3> DEFINE leased == [jobs[c] EXCEPT !.status = "LEASED", !.owner = WorkerOf[w],
                                         !.until = clock + LeaseTicks]
    <3>2. leased \in JobRows
      BY <1>0, <3>1, JobUpdated
    <3>3. jobs' = [jobs EXCEPT ![c] = leased]
      BY <1>0, <1>5 DEF ClaimDue
    <3> HIDE DEF leased
    <3> QED
      BY <1>0, <3>2, <3>3
  <2>2. pass' \in [Workers -> Passes]
    BY <1>0, <1>5 DEF ClaimDue, NoPass
  <2> QED
    BY <1>5, <2>1, <2>2 DEF ClaimDue, TypeOK, Made, JobRows
<1>6. ASSUME NEW w \in Workers, ResolveParent(w)
      PROVE  TypeOK'
  <2>1. pass' \in [Workers -> Passes]
    <3>1. PICK i \in Made : pass' = [pass EXCEPT ![w].pc = "resolved", ![w].parent = i]
      BY <1>6 DEF ResolveParent
    <3> DEFINE resolved == [pass[w] EXCEPT !.pc = "resolved", !.parent = i]
    <3>2. resolved \in Passes
      BY <1>0
    <3>3. pass' = [pass EXCEPT ![w] = resolved]
      BY <1>0, <3>1
    <3> HIDE DEF resolved, Passes
    <3> QED
      BY <1>0, <3>2, <3>3
  <2> QED
    BY <1>6, <2>1 DEF ResolveParent, TypeOK, Made
<1>7. ASSUME NEW w \in Workers, BeginComplete(w)
      PROVE  TypeOK'
  <2> DEFINE mine == jobs[pass[w].claim].owner = WorkerOf[w] /\ jobs[pass[w].claim].status = "LEASED"
             begun == [pass[w] EXCEPT !.pc = "completing", !.mine = mine]
  <2>1. pass' \in [Workers -> Passes]
    <3>1. mine \in BOOLEAN
      OBVIOUS
    <3>2. pass' = [pass EXCEPT ![w] = begun]
      BY <1>0, <1>7 DEF BeginComplete
    <3> HIDE DEF mine
    <3>3. begun \in Passes
      BY <1>0, <3>1
    <3> HIDE DEF begun, Passes
    <3> QED
      BY <1>0, <3>2, <3>3
  <2> QED
    BY <1>7, <2>1 DEF BeginComplete, TypeOK, Made
<1>8. ASSUME NEW w \in Workers, Abandon(w)
      PROVE  TypeOK'
  <2>1. pass' \in [Workers -> Passes]
    BY <1>0, <1>8 DEF Abandon, EndPass
  <2> QED
    BY <1>8, <2>1 DEF Abandon, TypeOK, Made
<1>9. ASSUME NEW w \in Workers, NEW status \in Statuses, NEW i \in SnapshotIds, Complete(w, status, i)
      PROVE  TypeOK'
  <2> DEFINE c == pass[w].claim
             r == Answer(w, status)
             parent == CompletedParent(w)
             x == Refreshed(parent, c, r)
  <2>1. /\ c \in Claims /\ r \in Results /\ parent \in Made /\ c \in Members(parent)
        /\ Adds(i, x)
    BY <1>9, CompleteAdds
  <2>2. x \in Snapshots
    <3> HIDE DEF c, r, parent
    <3> QED
      BY <2>1, RefreshedFacts
  <2>3. /\ Made' \subseteq SnapshotIds /\ \A k \in Made' : snapshots'[k] \in Snapshots
        /\ \A h \in [Sources -> Made \cup {None}] : h \in [Sources -> Made' \cup {None}]
        /\ Made \subseteq Made' /\ i \in Made'
    BY <2>1, <2>2, AddsTyped
  <2>4. head' \in [Sources -> Made' \cup {None}] /\ verified' \in [Sources -> Made' \cup {None}]
    <3>1. head \in [Sources -> Made' \cup {None}] /\ verified \in [Sources -> Made' \cup {None}]
      BY <2>3 DEF TypeOK
    <3> QED
      BY <1>9, <2>3, <3>1 DEF Complete
  <2>5. jobs' \in [Claims -> JobRows]
    <3> DEFINE done == [jobs[c] EXCEPT !.status = "DONE", !.owner = NoWorker, !.until = 0]
    <3>1. done \in JobRows
      <4>1. jobs[c] \in JobRows /\ 0 \in Nat
        BY <1>0, <2>1
      <4> HIDE DEF c
      <4> QED
        BY <4>1, JobUpdated
    <3>2. jobs' = [jobs EXCEPT ![c] = done]
      BY <1>0, <1>9 DEF Complete, Done
    <3> HIDE DEF done
    <3> QED
      BY <1>0, <2>1, <3>1, <3>2
  <2>6. pass' \in [Workers -> Passes]
    BY <1>0, <1>9 DEF Complete, EndPass
  <2>7. results' \in [Claims -> SUBSET Results]
    BY <1>9, <2>1 DEF Complete, TypeOK
  <2> QED
    BY <1>9, <2>3, <2>4, <2>5, <2>6, <2>7 DEF Complete, TypeOK, JobRows
<1>10. ASSUME UNCHANGED vars
       PROVE  TypeOK'
  BY <1>10 DEF vars, TypeOK, Made
<1> QED
  BY <1>1, <1>2, <1>3, <1>4, <1>5, <1>6, <1>7, <1>8, <1>9, <1>10 DEF Next

-----------------------------------------------------------------------------
\* Only a publication and a completion touch what replay reads, jobs excepted.
PublishStep == \E p \in Ingests : \E i \in SnapshotIds : Publish(p, i)
CompleteStep == \E w \in Workers : \E status \in Statuses : \E i \in SnapshotIds : Complete(w, status, i)
Kept == UNCHANGED <<snapshots, head, verified, results>>

\* A job never goes away and keeps its creation.
JobsKept ==
  \A c \in Claims : jobs[c].status # "ABSENT" =>
    jobs'[c].status # "ABSENT" /\ jobs'[c].created = jobs[c].created

LEMMA StepKinds ==
  ASSUME TypeOK, HeadsOfTheirSource, IngestsHaveSources, PassesHaveParents, [Next]_vars
  PROVE  (PublishStep \/ CompleteStep \/ Kept) /\ JobsKept
<1>0. jobs \in [Claims -> JobRows]
  BY DEF TypeOK, JobRows
<1>1. CASE Tick
  BY <1>1 DEF Tick, Kept, JobsKept
<1>2. ASSUME NEW p \in Ingests, NEW s \in Sources, NEW claims \in Contents[s], BeginIngest(p, s, claims)
      PROVE  Kept /\ JobsKept
  BY <1>2 DEF BeginIngest, Kept, JobsKept
<1>3. ASSUME NEW p \in Ingests, NEW i \in SnapshotIds, Publish(p, i)
      PROVE  PublishStep /\ JobsKept
  <2>1. ingest[p].at \in Times
    BY <1>3, PublishAdds
  <2>2. JobsKept
    BY <1>3, <2>1, JobsForKeeps DEF Publish, JobsKept
  <2> QED
    BY <1>3, <2>2 DEF PublishStep
<1>4. ASSUME NEW p \in Ingests, PublishRefused(p)
      PROVE  Kept /\ JobsKept
  BY <1>4 DEF PublishRefused, Kept, JobsKept
<1>5. ASSUME NEW w \in Workers, NEW c \in Claims, ClaimDue(w, c)
      PROVE  Kept /\ JobsKept
  BY <1>0, <1>5 DEF ClaimDue, Kept, JobsKept, JobRows
<1>6. ASSUME NEW w \in Workers, ResolveParent(w) \/ BeginComplete(w) \/ Abandon(w)
      PROVE  Kept /\ JobsKept
  BY <1>6 DEF ResolveParent, BeginComplete, Abandon, Kept, JobsKept
<1>7. ASSUME NEW w \in Workers, NEW status \in Statuses, NEW i \in SnapshotIds, Complete(w, status, i)
      PROVE  CompleteStep /\ JobsKept
  <2>1. JobsKept
    BY <1>0, <1>7 DEF Complete, Done, JobsKept, JobRows
  <2> QED
    BY <1>7, <2>1 DEF CompleteStep
<1>8. CASE UNCHANGED vars
  BY <1>8 DEF vars, Kept, JobsKept
<1> QED
  BY <1>1, <1>2, <1>3, <1>4, <1>5, <1>6, <1>7, <1>8 DEF Next

\* Whatever snapshot was made stays as it was.
LEMMA SnapshotsStay ==
  ASSUME TypeOK, HeadsOfTheirSource, IngestsHaveSources, PassesHaveParents, [Next]_vars
  PROVE  Made \subseteq Made' /\ \A k \in Made : snapshots'[k] = snapshots[k]
<1>1. CASE Kept
  BY <1>1 DEF Kept, Made
<1>2. ASSUME NEW p \in Ingests, NEW i \in SnapshotIds, Publish(p, i)
      PROVE  Made \subseteq Made' /\ \A k \in Made : snapshots'[k] = snapshots[k]
  BY <1>2, PublishAdds DEF Adds
<1>3. ASSUME NEW w \in Workers, NEW status \in Statuses, NEW i \in SnapshotIds, Complete(w, status, i)
      PROVE  Made \subseteq Made' /\ \A k \in Made : snapshots'[k] = snapshots[k]
  BY <1>3, CompleteAdds DEF Adds
<1> QED
  BY <1>1, <1>2, <1>3, StepKinds DEF PublishStep, CompleteStep

LEMMA CallersStep ==
  ASSUME TypeOK, HeadsOfTheirSource, IngestsHaveSources, PassesHaveParents, [Next]_vars
  PROVE  IngestsHaveSources' /\ PassesHaveParents'
<1>0. /\ Made \subseteq Made' /\ \A k \in Made : snapshots'[k] = snapshots[k]
      /\ \A k \in Made : Members(k)' = Members(k)
  BY SnapshotsStay DEF Members
<1>1. IngestsHaveSources'
  <2>1. ASSUME NEW p \in Ingests, NEW s \in Sources, NEW claims \in Contents[s], BeginIngest(p, s, claims)
        PROVE  IngestsHaveSources'
    BY <2>1 DEF BeginIngest, IngestsHaveSources, TypeOK
  <2>2. ASSUME NEW p \in Ingests, NEW i \in SnapshotIds, Publish(p, i) \/ PublishRefused(p)
        PROVE  IngestsHaveSources'
    BY <2>2 DEF Publish, PublishRefused, IngestsHaveSources, TypeOK
  <2>3. CASE UNCHANGED ingest
    BY <2>3 DEF IngestsHaveSources
  <2> QED
    BY <2>1, <2>2, <2>3
    DEF Next, vars, Tick, PublishRefused, ClaimDue, ResolveParent, BeginComplete, Abandon, Complete, IngestsHaveSources, TypeOK
<1>2. PassesHaveParents'
  <2>1. ASSUME UNCHANGED pass
        PROVE  PassesHaveParents'
    BY <1>0, <2>1 DEF PassesHaveParents
  <2>2. ASSUME NEW w \in Workers, NEW c \in Claims, ClaimDue(w, c)
        PROVE  PassesHaveParents'
    BY <1>0, <2>2 DEF ClaimDue, NoPass, PassesHaveParents, TypeOK
  <2>3. ASSUME NEW w \in Workers, ResolveParent(w)
        PROVE  PassesHaveParents'
    BY <1>0, <2>3 DEF ResolveParent, PassesHaveParents, TypeOK
  <2>4. ASSUME NEW w \in Workers, BeginComplete(w)
        PROVE  PassesHaveParents'
    BY <1>0, <2>4 DEF BeginComplete, PassesHaveParents, TypeOK
  <2>5. ASSUME NEW w \in Workers, EndPass(w)
        PROVE  PassesHaveParents'
    BY <1>0, <2>5 DEF EndPass, NoPass, PassesHaveParents, TypeOK
  <2> QED
    BY <2>1, <2>2, <2>3, <2>4, <2>5
    DEF Next, vars, Tick, BeginIngest, Publish, PublishRefused, Abandon, Complete
<1> QED
  BY <1>1, <1>2

-----------------------------------------------------------------------------
\* The head a publication leaves.
LEMMA HeadAfterPublish ==
  ASSUME TypeOK, IngestsHaveSources,
         NEW p \in Ingests, NEW i \in SnapshotIds, Publish(p, i), NEW s \in Sources
  PROVE  /\ verified'[s] = verified[s]
         /\ \/ head'[s] = head[s]
            \/ /\ s = ingest[p].source /\ head'[s] = i
               /\ head[s] # None => ingest[p].at >= snapshots[head[s]].at
<1>1. /\ head \in [Sources -> Made \cup {None}] /\ ingest[p].at \in Times /\ Times \subseteq Nat
  BY PublishAdds, TimeAssumption DEF TypeOK, Times
<1>2. ASSUME head[s] # None
      PROVE  snapshots[head[s]].at \in Nat
  BY <1>1, <1>2, NoneIsNoId, SnapshotParts DEF TypeOK
<1>3. /\ verified'[s] = verified[s]
      /\ head'[s] = IF s = ingest[p].source THEN Upserted(s, i, ingest[p].at) ELSE head[s]
  BY <1>1 DEF Publish
<1>4. ASSUME head[s] # None, Newer(ingest[p].at, i, head[s])
      PROVE  ingest[p].at >= snapshots[head[s]].at
  <2>1. snapshots[head[s]].at \in Nat /\ ingest[p].at \in Nat
    BY <1>1, <1>2, <1>4
  <2>2. \/ ingest[p].at > snapshots[head[s]].at
        \/ ingest[p].at = snapshots[head[s]].at
    BY <1>4 DEF Newer
  <2> QED
    BY <2>1, <2>2
<1> QED
  BY <1>3, <1>4 DEF Upserted

\* The heads a completion leaves.
LEMMA HeadAfterComplete ==
  ASSUME TypeOK, HeadsOfTheirSource, PassesHaveParents,
         NEW w \in Workers, NEW status \in Statuses, NEW i \in SnapshotIds, Complete(w, status, i),
         NEW s \in Sources
  PROVE  \/ head'[s] = head[s] /\ verified'[s] = verified[s]
         \/ /\ s = snapshots[CompletedParent(w)].source /\ head[s] = CompletedParent(w)
            /\ head'[s] = i /\ verified'[s] \in {i, verified[s]}
BY DEF Complete, CompletedParent, TypeOK

LEMMA HeadsStep ==
  ASSUME TypeOK, HeadsOfTheirSource, VerifiedBehindHead, IngestsHaveSources, PassesHaveParents,
         [Next]_vars, NEW s \in Sources
  PROVE  /\ head[s] # None => head'[s] # None /\ snapshots'[head'[s]].at >= snapshots[head[s]].at
         /\ verified[s] # None => snapshots'[verified'[s]].at >= snapshots[verified[s]].at
         /\ head'[s] # None => snapshots'[head'[s]].source = s
         /\ verified'[s] # None => head'[s] # None /\ snapshots'[verified'[s]].at <= snapshots'[head'[s]].at
<1>0. /\ \A k \in Made : snapshots'[k] = snapshots[k]
      /\ None \notin Made
      /\ head[s] # None => head[s] \in Made /\ snapshots[head[s]].at \in Nat
      /\ verified[s] # None => verified[s] \in Made /\ snapshots[verified[s]].at \in Nat
  <2>1. Times \subseteq Nat
    BY TimeAssumption DEF Times
  <2> QED
    BY <2>1, SnapshotsStay, NoneIsNoId, SnapshotParts DEF TypeOK
<1>1. CASE Kept
  BY <1>0, <1>1 DEF Kept, HeadsOfTheirSource, VerifiedBehindHead
<1>2. ASSUME NEW p \in Ingests, NEW i \in SnapshotIds, Publish(p, i)
      PROVE  /\ head[s] # None => head'[s] # None /\ snapshots'[head'[s]].at >= snapshots[head[s]].at
             /\ verified[s] # None => snapshots'[verified'[s]].at >= snapshots[verified[s]].at
             /\ head'[s] # None => snapshots'[head'[s]].source = s
             /\ verified'[s] # None => head'[s] # None /\ snapshots'[verified'[s]].at <= snapshots'[head'[s]].at
  <2>1. /\ snapshots'[i] = Ingested(p) /\ i # None /\ ingest[p].at \in Nat
        /\ Ingested(p).at = ingest[p].at /\ Ingested(p).source = ingest[p].source
    <3>1. Times \subseteq Nat
      BY TimeAssumption DEF Times
    <3> QED
      BY <1>2, <3>1, PublishAdds, SnapshotIdsAssumption DEF Adds, Ingested, None
  <2>2. CASE head'[s] = head[s]
    BY <1>0, <1>2, <2>2, HeadAfterPublish DEF HeadsOfTheirSource, VerifiedBehindHead
  <2>3. CASE head'[s] # head[s]
    <3>1. /\ s = ingest[p].source /\ head'[s] = i /\ verified'[s] = verified[s]
          /\ head[s] # None => ingest[p].at >= snapshots[head[s]].at
      BY <1>2, <2>3, HeadAfterPublish
    <3> QED
      BY <1>0, <2>1, <3>1 DEF VerifiedBehindHead
  <2> QED
    BY <2>2, <2>3
<1>3. ASSUME NEW w \in Workers, NEW status \in Statuses, NEW i \in SnapshotIds, Complete(w, status, i)
      PROVE  /\ head[s] # None => head'[s] # None /\ snapshots'[head'[s]].at >= snapshots[head[s]].at
             /\ verified[s] # None => snapshots'[verified'[s]].at >= snapshots[verified[s]].at
             /\ head'[s] # None => snapshots'[head'[s]].source = s
             /\ verified'[s] # None => head'[s] # None /\ snapshots'[verified'[s]].at <= snapshots'[head'[s]].at
  <2> DEFINE parent == CompletedParent(w)
             x == Refreshed(parent, pass[w].claim, Answer(w, status))
  <2>1. /\ parent \in Made /\ pass[w].claim \in Members(parent) /\ Answer(w, status) \in Results
        /\ Adds(i, x)
    BY <1>3, CompleteAdds
  <2>2. /\ snapshots'[i] = x /\ i # None
    BY <2>1, SnapshotIdsAssumption DEF Adds, None
  <2>3. x.source = snapshots[parent].source /\ x.at >= snapshots[parent].at /\ x.at \in Nat
    <3>1. Times \subseteq Nat
      BY TimeAssumption DEF Times
    <3> HIDE DEF parent
    <3> QED
      BY <2>1, <3>1, RefreshedFacts, SnapshotParts
  <2> HIDE DEF parent, x
  <2>4. \/ head'[s] = head[s] /\ verified'[s] = verified[s]
        \/ /\ s = snapshots[parent].source /\ head[s] = parent
           /\ head'[s] = i /\ verified'[s] \in {i, verified[s]}
    BY <1>3, HeadAfterComplete DEF parent
  <2>5. CASE head'[s] = head[s] /\ verified'[s] = verified[s]
    BY <1>0, <2>5 DEF HeadsOfTheirSource, VerifiedBehindHead
  <2>6. CASE /\ s = snapshots[parent].source /\ head[s] = parent
             /\ head'[s] = i /\ verified'[s] \in {i, verified[s]}
    BY <1>0, <2>1, <2>2, <2>3, <2>6 DEF VerifiedBehindHead
  <2> QED
    BY <2>4, <2>5, <2>6
<1> QED
  BY <1>1, <1>2, <1>3, StepKinds DEF PublishStep, CompleteStep

-----------------------------------------------------------------------------
\* Answers are never withdrawn.
LEMMA ResultsGrow ==
  ASSUME TypeOK, HeadsOfTheirSource, IngestsHaveSources, PassesHaveParents, [Next]_vars, NEW c \in Claims
  PROVE  results[c] \subseteq results'[c]
<1>1. CASE PublishStep
  BY <1>1 DEF PublishStep, Publish
<1>2. CASE CompleteStep
  BY <1>2 DEF CompleteStep, Complete, TypeOK
<1>3. CASE Kept
  BY <1>3 DEF Kept
<1> QED
  BY <1>1, <1>2, <1>3, StepKinds

\* The entries of a snapshot that was made stay closed ...
LEMMA StaysClosed ==
  ASSUME TypeOK, HeadsOfTheirSource, IngestsHaveSources, PassesHaveParents, [Next]_vars,
         NEW k \in Made, HistoricallyClosed(k)
  PROVE  HistoricallyClosed(k)'
<1>1. /\ k \in Made' /\ snapshots'[k] = snapshots[k]
      /\ Members(k)' = Members(k) /\ Members(k) \subseteq Claims
  BY SnapshotsStay, MembersAreClaims DEF Members
<1>2. ASSUME NEW c \in Members(k)
      PROVE  IF snapshots[k].view[c] = Pending
             THEN jobs'[c].status # "ABSENT" /\ jobs'[c].created <= snapshots[k].at
             ELSE snapshots[k].view[c] \in results'[c] /\ snapshots[k].view[c].at <= snapshots[k].at
  <2>1. c \in Claims
    BY <1>1
  <2>2. results[c] \subseteq results'[c]
    BY <2>1, ResultsGrow
  <2>3. jobs[c].status # "ABSENT" => jobs'[c].status # "ABSENT" /\ jobs'[c].created = jobs[c].created
    BY <2>1, StepKinds DEF JobsKept
  <2> QED
    BY <2>2, <2>3 DEF HistoricallyClosed
<1> QED
  BY <1>1, <1>2 DEF HistoricallyClosed

\* ... and those of the snapshot an ingest publishes are, because it is refused
\* otherwise.
LEMMA PublishedClosed ==
  ASSUME TypeOK, IngestsHaveSources, NEW p \in Ingests, NEW i \in SnapshotIds, Publish(p, i)
  PROVE  HistoricallyClosed(i)'
<1> DEFINE at == ingest[p].at
           view == PlanOf(p)
<1>1. /\ snapshots'[i] = Ingested(p) /\ at \in Times
      /\ view \in [ingest[p].claims -> Results \cup {Pending}] /\ ingest[p].claims \subseteq Claims
  BY PublishAdds DEF Adds
<1>2. jobs' = JobsFor(view, at) /\ results' = results
  BY DEF Publish
<1>3. ASSUME NEW c \in DOMAIN view
      PROVE  IF view[c] = Pending THEN jobs'[c].created <= at
             ELSE view[c] \in results[c] /\ view[c].at <= at
  BY <1>1, <1>2, <1>3 DEF Publish, Refuses, Closed
<1>4. \A c \in DOMAIN view : view[c] = Pending => jobs'[c].status # "ABSENT"
  BY <1>1, <1>2, JobsForKeeps
<1>5. snapshots'[i].at = at /\ snapshots'[i].view = view
  BY <1>1 DEF Ingested
<1> HIDE DEF at, view
<1>6. Members(i)' = DOMAIN view
  BY <1>5 DEF Members
<1> QED
  BY <1>2, <1>3, <1>4, <1>5, <1>6 DEF HistoricallyClosed

LEMMA CompletedClosed ==
  ASSUME TypeOK, HeadsOfTheirSource, IngestsHaveSources, PassesHaveParents, [Next]_vars,
         \A k \in Made : HistoricallyClosed(k),
         NEW w \in Workers, NEW status \in Statuses, NEW i \in SnapshotIds, Complete(w, status, i)
  PROVE  HistoricallyClosed(i)'
<1> DEFINE c == pass[w].claim
           parent == CompletedParent(w)
           r == Answer(w, status)
           x == Refreshed(parent, c, r)
           recorded == [results EXCEPT ![c] = @ \cup {r}]
<1>1. /\ c \in Claims /\ parent \in Made /\ c \in Members(parent) /\ r \in Results
      /\ Adds(i, x)
  BY CompleteAdds
<1>2. /\ DOMAIN x.view = Members(parent) /\ x.view[c] = r
      /\ \A k \in Members(parent) \ {c} : x.view[k] = snapshots[parent].view[k]
      /\ Members(parent) \subseteq Claims
  <2> HIDE DEF c, parent, r
  <2> QED
    BY <1>1, RefreshedFacts, MembersAreClaims
<1>3. results' = recorded /\ snapshots'[i] = x
  BY <1>1 DEF Complete, Adds
<1>4. \A k \in DOMAIN x.view :
        IF x.view[k] = Pending THEN k \in Claims => jobs[k].created <= x.at
        ELSE x.view[k] \in recorded[k] /\ x.view[k].at <= x.at
  <2>1. Closed(x.view, x.at, [k \in Claims |-> jobs[k].created], recorded)
    BY DEF Complete, ClosedRefresh, CompletedParent
  <2> HIDE DEF x, recorded
  <2> QED
    BY <2>1 DEF Closed
<1> HIDE DEF x, recorded, r, parent
<1>5. ASSUME NEW k \in Members(parent), x.view[k] = Pending
      PROVE  jobs'[k].status # "ABSENT" /\ jobs'[k].created <= x.at
  <2>1. k # c /\ k \in Claims /\ snapshots[parent].view[k] = Pending
    BY <1>1, <1>2, <1>5, PendingIsNoResult
  <2>2. jobs[k].status # "ABSENT"
    BY <1>1, <2>1 DEF HistoricallyClosed
  <2>3. jobs'[k].status # "ABSENT" /\ jobs'[k].created = jobs[k].created
    BY <2>1, <2>2, StepKinds DEF JobsKept
  <2> QED
    BY <1>2, <1>4, <1>5, <2>1, <2>3
<1>6. Members(i)' = Members(parent)
  BY <1>2, <1>3 DEF Members
<1> QED
  BY <1>2, <1>3, <1>4, <1>5, <1>6 DEF HistoricallyClosed

-----------------------------------------------------------------------------
HeadsExcused ==
  \A s \in Sources : \A c \in DOMAIN Shown(s) : Shown(s)[c] = Pending => PendingIsExcused(s, c)

\* A head that stays, and shows a claim pending, keeps its excuse as long as no
\* answer comes in for the claim, ...
LEMMA ExcuseStays ==
  ASSUME TypeOK, HeadsOfTheirSource, IngestsHaveSources, PassesHaveParents, [Next]_vars,
         NEW s \in Sources, NEW c, PendingIsExcused(s, c), results'[c] = results[c],
         snapshots'[head'[s]].planned = snapshots[head[s]].planned
  PROVE  PendingIsExcused(s, c)'
<1>1. Made \subseteq Made' /\ \A k \in Made : snapshots'[k] = snapshots[k] /\ Members(k)' = Members(k)
  BY SnapshotsStay DEF Members
<1>2. CASE Available(c, snapshots[head[s]].planned) = {}
  BY <1>2 DEF PendingIsExcused, Available
<1>3. CASE \E k \in Made : snapshots[k].source # s /\ c \in Members(k) /\ snapshots[k].view[c] # Pending
  BY <1>1, <1>3 DEF PendingIsExcused
<1> QED
  BY <1>2, <1>3 DEF PendingIsExcused

\* ... an ingest leaves a claim pending only if no answer is available, ...
LEMMA ExcusedAfterPublish ==
  ASSUME TypeOK, HeadsOfTheirSource, IngestsHaveSources, PassesHaveParents, HeadsExcused, [Next]_vars,
         NEW p \in Ingests, NEW i \in SnapshotIds, Publish(p, i),
         NEW s \in Sources, NEW c \in DOMAIN Shown(s)', Shown(s)'[c] = Pending
  PROVE  PendingIsExcused(s, c)'
<1>1. /\ snapshots'[i] = Ingested(p) /\ i # None /\ ingest[p].at \in Times
      /\ \A k \in ingest[p].claims : PlanOf(p)[k] = Planned(k, ingest[p].at)
      /\ ingest[p].claims \subseteq Claims
      /\ DOMAIN PlanOf(p) = ingest[p].claims
      /\ \A k \in Made : snapshots'[k] = snapshots[k]
  BY PublishAdds, SnapshotIdsAssumption DEF Adds, None, PlanOf
<1>2. results' = results
  BY DEF Publish
<1>3. CASE head'[s] = head[s]
  <2>1. head[s] # None
    BY <1>3 DEF Shown
  <2>2. snapshots'[head'[s]] = snapshots[head[s]] /\ Shown(s)' = Shown(s)
    BY <1>1, <1>3, <2>1, NoneIsNoId DEF Shown
  <2>3. PendingIsExcused(s, c)
    BY <2>2 DEF HeadsExcused
  <2> QED
    BY <1>2, <2>2, <2>3, ExcuseStays
<1>4. CASE head'[s] # head[s]
  <2>1. head'[s] = i
    BY <1>4, HeadAfterPublish
  <2>2. Shown(s)' = PlanOf(p) /\ snapshots'[head'[s]].planned = ingest[p].at
    BY <1>1, <2>1 DEF Shown, Ingested
  <2>3. Available(c, ingest[p].at) = {}
    BY <1>1, <2>2, PlannedEntry
  <2> QED
    BY <1>2, <2>2, <2>3 DEF PendingIsExcused, Available
<1> QED
  BY <1>3, <1>4

\* ... and the answer of a pass reaches the head of its own source, or is shown
\* by a snapshot of it to all the others.
LEMMA ExcusedAfterComplete ==
  ASSUME TypeOK, HeadsOfTheirSource, IngestsHaveSources, PassesHaveParents, HeadsExcused, [Next]_vars,
         NEW w \in Workers, NEW status \in Statuses, NEW i \in SnapshotIds, Complete(w, status, i),
         NEW s \in Sources, NEW k \in DOMAIN Shown(s)', Shown(s)'[k] = Pending
  PROVE  PendingIsExcused(s, k)'
<1> DEFINE c == pass[w].claim
           parent == CompletedParent(w)
           r == Answer(w, status)
           x == Refreshed(parent, c, r)
<1>1. /\ c \in Claims /\ parent \in Made /\ c \in Members(parent) /\ r \in Results
      /\ snapshots[parent].source \in Sources
      /\ s = snapshots[parent].source /\ head[s] # None /\ c \in Members(head[s]) => parent = head[s]
      /\ i \in Made' /\ i # None /\ snapshots'[i] = x
      /\ \A j \in Made : snapshots'[j] = snapshots[j]
  BY CompleteAdds, SnapshotIdsAssumption DEF Adds, None
<1>2. /\ x.source = snapshots[parent].source /\ x.planned = snapshots[parent].planned
      /\ DOMAIN x.view = Members(parent) /\ x.view[c] = r /\ r # Pending
      /\ \A j \in Members(parent) \ {c} : x.view[j] = snapshots[parent].view[j]
  <2> HIDE DEF c, parent, r
  <2> QED
    BY <1>1, RefreshedFacts, PendingIsNoResult
<1>3. \A j \in Claims \ {c} : results'[j] = results[j]
  BY DEF Complete, TypeOK
<1>4. \/ head'[s] = head[s]
      \/ s = snapshots[parent].source /\ head[s] = parent /\ head'[s] = i
  BY HeadAfterComplete
<1> HIDE DEF c, parent, r, x
<1>5. CASE s = snapshots[parent].source /\ head[s] = parent /\ head'[s] = i
  <2>1. Shown(s)' = x.view /\ Shown(s) = snapshots[parent].view /\ parent # None
    BY <1>1, <1>5, NoneIsNoId DEF Shown
  <2>2. k # c /\ k \in DOMAIN Shown(s) /\ k \in Claims /\ Shown(s)[k] = Pending
    BY <1>1, <1>2, <2>1, MembersAreClaims DEF Members
  <2>3. PendingIsExcused(s, k)
    BY <2>2 DEF HeadsExcused
  <2>4. snapshots'[head'[s]].planned = snapshots[head[s]].planned
    BY <1>1, <1>2, <1>5
  <2> QED
    BY <1>3, <2>2, <2>3, <2>4, ExcuseStays
<1>6. CASE head'[s] = head[s] /\ ~(s = snapshots[parent].source /\ head[s] = parent)
  <2>1. head[s] # None
    BY <1>6 DEF Shown
  <2>2. snapshots'[head'[s]] = snapshots[head[s]] /\ Shown(s)' = Shown(s)
    BY <1>1, <1>6, <2>1, NoneIsNoId DEF Shown
  <2>3. PendingIsExcused(s, k)
    BY <2>2 DEF HeadsExcused
  <2>4. CASE k # c
    <3>1. k \in Claims
      BY <2>1, <2>2, NoneIsNoId, MembersAreClaims DEF Members, Shown
    <3> QED
      BY <1>3, <2>2, <2>3, <2>4, <3>1, ExcuseStays
  <2>5. CASE k = c
    <3>1. k \in Members(head[s])
      BY <2>1, <2>2 DEF Members, Shown
    <3>2. snapshots[parent].source # s
      BY <1>1, <1>6, <2>1, <2>5, <3>1
    <3>3. snapshots'[i].source # s /\ c \in Members(i)' /\ snapshots'[i].view[c] # Pending
      BY <1>1, <1>2, <3>2 DEF Members
    <3> QED
      BY <1>1, <2>5, <3>3 DEF PendingIsExcused
  <2> QED
    BY <2>4, <2>5
<1>7. CASE head'[s] = head[s] /\ s = snapshots[parent].source /\ head[s] = parent
  <2>1. head'[s] = i
    BY <1>7 DEF Complete, CompletedParent, parent, TypeOK
  <2> QED
    BY <1>5, <1>7, <2>1
<1> QED
  BY <1>4, <1>5, <1>6, <1>7

LEMMA AuditsStep ==
  ASSUME HeadsInv, [Next]_vars
  PROVE  AuditsForEver'
<1>0. /\ TypeOK /\ HeadsOfTheirSource /\ IngestsHaveSources /\ PassesHaveParents
      /\ HeadsExcused /\ \A k \in Made : HistoricallyClosed(k)
  BY DEF HeadsInv, AuditsForEver, HeadsExcused
<1>1. \A k \in Made : HistoricallyClosed(k)'
  BY <1>0, StaysClosed
<1>2. CASE Kept
  <2>1. /\ Made' = Made /\ \A s \in Sources : Shown(s)' = Shown(s)
        /\ \A s \in Sources : \A c : PendingIsExcused(s, c) => PendingIsExcused(s, c)'
    BY <1>2 DEF Kept, Made, Shown, PendingIsExcused, Available, Members
  <2> QED
    BY <1>0, <1>1, <2>1 DEF AuditsForEver, HeadsExcused
<1>3. ASSUME NEW p \in Ingests, NEW i \in SnapshotIds, Publish(p, i)
      PROVE  AuditsForEver'
  <2>1. HistoricallyClosed(i)' /\ Made' = Made \cup {i}
    BY <1>0, <1>3, PublishedClosed, PublishAdds DEF Adds
  <2>2. \A s \in Sources : \A c \in DOMAIN Shown(s)' : Shown(s)'[c] = Pending => PendingIsExcused(s, c)'
    BY <1>0, <1>3, ExcusedAfterPublish
  <2> QED
    BY <1>1, <2>1, <2>2 DEF AuditsForEver
<1>4. ASSUME NEW w \in Workers, NEW status \in Statuses, NEW i \in SnapshotIds, Complete(w, status, i)
      PROVE  AuditsForEver'
  <2>1. HistoricallyClosed(i)' /\ Made' = Made \cup {i}
    BY <1>0, <1>4, CompletedClosed, CompleteAdds DEF Adds
  <2>2. \A s \in Sources : \A c \in DOMAIN Shown(s)' : Shown(s)'[c] = Pending => PendingIsExcused(s, c)'
    BY <1>0, <1>4, ExcusedAfterComplete
  <2> QED
    BY <1>1, <2>1, <2>2 DEF AuditsForEver
<1> QED
  BY <1>0, <1>2, <1>3, <1>4, StepKinds DEF PublishStep, CompleteStep

-----------------------------------------------------------------------------
LEMMA HeadsInvInit == Init => HeadsInv
<1> SUFFICES ASSUME Init
             PROVE  HeadsInv
  OBVIOUS
<1>1. Made = {} /\ \A s \in Sources : head[s] = None /\ verified[s] = None /\ DOMAIN Shown(s) = {}
  BY DEF Init, Made, Shown
<1>2. TypeOK
  BY TypeInit
<1>3. IngestsHaveSources /\ PassesHaveParents
  BY DEF Init, IngestsHaveSources, PassesHaveParents, NoPass
<1> QED
  BY <1>1, <1>2, <1>3 DEF HeadsInv, HeadsOfTheirSource, VerifiedBehindHead, AuditsForEver

LEMMA HeadsInvStep == HeadsInv /\ [Next]_vars => HeadsInv'
<1> SUFFICES ASSUME HeadsInv, [Next]_vars
             PROVE  HeadsInv'
  OBVIOUS
<1>1. TypeOK' /\ IngestsHaveSources' /\ PassesHaveParents'
  BY TypeStep, CallersStep DEF HeadsInv
<1>2. HeadsOfTheirSource' /\ VerifiedBehindHead'
  BY HeadsStep DEF HeadsInv, HeadsOfTheirSource, VerifiedBehindHead
<1>3. AuditsForEver'
  BY AuditsStep
<1> QED
  BY <1>1, <1>2, <1>3 DEF HeadsInv

\* The invariant holds of every state the two writers reach.
THEOREM HeadsInvariant == Spec => []HeadsInv
BY HeadsInvInit, HeadsInvStep, PTL DEF Spec

\* Every snapshot, head, job, answer, ingest and pass keeps its shape
\* (content_snapshot, content_source_head, claim_verification_job and
\* claim_verification_result in models.py).
THEOREM TypeCorrect == Spec => []TypeOK
<1>1. HeadsInv => TypeOK
  BY DEF HeadsInv
<1> QED
  BY <1>1, HeadsInvariant, PTL

\* Every snapshot replays at any later time as it was closed, and a claim stays
\* pending on a head only for want of an answer when its ingest began, or because
\* another source got it (_validate_verification_closure, latest_terminal_as_of,
\* VerificationRefreshService.complete).
THEOREM AuditedForEver == Spec => []AuditsForEver
<1>1. HeadsInv => AuditsForEver
  BY DEF HeadsInv
<1> QED
  BY <1>1, HeadsInvariant, PTL

\* Neither the head of a source nor its verified head goes back in time, however
\* late the older publication commits (_upsert_source_head, complete).
THEOREM NoHeadGoesBack == Spec => HeadsNeverGoBack
<1>1. HeadsInv /\ [Next]_vars =>
        \A s \in Sources :
          /\ head[s] # None => snapshots'[head'[s]].at >= snapshots[head[s]].at
          /\ verified[s] # None => snapshots'[verified'[s]].at >= snapshots[verified[s]].at
  BY HeadsStep DEF HeadsInv
<1> QED
  BY <1>1, HeadsInvariant, PTL DEF Spec, HeadsNeverGoBack

-----------------------------------------------------------------------------
\* What one step does to the answers a head shows.
AnswersStayStep ==
  \A s \in Sources : \A c \in DOMAIN Shown(s) \cap DOMAIN Shown(s)' :
    Shown(s)[c] # Pending => Shown(s)'[c] # Pending

LEMMA AnswersStaySteps ==
  ASSUME HeadsInv, [Next]_vars
  PROVE  AnswersStayStep
<1>0. /\ TypeOK /\ HeadsOfTheirSource /\ IngestsHaveSources /\ PassesHaveParents
      /\ \A k \in Made : HistoricallyClosed(k)
  BY DEF HeadsInv, AuditsForEver
<1> SUFFICES ASSUME NEW s \in Sources, NEW c \in DOMAIN Shown(s), c \in DOMAIN Shown(s)',
                    Shown(s)[c] # Pending
             PROVE  Shown(s)'[c] # Pending
  BY DEF AnswersStayStep
<1>1. /\ head[s] # None /\ head[s] \in Made /\ Shown(s) = snapshots[head[s]].view
      /\ snapshots[head[s]] \in Snapshots /\ c \in Members(head[s]) /\ c \in Claims
      /\ \A k \in Made : snapshots'[k] = snapshots[k]
  BY <1>0, NoneIsNoId, SnapshotsStay, MembersAreClaims DEF Shown, TypeOK, Members
<1>2. ASSUME head'[s] = head[s]
      PROVE  Shown(s)'[c] # Pending
  BY <1>1, <1>2 DEF Shown
<1>3. ASSUME NEW p \in Ingests, NEW i \in SnapshotIds, Publish(p, i), head'[s] # head[s]
      PROVE  Shown(s)'[c] # Pending
  <2> DEFINE at == ingest[p].at
             r == snapshots[head[s]].view[c]
  <2>1. /\ head'[s] = i /\ i # None /\ at >= snapshots[head[s]].at
        /\ snapshots'[i] = Ingested(p) /\ at \in Times
        /\ DOMAIN PlanOf(p) = ingest[p].claims
        /\ \A k \in ingest[p].claims : PlanOf(p)[k] = Planned(k, at)
    BY <1>0, <1>1, <1>3, HeadAfterPublish, PublishAdds, SnapshotIdsAssumption DEF Adds, None, PlanOf
  <2>2. Shown(s)' = PlanOf(p)
    BY <2>1 DEF Shown, Ingested
  <2>3. r \in results[c] /\ r.at <= snapshots[head[s]].at
    BY <1>0, <1>1 DEF HistoricallyClosed
  <2>4. r.at \in Nat /\ snapshots[head[s]].at \in Nat /\ at \in Nat
    <3>1. Times \subseteq Nat
      BY TimeAssumption DEF Times
    <3>2. r \in Results
      BY <1>0, <1>1, <2>3 DEF TypeOK
    <3>3. snapshots[head[s]].at \in Times
      BY <1>1, SnapshotParts
    <3> QED
      BY <2>1, <3>1, <3>2, <3>3 DEF Results
  <2>5. r.at <= at
    BY <2>1, <2>3, <2>4
  <2>6. Available(c, at) # {}
    BY <2>3, <2>5 DEF Available
  <2> QED
    BY <1>0, <1>1, <2>1, <2>2, <2>6, PlannedEntry
<1>4. ASSUME NEW w \in Workers, NEW status \in Statuses, NEW i \in SnapshotIds, Complete(w, status, i),
             head'[s] # head[s]
      PROVE  Shown(s)'[c] # Pending
  <2> DEFINE parent == CompletedParent(w)
             r == Answer(w, status)
             x == Refreshed(parent, pass[w].claim, r)
  <2>1. /\ parent \in Made /\ pass[w].claim \in Members(parent) /\ r \in Results
        /\ i # None /\ snapshots'[i] = x
    BY <1>0, <1>4, CompleteAdds, SnapshotIdsAssumption DEF Adds, None
  <2>2. head[s] = parent /\ head'[s] = i
    BY <1>0, <1>4, HeadAfterComplete
  <2> HIDE DEF parent, r
  <2>3. /\ x.view[pass[w].claim] = r /\ r # Pending
        /\ \A j \in Members(parent) \ {pass[w].claim} : x.view[j] = snapshots[parent].view[j]
    BY <1>0, <2>1, RefreshedFacts, PendingIsNoResult
  <2> HIDE DEF x
  <2>4. Shown(s)' = x.view
    BY <2>1, <2>2 DEF Shown
  <2> QED
    BY <1>1, <2>2, <2>3, <2>4
<1>5. CASE Kept
  BY <1>2, <1>5 DEF Kept
<1> QED
  BY <1>0, <1>2, <1>3, <1>4, <1>5, StepKinds DEF PublishStep, CompleteStep

AnswerReachesStep ==
  \A w \in Workers : \A s \in Sources : \A c \in DOMAIN Shown(s) :
    /\ pass[w].pc = "completing" /\ pass[w].claim = c
    /\ snapshots[pass[w].parent].source = s
    /\ pass'[w] = NoPass /\ results'[c] # results[c]
    => Shown(s)'[c] \in results'[c] \ results[c]

LEMMA AnswerReachesSteps ==
  ASSUME HeadsInv, [Next]_vars
  PROVE  AnswerReachesStep
<1>0. /\ TypeOK /\ HeadsOfTheirSource /\ IngestsHaveSources /\ PassesHaveParents
  BY DEF HeadsInv
<1> SUFFICES ASSUME NEW w \in Workers, NEW s \in Sources, NEW c \in DOMAIN Shown(s),
                    pass[w].pc = "completing", pass[w].claim = c,
                    snapshots[pass[w].parent].source = s,
                    pass'[w] = NoPass, results'[c] # results[c]
             PROVE  Shown(s)'[c] \in results'[c] \ results[c]
  BY DEF AnswerReachesStep
<1>1. head[s] # None /\ c \in Members(head[s]) /\ head[s] \in Made
  BY <1>0, NoneIsNoId DEF Shown, Members
<1>2. CASE Kept
  BY <1>2 DEF Kept
<1>3. CASE PublishStep
  BY <1>3 DEF PublishStep, Publish
<1>4. ASSUME NEW v \in Workers, NEW status \in Statuses, NEW i \in SnapshotIds, Complete(v, status, i)
      PROVE  Shown(s)'[c] \in results'[c] \ results[c]
  <2> DEFINE parent == CompletedParent(w)
             r == Answer(w, status)
             x == Refreshed(parent, c, r)
  <2>1. v = w
    BY <1>0, <1>4 DEF Complete, EndPass, NoPass, TypeOK
  <2>2. /\ parent \in Made /\ c \in Members(parent) /\ r \in Results /\ c \in Claims
        /\ parent = head[s] /\ snapshots[parent].source = s
        /\ i # None /\ snapshots'[i] = x
    BY <1>0, <1>1, <1>4, <2>1, CompleteAdds, SnapshotIdsAssumption DEF Adds, None
  <2>3. results'[c] = results[c] \cup {r} /\ r \notin results[c]
    BY <1>0, <1>4, <2>1, <2>2 DEF Complete, TypeOK
  <2>4. head'[s] = i
    BY <1>0, <1>4, <2>1, <2>2 DEF Complete, CompletedParent, TypeOK
  <2> HIDE DEF parent, r
  <2>5. x.view[c] = r
    BY <1>0, <2>2, RefreshedFacts
  <2> HIDE DEF x
  <2>6. Shown(s)'[c] = r
    BY <2>2, <2>4, <2>5 DEF Shown
  <2> QED
    BY <2>3, <2>6
<1> QED
  BY <1>0, <1>2, <1>3, <1>4, StepKinds DEF CompleteStep

\* The answer of a pass shows on the head it was asked for, if that still has the
\* claim, and no ingest or refresh with an older time or parent takes it off again
\* (complete, _upsert_source_head, latest_terminal_as_of).
THEOREM AnswersReachTheirHead == Spec => AnswersReachAndStay
<1>1. HeadsInv /\ [Next]_vars => AnswersStayStep /\ AnswerReachesStep
  BY AnswersStaySteps, AnswerReachesSteps
<1>2. Spec => [][AnswersStayStep]_vars /\ [][AnswerReachesStep]_vars
  BY <1>1, HeadsInvariant, PTL DEF Spec
<1> QED
  BY <1>2, PTL DEF AnswersReachAndStay, AnswersStay, AnswerReachesHead, AnswersStayStep, AnswerReachesStep

(***************************************************************************)
(* The queue the passes take their jobs from: VerificationJobs, with the    *)
(* same workers and worker ids.                                             *)
(***************************************************************************)

PassFields == {"pc", "job", "batch", "age", "run", "seen"}
JobFields == {"status", "owner", "left", "wait", "retries"}
RunFields == {"state", "owner", "left", "token"}

QueueShapes ==
  /\ DOMAIN proc = Workers /\ \A p \in Workers : DOMAIN proc[p] = PassFields
  /\ DOMAIN queue = Jobs /\ \A j \in Jobs : DOMAIN queue[j] = JobFields
  /\ DOMAIN runs = Jobs
  /\ \A j \in Jobs : DOMAIN runs[j] = RunFields /\ runs[j].token \in Nat

\* A pass that works a job has leased its TaskRun, and no other pass since under
\* the same token.
RunsAreCounted ==
  \A p \in Workers : proc[p].job \in Jobs =>
    /\ proc[p].run \in Nat /\ proc[p].run <= runs[proc[p].job].token
    /\ \A o \in Workers : o # p /\ proc[o].job = proc[p].job => proc[o].run # proc[p].run

\* A pass that is to write a job read it as its own.
ReadAsOwn ==
  \A p \in Workers : proc[p].pc \in {"reviewing", "retrying"} =>
    proc[p].seen.status = "LEASED" /\ proc[p].seen.owner = WorkerOf[p]

\* A request is granted once.
AskedOnce == asked \cap reopened = {}

QueueInv == QueueShapes /\ RunsAreCounted /\ ReadAsOwn /\ AskedOnce

\* A pass goes on, or its worker turns to another job or none; the tokens stay.
LEMMA PassGoesOn ==
  ASSUME QueueInv, NEW p \in Workers, NEW x, proc' = [proc EXCEPT ![p] = x],
         DOMAIN x = PassFields,
         (x.job = proc[p].job /\ x.run = proc[p].run) \/ x.job \notin Jobs,
         x.pc \in {"reviewing", "retrying"} =>
           x.seen.status = "LEASED" /\ x.seen.owner = WorkerOf[p],
         DOMAIN runs' = Jobs,
         \A j \in Jobs : DOMAIN runs'[j] = RunFields /\ runs'[j].token = runs[j].token,
         DOMAIN queue' = Jobs, \A j \in Jobs : DOMAIN queue'[j] = JobFields,
         asked' = asked, reopened' = reopened
  PROVE  QueueInv'
<1>1. /\ proc'[p] = x /\ DOMAIN proc' = Workers
      /\ \A o \in Workers : o # p => proc'[o] = proc[o]
  BY DEF QueueInv, QueueShapes
<1>2. QueueShapes'
  BY <1>1 DEF QueueInv, QueueShapes
<1>3. RunsAreCounted'
  BY <1>1 DEF QueueInv, RunsAreCounted
<1>4. ReadAsOwn'
  BY <1>1 DEF QueueInv, ReadAsOwn
<1>5. AskedOnce'
  BY DEF QueueInv, AskedOnce
<1> QED
  BY <1>2, <1>3, <1>4, <1>5 DEF QueueInv

\* What the calls of a pass leave it at.
LEMMA GotoIs ==
  ASSUME QueueInv, NEW p \in Workers, NEW pc, Goto(p, pc)
  PROVE  \E x : /\ proc' = [proc EXCEPT ![p] = x] /\ DOMAIN x = PassFields
                /\ x.job = proc[p].job /\ x.run = proc[p].run /\ x.pc = pc
<1> DEFINE x == [proc[p] EXCEPT !.pc = pc, !.seen = Read(NoRow)]
<1>1. proc' = [proc EXCEPT ![p] = x]
  BY DEF Goto, QueueInv, QueueShapes
<1>2. DOMAIN x = PassFields /\ x.job = proc[p].job /\ x.run = proc[p].run /\ x.pc = pc
  BY DEF QueueInv, QueueShapes, PassFields
<1> QED
  BY <1>1, <1>2

LEMMA ReadRowIs ==
  ASSUME QueueInv, NEW p \in Workers, NEW j, NEW pc, ReadRow(p, j, pc)
  PROVE  \E x : /\ proc' = [proc EXCEPT ![p] = x] /\ DOMAIN x = PassFields
                /\ x.job = proc[p].job /\ x.run = proc[p].run /\ x.pc = pc
                /\ x.seen = Read(queue[j])
<1> DEFINE x == [proc[p] EXCEPT !.pc = pc, !.seen = Read(queue[j])]
<1>1. proc' = [proc EXCEPT ![p] = x]
  BY DEF ReadRow, QueueInv, QueueShapes
<1>2. /\ DOMAIN x = PassFields /\ x.job = proc[p].job /\ x.run = proc[p].run /\ x.pc = pc
      /\ x.seen = Read(queue[j])
  BY DEF QueueInv, QueueShapes, PassFields
<1> QED
  BY <1>1, <1>2

LEMMA IdleIs ==
  DOMAIN Idle = PassFields /\ Idle.job \notin Jobs /\ Idle.pc = "idle"
BY JobsAssumption DEF Idle, PassFields

LEMMA AbortIs ==
  ASSUME QueueInv, NEW p \in Workers, Abort(p)
  PROVE  \E x : /\ proc' = [proc EXCEPT ![p] = x] /\ DOMAIN x = PassFields
                /\ x.job \notin Jobs /\ x.pc = "idle"
BY IdleIs DEF Abort

LEMMA AdvanceIs ==
  ASSUME QueueInv, NEW p \in Workers, NEW j, Advance(p, j)
  PROVE  \E x : /\ proc' = [proc EXCEPT ![p] = x] /\ DOMAIN x = PassFields
                /\ x.job \notin Jobs /\ x.pc \in {"idle", "next"}
<1> DEFINE rest == proc[p].batch \ {j}
           on == [proc[p] EXCEPT !.pc = "next", !.job = NoTurn, !.batch = rest, !.run = 0,
                                 !.seen = Read(NoRow)]
           x == IF rest = {} THEN Idle ELSE on
<1>1. proc' = [proc EXCEPT ![p] = x]
  BY Zenon DEF Advance, QueueInv, QueueShapes
<1>2. DOMAIN on = PassFields /\ on.job = NoTurn /\ on.pc = "next"
  BY DEF QueueInv, QueueShapes, PassFields
<1> HIDE DEF on
<1>3. DOMAIN x = PassFields /\ x.job \notin Jobs /\ x.pc \in {"idle", "next"}
  BY <1>2, IdleIs, JobsAssumption
<1> QED
  BY <1>1, <1>3

\* The rows of jobs and of TaskRuns keep their fields, and the runs their tokens.
RowsKept ==
  /\ DOMAIN runs' = Jobs
  /\ \A j \in Jobs : DOMAIN runs'[j] = RunFields /\ runs'[j].token = runs[j].token
  /\ DOMAIN queue' = Jobs /\ \A j \in Jobs : DOMAIN queue'[j] = JobFields

LEMMA UnchangedKeepsRows ==
  ASSUME QueueInv, UNCHANGED <<queue, runs>>
  PROVE  RowsKept
BY DEF QueueInv, QueueShapes, RowsKept

LEMMA JobWriteKeepsRows ==
  ASSUME QueueInv, NEW j \in Jobs, NEW r, queue' = [queue EXCEPT ![j] = r],
         DOMAIN r = JobFields, runs' = runs
  PROVE  RowsKept
BY DEF QueueInv, QueueShapes, RowsKept

LEMMA ClosingKeepsRows ==
  ASSUME QueueInv, NEW j \in Jobs, NEW state \in {"SUCCEEDED", "FAILED"},
         runs' = [runs EXCEPT ![j] = Run!Moved(@, state)], queue' = queue
  PROVE  RowsKept
<1> DEFINE r == Run!Moved(runs[j], state)
<1>1. runs' = [runs EXCEPT ![j] = r]
  BY DEF QueueInv, QueueShapes
<1>2. DOMAIN r = RunFields /\ r.token = runs[j].token
  BY DEF QueueInv, QueueShapes, RunFields, Run!Moved
<1> QED
  BY <1>1, <1>2 DEF QueueInv, QueueShapes, RowsKept

LEMMA ClearedIs ==
  ASSUME NEW r, DOMAIN r = JobFields
  PROVE  DOMAIN Cleared(r) = JobFields /\ Cleared(r).status = r.status
BY DEF Cleared, JobFields

\* Leasing the run of a job gives the pass a token nobody has had.
LEMMA AcquireStep ==
  ASSUME QueueInv, NEW p \in Workers, NEW j \in Jobs, Acquire(p, j)
  PROVE  QueueInv'
<1>1. CASE Abort(p) /\ UNCHANGED runs
  <2>1. RowsKept
    BY <1>1, UnchangedKeepsRows DEF Acquire
  <2> QED
    BY <1>1, <2>1, AbortIs, PassGoesOn DEF Acquire, RowsKept
<1>2. CASE /\ runs' = [runs EXCEPT ![j] = Run!Acquired(@, WorkerOf[p], proc[p].age)]
           /\ proc' = [proc EXCEPT ![p].pc = "call", ![p].job = j, ![p].run = runs'[j].token]
  <2> DEFINE x == [proc[p] EXCEPT !.pc = "call", !.job = j, !.run = runs'[j].token]
  <2>1. /\ DOMAIN runs' = Jobs /\ DOMAIN runs'[j] = RunFields
        /\ runs'[j].token = runs[j].token + 1
        /\ \A i \in Jobs : i # j => runs'[i] = runs[i]
    BY <1>2 DEF QueueInv, QueueShapes, RunFields, Run!Acquired
  <2>2. proc' = [proc EXCEPT ![p] = x]
    BY <1>2, Zenon DEF QueueInv, QueueShapes
  <2>3. /\ DOMAIN x = PassFields /\ x.job = j /\ x.pc = "call"
        /\ x.run = runs[j].token + 1
    BY <2>1 DEF QueueInv, QueueShapes, PassFields
  <2> HIDE DEF x
  <2>4. /\ proc'[p] = x /\ DOMAIN proc' = Workers
        /\ \A o \in Workers : o # p => proc'[o] = proc[o]
    BY <2>2 DEF QueueInv, QueueShapes
  <2>5. queue' = queue /\ asked' = asked /\ reopened' = reopened
    BY DEF Acquire
  <2>6. \A i \in Jobs : DOMAIN runs'[i] = RunFields /\ runs'[i].token \in Nat
                        /\ runs'[i].token >= runs[i].token
    BY <2>1 DEF QueueInv, QueueShapes
  <2>7. QueueShapes'
    BY <2>1, <2>3, <2>4, <2>5, <2>6 DEF QueueInv, QueueShapes
  <2>8. RunsAreCounted'
    <3>1. \A o \in Workers : proc[o].job = j => proc[o].run < x.run /\ proc[o].run # x.run
      BY <2>3 DEF QueueInv, QueueShapes, RunsAreCounted
    <3>2. \A o \in Workers \ {p} : proc'[o].job \in Jobs =>
            /\ proc'[o].run \in Nat /\ proc'[o].run <= runs'[proc'[o].job].token
      BY <2>4, <2>6 DEF QueueInv, QueueShapes, RunsAreCounted
    <3>3. proc'[p].run \in Nat /\ proc'[p].run <= runs'[proc'[p].job].token
      BY <2>1, <2>3, <2>4 DEF QueueInv, QueueShapes
    <3>4. \A o, q \in Workers : o # q /\ proc'[o].job \in Jobs /\ proc'[q].job = proc'[o].job
            => proc'[q].run # proc'[o].run
      BY <2>3, <2>4, <3>1 DEF QueueInv, RunsAreCounted
    <3> QED
      BY <3>2, <3>3, <3>4 DEF RunsAreCounted
  <2>9. ReadAsOwn' /\ AskedOnce'
    BY <2>3, <2>4, <2>5 DEF QueueInv, ReadAsOwn, AskedOnce
  <2> QED
    BY <2>7, <2>8, <2>9 DEF QueueInv
<1> QED
  BY <1>1, <1>2 DEF Acquire

\* mark_manual_review and mark_retry go on from a row read as the worker's own.
LEMMA ReadingStep ==
  ASSUME QueueInv, NEW p \in Workers, NEW j \in Jobs,
         ClaimMissing(p, j) \/ BeginRetry(p, j)
  PROVE  QueueInv'
<1>1. RowsKept /\ asked' = asked /\ reopened' = reopened
  BY UnchangedKeepsRows DEF ClaimMissing, BeginRetry
<1>2. CASE Abort(p)
  BY <1>1, <1>2, AbortIs, PassGoesOn DEF RowsKept
<1>3. CASE /\ Owns(queue[j], WorkerOf[p], proc[p].age)
           /\ ReadRow(p, j, "reviewing") \/ ReadRow(p, j, "retrying")
  <2>1. Read(queue[j]).status = "LEASED" /\ Read(queue[j]).owner = WorkerOf[p]
    BY <1>3 DEF Owns, Read
  <2>2. PICK pc \in {"reviewing", "retrying"} : ReadRow(p, j, pc)
    BY <1>3
  <2> QED
    BY <1>1, <2>1, <2>2, ReadRowIs, PassGoesOn DEF RowsKept
<1> QED
  BY <1>2, <1>3 DEF ClaimMissing, BeginRetry

LEMMA MarkManualReviewStep ==
  ASSUME QueueInv, NEW p \in Workers, NEW j \in Jobs,
         MarkManualReview(p, j)
  PROVE  QueueInv'
<1> DEFINE r == [Cleared(queue[j]) EXCEPT !.status = "MANUAL_REVIEW", !.wait = 0]
<1>1. queue' = [queue EXCEPT ![j] = r]
  BY DEF MarkManualReview, QueueInv, QueueShapes
<1>2. DOMAIN r = JobFields
  BY ClearedIs DEF QueueInv, QueueShapes
<1> HIDE DEF r
<1>3. RowsKept
  BY <1>1, <1>2, JobWriteKeepsRows DEF MarkManualReview
<1> QED
  BY <1>3, AdvanceIs, PassGoesOn DEF RowsKept, MarkManualReview

LEMMA CallFailsStep ==
  ASSUME QueueInv, NEW p \in Workers, NEW j \in Jobs, CallFails(p, j)
  PROVE  QueueInv'
<1>1. RowsKept
  BY UnchangedKeepsRows DEF CallFails
<1> QED
  BY <1>1, GotoIs, PassGoesOn DEF RowsKept, CallFails

LEMMA BeginCompleteStep ==
  ASSUME QueueInv, NEW p \in Workers, NEW j \in Jobs, BeginCompleteJob(p, j)
  PROVE  QueueInv'
<1>1. RowsKept
  BY UnchangedKeepsRows DEF BeginCompleteJob
<1> QED
  BY <1>1, ReadRowIs, PassGoesOn DEF RowsKept, BeginCompleteJob

\* An answer written over a row leaves it alone, or verified.
LEMMA AnsweredIs ==
  ASSUME NEW r, DOMAIN r = JobFields, NEW seen
  PROVE  /\ DOMAIN Answered(r, seen) = JobFields
         /\ Answered(r, seen) = r \/ Answered(r, seen).status = "VERIFIED"
<1> DEFINE c == IF seen.owner = NoWorker THEN r ELSE Cleared(r)
<1>1. DOMAIN c = JobFields
  BY ClearedIs
<1> HIDE DEF c
<1>2. /\ DOMAIN [c EXCEPT !.status = "VERIFIED", !.wait = 0] = JobFields
      /\ [c EXCEPT !.status = "VERIFIED", !.wait = 0].status = "VERIFIED"
  BY <1>1 DEF JobFields
<1> QED
  BY <1>2 DEF Answered, c

LEMMA AnswerStep ==
  ASSUME QueueInv, NEW p \in Workers, NEW j \in Jobs, NEW answer,
         CompleteJob(p, j, answer)
  PROVE  QueueInv'
<1>1. RowsKept
  <2> DEFINE r == Answered(queue[j], proc[p].seen)
  <2>1. DOMAIN r = JobFields
    BY AnsweredIs DEF QueueInv, QueueShapes
  <2>2. queue' = [queue EXCEPT ![j] = r] \/ queue' = queue
    BY DEF CompleteJob, QueueInv, QueueShapes
  <2> HIDE DEF r
  <2> QED
    BY <2>1, <2>2, JobWriteKeepsRows, UnchangedKeepsRows DEF CompleteJob
<1>2. PICK pc \in {"succeed_run", "failing"} : Goto(p, pc)
  BY DEF CompleteJob
<1> QED
  BY <1>1, <1>2, GotoIs, PassGoesOn DEF RowsKept, CompleteJob

LEMMA ClosingStep ==
  ASSUME QueueInv, NEW p \in Workers, NEW j \in Jobs,
         SucceedRun(p, j) \/ FailRun(p, j)
  PROVE  QueueInv'
<1>1. RowsKept /\ asked' = asked /\ reopened' = reopened
  BY UnchangedKeepsRows, ClosingKeepsRows DEF SucceedRun, FailRun
<1>2. CASE Advance(p, j)
  BY <1>1, <1>2, AdvanceIs, PassGoesOn DEF RowsKept
<1>3. CASE Goto(p, "failing")
  BY <1>1, <1>3, GotoIs, PassGoesOn DEF RowsKept
<1>4. CASE Abort(p)
  BY <1>1, <1>4, AbortIs, PassGoesOn DEF RowsKept
<1> QED
  BY <1>2, <1>3, <1>4 DEF SucceedRun, FailRun

LEMMA MarkRetryStep ==
  ASSUME QueueInv, NEW p \in Workers, NEW j \in Jobs, MarkRetry(p, j)
  PROVE  QueueInv'
<1> DEFINE r == Retried(queue[j], proc[p].seen.retries, proc[p].age)
<1>1. queue' = [queue EXCEPT ![j] = r]
  BY DEF MarkRetry, QueueInv, QueueShapes
<1>2. DOMAIN r = JobFields
  BY ClearedIs DEF QueueInv, QueueShapes, Retried
<1> HIDE DEF r
<1>3. RowsKept
  BY <1>1, <1>2, JobWriteKeepsRows DEF MarkRetry
<1> QED
  BY <1>3, GotoIs, PassGoesOn DEF RowsKept, MarkRetry

LEMMA CrashStep ==
  ASSUME QueueInv, NEW p \in Workers, Crash(p)
  PROVE  QueueInv'
<1>1. RowsKept
  BY UnchangedKeepsRows DEF Crash
<1> QED
  BY <1>1, AbortIs, PassGoesOn DEF RowsKept, Crash

LEMMA ClaimDueStep ==
  ASSUME QueueInv, NEW p \in Workers, ClaimDueJobs(p)
  PROVE  QueueInv'
<1> DEFINE due == {j \in Jobs : DueJob(queue[j])}
           leased(j) == [queue[j] EXCEPT !.status = "LEASED", !.owner = WorkerOf[p],
                                         !.left = LeaseTicks]
           x == [Idle EXCEPT !.pc = "next", !.batch = due]
<1>1. RowsKept
  <2>1. \A j \in Jobs : DOMAIN leased(j) = JobFields
    BY DEF QueueInv, QueueShapes, JobFields
  <2>2. DOMAIN queue' = Jobs /\ \A j \in Jobs : queue'[j] = leased(j) \/ queue'[j] = queue[j]
    BY DEF ClaimDueJobs
  <2> QED
    BY <2>1, <2>2 DEF ClaimDueJobs, QueueInv, QueueShapes, RowsKept
<1>2. proc' = [proc EXCEPT ![p] = x]
  BY DEF ClaimDueJobs
<1>3. DOMAIN x = PassFields /\ x.job \notin Jobs /\ x.pc = "next"
  BY JobsAssumption DEF Idle, PassFields
<1> HIDE DEF x
<1> QED
  BY <1>1, <1>2, <1>3, PassGoesOn DEF RowsKept, ClaimDueJobs

\* Enqueueing, asking for a retry and reopening leave the passes alone.
LEMMA RequestStep ==
  ASSUME QueueInv, NEW j \in Jobs, Enqueue(j) \/ ReadForRetry(j) \/ Requeue(j)
  PROVE  QueueInv'
<1>1. AskedOnce'
  BY DEF QueueInv, AskedOnce, Enqueue, ReadForRetry, Requeue
<1>2. proc' = proc /\ runs' = runs
  BY DEF Enqueue, ReadForRetry, Requeue
<1>3. DOMAIN queue' = Jobs /\ \A i \in Jobs : DOMAIN queue'[i] = JobFields
  <2> DEFINE created == [queue[j] EXCEPT !.status = "VERIFICATION_PENDING"]
             opened == [Cleared(queue[j]) EXCEPT !.status = "VERIFICATION_PENDING", !.wait = 0]
  <2>1. DOMAIN created = JobFields /\ DOMAIN opened = JobFields
    BY ClearedIs DEF QueueInv, QueueShapes
  <2>2. \/ queue' = [queue EXCEPT ![j] = created]
        \/ queue' = queue
        \/ queue' = [queue EXCEPT ![j] = opened]
    BY DEF QueueInv, QueueShapes, Enqueue, ReadForRetry, Requeue
  <2> HIDE DEF created, opened
  <2> QED
    BY <2>1, <2>2 DEF QueueInv, QueueShapes
<1>4. QueueShapes'
  BY <1>2, <1>3 DEF QueueInv, QueueShapes
<1>5. RunsAreCounted' /\ ReadAsOwn'
  BY <1>2 DEF QueueInv, RunsAreCounted, ReadAsOwn
<1> QED
  BY <1>1, <1>4, <1>5 DEF QueueInv

LEMMA TickStep ==
  ASSUME QueueInv, JobsTick
  PROVE  QueueInv'
<1>1. DOMAIN queue' = Jobs /\ \A j \in Jobs : DOMAIN queue'[j] = JobFields
  BY DEF JobsTick, QueueInv, QueueShapes
<1>2. DOMAIN runs' = Jobs
      /\ \A j \in Jobs : DOMAIN runs'[j] = RunFields /\ runs'[j].token = runs[j].token
  BY DEF JobsTick, Run!Aged, QueueInv, QueueShapes, RunFields
<1>3. DOMAIN proc' = Workers
  BY DEF JobsTick
<1>4. \A p \in Workers :
        /\ DOMAIN proc'[p] = PassFields
        /\ proc'[p].job = proc[p].job /\ proc'[p].run = proc[p].run
        /\ proc'[p].pc = proc[p].pc /\ proc'[p].seen = proc[p].seen
  BY DEF JobsTick, QueueInv, QueueShapes, PassFields
<1>5. QueueShapes'
  BY <1>1, <1>2, <1>3, <1>4 DEF QueueInv, QueueShapes
<1>6. RunsAreCounted'
  BY <1>2, <1>4 DEF QueueInv, RunsAreCounted
<1>7. ReadAsOwn'
  BY <1>4 DEF QueueInv, ReadAsOwn
<1>8. AskedOnce'
  BY DEF JobsTick, QueueInv, AskedOnce
<1> QED
  BY <1>5, <1>6, <1>7, <1>8 DEF QueueInv

LEMMA QueueInvInitially ==
  ASSUME JobsInit
  PROVE  QueueInv
<1>1. QueueShapes
  BY DEF QueueShapes, JobsInit, Idle, NoRow, Run!NoRun, PassFields, JobFields, RunFields
<1>2. \A p \in Workers : proc[p].job = NoTurn /\ proc[p].pc = "idle"
  BY DEF JobsInit, Idle
<1>3. RunsAreCounted /\ ReadAsOwn /\ AskedOnce
  BY <1>2, JobsAssumption DEF JobsInit, RunsAreCounted, ReadAsOwn, AskedOnce
<1> QED
  BY <1>1, <1>3 DEF QueueInv

LEMMA QueueInvStep ==
  ASSUME QueueInv, [JobsNext]_jobsVars
  PROVE  QueueInv'
<1>1. CASE UNCHANGED jobsVars
  BY <1>1 DEF jobsVars, QueueInv, QueueShapes, RunsAreCounted, ReadAsOwn, AskedOnce
<1>2. CASE JobsTick
  BY <1>2, TickStep
<1>3. CASE \E j \in Jobs : Enqueue(j) \/ ReadForRetry(j) \/ Requeue(j)
  BY <1>3, RequestStep
<1>4. ASSUME NEW p \in Workers, ClaimDueJobs(p) \/ Crash(p)
      PROVE  QueueInv'
  BY <1>4, ClaimDueStep, CrashStep
<1>5. ASSUME NEW p \in Workers, NEW j \in Jobs, PassStep(p, j)
      PROVE  QueueInv'
  BY <1>5, AcquireStep, ReadingStep, MarkManualReviewStep, CallFailsStep, BeginCompleteStep,
     AnswerStep, ClosingStep, MarkRetryStep DEF PassStep
<1> QED
  BY <1>1, <1>2, <1>3, <1>4, <1>5 DEF JobsNext

\* Two passes never both hold the TaskRun of a job (TaskRun.require_lease).
THEOREM OneRunHolderHolds ==
  JobsSpec => []OneRunHolder
<1>1. JobsInit => QueueInv
  BY QueueInvInitially
<1>2. QueueInv /\ [JobsNext]_jobsVars => QueueInv'
  BY QueueInvStep
<1>3. QueueInv => OneRunHolder
  BY DEF QueueInv, RunsAreCounted, OneRunHolder, Run!Leases
<1> QED
  BY <1>1, <1>2, <1>3, PTL DEF JobsSpec

\* What a settled job's row may become in one transaction.
LEMMA SettledStep ==
  ASSUME QueueInv, [JobsNext]_jobsVars, NEW j \in Jobs,
         queue[j].status \in Settled, queue'[j].status # queue[j].status
  PROVE  \/ j \in reopened' \ reopened
         \/ queue'[j].status = "VERIFIED" /\ answers[j] # {}
         \/ \E p \in Workers : /\ proc[p].job = j /\ proc[p].seen.status = "LEASED"
                               /\ proc[p].seen.owner = WorkerOf[p] /\ proc'[p] # proc[p]
<1>1. queue[j].status \in {"VERIFIED", "MANUAL_REVIEW"} /\ queue' # queue
  BY DEF Settled
<1>2. CASE JobsTick
  BY <1>1, <1>2 DEF JobsTick, QueueInv, QueueShapes, JobFields
<1>3. ASSUME NEW i \in Jobs, Enqueue(i)
      PROVE  FALSE
  BY <1>1, <1>3 DEF Enqueue, QueueInv, QueueShapes, JobFields
<1>4. ASSUME NEW i \in Jobs, Requeue(i)
      PROVE  j \in reopened' \ reopened
  <2>1. i = j
    BY <1>1, <1>4 DEF Requeue, QueueInv, QueueShapes
  <2> QED
    BY <1>4, <2>1 DEF Requeue, QueueInv, AskedOnce
<1>5. ASSUME NEW p \in Workers, ClaimDueJobs(p)
      PROVE  FALSE
  BY <1>1, <1>5 DEF ClaimDueJobs, DueJob
<1>6. ASSUME NEW p \in Workers, NEW i \in Jobs, MarkManualReview(p, i) \/ MarkRetry(p, i)
      PROVE  /\ proc[p].job = j /\ proc[p].seen.status = "LEASED"
             /\ proc[p].seen.owner = WorkerOf[p] /\ proc'[p] # proc[p]
  <2>1. i = j
    BY <1>1, <1>6 DEF MarkManualReview, MarkRetry, QueueInv, QueueShapes
  <2>2. proc[p].job = j /\ proc[p].pc \in {"reviewing", "retrying"}
    BY <1>6, <2>1 DEF MarkManualReview, MarkRetry, At
  <2>3. proc'[p] # proc[p]
    <3>1. CASE MarkManualReview(p, i)
      <4>1. \E x : proc' = [proc EXCEPT ![p] = x] /\ x.pc \in {"idle", "next"}
        BY <3>1, AdvanceIs DEF MarkManualReview
      <4> QED
        BY <4>1, <2>2 DEF QueueInv, QueueShapes
    <3>2. CASE MarkRetry(p, i)
      <4>1. \E x : proc' = [proc EXCEPT ![p] = x] /\ x.pc = "fail_run"
        BY <3>2, GotoIs DEF MarkRetry
      <4> QED
        BY <4>1, <2>2 DEF QueueInv, QueueShapes
    <3> QED
      BY <1>6, <3>1, <3>2
  <2> QED
    BY <2>2, <2>3 DEF QueueInv, ReadAsOwn
<1>7. ASSUME NEW p \in Workers, NEW i \in Jobs, NEW answer, CompleteJob(p, i, answer)
      PROVE  \/ queue'[j].status = "VERIFIED" /\ answers[j] # {}
             \/ /\ proc[p].job = j /\ proc[p].seen.status = "LEASED"
                /\ proc[p].seen.owner = WorkerOf[p] /\ proc'[p] # proc[p]
  <2>1. answer \in answers[i] \/ Completes(proc[p].seen, WorkerOf[p])
    BY <1>1, <1>7 DEF CompleteJob
  <2>2. queue' = [queue EXCEPT ![i] = Answered(queue[i], proc[p].seen)]
    BY <2>1, <1>7 DEF CompleteJob, QueueInv, QueueShapes
  <2>3. i = j /\ queue'[j] = Answered(queue[j], proc[p].seen)
    BY <2>2, <1>1 DEF QueueInv, QueueShapes
  <2>4. queue'[j].status = "VERIFIED"
    BY <2>3, AnsweredIs DEF QueueInv, QueueShapes
  <2>5. proc[p].job = j /\ proc'[p] # proc[p]
    <3>1. proc[p].job = j /\ proc[p].pc = "completing" /\ Goto(p, "succeed_run")
      BY <2>1, <2>3, <1>7 DEF CompleteJob, At
    <3>2. \E x : proc' = [proc EXCEPT ![p] = x] /\ x.pc = "succeed_run"
      BY <3>1, GotoIs
    <3> QED
      BY <3>1, <3>2 DEF QueueInv, QueueShapes
  <2> QED
    BY <2>1, <2>3, <2>4, <2>5 DEF Completes
<1>8. ASSUME NEW p \in Workers, NEW i \in Jobs, PassStep(p, i),
             ~ MarkManualReview(p, i), ~ MarkRetry(p, i),
             ~ \E answer \in Answers : CompleteJob(p, i, answer)
      PROVE  FALSE
  BY <1>1, <1>8 DEF PassStep, Acquire, ClaimMissing, CallFails, BeginCompleteJob,
     SucceedRun, BeginRetry, FailRun
<1>9. ~ (\E i \in Jobs : ReadForRetry(i)) /\ ~ (\E p \in Workers : Crash(p))
      /\ ~ UNCHANGED jobsVars
  BY <1>1 DEF ReadForRetry, Crash, jobsVars
<1> QED
  BY <1>2, <1>3, <1>4, <1>5, <1>6, <1>7, <1>8, <1>9 DEF JobsNext

\* A settled job is moved only by a retry request, a late write or an answer
\* already on record (claim_due, _assert_owner, complete).
THEOREM SettledIsUndoneByALateWrite ==
  JobsSpec => UndoneOnlyByALateWrite
<1>1. JobsInit => QueueInv
  BY QueueInvInitially
<1>2. QueueInv /\ [JobsNext]_jobsVars => QueueInv'
  BY QueueInvStep
<1>3. QueueInv /\ [JobsNext]_jobsVars
        => [\A j \in Jobs : queue[j].status \in Settled /\ queue'[j].status # queue[j].status =>
              \/ j \in reopened' \ reopened
              \/ queue'[j].status = "VERIFIED" /\ answers[j] # {}
              \/ \E p \in Workers :
                   /\ proc[p].job = j /\ proc[p].seen.status = "LEASED"
                   /\ proc[p].seen.owner = WorkerOf[p] /\ proc'[p] # proc[p]]_jobsVars
  BY SettledStep
<1> QED
  BY <1>1, <1>2, <1>3, PTL DEF JobsSpec, UndoneOnlyByALateWrite
=============================================================================
