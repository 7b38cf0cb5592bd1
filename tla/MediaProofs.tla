----------------------------- MODULE MediaProofs -----------------------------
(***************************************************************************)
(* What becomes of the media of a source: the files that attempts keep under *)
(* the hash of their bytes, the playlists and manifests that are made local,  *)
(* and the deletions a sweep of the retention may make.  Three machines with  *)
(* nothing in common but the files; each has its invariant here.              *)
(***************************************************************************)
EXTENDS Retention, SourceMedia, MediaGraphs, TLAPS, FiniteSetTheorems

-----------------------------------------------------------------------------
(***************************************************************************)
(* The sweeps: Retention, for all artifacts, files, sweepers and bounds.  No  *)
(* deletion is on record that did not take place, and only bytes of an        *)
(* artifact that is due go.                                                *)
(*                                                                         *)
(* Both are about a row that several sweeps read and write at will.  What     *)
(* carries them is what a sweep has established before it goes on: from Plan  *)
(* on its candidate is due and was not held when listed (Justified); once the *)
(* intent is there it stays (IntentFirst); and who comes to mark a deletion   *)
(* has seen the file off since (GoneBeforeMark).                             *)
(***************************************************************************)
States == {"NONE", "DELETE_PENDING", "DELETED", "DELETE_FAILED"}

Early == {"idle", "mapped", "sweeping"}
WithIntent == {"preparing", "deleting", "deleted", "failed", "marking", "marking_failed"}
Handling == {"intending"} \cup WithIntent

Sweeps ==
  [pc : Early \cup Handling, map : SUBSET Artifacts, todo : SUBSET Artifacts,
   spared : SUBSET Artifacts, current : Artifacts \cup {NoArtifact}, seen : States]

Shapes ==
  /\ day \in Nat
  /\ present \subseteq Files
  /\ fetched \in [Artifacts -> Nat] /\ created \in [Artifacts -> Nat]
  /\ locators \subseteq Artifacts /\ held \subseteq Artifacts
  /\ execution \in [Artifacts -> States]
  /\ sweep \in [Sweepers -> Sweeps]

\* A locator comes with its artifact's row.
Registered == \A a \in locators : created[a] # 0

\* Candidates have a locator, and the one in hand is due and was not held.
Fit(state) ==
  /\ state.todo \subseteq locators
  /\ state.pc \in Handling =>
       /\ state.current \in state.todo
       /\ state.current \notin state.spared /\ Expired(state.current)

Justified == \A w \in Sweepers : Fit(sweep[w])

IntentFirst ==
  \A w \in Sweepers : sweep[w].pc \in WithIntent => execution[sweep[w].current] # "NONE"

GoneBeforeMark ==
  \A w \in Sweepers : sweep[w].pc \in {"deleted", "marking"} => sweep[w].current \in absent

IInv == Shapes /\ Registered /\ Justified /\ IntentFirst /\ GoneBeforeMark /\ DeletedMeansGone

-----------------------------------------------------------------------------
\* What holds initially.
LEMMA InitInv == Init => IInv
<1> SUFFICES ASSUME Init
             PROVE  IInv
  OBVIOUS
<1> QED
  BY DEF Init, IInv, Shapes, Registered, Justified, Fit, IntentFirst, GoneBeforeMark,
     DeletedMeansGone, NoSweep, Sweeps, States, Early, Handling, WithIntent

\* What has been absent since its intent stays on the list.
LEMMA AbsentGrows == Observe => absent \subseteq absent'
  BY DEF Observe

\* A step that changes nothing but the world the sweeps look at, and that in the
\* direction time and registration go, keeps the invariant.
LEMMA WorldStep ==
  ASSUME IInv, Observe, UNCHANGED <<execution, sweep>>,
         day' \in Nat, day' >= day, present' \subseteq Files,
         fetched' \in [Artifacts -> Nat], created' \in [Artifacts -> Nat],
         locators \subseteq locators', locators' \subseteq Artifacts, held' \subseteq Artifacts,
         \A a \in locators : created'[a] = created[a],
         \A a \in locators' \ locators : created'[a] # 0
  PROVE  IInv'
<1>1. Shapes' /\ Registered'
  BY DEF IInv, Shapes, Registered
<1>2. \A a \in locators : Expired(a) => Expired(a)'
  BY DaysAssumption DEF Expired, IInv, Shapes
<1>3. Justified'
  BY <1>2 DEF IInv, Shapes, Justified, Fit
<1>4. IntentFirst' /\ GoneBeforeMark' /\ DeletedMeansGone'
  BY AbsentGrows DEF IInv, IntentFirst, GoneBeforeMark, DeletedMeansGone
<1> QED
  BY <1>1, <1>3, <1>4 DEF IInv

\* The world's own steps: time, downloads, registrations, holds.
LEMMA WorldKeeps ==
  ASSUME IInv, Observe, NEW a \in Artifacts, Tick \/ Download(a) \/ Register(a) \/ SetHold(a)
  PROVE  IInv'
<1> USE DEF IInv
<1>1. CASE Tick
  BY <1>1, WorldStep DEF Tick, Shapes, media
<1>2. CASE Download(a)
  <2>1. present' \subseteq Files /\ fetched' \in [Artifacts -> Nat]
    BY <1>2, FilesAssumption DEF Download, Shapes
  <2> QED
    BY <1>2, <2>1, WorldStep DEF Download, Shapes, media
<1>3. CASE Register(a)
  BY <1>3, WorldStep DEF Register, Shapes, Registered, media
<1>4. CASE SetHold(a)
  BY <1>4, WorldStep DEF SetHold, Shapes, media
<1> QED
  BY <1>1, <1>2, <1>3, <1>4

-----------------------------------------------------------------------------
\* A sweep's step leaves the other sweeps, and the world but for the bytes, alone.
\* It keeps the invariant if its own next state is justified.
LEMMA SweepStep ==
  ASSUME IInv, Observe, NEW w \in Sweepers, NEW next \in Sweeps,
         sweep' = [sweep EXCEPT ![w] = next],
         UNCHANGED <<day, fetched, created, locators, held>>,
         present' \subseteq Files, execution' \in [Artifacts -> States],
         \A a \in Artifacts : execution[a] # "NONE" => execution'[a] # "NONE",
         \A a \in Artifacts : execution'[a] = "DELETED" => execution[a] = "DELETED" \/ a \in absent',
         Fit(next),
         next.pc \in WithIntent => execution'[next.current] # "NONE",
         next.pc \in {"deleted", "marking"} => next.current \in absent'
  PROVE  IInv'
<1>1. sweep \in [Sweepers -> Sweeps] /\ sweep'[w] = next
  BY DEF IInv, Shapes
<1>2. \A v \in Sweepers : v # w => sweep'[v] = sweep[v]
  BY <1>1
<1>3. Shapes' /\ Registered'
  BY <1>1 DEF IInv, Shapes, Registered
<1>4. \A a \in Artifacts : Expired(a)' <=> Expired(a)
  BY DEF Expired
<1>5. \A v \in Sweepers : sweep[v].pc \in Handling => sweep[v].current \in Artifacts
  BY DEF IInv, Shapes, Justified, Fit
<1>6. next.pc \in Handling => next.current \in Artifacts
  BY DEF Fit, IInv, Shapes
<1>7. Justified'
  BY <1>1, <1>2, <1>4, <1>5, <1>6 DEF IInv, Justified, Fit
<1>8. IntentFirst'
  BY <1>1, <1>2, <1>5 DEF IInv, IntentFirst, Handling
<1>9. GoneBeforeMark'
  BY <1>1, <1>2, AbsentGrows DEF IInv, GoneBeforeMark
<1>10. DeletedMeansGone'
  BY AbsentGrows DEF IInv, DeletedMeansGone
<1> QED
  BY <1>3, <1>7, <1>8, <1>9, <1>10 DEF IInv

\* Beginning, listing, ending and dying.
LEMMA EdgeKeeps ==
  ASSUME IInv, Observe, NEW w \in Sweepers, Start(w) \/ List(w) \/ End(w) \/ Die(w)
  PROVE  IInv'
<1>1. sweep \in [Sweepers -> Sweeps] /\ sweep[w] \in Sweeps
  BY DEF IInv, Shapes
<1>2. NoSweep \in Sweeps
  BY DEF NoSweep, Sweeps, States, Early
<1>3. IInv => /\ present \subseteq Files /\ execution \in [Artifacts -> States]
              /\ locators \subseteq Artifacts /\ held \subseteq Artifacts
  BY DEF IInv, Shapes
<1>4. CASE Start(w)
  <2> DEFINE next == [NoSweep EXCEPT !.pc = "mapped", !.map = locators]
  <2>1. next \in Sweeps /\ next.pc = "mapped" /\ next.todo = {}
    BY <1>3 DEF NoSweep, Sweeps, States, Early
  <2>2. sweep' = [sweep EXCEPT ![w] = next]
    BY <1>4 DEF Start
  <2> QED
    BY <1>3, <1>4, <2>1, <2>2, SweepStep DEF Start, Quietly, media, Fit, Handling, WithIntent
<1>5. CASE List(w)
  <2> DEFINE next == [sweep[w] EXCEPT !.pc = "sweeping", !.todo = locators, !.spared = held]
  <2>1. next \in Sweeps /\ next.pc = "sweeping" /\ next.todo = locators
    BY <1>1, <1>3 DEF Sweeps, Early
  <2>2. sweep' = [sweep EXCEPT ![w] = next]
    BY <1>1, <1>5 DEF List, Sweeps
  <2> QED
    BY <1>3, <1>5, <2>1, <2>2, SweepStep DEF List, Quietly, media, Fit, Handling, WithIntent
<1>6. CASE End(w) \/ Die(w)
  <2>1. NoSweep.pc = "idle" /\ NoSweep.todo = {}
    BY DEF NoSweep
  <2> QED
    BY <1>2, <1>3, <1>6, <2>1, SweepStep DEF End, Die, Quietly, media, Fit, Handling, WithIntent
<1> QED
  BY <1>4, <1>5, <1>6

-----------------------------------------------------------------------------
\* Going on to the next candidate, whatever was written to the intent before.
LEMMA PassKeeps ==
  ASSUME IInv, Observe, NEW w \in Sweepers, NEW a \in Artifacts, Pass(w, a),
         UNCHANGED <<day, media, held>>,
         execution' \in [Artifacts -> States],
         \A b \in Artifacts : execution[b] # "NONE" => execution'[b] # "NONE",
         \A b \in Artifacts : execution'[b] = "DELETED" => execution[b] = "DELETED" \/ b \in absent'
  PROVE  IInv'
<1> DEFINE next == [sweep[w] EXCEPT !.pc = "sweeping", !.current = NoArtifact,
                                    !.todo = @ \ {a}, !.seen = "NONE"]
<1>1. sweep \in [Sweepers -> Sweeps] /\ sweep[w] \in Sweeps /\ present \subseteq Files
  BY DEF IInv, Shapes
<1>2. next \in Sweeps /\ next.pc = "sweeping" /\ next.todo \subseteq sweep[w].todo
  BY <1>1 DEF Sweeps, Early, States
<1>3. sweep' = [sweep EXCEPT ![w] = next]
  BY <1>1 DEF Pass, Sweeps
<1>4. Fit(next)
  BY <1>2 DEF IInv, Justified, Fit, Handling, WithIntent
<1> HIDE DEF next
<1> QED
  BY <1>1, <1>2, <1>3, <1>4, SweepStep DEF media, WithIntent

\* Going on with the candidate in hand, the intent being there.
LEMMA GoOnKeeps ==
  ASSUME IInv, Observe, NEW w \in Sweepers, NEW a \in Artifacts, sweep[w].current = a,
         sweep[w].pc \in Handling,
         NEW pc \in WithIntent, NEW seen \in States,
         sweep' = [sweep EXCEPT ![w].pc = pc, ![w].seen = seen],
         UNCHANGED <<day, fetched, created, locators, held>>,
         present' \subseteq Files, execution' \in [Artifacts -> States],
         \A b \in Artifacts : execution'[b] = execution[b] \/ execution'[b] = "DELETE_PENDING",
         execution'[a] # "NONE",
         pc \in {"deleted", "marking"} => a \in absent'
  PROVE  IInv'
<1> DEFINE next == [sweep[w] EXCEPT !.pc = pc, !.seen = seen]
<1>1. sweep \in [Sweepers -> Sweeps] /\ sweep[w] \in Sweeps
  BY DEF IInv, Shapes
<1>2. /\ next \in Sweeps /\ next.pc = pc /\ next.current = a
      /\ next.todo = sweep[w].todo /\ next.spared = sweep[w].spared
  BY <1>1 DEF Sweeps, Handling
<1>3. sweep' = [sweep EXCEPT ![w] = next]
  BY <1>1 DEF Sweeps
<1>4. Fit(next)
  BY <1>2 DEF IInv, Justified, Fit
<1> HIDE DEF next
<1> QED
  BY <1>2, <1>3, <1>4, SweepStep

\* Every step of a sweep with a candidate keeps the invariant.
LEMMA HandleKeeps ==
  ASSUME IInv, Observe, NEW w \in Sweepers, NEW a \in Artifacts, Handle(w, a)
  PROVE  IInv'
<1>1. /\ sweep \in [Sweepers -> Sweeps] /\ sweep[w] \in Sweeps
      /\ present \subseteq Files /\ execution \in [Artifacts -> States]
  BY DEF IInv, Shapes
<1>2. sweep[w].pc \in WithIntent /\ sweep[w].current = a => execution[a] # "NONE"
  BY DEF IInv, IntentFirst
<1>3. CASE Spare(w, a)
  BY <1>1, <1>3, PassKeeps DEF Spare, Quietly
<1>4. CASE Plan(w, a)
  <2> DEFINE pc == IF execution[a] = "NONE" THEN "intending" ELSE "preparing"
             next == [sweep[w] EXCEPT !.current = a, !.pc = pc]
  <2>1. pc \in Handling /\ (pc \in WithIntent => execution[a] # "NONE") /\ pc \notin {"deleted", "marking"}
    BY DEF Handling, WithIntent
  <2>2. sweep' = [sweep EXCEPT ![w] = next]
    BY <1>1, <1>4 DEF Plan, Sweeps
  <2> HIDE DEF pc
  <2>3. /\ next \in Sweeps /\ next.pc = pc /\ next.current = a
        /\ next.todo = sweep[w].todo /\ next.spared = sweep[w].spared
    BY <1>1, <2>1 DEF Sweeps
  <2>4. Fit(next)
    BY <1>4, <2>3 DEF Plan, Turn, Kept, IInv, Justified, Fit
  <2> HIDE DEF next
  <2> QED
    BY <1>1, <1>4, <2>1, <2>2, <2>3, <2>4, SweepStep DEF Plan, Quietly, media
<1>5. CASE Intend(w, a)
  <2>1. CASE sweep' = [sweep EXCEPT ![w] = NoSweep]
    <3>1. NoSweep \in Sweeps /\ NoSweep.pc = "idle" /\ NoSweep.todo = {}
      BY DEF NoSweep, Sweeps, States, Early
    <3>2. Fit(NoSweep) /\ execution' \in [Artifacts -> States]
      BY <1>1, <1>5, <3>1 DEF Fit, Handling, WithIntent, Intend, States
    <3>3. /\ UNCHANGED <<day, fetched, created, locators, held, present>>
          /\ \A b \in Artifacts : execution'[b] = execution[b] \/ execution'[b] = "DELETE_PENDING"
      BY <1>1, <1>5 DEF Intend, media
    <3> QED
      BY <1>1, <2>1, <3>1, <3>2, <3>3, SweepStep DEF WithIntent
  <2>2. CASE GoTo(w, "preparing")
    <3>1. sweep' = [sweep EXCEPT ![w].pc = "preparing", ![w].seen = sweep[w].seen]
      BY <1>1, <2>2 DEF GoTo, Sweeps
    <3>2. sweep[w].pc \in Handling /\ sweep[w].current = a /\ sweep[w].seen \in States
      BY <1>1, <1>5 DEF Intend, At, Handling, Sweeps
    <3>3. /\ UNCHANGED <<day, fetched, created, locators, held, present>>
          /\ execution' \in [Artifacts -> States] /\ execution'[a] # "NONE"
          /\ \A b \in Artifacts : execution'[b] = execution[b] \/ execution'[b] = "DELETE_PENDING"
      BY <1>1, <1>5 DEF Intend, media, States
    <3> QED
      BY <1>1, <3>1, <3>2, <3>3, GoOnKeeps DEF WithIntent
  <2> QED
    BY <1>5, <2>1, <2>2 DEF Intend
<1>6. CASE Prepare(w, a)
  <2>1. CASE Pass(w, a)
    BY <1>1, <1>6, <2>1, PassKeeps DEF Prepare, Quietly
  <2>2. CASE GoTo(w, "deleting")
    <3>1. sweep' = [sweep EXCEPT ![w].pc = "deleting", ![w].seen = sweep[w].seen]
      BY <1>1, <2>2 DEF GoTo, Sweeps
    <3>2. /\ sweep[w].pc \in WithIntent /\ sweep[w].pc \in Handling
          /\ sweep[w].current = a /\ sweep[w].seen \in States
      BY <1>1, <1>6 DEF Prepare, At, Handling, WithIntent, Sweeps
    <3> QED
      BY <1>1, <1>2, <1>6, <3>1, <3>2, GoOnKeeps DEF Prepare, Quietly, media, WithIntent
  <2> QED
    BY <1>6, <2>1, <2>2 DEF Prepare
<1>7. CASE Delete(w, a)
  <2>1. sweep' = [sweep EXCEPT ![w].pc = "deleted", ![w].seen = sweep[w].seen]
    BY <1>1, <1>7 DEF Delete, GoTo, Sweeps
  <2>2. /\ sweep[w].pc \in WithIntent /\ sweep[w].pc \in Handling
        /\ sweep[w].current = a /\ sweep[w].seen \in States
    BY <1>1, <1>7 DEF Delete, At, Handling, WithIntent, Sweeps
  <2>3. a \in absent'
    BY <1>2, <1>7, <2>2 DEF Delete, Mapped, Observe
  <2> QED
    BY <1>1, <1>2, <1>7, <2>1, <2>2, <2>3, GoOnKeeps DEF Delete, WithIntent
<1>8. CASE FailDelete(w, a)
  <2>1. sweep' = [sweep EXCEPT ![w].pc = "failed", ![w].seen = sweep[w].seen]
    BY <1>1, <1>8 DEF FailDelete, GoTo, Sweeps
  <2>2. /\ sweep[w].pc \in WithIntent /\ sweep[w].pc \in Handling
        /\ sweep[w].current = a /\ sweep[w].seen \in States
    BY <1>1, <1>8 DEF FailDelete, At, Handling, WithIntent, Sweeps
  <2> QED
    BY <1>1, <1>2, <1>8, <2>1, <2>2, GoOnKeeps DEF FailDelete, media, WithIntent
<1>9. CASE ReadMark(w, a)
  <2> DEFINE pc == IF sweep[w].pc = "deleted" THEN "marking" ELSE "marking_failed"
  <2>1. sweep' = [sweep EXCEPT ![w].pc = pc, ![w].seen = execution[a]]
    BY <1>1, <1>9 DEF ReadMark, Sweeps
  <2>2. /\ sweep[w].pc \in WithIntent /\ sweep[w].pc \in Handling
        /\ sweep[w].current = a /\ execution[a] \in States
        /\ pc \in WithIntent
    BY <1>1, <1>9 DEF ReadMark, At, Handling, WithIntent
  <2>3. pc \in {"deleted", "marking"} => a \in absent'
    BY <2>2, AbsentGrows DEF IInv, GoneBeforeMark
  <2>4. UNCHANGED <<day, fetched, created, locators, held, present, execution>>
    BY <1>9 DEF ReadMark, Quietly, media
  <2> HIDE DEF pc
  <2> QED
    BY <1>1, <1>2, <2>1, <2>2, <2>3, <2>4, GoOnKeeps
<1>10. CASE WriteMark(w, a)
  <2>1. /\ execution' \in [Artifacts -> States]
        /\ \A b \in Artifacts : execution[b] # "NONE" => execution'[b] # "NONE"
    BY <1>1, <1>10 DEF WriteMark, Mark, States
  <2>2. sweep[w].pc = "marking" => a \in absent'
    BY <1>10, AbsentGrows DEF WriteMark, At, IInv, GoneBeforeMark
  <2>3. \A b \in Artifacts : execution'[b] = "DELETED" => execution[b] = "DELETED" \/ b \in absent'
    BY <1>1, <1>10, <2>2 DEF WriteMark, Mark
  <2> QED
    BY <1>10, <2>1, <2>3, PassKeeps DEF WriteMark
<1> QED
  BY <1>3, <1>4, <1>5, <1>6, <1>7, <1>8, <1>9, <1>10 DEF Handle

\* Every step keeps the invariant.
LEMMA NextKeeps == IInv /\ [Next]_vars => IInv'
<1> SUFFICES ASSUME IInv, [Next]_vars
             PROVE  IInv'
  OBVIOUS
<1>1. CASE UNCHANGED vars
  BY <1>1 DEF vars, media, IInv, Shapes, Registered, Justified, Fit, Expired, IntentFirst,
     GoneBeforeMark, DeletedMeansGone
<1>2. CASE Next
  <2>1. Observe
    BY <1>2 DEF Next
  <2>2. ASSUME NEW a \in Artifacts, Tick \/ Download(a) \/ Register(a) \/ SetHold(a)
        PROVE  IInv'
    BY <2>1, <2>2, WorldKeeps
  <2>3. CASE Tick
    BY <2>1, <2>3, WorldStep DEF Tick, media, IInv, Shapes
  <2>4. ASSUME NEW w \in Sweepers, Sweep(w) \/ Die(w)
        PROVE  IInv'
    <3>1. CASE Start(w) \/ List(w) \/ End(w) \/ Die(w)
      BY <2>1, <3>1, EdgeKeeps
    <3>2. CASE \E a \in Artifacts : Handle(w, a)
      BY <2>1, <3>2, HandleKeeps
    <3> QED
      BY <2>4, <3>1, <3>2 DEF Sweep
  <2> QED
    BY <1>2, <2>2, <2>3, <2>4 DEF Next, Step
<1> QED
  BY <1>1, <1>2 DEF Next

-----------------------------------------------------------------------------
\* No deletion is on record that did not take place: an intent says DELETED only
\* where its file has been absent since (RetentionService.execute).
THEOREM DeletionsTookPlace == Spec => []DeletedMeansGone
<1>1. IInv => DeletedMeansGone
  BY DEF IInv
<1> QED
  BY <1>1, InitInv, NextKeeps, PTL DEF Spec

\* Whatever bytes go, go for an artifact that is due, and that was not held when
\* the sweep that deletes them listed it (plan, then SafeFilesystemArtifactDeleter).
THEOREM DeletionsWereDue == Spec => OnlyDueBytesGo
<1> DEFINE Lawful ==
      \A f \in present \ present' : \E a \in Artifacts :
        /\ FileOf[a] = f /\ Due(a)
        /\ a \in held => \E w \in Sweepers : sweep[w].pc # "idle" /\ a \notin sweep[w].spared
<1>1. IInv /\ [Next]_vars => [Lawful]_vars
  <2> SUFFICES ASSUME IInv, Next, NEW f \in present \ present'
               PROVE  \E a \in Artifacts :
                        /\ FileOf[a] = f /\ Due(a)
                        /\ a \in held => \E w \in Sweepers :
                             sweep[w].pc # "idle" /\ a \notin sweep[w].spared
    OBVIOUS
  <2>1. PICK w \in Sweepers, a \in Artifacts : Delete(w, a)
    BY DEF Next, Step, Tick, Download, Register, SetHold, Sweep, Die, Start, List, End, Handle,
       Spare, Plan, Intend, Prepare, FailDelete, ReadMark, WriteMark, Quietly, media
  <2>2. FileOf[a] = f
    BY <2>1 DEF Delete
  <2>3. sweep[w].pc \in Handling /\ sweep[w].pc # "idle" /\ sweep[w].current = a
    BY <2>1 DEF Delete, At, Handling, WithIntent
  <2>4. Due(a) /\ a \notin sweep[w].spared
    BY <2>3 DEF IInv, Justified, Fit, Due
  <2> QED
    BY <2>2, <2>3, <2>4
<1> QED
  BY <1>1, InitInv, NextKeeps, PTL DEF Spec, OnlyDueBytesGo

-----------------------------------------------------------------------------
(***************************************************************************)
(* The files that attempts keep: SourceMedia, for every set of attempts and  *)
(* tasks.                                                                  *)
(***************************************************************************)
Steps == {"resolve", "fetch", "keep", "missed", "copy", "kept", "failed", "dead"}

\* Before an attempt opens a file.
BeforeCopy == {"resolve", "fetch", "keep", "missed"}

Inodes == Attempts \cup {NoInode}

MediaShapes ==
  /\ source \in [Attempts -> Sources]
  /\ step \in [Attempts -> Steps]
  /\ got \in [Attempts -> Bytes]
  /\ durable \in [Bytes -> Inodes]
  /\ temporary \in [TasksAtWork -> [Bytes -> Inodes]]
  /\ chunks \in [Attempts -> SUBSET Chunks]
  /\ writers \in [Attempts -> SUBSET Attempts]
  /\ written \in [Attempts -> SUBSET Chunks]

\* Who has opened a file copies it, died over it, or copied all of it.
Copied(a) ==
  \/ step[a] \in {"copy", "dead"}
  \/ step[a] \in {"kept", "failed"} /\ written[a] = Chunks

\* An inode has all that one of its writers wrote, the one that truncated it last.
InodesStand ==
  /\ \A i, a \in Attempts : a \in writers[i] => Copied(a)
  /\ \A i \in Attempts : writers[i] # {} =>
       i \in writers[i] /\ \E a \in writers[i] : written[a] \subseteq chunks[i]
  /\ \A a \in Attempts : step[a] \in BeforeCopy => written[a] = {}

\* An inode with a name has writers, and all of them have such bytes.
MadeFor(i, d) == i \in Attempts /\ writers[i] # {} /\ \A a \in writers[i] : got[a] = d

NamesStand ==
  /\ \A d \in Bytes : durable[d] # NoInode => MadeFor(durable[d], d)
  /\ \A t \in TasksAtWork, d \in Bytes :
       temporary[t][d] # NoInode => MadeFor(temporary[t][d], d)

ProbedStand ==
  \A a \in Attempts : step[a] \in {"keep", "missed", "copy", "kept"} => DurationHolds(a) /\ CuesFit(a)

MediaInv == MediaShapes /\ InodesStand /\ NamesStand /\ ProbedStand

-----------------------------------------------------------------------------
\* One more stream of at most two.
LEMMA OneMoreStream ==
  ASSUME NEW g \in Bytes, Len(g) < 2, NEW b \in Bodies
  PROVE  Append(g, b) \in Bytes
<1>1. PICK n \in 0 .. 2 : g \in [1 .. n -> Bodies]
  BY DEF Bytes
<1>2. n \in Nat /\ g \in Seq(Bodies) /\ Len(g) = n /\ n + 1 \in 0 .. 2
  BY <1>1
<1>3. Append(g, b) \in Seq(Bodies) /\ Len(Append(g, b)) = n + 1
  BY <1>2
<1>4. \A s \in Seq(Bodies) : s \in [1 .. Len(s) -> Bodies]
  OBVIOUS
<1>5. Append(g, b) \in [1 .. n + 1 -> Bodies]
  BY <1>3, <1>4
<1> QED
  BY <1>2, <1>5 DEF Bytes

\* An attempt that opened a file was done with fetching, so that what the writers
\* of an inode fetched stays what it is.
LEMMA WritersAreDone ==
  ASSUME MediaInv, NEW a \in Attempts, step[a] = "fetch"
  PROVE  \A i \in Attempts : a \notin writers[i]
BY DEF MediaInv, InodesStand, Copied

\* What an attempt does before and beside the copy.
LEMMA BesideTheCopy ==
  ASSUME MediaInv, NEW a \in Attempts, source' = source, UNCHANGED copying,
         NEW where \in Steps \ {"copy"}, step' = [step EXCEPT ![a] = where],
         \/ step[a] \in BeforeCopy
         \/ where = "dead"
         \/ where = "failed" /\ written[a] = Chunks,
         step[a] \notin BeforeCopy => where \notin BeforeCopy,
         \/ got' = got
         \/ step[a] = "fetch" /\ \E g \in Bytes : got' = [got EXCEPT ![a] = g],
         where \in {"keep", "missed", "kept"} =>
           /\ got' = got
           /\ (step[a] = "keep" \/ (DurationHolds(a) /\ CuesFit(a)))
  PROVE  MediaInv'
<1>1. /\ durable' = durable /\ temporary' = temporary /\ chunks' = chunks
      /\ writers' = writers /\ written' = written
  BY DEF copying
<1>2. MediaShapes'
  BY <1>1 DEF MediaInv, MediaShapes
<1>3. \A q \in Attempts : step[q] # "fetch" => got'[q] = got[q]
  BY DEF MediaInv, MediaShapes
<1>4. step'[a] = where /\ \A q \in Attempts \ {a} : step'[q] = step[q]
  BY DEF MediaInv, MediaShapes
<1>5. InodesStand'
  <2>1. \A i, q \in Attempts : q \in writers[i] => Copied(q)'
    BY <1>1, <1>4 DEF MediaInv, InodesStand, Copied, BeforeCopy
  <2>2. \A q \in Attempts : step'[q] \in BeforeCopy => written[q] = {}
    BY <1>4 DEF MediaInv, InodesStand
  <2> QED
    BY <1>1, <2>1, <2>2 DEF MediaInv, InodesStand
<1>6. \A i, d : MadeFor(i, d) => MadeFor(i, d)'
  <2>1. \A i, q \in Attempts : q \in writers[i] => got'[q] = got[q]
    BY <1>3, WritersAreDone
  <2> QED
    BY <1>1, <2>1 DEF MadeFor, MediaInv, MediaShapes
<1>7. NamesStand'
  BY <1>1, <1>6 DEF MediaInv, NamesStand
<1>8. ProbedStand'
  <2> SUFFICES ASSUME NEW q \in Attempts, step'[q] \in {"keep", "missed", "copy", "kept"}
               PROVE  (DurationHolds(q) /\ CuesFit(q))'
    BY DEF ProbedStand
  <2>1. got'[q] = got[q] /\ DurationHolds(q) /\ CuesFit(q)
    BY <1>3, <1>4 DEF MediaInv, ProbedStand
  <2> QED
    BY <2>1 DEF DurationHolds, CuesFit, Some
<1> QED
  BY <1>2, <1>5, <1>7, <1>8 DEF MediaInv

\* Resolving, fetching and keeping: every step up to the copy and beside it.
LEMMA FetchStep ==
  ASSUME MediaInv, NEW a \in Attempts,
         \/ Resolve(a) \/ LocatorsLapse(a) \/ FetchStream(a) \/ Refuse(a) \/ Probe(a)
         \/ KeepOld(a) \/ MissOld(a) \/ AttemptDies(a)
  PROVE  MediaInv'
<1>1. step = [step EXCEPT ![a] = step[a]] /\ step[a] \in Steps /\ got[a] \in Bytes
  BY DEF MediaInv, MediaShapes
<1>2. source' = source /\ UNCHANGED copying
  BY DEF Resolve, LocatorsLapse, FetchStream, Refuse, Probe, KeepOld, MissOld, AttemptDies
<1> DEFINE Moved(where) ==
      /\ where \in Steps \ {"copy"} /\ step' = [step EXCEPT ![a] = where]
      /\ step[a] \in BeforeCopy \/ where = "dead"
      /\ step[a] \notin BeforeCopy => where \notin BeforeCopy
      /\ \/ got' = got
         \/ step[a] = "fetch" /\ \E g \in Bytes : got' = [got EXCEPT ![a] = g]
      /\ where \in {"keep", "missed", "kept"} =>
           /\ got' = got
           /\ (step[a] = "keep" \/ (DurationHolds(a) /\ CuesFit(a)))
<1>3. \E where \in Steps : Moved(where)
  <2>1. CASE Resolve(a)
    <3>1. Moved("failed") \/ Moved("fetch")
      BY <2>1 DEF Resolve, MoveOn, Steps, BeforeCopy
    <3> QED
      BY <3>1 DEF Steps
  <2>2. CASE LocatorsLapse(a)
    BY <1>1, <2>2 DEF LocatorsLapse, Steps, BeforeCopy
  <2>3. CASE FetchStream(a)
    <3>1. Len(got[a]) < 2
      <4>1. source[a] \in Sources /\ Len(got[a]) < source[a].streams
        BY <2>3 DEF FetchStream, MediaInv, MediaShapes
      <4>2. source[a].streams \in {1, 2}
        BY <4>1, SourcesAssumption DEF VideoSources, PageSources, PlaylistSources
      <4>3. Len(got[a]) \in Nat
        BY <1>1 DEF Bytes, Bodies
      <4> QED
        BY <4>1, <4>2, <4>3
    <3>2. \A x \in Bodies : Append(got[a], x) \in Bytes
      BY <1>1, <3>1, OneMoreStream
    <3>3. {"whole", "late", "early"} \subseteq Bodies
      BY DEF Bodies
    <3>4. Moved("fetch") \/ Moved("failed")
      BY <1>1, <2>3, <3>2, <3>3 DEF FetchStream, MoveOn, Steps, BeforeCopy
    <3> QED
      BY <3>4 DEF Steps
  <2>4. CASE Refuse(a)
    <3>1. <<>> \in Bytes
      BY DEF Bytes
    <3>2. Moved("fetch") \/ Moved("failed")
      BY <1>1, <2>4, <3>1 DEF Refuse, Refresh, MoveOn, Steps, BeforeCopy
    <3> QED
      BY <3>2 DEF Steps
  <2>5. CASE Probe(a)
    <3>1. Moved("keep") \/ Moved("failed")
      BY <1>1, <2>5 DEF Probe, MoveOn, Steps, BeforeCopy
    <3> QED
      BY <3>1 DEF Steps
  <2>6. CASE KeepOld(a)
    <3>1. Moved("kept") \/ Moved("failed")
      BY <1>1, <2>6 DEF KeepOld, MoveOn, Steps, BeforeCopy
    <3> QED
      BY <3>1 DEF Steps
  <2>7. CASE MissOld(a)
    <3>1. Moved("missed")
      BY <1>1, <2>7 DEF MissOld, MoveOn, Steps, BeforeCopy
    <3> QED
      BY <3>1 DEF Steps
  <2>8. CASE AttemptDies(a)
    <3>1. Moved("dead")
      BY <1>1, <2>8 DEF AttemptDies, MoveOn, Steps, BeforeCopy
    <3> QED
      BY <3>1 DEF Steps
  <2> QED
    BY <2>1, <2>2, <2>3, <2>4, <2>5, <2>6, <2>7, <2>8
<1> QED
  BY <1>2, <1>3, BesideTheCopy

\* The copy is opened: a new inode under the temporary name, or the one there is.
LEMMA OpenStep ==
  ASSUME MediaInv, NEW a \in Attempts, OpenTemporary(a)
  PROVE  MediaInv'
<1> DEFINE d == got[a]
           t == TaskOf[a]
           i == IF TemporaryName(a) # NoInode THEN TemporaryName(a) ELSE a
<1>1. /\ step[a] = "missed" /\ source' = source /\ got' = got
      /\ durable' = durable /\ written' = written
      /\ temporary' = [temporary EXCEPT ![t][d] = i]
      /\ chunks' = [chunks EXCEPT ![i] = {}]
      /\ writers' = [writers EXCEPT ![i] = writers[i] \cup {a}]
      /\ step' = [step EXCEPT ![a] = "copy"]
  BY DEF OpenTemporary, MoveOn
<1>2. d \in Bytes /\ t \in TasksAtWork /\ TemporaryName(a) = temporary[t][d] /\ temporary[t][d] \in Inodes
  BY DEF TemporaryName, TasksAtWork, MediaInv, MediaShapes
<1>3. (\A j \in Attempts : a \notin writers[j]) /\ writers[a] = {} /\ written[a] = {}
  BY <1>1 DEF MediaInv, InodesStand, Copied, BeforeCopy
<1>4. i \in Attempts /\ (i = a \/ MadeFor(i, d))
  BY <1>2 DEF MediaInv, NamesStand, Inodes
<1>5. /\ writers'[i] = writers[i] \cup {a} /\ chunks'[i] = {} /\ step'[a] = "copy"
      /\ \A j \in Attempts \ {i} : writers'[j] = writers[j] /\ chunks'[j] = chunks[j]
      /\ \A q \in Attempts \ {a} : step'[q] = step[q]
  BY <1>1, <1>4 DEF MediaInv, MediaShapes
<1>6. /\ temporary'[t][d] = i
      /\ \A u \in TasksAtWork, e \in Bytes : u # t \/ e # d => temporary'[u][e] = temporary[u][e]
  BY <1>1, <1>2 DEF MediaInv, MediaShapes
<1>7. MediaShapes'
  BY <1>1, <1>2, <1>4 DEF MediaInv, MediaShapes, Inodes, Steps
<1>8. i # a => writers[i] # {}
  BY <1>4 DEF MadeFor
<1>9. \A j, e : j = i /\ e = d => MadeFor(j, e)'
  BY <1>1, <1>3, <1>4, <1>5 DEF MadeFor
<1> HIDE DEF i, d, t
<1>10. InodesStand'
  <2>1. \A j, q \in Attempts : q \in writers'[j] => Copied(q)'
    BY <1>1, <1>4, <1>5 DEF MediaInv, InodesStand, Copied
  <2>2. i \in writers'[i] /\ \E q \in writers'[i] : written'[q] \subseteq chunks'[i]
    BY <1>1, <1>3, <1>4, <1>5, <1>8 DEF MediaInv, InodesStand
  <2>3. \A j \in Attempts : writers'[j] # {} =>
          j \in writers'[j] /\ \E q \in writers'[j] : written'[q] \subseteq chunks'[j]
    BY <1>1, <1>5, <2>2 DEF MediaInv, InodesStand
  <2>4. \A q \in Attempts : step'[q] \in BeforeCopy => written'[q] = {}
    BY <1>1, <1>5 DEF MediaInv, InodesStand, BeforeCopy
  <2> QED
    BY <2>1, <2>3, <2>4 DEF InodesStand
<1>11. \A j, e : j # i /\ MadeFor(j, e) => MadeFor(j, e)'
  BY <1>1, <1>5 DEF MadeFor
<1>12. \A e : MadeFor(i, e) => e = d
  BY <1>3, <1>4 DEF MadeFor
<1>13. NamesStand'
  <2>1. ASSUME NEW e \in Bytes, durable'[e] # NoInode
        PROVE  MadeFor(durable[e], e)'
    BY <1>1, <1>9, <1>11, <1>12, <2>1 DEF MediaInv, NamesStand
  <2>2. ASSUME NEW u \in TasksAtWork, NEW e \in Bytes, temporary'[u][e] # NoInode
        PROVE  MadeFor(temporary[u][e], e)'
    <3>1. CASE u = t /\ e = d
      BY <1>6, <1>9, <3>1
    <3>2. CASE ~(u = t /\ e = d)
      BY <1>6, <1>9, <1>11, <1>12, <2>2, <3>2 DEF MediaInv, NamesStand
    <3> QED
      BY <3>1, <3>2
  <2> QED
    BY <2>1, <2>2 DEF NamesStand
<1>14. ProbedStand'
  BY <1>1, <1>5 DEF MediaInv, ProbedStand, DurationHolds, CuesFit, Some
<1> QED
  BY <1>7, <1>10, <1>13, <1>14 DEF MediaInv

\* A chunk goes into the file the attempt has open.
LEMMA CopyStep ==
  ASSUME MediaInv, NEW a \in Attempts, Copy(a)
  PROVE  MediaInv'
<1>1. /\ step[a] = "copy" /\ written[a] # Chunks
      /\ UNCHANGED <<source, step, fresh, refreshed, got, durable, temporary, writers, faults>>
  BY DEF Copy
<1>2. PICK c \in Chunks :
        /\ written' = [written EXCEPT ![a] = written[a] \cup {c}]
        /\ chunks' = [i \in Attempts |-> IF a \in writers[i] THEN chunks[i] \cup {c} ELSE chunks[i]]
  <2> DEFINE Least(c) == c \in Chunks \ written[a] /\ \A d \in Chunks \ written[a] : c <= d
  <2>1. \E c : Least(c)
    <3>1. written[a] \subseteq {1, 2} /\ written[a] # {1, 2}
      BY <1>1 DEF MediaInv, MediaShapes, Chunks
    <3>2. Least(1) \/ Least(2)
      BY <3>1 DEF Chunks
    <3> QED
      BY <3>2
  <2>2. Least(CHOOSE c : Least(c))
    BY <2>1
  <2> DEFINE c == CHOOSE c \in Chunks \ written[a] : \A d \in Chunks \ written[a] : c <= d
  <2>3. c \in Chunks
    BY <2>1
  <2> QED
    BY <2>3 DEF Copy
<1>3. /\ written'[a] = written[a] \cup {c} /\ \A q \in Attempts \ {a} : written'[q] = written[q]
      /\ \A i \in Attempts : chunks'[i] = IF a \in writers[i] THEN chunks[i] \cup {c} ELSE chunks[i]
  BY <1>2 DEF MediaInv, MediaShapes
<1>4. MediaShapes'
  BY <1>1, <1>2 DEF MediaInv, MediaShapes
<1>5. InodesStand'
  <2>1. \A i, q \in Attempts : q \in writers'[i] => Copied(q)'
    BY <1>1, <1>3 DEF MediaInv, InodesStand, Copied
  <2>2. ASSUME NEW i \in Attempts, writers'[i] # {}
        PROVE  i \in writers'[i] /\ \E q \in writers'[i] : written'[q] \subseteq chunks'[i]
    <3>1. i \in writers[i] /\ \E q \in writers[i] : written[q] \subseteq chunks[i]
      BY <1>1, <2>2 DEF MediaInv, InodesStand
    <3>2. writers[i] \subseteq Attempts
      BY DEF MediaInv, MediaShapes
    <3> QED
      BY <1>1, <1>3, <3>1, <3>2
  <2>3. \A q \in Attempts : step'[q] \in BeforeCopy => written'[q] = {}
    BY <1>1, <1>3 DEF MediaInv, InodesStand, BeforeCopy
  <2> QED
    BY <2>1, <2>2, <2>3 DEF InodesStand
<1>6. NamesStand' /\ ProbedStand'
  BY <1>1 DEF MediaInv, NamesStand, MadeFor, ProbedStand, DurationHolds, CuesFit, Some
<1> QED
  BY <1>4, <1>5, <1>6 DEF MediaInv

\* The temporary name is moved over the durable one.
LEMMA ReplaceStep ==
  ASSUME MediaInv, NEW a \in Attempts, Replace(a)
  PROVE  MediaInv'
<1> DEFINE d == got[a]
           t == TaskOf[a]
           i == TemporaryName(a)
<1>1. /\ step[a] = "copy" /\ written[a] = Chunks /\ source' = source /\ got' = got
      /\ chunks' = chunks /\ writers' = writers /\ written' = written
  BY DEF Replace
<1>2. d \in Bytes /\ t \in TasksAtWork /\ i = temporary[t][d] /\ i \in Inodes
  BY DEF TemporaryName, TasksAtWork, MediaInv, MediaShapes
<1>3. CASE i = NoInode
  <2>1. UNCHANGED copying /\ step' = [step EXCEPT ![a] = "failed"]
    BY <1>1, <1>3 DEF Replace, MoveOn, copying
  <2> QED
    BY <1>1, <2>1, BesideTheCopy DEF Steps, BeforeCopy
<1>4. CASE i # NoInode
  <2>1. /\ durable' = [durable EXCEPT ![d] = i]
        /\ temporary' = [temporary EXCEPT ![t][d] = NoInode]
        /\ step' = [step EXCEPT ![a] = "kept"]
    BY <1>4 DEF Replace, MoveOn
  <2>2. MadeFor(i, d)
    BY <1>2, <1>4 DEF MediaInv, NamesStand
  <2>3. /\ durable'[d] = i /\ \A e \in Bytes \ {d} : durable'[e] = durable[e]
        /\ temporary'[t][d] = NoInode
        /\ \A u \in TasksAtWork, e \in Bytes : u # t \/ e # d => temporary'[u][e] = temporary[u][e]
        /\ step'[a] = "kept" /\ \A q \in Attempts \ {a} : step'[q] = step[q]
    BY <1>2, <2>1 DEF MediaInv, MediaShapes
  <2>4. DurationHolds(a) /\ CuesFit(a)
    BY <1>1 DEF MediaInv, ProbedStand
  <2> HIDE DEF i, d, t
  <2>5. MediaShapes'
    BY <1>1, <1>2, <2>1 DEF MediaInv, MediaShapes, Inodes, Steps
  <2>6. InodesStand'
    BY <1>1, <2>3 DEF MediaInv, InodesStand, Copied, BeforeCopy
  <2>7. \A j, e : MadeFor(j, e) <=> MadeFor(j, e)'
    BY <1>1 DEF MadeFor
  <2>8. NamesStand'
    <3>1. \A e \in Bytes : durable'[e] # NoInode => MadeFor(durable[e], e)'
      BY <2>2, <2>3, <2>7 DEF MediaInv, NamesStand
    <3>2. \A u \in TasksAtWork, e \in Bytes : temporary'[u][e] # NoInode => MadeFor(temporary[u][e], e)'
      BY <2>3, <2>7 DEF MediaInv, NamesStand
    <3> QED
      BY <3>1, <3>2 DEF NamesStand
  <2>9. ProbedStand'
    BY <1>1, <2>3, <2>4 DEF MediaInv, ProbedStand, DurationHolds, CuesFit, Some
  <2> QED
    BY <2>5, <2>6, <2>8, <2>9 DEF MediaInv
<1> QED
  BY <1>3, <1>4

-----------------------------------------------------------------------------
\* No name, no inode, nothing kept.
LEMMA MediaBegin == MediaInit => MediaInv
<1> SUFFICES ASSUME MediaInit PROVE MediaInv
  OBVIOUS
<1>1. MediaShapes
  <2>1. <<>> \in Bytes
    BY DEF Bytes
  <2> QED
    BY <2>1 DEF MediaInit, MediaShapes, Steps, Inodes, TasksAtWork
<1>2. InodesStand
  BY DEF MediaInit, InodesStand
<1>3. NamesStand /\ ProbedStand
  BY DEF MediaInit, NamesStand, ProbedStand
<1> QED
  BY <1>1, <1>2, <1>3 DEF MediaInv

\* Every step of every attempt.
LEMMA MediaStep ==
  ASSUME MediaInv, [MediaNext]_mediaVars
  PROVE  MediaInv'
<1>1. CASE UNCHANGED mediaVars
  BY <1>1 DEF mediaVars, MediaInv, MediaShapes, InodesStand, Copied, NamesStand, MadeFor,
              ProbedStand, DurationHolds, CuesFit, Some
<1>2. CASE MediaNext
  BY <1>2, FetchStep, OpenStep, CopyStep, ReplaceStep DEF MediaNext
<1> QED
  BY <1>1, <1>2

\* Names, inodes and probes fit each other in every state (SourceMedia as a whole).
THEOREM MediaInvariant == MediaSpec => []MediaInv
<1> QED
  BY MediaBegin, MediaStep, PTL DEF MediaSpec

\* What bears a hash was fetched as such and is all there, unless one that truncated
\* the file beside another has not written it again; and a cut is kept only where
\* neither the probe nor a cue could tell (_persist_durable_file, _validate_probe,
\* _subtitle_track).
THEOREM KeptMediaAreWhole == MediaSpec => []KeptIsWhole
<1>1. ASSUME NEW d \in Bytes, MediaInv, durable[d] # NoInode
      PROVE  /\ \A a \in writers[durable[d]] : got[a] = d
             /\ \/ Whole(durable[d])
                \/ \E a \in writers[durable[d]] : step[a] \in {"copy", "dead"} /\ written[a] # Chunks
  <2> DEFINE i == durable[d]
  <2>1. i \in Attempts /\ writers[i] # {} /\ \A a \in writers[i] : got[a] = d
    BY <1>1 DEF MediaInv, NamesStand, MadeFor
  <2>2. PICK a \in writers[i] : written[a] \subseteq chunks[i]
    BY <1>1, <2>1 DEF MediaInv, InodesStand
  <2>3. a \in Attempts /\ Copied(a) /\ chunks[i] \subseteq Chunks
    BY <1>1, <2>1, <2>2 DEF MediaInv, MediaShapes, InodesStand
  <2> QED
    BY <2>1, <2>2, <2>3 DEF Copied, Whole
<1>2. ASSUME NEW a \in Attempts, MediaInv, step[a] = "kept", ~Some(a, {"whole"})
      PROVE  ~source[a].duration /\ (source[a].subtitle => Some(a, {"late"}))
  <2>1. DurationHolds(a) /\ CuesFit(a)
    BY <1>2 DEF MediaInv, ProbedStand
  <2>2. Some(a, {"whole", "late"}) => Some(a, {"late"})
    BY <1>2 DEF Some
  <2>3. source[a].duration \in BOOLEAN /\ source[a].subtitle \in BOOLEAN
    <3>1. source[a] \in Sources
      BY <1>2 DEF MediaInv, MediaShapes
    <3> QED
      BY <3>1, SourcesAssumption DEF VideoSources, PageSources, PlaylistSources
  <2> QED
    BY <1>2, <2>1, <2>2, <2>3 DEF DurationHolds, CuesFit
<1>3. MediaInv => KeptIsWhole
  BY <1>1, <1>2 DEF KeptIsWhole
<1> QED
  BY <1>3, MediaInvariant, PTL

-----------------------------------------------------------------------------
(***************************************************************************)
(* The graphs that are made local: MediaGraphs, for every set of graphs and  *)
(* manifests and every limit.                                              *)
(***************************************************************************)
Asked == DOMAIN graph.redirect
Entries == [url : Asked, line : Nat, at : Nat]
Levelled == 1 .. Len(stack)
ReadAt(n) == stack[n].line > 0

\* Playlists nest: all but the last are being read, each is another URL, and
\* those that are read are the known ones.
StackStands ==
  /\ stack \in Seq(Entries) /\ stack # <<>> /\ stack[1].url = "start"
  /\ \A n \in Levelled : n # Len(stack) => ReadAt(n)
  /\ \A m, n \in Levelled : m # n => stack[m].url # stack[n].url
  /\ \A n \in Levelled : ReadAt(n) <=> stack[n].url \in DOMAIN playlists

\* The dict: what a playlist is known by leads to a name that is known by itself,
\* and there is room for one more before a playlist is asked for.
DictStands ==
  /\ \A u \in DOMAIN playlists :
       playlists[u] \in DOMAIN playlists /\ playlists[playlists[u]] = playlists[u]
  /\ IsFiniteSet(Range(playlists)) /\ Cardinality(Range(playlists)) <= MaxPlaylists
  /\ Top.line = 0 => Cardinality(Range(playlists)) < MaxPlaylists
  /\ \A f \in DOMAIN planned : planned[f] \in Nat

\* The files: a name that is known is written or its playlist is being read.
FilesStand ==
  /\ DOMAIN files \subseteq Range(playlists)
  /\ \A f \in DOMAIN files : files[f] \subseteq Range(playlists) \cup assets
  /\ \A n \in Levelled : ReadAt(n) => Found(stack[n].url) \in Range(playlists) \cap DOMAIN planned
  /\ \A f \in Range(playlists) :
       f \in DOMAIN files \/ \E n \in Levelled : ReadAt(n) /\ Found(stack[n].url) = f

\* The lines before the current one: what they refer to is there, or is the
\* playlist about to be read.
Handled(l) == IF RefersToPlaylist(l) THEN l.ref \in DOMAIN playlists ELSE l.ref \in assets
Pending(n, l) ==
  n + 1 = Len(stack) /\ stack[n + 1].line = 0 /\ RefersToPlaylist(l) /\ l.ref = stack[n + 1].url

LinesStand ==
  \A n \in Levelled : \A k \in Retained(Lines(stack[n].url)) :
    k < stack[n].line => \/ Handled(Lines(stack[n].url)[k])
                         \/ Pending(n, Lines(stack[n].url)[k])

AssetsStand == IsFiniteSet(assets) /\ Cardinality(assets) <= MaxAssets

HlsStands ==
  StackStands /\ DictStands /\ FilesStand /\ LinesStand /\ AssetsStand /\ todo = <<>>

DashStands ==
  /\ stack = <<>> /\ files = <<>>
  /\ todo \in Seq(Range(graph.representations))
  /\ local \cup Range(todo) = Range(graph.representations)
  /\ \A r \in local : r.segments \subseteq assets
  /\ templates \subseteq graph.templates

GraphInv ==
  /\ graph \in Graphs \cup Manifests
  /\ outcome = "busy" => IF IsManifest THEN DashStands ELSE HlsStands /\ local = {}
  /\ GraphIsClosed

-----------------------------------------------------------------------------
(* Stacks, dicts and lines. *)

Moved(k) == [stack EXCEPT ![Len(stack)].line = k]

\* The playlist in hand goes to another line.
LEMMA TopMoves ==
  ASSUME stack \in Seq(Entries), stack # <<>>, NEW k \in Nat, NEW s, s = Moved(k)
  PROVE  /\ s \in Seq(Entries) /\ Len(s) = Len(stack) /\ s # <<>>
         /\ \A n \in Levelled : n # Len(stack) => s[n] = stack[n]
         /\ \A n \in Levelled : s[n].url = stack[n].url /\ s[n].at = stack[n].at
         /\ s[Len(stack)].line = k
         /\ Len(stack) \in Levelled /\ Top \in Entries
<1>1. Len(stack) \in Nat /\ Len(stack) > 0 /\ DOMAIN stack = Levelled
      /\ \A n \in Levelled : stack[n] \in Entries
  BY DEF Levelled
<1>2. s = [stack EXCEPT ![Len(stack)] = [stack[Len(stack)] EXCEPT !.line = k]]
  BY Zenon DEF Moved
<1> DEFINE e == [stack[Len(stack)] EXCEPT !.line = k]
<1>3. e \in Entries /\ e.line = k /\ e.url = stack[Len(stack)].url /\ e.at = stack[Len(stack)].at
  BY <1>1 DEF Entries, Levelled
<1> HIDE DEF e
<1>4. s = [stack EXCEPT ![Len(stack)] = e]
  BY <1>2 DEF e
<1>5. s \in Seq(Entries) /\ Len(s) = Len(stack)
  BY <1>1, <1>3, <1>4
<1>6. \A n \in Levelled : s[n] = IF n = Len(stack) THEN e ELSE stack[n]
  BY <1>1, <1>4 DEF Levelled
<1>7. Len(stack) \in Levelled /\ Top \in Entries
  BY <1>1 DEF Top, Levelled
<1> QED
  BY <1>1, <1>3, <1>5, <1>6, <1>7

\* The dict with a playlist in it that was unknown.
LEMMA DictGrows ==
  ASSUME NEW u, u \notin DOMAIN playlists, playlists' = With(playlists, Known(u)),
         \A v \in DOMAIN playlists :
           playlists[v] \in DOMAIN playlists /\ playlists[playlists[v]] = playlists[v]
  PROVE  /\ DOMAIN playlists' = DOMAIN playlists \cup {u, Found(u)}
         /\ \A v \in DOMAIN playlists' : playlists'[v] \in DOMAIN playlists' /\ playlists'[playlists'[v]] = playlists'[v]
         /\ Range(playlists') = Range(playlists) \cup {Found(u)}
<1> DEFINE f == Found(u)
<1>1. Known(u) = [v \in {u, f} |-> f]
  BY DEF Known
<1> HIDE DEF f
<1>2. /\ DOMAIN playlists' = DOMAIN playlists \cup {u, f}
      /\ \A v \in DOMAIN playlists' : playlists'[v] = IF v \in {u, f} THEN f ELSE playlists[v]
  BY <1>1 DEF With
<1>3. Range(playlists') = Range(playlists) \cup {f}
  <2>1. \A v \in DOMAIN playlists' : playlists'[v] \in Range(playlists) \cup {f}
    BY <1>2 DEF Range
  <2>2. f \in Range(playlists')
    BY <1>2 DEF Range
  <2>3. ASSUME NEW v \in DOMAIN playlists PROVE playlists[v] \in Range(playlists')
    <3>1. playlists[v] \in DOMAIN playlists' /\ playlists'[playlists[v]] = playlists[v]
      BY <1>2
    <3> QED
      BY <3>1 DEF Range
  <2> QED
    BY <2>1, <2>2, <2>3 DEF Range
<1>4. \A v \in DOMAIN playlists' : playlists'[v] \in DOMAIN playlists' /\ playlists'[playlists'[v]] = playlists'[v]
  BY <1>2
<1> QED
  BY <1>2, <1>3, <1>4 DEF f

\* The lines of a playlist, of which those that are followed can be asked for.
LEMMA LinesAre ==
  ASSUME graph \in Graphs, NEW u \in Asked
  PROVE  /\ Retained(Lines(u)) \subseteq DOMAIN Lines(u) /\ Len(Lines(u)) \in Nat
         /\ DOMAIN Lines(u) = 1 .. Len(Lines(u))
         /\ \A n \in Retained(Lines(u)) : RefersToPlaylist(Lines(u)[n]) => Lines(u)[n].ref \in Asked
<1>1. Lines(u) \in Seq(Range(Lines(u)))
  BY GraphsAssumption DEF Asked, Lines, Found
<1>2. \A n \in Retained(Lines(u)) : RefersToPlaylist(Lines(u)[n]) => Lines(u)[n].ref \in Asked
  BY GraphsAssumption DEF Asked, Lines, Found
<1>3. Retained(Lines(u)) \subseteq DOMAIN Lines(u)
  BY DEF Retained
<1> QED
  BY <1>1, <1>2, <1>3

\* A graph is a playlist's or a manifest, as it looks.
LEMMA GraphKinds ==
  ASSUME graph \in Graphs \cup Manifests
  PROVE  /\ ~IsManifest => graph \in Graphs
         /\ IsManifest => graph \in Manifests
BY GraphsAssumption DEF IsManifest

\* What goes wrong leaves nothing.
LEMMA GivingUp ==
  ASSUME GraphInv, NEW why, GiveUp(why), why \notin {"busy", "done"},
         why = "unsupported" =>
           LET r == Head(todo) IN (Levels(r) \cap graph.templates # {}) = r.list \/ Missing(r)
  PROVE  GraphInv'
<1>1. /\ outcome' = why /\ stack' = <<>> /\ files' = <<>> /\ assets' = {}
      /\ graph' = graph /\ todo' = todo /\ templates' = templates /\ local' = local
  BY DEF GiveUp
<1>2. DOMAIN files' = {} /\ DOMAIN stack' = {}
  BY <1>1
<1>3. Cardinality({}) = 0
  BY FS_EmptySet
<1>4. Cardinality(DOMAIN files') <= MaxPlaylists /\ Cardinality(assets') <= MaxAssets
  BY <1>1, <1>2, <1>3, LimitsAssumption
<1>5. outcome' = "unsupported" =>
        LET r == Head(todo) IN (Levels(r)' \cap graph'.templates # {}) = r.list \/ Missing(r)'
  BY <1>1 DEF Missing, HasTemplate, Levels
<1> QED
  BY <1>1, <1>2, <1>4, <1>5 DEF GraphInv, GraphIsClosed, Levels

\* While playlists are being read, what is handed on is not at stake.
LEMMA BusyIsClosed ==
  ASSUME HlsStands', outcome' = "busy", ~IsManifest'
  PROVE  GraphIsClosed'
<1>1. /\ IsFiniteSet(Range(playlists')) /\ Cardinality(Range(playlists')) <= MaxPlaylists
      /\ DOMAIN files' \subseteq Range(playlists')
  BY DEF HlsStands, DictStands, FilesStand
<1>2. Cardinality(DOMAIN files') <= MaxPlaylists
  <2>1. /\ Cardinality(DOMAIN files') <= Cardinality(Range(playlists'))
        /\ Cardinality(DOMAIN files') \in Nat /\ Cardinality(Range(playlists')) \in Nat
    BY <1>1, FS_Subset, FS_CardinalityType
  <2> QED
    BY <1>1, <2>1, LimitsAssumption
<1>3. Cardinality(assets') <= MaxAssets
  BY DEF HlsStands, AssetsStand
<1>4. \A m, n \in DOMAIN stack' : m # n => stack'[m].url # stack'[n].url
  BY DEF HlsStands, StackStands, Levelled
<1> QED
  BY <1>2, <1>3, <1>4 DEF GraphIsClosed

\* A line that is done with: the playlist goes on to the next.
LEMMA LineIsHandled ==
  ASSUME HlsStands, graph \in Graphs, More, graph' = graph, playlists' = playlists,
         files' = files, todo' = todo, stack' = NextLine,
         assets \subseteq assets', AssetsStand',
         DOMAIN planned' = DOMAIN planned, \A f \in DOMAIN planned : planned'[f] \in Nat,
         NEW l, l = Line, Top.line \in Retained(Lines(Top.url)) => Handled(l)'
  PROVE  HlsStands'
<1> DEFINE last == Len(stack)
<1>1. /\ stack \in Seq(Entries) /\ stack # <<>> /\ Top.line \in Nat \ {0} /\ Top.url \in Asked
      /\ last \in Levelled /\ Top.line \in DOMAIN Lines(Top.url)
  <2>1. Top.line \in DOMAIN Lines(Top.url)
    BY DEF More
  <2>2. stack \in Seq(Entries) /\ stack # <<>>
    BY DEF HlsStands, StackStands
  <2>3. Top \in Entries /\ last \in Levelled
    BY <2>2 DEF Top, Levelled
  <2>4. Top.url \in Asked /\ Top.line \in Nat
    BY <2>3 DEF Entries
  <2>5. DOMAIN Lines(Top.url) = 1 .. Len(Lines(Top.url)) /\ Len(Lines(Top.url)) \in Nat
    BY <2>4, LinesAre
  <2> QED
    BY <2>1, <2>2, <2>3, <2>4, <2>5
<1>2. NextLine = Moved(Top.line + 1) /\ Top.line + 1 \in Nat
  BY <1>1 DEF NextLine, Moved, Top
<1>3. /\ stack' \in Seq(Entries) /\ Len(stack') = Len(stack) /\ stack' # <<>>
      /\ \A n \in Levelled : n # last => stack'[n] = stack[n]
      /\ \A n \in Levelled : stack'[n].url = stack[n].url /\ stack'[n].at = stack[n].at
      /\ stack'[last].line = Top.line + 1
  BY <1>1, <1>2, TopMoves
<1>4. Levelled' = Levelled /\ Entries' = Entries /\ 1 \in Levelled /\ last \in Nat
  BY <1>1, <1>3 DEF Levelled, Entries, Asked
<1>5. \A n \in Levelled : ReadAt(n) /\ (stack'[n].line > 0)
  <2>1. \A n \in Levelled : n # last => ReadAt(n)
    BY DEF HlsStands, StackStands
  <2>2. ReadAt(last)
    BY <1>1 DEF ReadAt, Top
  <2> QED
    BY <1>1, <1>3, <2>1, <2>2 DEF ReadAt
<1>6. StackStands'
  <2>1. \A n \in Levelled : ReadAt(n)'
    BY <1>5 DEF ReadAt
  <2>2. \A n \in Levelled : stack'[n].url \in DOMAIN playlists'
    BY <1>3, <1>5 DEF HlsStands, StackStands
  <2>3. stack'[1].url = "start" /\ \A m, n \in Levelled : m # n => stack'[m].url # stack'[n].url
    BY <1>3, <1>4 DEF HlsStands, StackStands
  <2> QED
    BY <1>3, <1>4, <2>1, <2>2, <2>3 DEF StackStands
<1>7. DictStands'
  <2>1. Top'.line # 0
    BY <1>1, <1>3 DEF Top
  <2>2. \A f \in DOMAIN planned' : planned'[f] \in Nat
    OBVIOUS
  <2> QED
    BY <2>1, <2>2 DEF HlsStands, DictStands
<1>8. FilesStand'
  <2>1. \A n \in Levelled : Found(stack[n].url)' = Found(stack[n].url)
    BY <1>3 DEF Found
  <2>2. \A n \in Levelled : Found(stack[n].url)' \in Range(playlists') \cap DOMAIN planned'
    BY <1>5, <2>1 DEF HlsStands, FilesStand
  <2>3. \A f \in Range(playlists') :
           f \in DOMAIN files' \/ \E n \in Levelled : ReadAt(n)' /\ Found(stack[n].url)' = f
    BY <1>5, <2>1 DEF HlsStands, FilesStand, ReadAt
  <2> QED
    BY <1>4, <2>2, <2>3 DEF HlsStands, FilesStand
<1>9. LinesStand'
  <2> SUFFICES ASSUME NEW n \in Levelled, NEW k \in Retained(Lines(stack[n].url)), k < stack'[n].line
               PROVE  Handled(Lines(stack[n].url)[k])'
    <3>1. \A u : Lines(u)' = Lines(u)
      BY DEF Lines, Found
    <3>2. \A n \in Levelled : Lines(stack[n].url)' = Lines(stack[n].url)
      BY <1>3, <3>1
    <3> QED
      BY <1>4, <3>2 DEF LinesStand
  <2>1. Lines(stack[n].url)[k]' = Lines(stack[n].url)[k]
    BY <1>3 DEF Lines, Found
  <2>2. \A x : Handled(x) => Handled(x)'
    BY DEF Handled
  <2>3. CASE n # last
    <3>1. ~Pending(n, Lines(stack[n].url)[k])
      BY <1>1, <1>4, <1>5 DEF Pending, ReadAt, Levelled
    <3>2. Handled(Lines(stack[n].url)[k])
      BY <1>3, <2>3, <3>1 DEF HlsStands, LinesStand
    <3> QED
      BY <2>1, <2>2, <3>2
  <2>4. CASE n = last
    <3>1. stack[n] = Top /\ k \in Nat
      BY <1>1, <2>4, LinesAre DEF Top
    <3>2. CASE k = Top.line
      BY <2>1, <3>1, <3>2 DEF Line, Handled
    <3>3. CASE k # Top.line
      <4>1. k < stack[n].line
        BY <1>1, <1>3, <2>4, <3>1, <3>3
      <4>2. ~Pending(n, Lines(stack[n].url)[k])
        BY <1>4, <2>4 DEF Pending, Levelled
      <4>3. Handled(Lines(stack[n].url)[k])
        BY <4>1, <4>2 DEF HlsStands, LinesStand
      <4> QED
        BY <2>1, <2>2, <4>3
    <3> QED
      BY <3>2, <3>3
  <2> QED
    BY <2>3, <2>4
<1> QED
  BY <1>6, <1>7, <1>8, <1>9 DEF HlsStands

\* A playlist that was fetched is known, by both its URLs, before its lines are
\* followed.
LEMMA PlaylistIsRead ==
  ASSUME HlsStands, graph \in Graphs, Top.line = 0, graph' = graph,
         stack' = Moved(1), playlists' = With(playlists, Known(Top.url)),
         planned' = With(planned, [f \in {Local} |-> 0]),
         files' = files, assets' = assets, todo' = todo
  PROVE  HlsStands'
<1> DEFINE last == Len(stack)
           new == Top.url
           name == Local
<1>1. /\ stack \in Seq(Entries) /\ stack # <<>> /\ new \in Asked
      /\ last \in Levelled /\ stack[last] = Top
  <2>1. stack \in Seq(Entries) /\ stack # <<>>
    BY DEF HlsStands, StackStands
  <2>2. Top \in Entries /\ last \in Levelled /\ stack[last] = Top
    BY <2>1 DEF Top, Levelled
  <2> QED
    BY <2>1, <2>2 DEF Entries
<1>2. /\ stack' \in Seq(Entries) /\ Len(stack') = Len(stack) /\ stack' # <<>>
      /\ \A n \in Levelled : n # last => stack'[n] = stack[n]
      /\ \A n \in Levelled : stack'[n].url = stack[n].url /\ stack'[n].at = stack[n].at
      /\ stack'[last].line = 1
  BY <1>1, TopMoves
<1>3. Levelled' = Levelled /\ Entries' = Entries /\ 1 \in Levelled /\ last \in Nat
  BY <1>1, <1>2 DEF Levelled, Entries, Asked
<1>4. ~ReadAt(last) /\ \A n \in Levelled : n # last => ReadAt(n)
  BY <1>1 DEF HlsStands, StackStands, ReadAt
<1>5. new \notin DOMAIN playlists
  BY <1>1, <1>4 DEF HlsStands, StackStands
<1>6. \A n \in Levelled : ReadAt(n)'
  BY <1>2, <1>4 DEF ReadAt
<1>7. /\ DOMAIN playlists' = DOMAIN playlists \cup {new, name}
      /\ \A v \in DOMAIN playlists' :
           playlists'[v] \in DOMAIN playlists' /\ playlists'[playlists'[v]] = playlists'[v]
      /\ Range(playlists') = Range(playlists) \cup {name}
  <2>1. \A v \in DOMAIN playlists :
           playlists[v] \in DOMAIN playlists /\ playlists[playlists[v]] = playlists[v]
    BY DEF HlsStands, DictStands
  <2>2. playlists' = With(playlists, Known(new)) /\ name = Found(new)
    BY DEF Local
  <2> HIDE DEF new, name
  <2> QED
    BY <1>5, <2>1, <2>2, DictGrows
<1>8. DOMAIN planned' = DOMAIN planned \cup {name} /\ \A f \in DOMAIN planned' : planned'[f] \in Nat
  <2>1. \A f \in DOMAIN planned : planned[f] \in Nat
    BY DEF HlsStands, DictStands
  <2> QED
    BY <2>1 DEF With
<1>9. \A u : Found(u)' = Found(u) /\ Lines(u)' = Lines(u)
  BY DEF Found, Lines
<1> HIDE DEF last, new, name
<1>10. StackStands'
  <2>1. \A n \in Levelled : stack'[n].url \in DOMAIN playlists'
    BY <1>1, <1>2, <1>4, <1>7 DEF HlsStands, StackStands, new
  <2>2. stack'[1].url = "start" /\ \A m, n \in Levelled : m # n => stack'[m].url # stack'[n].url
    BY <1>2, <1>3 DEF HlsStands, StackStands
  <2> QED
    BY <1>2, <1>3, <1>6, <2>1, <2>2 DEF StackStands
<1>11. DictStands'
  <2>1. Top'.line # 0
    BY <1>2 DEF Top, last
  <2>2. /\ IsFiniteSet(Range(playlists)) /\ Cardinality(Range(playlists)) < MaxPlaylists
    BY DEF HlsStands, DictStands
  <2>3. /\ IsFiniteSet(Range(playlists'))
        /\ Cardinality(Range(playlists')) <= Cardinality(Range(playlists)) + 1
        /\ Cardinality(Range(playlists)) \in Nat /\ Cardinality(Range(playlists')) \in Nat
    <3>1. IsFiniteSet(Range(playlists) \cup {name})
      BY <2>2, FS_AddElement
    <3>2. Cardinality(Range(playlists) \cup {name}) \in {Cardinality(Range(playlists)),
                                                       Cardinality(Range(playlists)) + 1}
      BY <2>2, FS_AddElement
    <3>3. Cardinality(Range(playlists)) \in Nat
      BY <2>2, FS_CardinalityType
    <3> QED
      BY <1>7, <3>1, <3>2, <3>3
  <2>4. Cardinality(Range(playlists')) <= MaxPlaylists
    BY <2>2, <2>3, LimitsAssumption
  <2> QED
    BY <1>7, <1>8, <2>1, <2>3, <2>4 DEF DictStands
<1>12. FilesStand'
  <2>1. Found(new) = name
    BY DEF new, name, Local
  <2>2. \A n \in Levelled : Found(stack[n].url) \in Range(playlists') \cap DOMAIN planned'
    BY <1>1, <1>4, <1>7, <1>8, <2>1 DEF HlsStands, FilesStand, new
  <2>3. \A f \in Range(playlists') :
           f \in DOMAIN files' \/ \E n \in Levelled : Found(stack[n].url) = f
    BY <1>1, <1>7, <2>1 DEF HlsStands, FilesStand, new
  <2>4. \A n \in Levelled : Found(stack[n].url)' = Found(stack[n].url)
    BY <1>2 DEF Found
  <2>5. /\ DOMAIN files' \subseteq Range(playlists')
        /\ \A f \in DOMAIN files' : files'[f] \subseteq Range(playlists') \cup assets'
    BY <1>7 DEF HlsStands, FilesStand
  <2> QED
    BY <1>3, <1>6, <2>2, <2>3, <2>4, <2>5 DEF FilesStand
<1>13. LinesStand'
  <2> SUFFICES ASSUME NEW n \in Levelled, NEW k \in Retained(Lines(stack[n].url)), k < stack'[n].line
               PROVE  Handled(Lines(stack[n].url)[k])'
    <3>1. \A m \in Levelled : Lines(stack[m].url)' = Lines(stack[m].url)
      BY <1>2, <1>9
    <3> QED
      BY <1>3, <3>1 DEF LinesStand
  <2>1. Lines(stack[n].url)[k]' = Lines(stack[n].url)[k]
    BY <1>2, <1>9
  <2>2. \A x : Handled(x) => Handled(x)'
    BY <1>7 DEF Handled
  <2>3. CASE n # last
    <3>1. Handled(Lines(stack[n].url)[k]) \/ Pending(n, Lines(stack[n].url)[k])
      BY <1>2, <2>3 DEF HlsStands, LinesStand
    <3>2. \A x : Pending(n, x) => Handled(x)'
      BY <1>1, <1>7 DEF Pending, Handled, last, new
    <3> QED
      BY <2>1, <2>2, <3>1, <3>2
  <2>4. CASE n = last
    BY <1>1, <1>2, <2>4, LinesAre DEF new
  <2> QED
    BY <2>3, <2>4
<1>14. AssetsStand'
  BY DEF HlsStands, AssetsStand
<1> QED
  BY <1>10, <1>11, <1>12, <1>13, <1>14 DEF HlsStands

\* A playlist that is not known is asked for on top of the one that refers to it.
LEMMA PlaylistIsFollowed ==
  ASSUME HlsStands, graph \in Graphs, More, graph' = graph, playlists' = playlists,
         files' = files, todo' = todo, assets' = assets, planned' = planned,
         NEW l, l = Line, Top.line \in Retained(Lines(Top.url)), RefersToPlaylist(l),
         l.ref \notin DOMAIN playlists, Cardinality(Range(playlists)) < MaxPlaylists,
         NEW top, top = [url |-> l.ref, line |-> 0, at |-> Top.at + 1],
         stack' = Append(NextLine, top),
         NEW last, last = Len(stack), NEW end, end = last + 1, NEW s, s = NextLine
  PROVE  HlsStands'
<1>1. /\ stack \in Seq(Entries) /\ stack # <<>> /\ Top.line \in Nat \ {0} /\ Top.url \in Asked
      /\ last \in Levelled /\ Top.at \in Nat /\ stack[last] = Top
  <2>1. Top.line \in DOMAIN Lines(Top.url)
    BY DEF More
  <2>2. stack \in Seq(Entries) /\ stack # <<>>
    BY DEF HlsStands, StackStands
  <2>3. Top \in Entries /\ last \in Levelled /\ stack[last] = Top
    BY <2>2 DEF Top, Levelled
  <2>4. Top.url \in Asked /\ Top.line \in Nat /\ Top.at \in Nat
    BY <2>3 DEF Entries
  <2>5. DOMAIN Lines(Top.url) = 1 .. Len(Lines(Top.url)) /\ Len(Lines(Top.url)) \in Nat
    BY <2>4, LinesAre
  <2> QED
    BY <2>1, <2>2, <2>3, <2>4, <2>5
<1>2. s = Moved(Top.line + 1) /\ Top.line + 1 \in Nat
  BY <1>1 DEF NextLine, Moved, Top
<1>3. /\ s \in Seq(Entries) /\ Len(s) = last
      /\ \A n \in Levelled : n # last => s[n] = stack[n]
      /\ \A n \in Levelled : s[n].url = stack[n].url
      /\ s[last].line = Top.line + 1
  BY <1>1, <1>2, TopMoves
<1>4. top \in Entries /\ top.line = 0 /\ top.url = l.ref
  <2>1. l.ref \in Asked
    BY <1>1, LinesAre DEF Line
  <2> QED
    BY <1>1, <2>1 DEF Entries
<1>5. stack' = Append(s, top)
  OBVIOUS
<1>6. /\ stack' \in Seq(Entries) /\ Len(stack') = end /\ last \in Nat /\ stack' # <<>>
      /\ \A n \in Levelled : stack'[n] = s[n]
      /\ stack'[end] = top
  <2>1. last \in Nat
    BY <1>1
  <2>2. Levelled = 1 .. last
    BY DEF Levelled
  <2> QED
    BY <1>3, <1>4, <1>5, <2>1, <2>2
<1>7. /\ Levelled' = Levelled \cup {end} /\ end \notin Levelled /\ 1 \in Levelled
      /\ last \in Levelled /\ Entries' = Entries
  <2>1. Levelled = 1 .. last /\ Levelled' = 1 .. end /\ Entries' = Entries
    BY <1>6 DEF Levelled, Entries, Asked
  <2> QED
    BY <1>1, <1>6, <2>1
<1>8. \A n \in Levelled : ReadAt(n) /\ stack'[n].line > 0 /\ stack'[n].url = stack[n].url
  <2>1. \A n \in Levelled : n # last => ReadAt(n)
    BY DEF HlsStands, StackStands
  <2>2. ReadAt(last)
    BY <1>1 DEF ReadAt
  <2>3. \A n \in Levelled : stack'[n] = s[n] /\ s[n].url = stack[n].url
    BY <1>3, <1>6
  <2>4. \A n \in Levelled : n # last => s[n].line = stack[n].line
    BY <1>3
  <2>5. s[last].line > 0
    BY <1>1, <1>3
  <2>6. \A n \in Levelled : s[n].line > 0
    BY <2>1, <2>4, <2>5 DEF ReadAt
  <2> QED
    BY <2>1, <2>2, <2>3, <2>6
<1>9. ~(stack'[end].line > 0) /\ stack'[end].url \notin DOMAIN playlists
  BY <1>4, <1>6
<1>10. \A n \in Levelled : stack[n].url \in DOMAIN playlists
  BY <1>8 DEF HlsStands, StackStands
<1>11. StackStands'
  <2>1. stack'[1].url = "start"
    BY <1>7, <1>8 DEF HlsStands, StackStands
  <2>2. \A n \in Levelled' : n # end => ReadAt(n)'
    BY <1>7, <1>8 DEF ReadAt
  <2>3. \A n \in Levelled' : ReadAt(n)' <=> stack'[n].url \in DOMAIN playlists'
    BY <1>7, <1>8, <1>9, <1>10 DEF ReadAt
  <2>4. \A m, n \in Levelled' : m # n => stack'[m].url # stack'[n].url
    <3>1. \A m, n \in Levelled : m # n => stack'[m].url # stack'[n].url
      <4>1. \A m, n \in Levelled : m # n => stack[m].url # stack[n].url
        BY DEF HlsStands, StackStands
      <4>2. \A n \in Levelled : stack'[n].url = stack[n].url
        BY <1>8
      <4> SUFFICES ASSUME NEW m \in Levelled, NEW n \in Levelled, m # n
                   PROVE  stack'[m].url # stack'[n].url
        OBVIOUS
      <4>3. stack[m].url # stack[n].url
        BY <4>1
      <4>4. stack'[m].url = stack[m].url
        BY <4>2
      <4>5. stack'[n].url = stack[n].url
        BY <4>2
      <4> QED
        BY <4>3, <4>4, <4>5
    <3>2. \A n \in Levelled : stack'[n].url # stack'[end].url
      BY <1>8, <1>9, <1>10
    <3> SUFFICES ASSUME NEW m \in Levelled', NEW n \in Levelled', m # n
                 PROVE  stack'[m].url # stack'[n].url
      OBVIOUS
    <3>3. CASE m = end
      BY <1>7, <3>2, <3>3
    <3>4. CASE n = end
      BY <1>7, <3>2, <3>4
    <3>5. CASE m # end /\ n # end
      BY <1>7, <3>1, <3>5
    <3> QED
      BY <3>3, <3>4, <3>5
  <2> QED
    BY <1>6, <1>7, <2>1, <2>2, <2>3, <2>4 DEF StackStands
<1>12. DictStands'
  BY DEF HlsStands, DictStands
<1>13. FilesStand'
  <2>1. \A n \in Levelled : Found(stack[n].url) \in Range(playlists) \cap DOMAIN planned
    BY <1>8 DEF HlsStands, FilesStand
  <2>2. \A f \in Range(playlists) :
           f \in DOMAIN files \/ \E n \in Levelled : Found(stack[n].url) = f
    BY DEF HlsStands, FilesStand
  <2>3. \A n \in Levelled : Found(stack[n].url)' = Found(stack[n].url) /\ ReadAt(n)'
    BY <1>8 DEF Found, ReadAt
  <2>4. ~ReadAt(end)'
    BY <1>9 DEF ReadAt
  <2>5. /\ DOMAIN files' \subseteq Range(playlists')
        /\ \A f \in DOMAIN files' : files'[f] \subseteq Range(playlists') \cup assets'
    BY DEF HlsStands, FilesStand
  <2> QED
    BY <1>7, <2>1, <2>2, <2>3, <2>4, <2>5 DEF FilesStand
<1>14. LinesStand'
  <2>1. \A m \in Levelled : Lines(stack[m].url)' = Lines(stack[m].url)
    BY <1>8 DEF Lines, Found
  <2>2. ASSUME NEW n \in Levelled, NEW k \in Retained(Lines(stack[n].url)), k < stack'[n].line
        PROVE  Handled(Lines(stack[n].url)[k])' \/ Pending(n, Lines(stack[n].url)[k])'
    <3>1. Lines(stack[n].url)[k]' = Lines(stack[n].url)[k]
      BY <2>1
    <3>2. \A x : Handled(x) => Handled(x)'
      BY DEF Handled
    <3>3. CASE n # last
      <4>1. ~Pending(n, Lines(stack[n].url)[k])
        BY <1>1, <1>8, <3>3 DEF Pending, ReadAt, Levelled
      <4>2. Handled(Lines(stack[n].url)[k])
        <5>1. k < stack[n].line
          BY <1>3, <1>6, <2>2, <3>3
        <5> QED
          BY <4>1, <5>1 DEF HlsStands, LinesStand
      <4> QED
        BY <3>1, <3>2, <4>2
    <3>4. CASE n = last
      <4>1. stack[n] = Top /\ k \in Nat
        BY <1>1, <3>4, LinesAre
      <4>2. CASE k = Top.line
        <5>1. Lines(stack[n].url)[k] = l
          BY <4>1, <4>2 DEF Line
        <5>2. \A x : x = l => Pending(n, x)'
          BY <1>4, <1>6, <3>4 DEF Pending, RefersToPlaylist
        <5> QED
          BY <3>1, <5>1, <5>2
      <4>3. CASE k # Top.line
        <5>1. k < stack[n].line
          <6>1. k < Top.line + 1
            BY <1>3, <1>6, <2>2, <3>4
          <6> QED
            BY <1>1, <4>1, <4>3, <6>1
        <5>2. ~Pending(n, Lines(stack[n].url)[k])
          BY <1>1, <3>4 DEF Pending, Levelled
        <5>3. Handled(Lines(stack[n].url)[k])
          BY <5>1, <5>2 DEF HlsStands, LinesStand
        <5> QED
          BY <3>1, <3>2, <5>3
      <4> QED
        BY <4>2, <4>3
    <3> QED
      BY <3>3, <3>4
  <2>3. \A k \in Retained(Lines(stack[end].url)') : ~(k < stack'[end].line)
    <3>1. \A k \in Retained(Lines(l.ref)) : ~(k < 0)
      <4>1. l.ref \in Asked
        BY <1>4 DEF Entries
      <4> QED
        BY <4>1, LinesAre
    <3> QED
      BY <1>4, <1>6, <3>1 DEF Lines, Found
  <2> QED
    BY <1>7, <2>1, <2>2, <2>3 DEF LinesStand
<1>15. AssetsStand'
  BY DEF HlsStands, AssetsStand
<1> QED
  BY <1>11, <1>12, <1>13, <1>14, <1>15 DEF HlsStands

\* A playlist whose lines are done with is written; what it names is there, or
\* its playlist is below it on the stack.
LEMMA PlaylistIsWritten ==
  ASSUME HlsStands, graph \in Graphs, Top.line > Len(Lines(Top.url)),
         graph' = graph, playlists' = playlists, planned' = planned, todo' = todo,
         assets' = assets, stack' = Rest,
         files' = With(files, [f \in {Local} |-> LocalNames(Top.url)]),
         NEW last, last = Len(stack)
  PROVE  /\ Rest # <<>> => HlsStands'
         /\ Rest = <<>> =>
              /\ \A f \in DOMAIN files' : files'[f] \subseteq DOMAIN files' \cup assets'
              /\ Found("start")' \in DOMAIN files'
         /\ DOMAIN files' \subseteq Range(playlists)
<1>1. /\ stack \in Seq(Entries) /\ stack # <<>> /\ Top.line \in Nat /\ Top.url \in Asked
      /\ last \in Levelled /\ stack[last] = Top /\ last \in Nat /\ Levelled = 1 .. last
  <2>1. stack \in Seq(Entries) /\ stack # <<>>
    BY DEF HlsStands, StackStands
  <2>2. Top \in Entries /\ last \in Levelled /\ stack[last] = Top
    BY <2>1 DEF Top, Levelled
  <2>3. last \in Nat /\ Levelled = 1 .. last
    BY <2>1 DEF Levelled
  <2> QED
    BY <2>1, <2>2, <2>3 DEF Entries
<1>2. Len(Lines(Top.url)) \in Nat /\ DOMAIN Lines(Top.url) = 1 .. Len(Lines(Top.url))
      /\ Retained(Lines(Top.url)) \subseteq DOMAIN Lines(Top.url)
  BY <1>1, LinesAre
<1>3. \A n \in Levelled : ReadAt(n)
  <2>1. ReadAt(last)
    BY <1>1, <1>2 DEF ReadAt
  <2> QED
    BY <2>1 DEF HlsStands, StackStands
<1>4. Local \in Range(playlists)
  BY <1>1, <1>3 DEF HlsStands, FilesStand, Local
<1>5. LocalNames(Top.url) \subseteq Range(playlists) \cup assets
  <2> SUFFICES ASSUME NEW n \in Retained(Lines(Top.url)), NEW l, l = Lines(Top.url)[n]
               PROVE  (IF RefersToPlaylist(l) THEN playlists[l.ref] ELSE l.ref)
                        \in Range(playlists) \cup assets
    BY DEF LocalNames
  <2>1. n < Top.line
    BY <1>1, <1>2
  <2>2. ~Pending(last, l)
    BY <1>1 DEF Pending
  <2>3. Handled(l)
    BY <1>1, <2>1, <2>2 DEF HlsStands, LinesStand
  <2> QED
    BY <2>3 DEF Handled, Range
<1>6. /\ DOMAIN files' = DOMAIN files \cup {Local}
      /\ \A f \in DOMAIN files' : files'[f] = IF f = Local THEN LocalNames(Top.url) ELSE files[f]
  BY DEF With
<1>7. /\ DOMAIN files' \subseteq Range(playlists)
      /\ \A f \in DOMAIN files' : files'[f] \subseteq Range(playlists) \cup assets
  BY <1>4, <1>5, <1>6 DEF HlsStands, FilesStand
<1>8. \A f \in Range(playlists) :
        f \in DOMAIN files' \/ \E n \in Levelled : n # last /\ Found(stack[n].url) = f
  <2>1. \A f \in Range(playlists) :
          f \in DOMAIN files \/ \E n \in Levelled : Found(stack[n].url) = f
    BY DEF HlsStands, FilesStand
  <2>2. Found(stack[last].url) \in DOMAIN files'
    BY <1>1, <1>6 DEF Local
  <2> QED
    BY <1>6, <2>1, <2>2
<1>9. CASE Rest = <<>>
  <2>1. last = 1
    <3>1. last # 1 => Len(Rest) > 0
      BY <1>1 DEF Rest
    <3>2. ~(Len(Rest) > 0)
      BY <1>9
    <3> QED
      BY <3>1, <3>2
  <2>2. Range(playlists) \subseteq DOMAIN files'
    BY <1>1, <1>8, <2>1
  <2>3. Found("start")' = Local
    BY <1>1, <2>1 DEF HlsStands, StackStands, Found, Local
  <2> QED
    BY <1>4, <1>7, <1>9, <2>2, <2>3
<1>10. CASE Rest # <<>>
  <2>1. /\ last > 1 /\ stack' \in Seq(Entries) /\ Len(stack') = last - 1
        /\ \A n \in 1 .. last - 1 : stack'[n] = stack[n]
    BY <1>1, <1>10 DEF Rest
  <2>2. /\ Levelled' = 1 .. last - 1 /\ Entries' = Entries
        /\ \A n \in Levelled' : n \in Levelled /\ n # last /\ stack'[n] = stack[n]
    BY <1>1, <2>1 DEF Levelled, Entries, Asked
  <2>3. \A n \in Levelled : n # last => n \in Levelled'
    BY <1>1, <2>2
  <2>4. \A n \in Levelled' : ReadAt(n)'
    BY <1>3, <2>2 DEF ReadAt
  <2>5. StackStands'
    <3>1. stack'[1].url = "start"
      BY <2>1 DEF HlsStands, StackStands
    <3>2. \A m, n \in Levelled' : m # n => stack'[m].url # stack'[n].url
      BY <2>2 DEF HlsStands, StackStands
    <3>3. \A n \in Levelled' : stack'[n].url \in DOMAIN playlists'
      BY <1>3, <2>2 DEF HlsStands, StackStands
    <3> QED
      BY <1>10, <2>1, <2>2, <2>4, <3>1, <3>2, <3>3 DEF StackStands
  <2>6. DictStands'
    <3>1. Top' = stack'[last - 1] /\ last - 1 \in Levelled'
      BY <1>1, <2>1, <2>2 DEF Top
    <3>2. Top'.line > 0
      BY <1>3, <2>2, <3>1 DEF ReadAt
    <3> QED
      BY <3>2 DEF HlsStands, DictStands
  <2>7. FilesStand'
    <3>1. \A n \in Levelled' : Found(stack[n].url)' = Found(stack[n].url)
      BY <2>2 DEF Found
    <3>2. \A n \in Levelled' : Found(stack[n].url)' \in Range(playlists') \cap DOMAIN planned'
      BY <1>3, <2>2, <3>1 DEF HlsStands, FilesStand
    <3>3. \A f \in Range(playlists') :
            f \in DOMAIN files' \/ \E n \in Levelled' : Found(stack[n].url)' = f
      BY <1>8, <2>3, <3>1
    <3> QED
      BY <1>7, <2>4, <3>2, <3>3 DEF FilesStand
  <2>8. LinesStand'
    <3>1. \A m \in Levelled' : Lines(stack[m].url)' = Lines(stack[m].url)
      BY <2>2 DEF Lines, Found
    <3> SUFFICES ASSUME NEW n \in Levelled', NEW k \in Retained(Lines(stack[n].url)), k < stack'[n].line
                 PROVE  Handled(Lines(stack[n].url)[k])'
      BY <3>1 DEF LinesStand
    <3>2. Lines(stack[n].url)[k]' = Lines(stack[n].url)[k]
      BY <3>1
    <3>3. \A x : Handled(x) => Handled(x)'
      BY DEF Handled
    <3>4. k < stack[n].line /\ n \in Levelled
      BY <2>2
    <3>5. ~Pending(n, Lines(stack[n].url)[k])
      BY <1>1, <1>2 DEF Pending
    <3> QED
      BY <3>2, <3>3, <3>4, <3>5 DEF HlsStands, LinesStand
  <2>9. AssetsStand'
    BY DEF HlsStands, AssetsStand
  <2> QED
    BY <1>7, <1>10, <2>5, <2>6, <2>7, <2>8, <2>9 DEF HlsStands
<1> QED
  BY <1>9, <1>10

-----------------------------------------------------------------------------
(* Every step. *)

\* One playlist asked for, or every representation to do.
LEMMA GraphBegin ==
  GraphInit => GraphInv
<1> SUFFICES ASSUME GraphInit PROVE GraphInv
  OBVIOUS
<1>1. /\ graph \in Graphs \cup Manifests /\ outcome = "busy" /\ assets = {}
      /\ playlists = <<>> /\ planned = <<>> /\ files = <<>> /\ local = {}
  BY DEF GraphInit
<1>2. /\ IsFiniteSet({}) /\ Cardinality({}) = 0
      /\ DOMAIN playlists = {} /\ DOMAIN files = {} /\ DOMAIN planned = {}
  BY <1>1, FS_EmptySet
<1>3. CASE IsManifest
  <2>1. graph \in Manifests
    BY <1>1, <1>3, GraphKinds
  <2>2. /\ stack = <<>> /\ todo = graph.representations /\ templates = graph.templates
        /\ todo \in Seq(Range(graph.representations))
    BY <1>3, <2>1, GraphsAssumption DEF GraphInit
  <2>3. DashStands
    BY <1>1, <2>2 DEF DashStands
  <2>4. GraphIsClosed
    BY <1>1, <1>2, <1>3, <2>2, LimitsAssumption DEF GraphIsClosed
  <2> QED
    BY <1>1, <1>3, <2>3, <2>4 DEF GraphInv
<1>4. CASE ~IsManifest
  <2>1. graph \in Graphs
    BY <1>1, <1>4, GraphKinds
  <2>2. "start" \in Asked
    BY <2>1, GraphsAssumption DEF Asked
  <2> DEFINE e == [url |-> "start", line |-> 0, at |-> 0]
  <2>3. stack = <<e>> /\ todo = <<>>
    BY <1>4 DEF GraphInit
  <2>4. e \in Entries /\ e.url = "start" /\ e.line = 0
    BY <2>2 DEF Entries
  <2> HIDE DEF e
  <2>5. /\ stack \in Seq(Entries) /\ Len(stack) = 1 /\ stack # <<>> /\ stack[1] = e
        /\ Levelled = {1} /\ Top = e
    BY <2>3, <2>4 DEF Levelled, Top
  <2>6. \A n \in Levelled : ~ReadAt(n) /\ n = 1
    BY <2>4, <2>5 DEF ReadAt
  <2>7. StackStands
    BY <1>2, <2>4, <2>5, <2>6 DEF StackStands
  <2>8. Range(playlists) = {}
    BY <1>2 DEF Range
  <2>9. DictStands
    BY <1>2, <2>8, LimitsAssumption DEF DictStands
  <2>10. FilesStand
    BY <1>2, <2>6, <2>8 DEF FilesStand
  <2>11. LinesStand
    <3>1. \A k \in Retained(Lines("start")) : ~(k < 0)
      BY <2>1, <2>2, LinesAre
    <3> QED
      BY <2>4, <2>5, <3>1 DEF LinesStand
  <2>12. AssetsStand
    BY <1>1, <1>2, LimitsAssumption DEF AssetsStand
  <2>13. HlsStands
    BY <2>3, <2>7, <2>9, <2>10, <2>11, <2>12 DEF HlsStands
  <2>14. GraphIsClosed
    <3>1. \A m, n \in DOMAIN stack : m # n => stack[m].url # stack[n].url
      BY <2>5, <2>7 DEF StackStands, Levelled
    <3> QED
      BY <1>1, <1>2, <3>1, LimitsAssumption DEF GraphIsClosed
  <2> QED
    BY <1>1, <1>4, <2>13, <2>14 DEF GraphInv
<1> QED
  BY <1>3, <1>4

\* A playlist is fetched.
LEMMA StepReadPlaylist ==
  ASSUME GraphInv, ReadPlaylist
  PROVE  GraphInv'
<1>1. outcome = "busy" /\ stack # <<>> /\ Top.line = 0
  BY DEF ReadPlaylist, Reading
<1>2. CASE GiveUp("unreachable")
  BY <1>2, GivingUp
<1>3. CASE ~GiveUp("unreachable")
  <2>1. /\ stack' = Moved(1) /\ playlists' = With(playlists, Known(Top.url))
        /\ planned' = With(planned, [f \in {Local} |-> 0])
        /\ graph' = graph /\ files' = files /\ assets' = assets /\ todo' = todo
        /\ local' = local /\ outcome' = outcome
    BY <1>3 DEF ReadPlaylist, Moved
  <2>2. HlsStands /\ ~IsManifest /\ graph \in Graphs
    BY <1>1, GraphKinds DEF GraphInv, DashStands
  <2>3. HlsStands'
    BY <1>1, <2>1, <2>2, PlaylistIsRead
  <2>4. ~IsManifest'
    BY <2>1, <2>2 DEF IsManifest
  <2>5. GraphIsClosed'
    BY <1>1, <2>1, <2>3, <2>4, BusyIsClosed
  <2> QED
    BY <1>1, <2>1, <2>2, <2>3, <2>4, <2>5 DEF GraphInv
<1> QED
  BY <1>2, <1>3

\* A line that is not retained.
LEMMA StepSkip ==
  ASSUME GraphInv, Skip
  PROVE  GraphInv'
<1>1. /\ outcome = "busy" /\ stack # <<>> /\ More /\ Top.line \notin Retained(Lines(Top.url))
      /\ stack' = NextLine /\ graph' = graph /\ playlists' = playlists /\ planned' = planned
      /\ files' = files /\ assets' = assets /\ todo' = todo /\ local' = local /\ outcome' = outcome
  BY DEF Skip, More, Reading
<1>2. HlsStands /\ ~IsManifest /\ graph \in Graphs
  BY <1>1, GraphKinds DEF GraphInv, DashStands
<1>3. AssetsStand' /\ \A f \in DOMAIN planned : planned'[f] \in Nat
  BY <1>1, <1>2 DEF HlsStands, AssetsStand, DictStands
<1>4. HlsStands'
  BY <1>1, <1>2, <1>3, LineIsHandled
<1>5. ~IsManifest'
  BY <1>1, <1>2 DEF IsManifest
<1>6. GraphIsClosed'
  BY <1>1, <1>4, <1>5, BusyIsClosed
<1> QED
  BY <1>1, <1>2, <1>4, <1>5, <1>6 DEF GraphInv

\* A line that refers to a playlist.
LEMMA StepFollow ==
  ASSUME GraphInv, Follow
  PROVE  GraphInv'
<1> DEFINE l == Line
<1>1. /\ outcome = "busy" /\ stack # <<>> /\ More /\ Top.line \in Retained(Lines(Top.url))
      /\ RefersToPlaylist(l)
  BY DEF Follow, More, Reading
<1>2. HlsStands /\ ~IsManifest /\ graph \in Graphs
  BY <1>1, GraphKinds DEF GraphInv, DashStands
<1>3. \/ GiveUp("nested too deep") \/ GiveUp("too many playlists")
      \/ /\ stack' = NextLine /\ l.ref \in DOMAIN playlists
         /\ UNCHANGED <<graph, playlists, planned, files, assets, todo, templates, local, outcome>>
      \/ /\ stack' = Append(NextLine, [url |-> l.ref, line |-> 0, at |-> Top.at + 1])
         /\ ~(Top.at + 1 > MaxDepth)
         /\ (Top.at + 1 <= MaxDepth => (l.ref \notin DOMAIN playlists
                                        /\ ~(Cardinality(Range(playlists)) >= MaxPlaylists)))
         /\ UNCHANGED <<graph, playlists, planned, files, assets, todo, templates, local, outcome>>
  BY DEF Follow
<1> HIDE DEF l
<1>4. CASE GiveUp("nested too deep") \/ GiveUp("too many playlists")
  BY <1>4, GivingUp
<1>5. CASE /\ stack' = NextLine /\ l.ref \in DOMAIN playlists
           /\ UNCHANGED <<graph, playlists, planned, files, assets, todo, templates, local, outcome>>
  <2>1. AssetsStand' /\ \A f \in DOMAIN planned : planned'[f] \in Nat
    BY <1>2, <1>5 DEF HlsStands, AssetsStand, DictStands
  <2>2. l = Line
    BY DEF l
  <2>3. \A x : RefersToPlaylist(x) /\ x.ref \in DOMAIN playlists => Handled(x)'
    BY <1>5 DEF Handled
  <2>4. Handled(Line)
    BY <1>1, <1>5 DEF Handled, l
  <2>5. \A x : Handled(x) => Handled(x)'
    BY <1>5 DEF Handled
  <2>6. HlsStands'
    BY <1>1, <1>2, <1>5, <2>1, <2>4, <2>5, LineIsHandled
  <2>7. ~IsManifest'
    BY <1>2, <1>5 DEF IsManifest
  <2>8. GraphIsClosed'
    BY <1>1, <1>5, <2>6, <2>7, BusyIsClosed
  <2> QED
    BY <1>1, <1>2, <1>5, <2>6, <2>7, <2>8 DEF GraphInv
<1>6. CASE /\ stack' = Append(NextLine, [url |-> l.ref, line |-> 0, at |-> Top.at + 1])
           /\ ~(Top.at + 1 > MaxDepth)
           /\ (Top.at + 1 <= MaxDepth => (l.ref \notin DOMAIN playlists
                                          /\ ~(Cardinality(Range(playlists)) >= MaxPlaylists)))
           /\ UNCHANGED <<graph, playlists, planned, files, assets, todo, templates, local, outcome>>
  <2>1. Top.at \in Nat
    <3>1. stack \in Seq(Entries) /\ stack # <<>>
      BY <1>2 DEF HlsStands, StackStands
    <3>2. Top \in Entries
      BY <3>1 DEF Top
    <3> QED
      BY <3>2 DEF Entries
  <2>2. Cardinality(Range(playlists)) \in Nat
    BY <1>2, FS_CardinalityType DEF HlsStands, DictStands
  <2>3. l.ref \notin DOMAIN playlists /\ Cardinality(Range(playlists)) < MaxPlaylists
    BY <1>6, <2>1, <2>2, LimitsAssumption
  <2>4. l = Line /\ RefersToPlaylist(l)
    BY <1>1 DEF l
  <2> DEFINE top == [url |-> l.ref, line |-> 0, at |-> Top.at + 1]
  <2>5. stack' = Append(NextLine, top)
    BY <1>6
  <2>6. HlsStands'
    BY <1>1, <1>2, <1>6, <2>3, <2>4, <2>5, PlaylistIsFollowed
  <2>7. ~IsManifest'
    BY <1>2, <1>6 DEF IsManifest
  <2>8. GraphIsClosed'
    BY <1>1, <1>6, <2>6, <2>7, BusyIsClosed
  <2> QED
    BY <1>1, <1>2, <1>6, <2>6, <2>7, <2>8 DEF GraphInv
<1> QED
  BY <1>3, <1>4, <1>5, <1>6

\* A line that refers to an asset.
LEMMA StepFetch ==
  ASSUME GraphInv, Fetch
  PROVE  GraphInv'
<1>0. PICK l : l = Line
  OBVIOUS
<1> DEFINE total == planned[Local] + (IF l.tag = "segment" THEN 1 ELSE 0)
<1>1. /\ outcome = "busy" /\ stack # <<>> /\ More /\ IsAsset(l)
  BY <1>0 DEF Fetch, More, Reading
<1>2. HlsStands /\ ~IsManifest /\ graph \in Graphs
  BY <1>1, GraphKinds DEF GraphInv, DashStands
<1>3. \/ GiveUp("too long") \/ GiveUp("too many assets") \/ GiveUp("unreachable")
      \/ /\ (total <= MaxDuration => (l.ref \in assets \/ ~(Cardinality(assets) >= MaxAssets)))
         /\ ~(total > MaxDuration)
         /\ assets' = assets \cup {l.ref}
         /\ planned' = [planned EXCEPT ![Local] = total]
         /\ stack' = NextLine
         /\ UNCHANGED <<graph, playlists, files, todo, templates, local, outcome>>
  BY <1>0 DEF Fetch
<1>4. planned[Local] \in Nat /\ Local \in DOMAIN planned
  <2>1. stack \in Seq(Entries) /\ stack # <<>> /\ Top.line \in DOMAIN Lines(Top.url)
    BY <1>1, <1>2 DEF HlsStands, StackStands, More
  <2>2. Top \in Entries /\ Len(stack) \in Levelled /\ stack[Len(stack)] = Top
    BY <2>1 DEF Top, Levelled
  <2>3. Top.url \in Asked
    BY <2>2 DEF Entries
  <2>4. Top.line > 0
    BY <1>2, <2>1, <2>3, LinesAre
  <2> QED
    BY <1>2, <2>2, <2>4 DEF HlsStands, FilesStand, DictStands, ReadAt, Local
<1>5. total \in Nat
  BY <1>4
<1> HIDE DEF total
<1>6. CASE GiveUp("too long") \/ GiveUp("too many assets") \/ GiveUp("unreachable")
  BY <1>6, GivingUp
<1>7. CASE /\ (total <= MaxDuration => (l.ref \in assets \/ ~(Cardinality(assets) >= MaxAssets)))
           /\ ~(total > MaxDuration)
           /\ assets' = assets \cup {l.ref}
           /\ planned' = [planned EXCEPT ![Local] = total]
           /\ stack' = NextLine
           /\ UNCHANGED <<graph, playlists, files, todo, templates, local, outcome>>
  <2>1. AssetsStand'
    <3>1. IsFiniteSet(assets) /\ Cardinality(assets) <= MaxAssets /\ Cardinality(assets) \in Nat
      BY <1>2, FS_CardinalityType DEF HlsStands, AssetsStand
    <3>2. l.ref \in assets \/ Cardinality(assets) < MaxAssets
      BY <1>5, <1>7, <3>1, LimitsAssumption
    <3>3. CASE l.ref \in assets
      <4>1. assets' = assets
        BY <1>7, <3>3
      <4> QED
        BY <3>1, <4>1 DEF AssetsStand
    <3>4. CASE l.ref \notin assets
      <4>1. IsFiniteSet(assets') /\ Cardinality(assets') = Cardinality(assets) + 1
        BY <1>7, <3>1, <3>4, FS_AddElement
      <4>2. Cardinality(assets') <= MaxAssets
        BY <3>1, <3>2, <3>4, <4>1, LimitsAssumption
      <4> QED
        BY <4>1, <4>2 DEF AssetsStand
    <3> QED
      BY <3>3, <3>4
  <2>2. DOMAIN planned' = DOMAIN planned /\ \A f \in DOMAIN planned : planned'[f] \in Nat
    BY <1>2, <1>5, <1>7 DEF HlsStands, DictStands
  <2>3. Handled(l)'
    <3>1. ~RefersToPlaylist(l)
      BY <1>1 DEF IsAsset, RefersToPlaylist
    <3>2. \A x : ~RefersToPlaylist(x) /\ x.ref \in assets' => Handled(x)'
      BY DEF Handled, RefersToPlaylist
    <3>3. l.ref \in assets'
      BY <1>7
    <3> QED
      BY <3>1, <3>2, <3>3
  <2>4. HlsStands'
    BY <1>0, <1>1, <1>2, <1>7, <2>1, <2>2, <2>3, LineIsHandled
  <2>5. ~IsManifest'
    BY <1>2, <1>7 DEF IsManifest
  <2>6. GraphIsClosed'
    BY <1>1, <1>7, <2>4, <2>5, BusyIsClosed
  <2> QED
    BY <1>1, <1>2, <1>7, <2>4, <2>5, <2>6 DEF GraphInv
<1> QED
  BY <1>3, <1>6, <1>7

\* The end of a playlist.
LEMMA StepWrite ==
  ASSUME GraphInv, Write
  PROVE  GraphInv'
<1>1. /\ outcome = "busy" /\ stack # <<>> /\ Top.line > Len(Lines(Top.url))
      /\ files' = With(files, [f \in {Local} |-> LocalNames(Top.url)])
      /\ stack' = Rest
      /\ outcome' = IF Rest = <<>> THEN "done" ELSE "busy"
      /\ graph' = graph /\ playlists' = playlists /\ planned' = planned /\ assets' = assets
      /\ todo' = todo /\ templates' = templates /\ local' = local
  BY DEF Write, Reading
<1>2. HlsStands /\ ~IsManifest /\ graph \in Graphs
  BY <1>1, GraphKinds DEF GraphInv, DashStands
<1>3. ~IsManifest'
  BY <1>1, <1>2 DEF IsManifest
<1>4. /\ Rest # <<>> => HlsStands'
      /\ Rest = <<>> =>
           /\ \A f \in DOMAIN files' : files'[f] \subseteq DOMAIN files' \cup assets'
           /\ Found("start")' \in DOMAIN files'
      /\ DOMAIN files' \subseteq Range(playlists)
  BY <1>1, <1>2, PlaylistIsWritten
<1>5. CASE Rest # <<>>
  <2>1. HlsStands' /\ outcome' = "busy"
    BY <1>1, <1>4, <1>5
  <2>2. GraphIsClosed'
    BY <1>3, <2>1, BusyIsClosed
  <2> QED
    BY <1>1, <1>2, <1>3, <2>1, <2>2 DEF GraphInv
<1>6. CASE Rest = <<>>
  <2>1. outcome' = "done" /\ stack' = <<>>
    BY <1>1, <1>6
  <2>2. Cardinality(DOMAIN files') <= MaxPlaylists
    <3>1. IsFiniteSet(Range(playlists)) /\ Cardinality(Range(playlists)) <= MaxPlaylists
      BY <1>2 DEF HlsStands, DictStands
    <3>2. /\ Cardinality(DOMAIN files') <= Cardinality(Range(playlists))
          /\ Cardinality(DOMAIN files') \in Nat /\ Cardinality(Range(playlists)) \in Nat
      BY <1>4, <3>1, FS_Subset, FS_CardinalityType
    <3> QED
      BY <3>1, <3>2, LimitsAssumption
  <2>3. Cardinality(assets') <= MaxAssets
    BY <1>1, <1>2 DEF HlsStands, AssetsStand
  <2>4. DOMAIN stack' = {}
    BY <2>1
  <2> QED
    BY <1>1, <1>2, <1>3, <1>4, <1>6, <2>1, <2>2, <2>3, <2>4 DEF GraphInv, GraphIsClosed
<1> QED
  BY <1>5, <1>6

\* The first representation of those to do, localized.
LEMMA StepLocalize ==
  ASSUME GraphInv, Localize
  PROVE  GraphInv'
<1> DEFINE all == Range(graph.representations)
<1>0. PICK r : r = Head(todo)
  OBVIOUS
<1>1. outcome = "busy" /\ todo # <<>>
  BY DEF Localize
<1>2. IsManifest /\ DashStands /\ graph \in Manifests
  BY <1>1, GraphKinds DEF GraphInv, HlsStands
<1>3. \/ Unsupported(r) /\ GiveUp("unsupported")
      \/ GiveUp("unreachable")
      \/ /\ assets' = assets \cup r.segments
         /\ local' = local \cup {r}
         /\ templates' = templates \ Levels(r)
         /\ todo' = Tail(todo)
         /\ outcome' = IF Len(todo) = 1 THEN "done" ELSE "busy"
         /\ UNCHANGED <<graph, stack, playlists, planned, files>>
  BY <1>0 DEF Localize
<1>4. CASE GiveUp("unreachable")
  BY <1>4, GivingUp
<1>5. CASE Unsupported(r) /\ GiveUp("unsupported")
  <2>1. HasTemplate(r) = r.list
    BY <1>5 DEF Unsupported
  <2>2. HasTemplate(r) => Levels(r) \cap graph.templates # {}
    BY <1>2 DEF HasTemplate, DashStands
  <2>3. (Levels(r) \cap graph.templates # {}) = r.list \/ Missing(r)
    BY <2>1, <2>2 DEF Missing, HasTemplate
  <2> QED
    BY <1>0, <1>5, <2>3, GivingUp
<1>6. CASE /\ assets' = assets \cup r.segments
           /\ local' = local \cup {r}
           /\ templates' = templates \ Levels(r)
           /\ todo' = Tail(todo)
           /\ outcome' = IF Len(todo) = 1 THEN "done" ELSE "busy"
           /\ UNCHANGED <<graph, stack, playlists, planned, files>>
  <2> HIDE DEF all
  <2>1. /\ stack = <<>> /\ files = <<>> /\ todo \in Seq(all) /\ local \cup Range(todo) = all
        /\ (\A x \in local : x.segments \subseteq assets) /\ templates \subseteq graph.templates
    BY <1>2 DEF DashStands, all
  <2>2. /\ Tail(todo) \in Seq(all) /\ Range(todo) = {r} \cup Range(Tail(todo))
        /\ Len(Tail(todo)) = Len(todo) - 1 /\ Len(todo) \in Nat /\ Len(todo) > 0
    <3>1. /\ Tail(todo) \in Seq(all) /\ Len(Tail(todo)) = Len(todo) - 1 /\ Len(todo) \in Nat
          /\ Len(todo) > 0
          /\ \A n \in 1 .. Len(todo) - 1 : Tail(todo)[n] = todo[n + 1]
      BY <1>1, <2>1
    <3>2. todo[1] = r
      BY <1>0, <1>1, <2>1
    <3>3. DOMAIN todo = 1 .. Len(todo) /\ DOMAIN Tail(todo) = 1 .. Len(todo) - 1
      BY <2>1, <3>1
    <3>4. \A n \in DOMAIN todo : todo[n] = r \/ todo[n] \in Range(Tail(todo))
      <4> SUFFICES ASSUME NEW n \in DOMAIN todo, n # 1 PROVE todo[n] \in Range(Tail(todo))
        BY <3>2
      <4>1. n - 1 \in 1 .. Len(todo) - 1 /\ Tail(todo)[n - 1] = todo[n]
        BY <3>1, <3>3
      <4> QED
        BY <3>3, <4>1 DEF Range
    <3>5. \A n \in DOMAIN Tail(todo) : Tail(todo)[n] \in Range(todo)
      <4> SUFFICES ASSUME NEW n \in 1 .. Len(todo) - 1 PROVE Tail(todo)[n] \in Range(todo)
        BY <3>3
      <4>1. n + 1 \in DOMAIN todo /\ Tail(todo)[n] = todo[n + 1]
        BY <3>1, <3>3
      <4> QED
        BY <4>1 DEF Range
    <3>6. r \in Range(todo)
      BY <3>1, <3>2, <3>3 DEF Range
    <3> QED
      BY <3>1, <3>4, <3>5, <3>6 DEF Range
  <2>3. /\ todo' \in Seq(all) /\ local' \cup Range(todo') = all
        /\ (\A x \in local' : x.segments \subseteq assets') /\ templates' \subseteq graph'.templates
    BY <1>6, <2>1, <2>2
  <2>4. DashStands' /\ graph' = graph /\ IsManifest' /\ stack' = <<>> /\ files' = <<>>
    BY <1>2, <1>6, <2>1, <2>3 DEF DashStands, IsManifest, all
  <2>5. outcome' = "done" => local' = all
    <3>1. Len(todo) = 1 => Range(todo') = {}
      BY <1>6, <2>1, <2>2 DEF Range
    <3> QED
      BY <1>6, <2>3, <3>1
  <2>6. outcome' \in {"busy", "done"}
    BY <1>6
  <2>7. GraphIsClosed'
    <3>1. DOMAIN files' = {} /\ DOMAIN stack' = {} /\ Cardinality({}) = 0
      BY <2>4, FS_EmptySet
    <3> QED
      BY <2>3, <2>4, <2>5, <2>6, <3>1, LimitsAssumption DEF GraphIsClosed, all
  <2> QED
    BY <1>2, <2>4, <2>7 DEF GraphInv
<1> QED
  BY <1>3, <1>4, <1>5, <1>6

\* Every step of either machine.
LEMMA GraphStep ==
  GraphInv /\ [GraphNext]_graphVars => GraphInv'
<1> SUFFICES ASSUME GraphInv, [GraphNext]_graphVars PROVE GraphInv'
  OBVIOUS
<1>1. CASE UNCHANGED graphVars
  <2>1. /\ graph' = graph /\ stack' = stack /\ playlists' = playlists /\ planned' = planned
        /\ files' = files /\ assets' = assets /\ todo' = todo /\ templates' = templates
        /\ local' = local /\ outcome' = outcome
    BY <1>1 DEF graphVars
  <2>2. DashStands' = DashStands
    BY <2>1 DEF DashStands
  <2>3. HlsStands' = HlsStands
    <3>1. StackStands' = StackStands /\ DictStands' = DictStands /\ AssetsStand' = AssetsStand
      BY <2>1 DEF StackStands, DictStands, AssetsStand, Entries, Asked, Levelled, ReadAt, Top
    <3>2. FilesStand' = FilesStand
      BY <2>1 DEF FilesStand, Levelled, ReadAt, Found
    <3>3. LinesStand' = LinesStand
      BY <2>1 DEF LinesStand, Levelled, Lines, Found, Handled, Pending
    <3> QED
      BY <2>1, <3>1, <3>2, <3>3 DEF HlsStands
  <2>4. GraphIsClosed' = GraphIsClosed
    BY <2>1 DEF GraphIsClosed, IsManifest, Found, Levels, Missing, HasTemplate
  <2> QED
    BY <2>1, <2>2, <2>3, <2>4 DEF GraphInv, IsManifest
<1> QED
  BY <1>1, StepReadPlaylist, StepSkip, StepFollow, StepFetch, StepWrite, StepLocalize DEF GraphNext

\* Stack, dict, files and lines fit each other in every state; so do the
\* representations done and to do (MediaGraphs as a whole).
THEOREM GraphInvariant ==
  GraphSpec => []GraphInv
BY GraphBegin, GraphStep, PTL DEF GraphSpec

\* What is handed on names only what is there, and stays within the limits, whatever
\* graph was served (download_hls_playlist, DashLocalizer.materialize).
THEOREM GraphsAreClosed ==
  GraphSpec => []GraphIsClosed
<1>1. GraphInv => GraphIsClosed
  BY DEF GraphInv
<1> QED
  BY GraphInvariant, <1>1, PTL
=============================================================================
