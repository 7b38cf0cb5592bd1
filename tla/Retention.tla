------------------------------- MODULE Retention -------------------------------
(***************************************************************************)
(* Raw media and their retention.  A download keeps the bytes in a file that  *)
(* bears their hash (_persist_durable_file) and later registers the source     *)
(* artifact with a locator of that file (_put_artifact_in_session,            *)
(* _register_private_locator).  Every worker process sweeps from time to time  *)
(* (RetentionScheduler.sweep, RetentionService.execute): it reads the locators,*)
(* then lists the artifacts that have one, with their legal holds, and for one *)
(* after the other records an intent, deletes the file and marks the intent.   *)
(* Nothing keeps two sweeps apart.  mark_deleted and mark_failed read the row   *)
(* without a lock and write it later.                                       *)
(*                                                                         *)
(* One file has as many artifacts as its bytes were ingested with different    *)
(* references or availability times.  An artifact's class is always raw_media, *)
(* so that its tombstone is the artifact itself.  Left out: attempt counts,    *)
(* dry runs, locators outside the private root.                               *)
(***************************************************************************)
EXTENDS Naturals, FiniteSets

CONSTANTS
  Artifacts, NoArtifact, Files,
  FileOf,        \* artifact -> the file of its bytes
  Sweepers,
  Lifetime,      \* RAW_MEDIA of the policy, in days
  MaxDay, MaxDownloads, MaxHolds,
  MaxMishaps     \* bounds; a mishap is a failed deletion or a death

ASSUME FilesAssumption == NoArtifact \notin Artifacts /\ FileOf \in [Artifacts -> Files]
ASSUME DaysAssumption == Lifetime \in Nat \ {0} /\ MaxDay \in Nat

VARIABLES
  day,
  present,       \* the files whose bytes are there
  fetched,       \* artifact -> the day of a download not yet registered; 0: none
  created,       \* artifact -> created_at of its row; 0: no row
  locators,      \* artifacts with a locator row
  held,          \* those under a legal hold
  execution,     \* retention_execution: artifact -> state
  sweep,         \* what each sweep is at
  absent,        \* auxiliary: intents whose file has been absent since
  spent          \* auxiliary: how much of each bound is used

media == <<present, fetched, created, locators>>
vars == <<day, media, held, execution, sweep, absent, spent>>

NoSweep == [pc |-> "idle", map |-> {}, todo |-> {}, spared |-> {}, current |-> NoArtifact,
            seen |-> "NONE"]

Init ==
  /\ day = 1
  /\ present = {}
  /\ fetched = [a \in Artifacts |-> 0]
  /\ created = [a \in Artifacts |-> 0]
  /\ locators = {} /\ held = {}
  /\ execution = [a \in Artifacts |-> "NONE"]
  /\ sweep = [w \in Sweepers |-> NoSweep]
  /\ absent = {}
  /\ spent = [downloads |-> 0, holds |-> 0, mishaps |-> 0]

\* One more of what a bound allows.
Spend(what, most) == spent[what] < most /\ spent' = [spent EXCEPT ![what] = @ + 1]

-----------------------------------------------------------------------------
Tick ==
  /\ day < MaxDay /\ day' = day + 1
  /\ UNCHANGED <<media, held, execution, sweep, spent>>

\* A file that is there already is checked and used again.
Download(a) ==
  /\ fetched[a] = 0
  /\ Spend("downloads", MaxDownloads)
  /\ fetched' = [fetched EXCEPT ![a] = day]
  /\ present' = present \cup {FileOf[a]}
  /\ UNCHANGED <<day, created, locators, held, execution, sweep>>

\* The first row of an artifact stays; a locator needs the file.
Register(a) ==
  /\ fetched[a] # 0
  /\ created' = IF created[a] = 0 THEN [created EXCEPT ![a] = fetched[a]] ELSE created
  /\ locators' = IF FileOf[a] \in present THEN locators \cup {a} ELSE locators
  /\ fetched' = [fetched EXCEPT ![a] = 0]
  /\ UNCHANGED <<day, present, held, execution, sweep, spent>>

\* Operators place and lift holds in the locator rows.
SetHold(a) ==
  /\ a \in locators
  /\ held' = IF a \in held THEN held \ {a} ELSE held \cup {a}
  /\ Spend("holds", MaxHolds)
  /\ UNCHANGED <<day, media, execution, sweep>>

-----------------------------------------------------------------------------
\* plan: the artifact's day has come.
Expired(a) == day >= created[a] + Lifetime

Quietly == UNCHANGED <<day, media, held, execution, spent>>

At(w, pc, a) == sweep[w].pc = pc /\ sweep[w].current = a

\* The next candidate, in the order of creation.
Turn(w, a) ==
  /\ sweep[w].pc = "sweeping" /\ a \in sweep[w].todo
  /\ \A b \in sweep[w].todo : created[a] <= created[b]

GoTo(w, pc) == sweep' = [sweep EXCEPT ![w].pc = pc]

\* On to the next candidate.
Pass(w, a) ==
  sweep' = [sweep EXCEPT ![w].pc = "sweeping", ![w].current = NoArtifact,
                         ![w].todo = @ \ {a}, ![w].seen = "NONE"]

\* The deleter's map and the candidates come from two transactions.
Start(w) ==
  /\ sweep[w].pc = "idle"
  /\ sweep' = [sweep EXCEPT ![w] = [NoSweep EXCEPT !.pc = "mapped", !.map = locators]]
  /\ Quietly

List(w) ==
  /\ sweep[w].pc = "mapped"
  /\ sweep' = [sweep EXCEPT ![w].pc = "sweeping", ![w].todo = locators, ![w].spared = held]
  /\ Quietly

End(w) ==
  /\ sweep[w].pc = "sweeping" /\ sweep[w].todo = {}
  /\ sweep' = [sweep EXCEPT ![w] = NoSweep]
  /\ Quietly

\* Mutant: a hold does not count.
KeptUntilExpired(w, a) == ~Expired(a)

\* plan: a candidate that was held when it was listed, or is not due.
Kept(w, a) == a \in sweep[w].spared \/ ~Expired(a)

Spare(w, a) ==
  /\ Turn(w, a) /\ Kept(w, a)
  /\ Pass(w, a)
  /\ Quietly

\* plan: is there an intent?
Plan(w, a) ==
  /\ Turn(w, a) /\ ~Kept(w, a)
  /\ sweep' = [sweep EXCEPT ![w].current = a,
                 ![w].pc = IF execution[a] = "NONE" THEN "intending" ELSE "preparing"]
  /\ Quietly

\* prepare_execution.  A row that another sweep has inserted meanwhile is found,
\* or, inserted between the look and the insert, it ends this sweep.
Intend(w, a) ==
  /\ At(w, "intending", a)
  /\ \/ /\ execution[a] = "NONE"
        /\ execution' = [execution EXCEPT ![a] = "DELETE_PENDING"]
        /\ GoTo(w, "preparing")
     \/ /\ execution[a] # "NONE"
        /\ GoTo(w, "preparing") \/ sweep' = [sweep EXCEPT ![w] = NoSweep]
        /\ UNCHANGED execution
  /\ UNCHANGED <<day, media, held, spent>>

\* Mutant: a deletion that failed is not tried again.
DoneOnceTried(state) == state \in {"DELETED", "DELETE_FAILED"}

\* execute: what is recorded as deleted is done.
Done(state) == state = "DELETED"

Prepare(w, a) ==
  /\ At(w, "preparing", a)
  /\ IF Done(execution[a]) THEN Pass(w, a) ELSE GoTo(w, "deleting")
  /\ Quietly

\* Mutant: bytes without a known locator count as deleted.
MappedAnyhow(w, a) == TRUE

Mapped(w, a) == a \in sweep[w].map

\* SafeFilesystemArtifactDeleter.delete: a missing file is a success.
Delete(w, a) ==
  /\ At(w, "deleting", a) /\ Mapped(w, a)
  /\ present' = IF a \in sweep[w].map THEN present \ {FileOf[a]} ELSE present
  /\ GoTo(w, "deleted")
  /\ UNCHANGED <<day, fetched, created, locators, held, execution, spent>>

FailDelete(w, a) ==
  /\ At(w, "deleting", a)
  /\ \/ ~Mapped(w, a) /\ UNCHANGED spent
     \/ Spend("mishaps", MaxMishaps)
  /\ GoTo(w, "failed")
  /\ UNCHANGED <<day, media, held, execution>>

\* mark_deleted, mark_failed: the row is read; what it says already is not written.
ReadMark(w, a) ==
  /\ At(w, "deleted", a) \/ At(w, "failed", a)
  /\ sweep' = [sweep EXCEPT ![w].seen = execution[a],
                 ![w].pc = IF @ = "deleted" THEN "marking" ELSE "marking_failed"]
  /\ Quietly

Mark(w) == IF sweep[w].pc = "marking" THEN "DELETED" ELSE "DELETE_FAILED"

WriteMark(w, a) ==
  /\ At(w, "marking", a) \/ At(w, "marking_failed", a)
  /\ execution' = IF Done(sweep[w].seen) \/ sweep[w].seen = Mark(w) THEN execution
                  ELSE [execution EXCEPT ![a] = Mark(w)]
  /\ Pass(w, a)
  /\ UNCHANGED <<day, media, held, spent>>

\* The process dies or its database does; the next sweep starts anew.
Die(w) ==
  /\ sweep[w].pc # "idle"
  /\ sweep' = [sweep EXCEPT ![w] = NoSweep]
  /\ Spend("mishaps", MaxMishaps)
  /\ UNCHANGED <<day, media, held, execution>>

-----------------------------------------------------------------------------
Handle(w, a) ==
  \/ Spare(w, a) \/ Plan(w, a) \/ Intend(w, a) \/ Prepare(w, a)
  \/ Delete(w, a) \/ FailDelete(w, a) \/ ReadMark(w, a) \/ WriteMark(w, a)

Sweep(w) == Start(w) \/ List(w) \/ End(w) \/ \E a \in Artifacts : Handle(w, a)

Step ==
  \/ Tick
  \/ \E a \in Artifacts : Download(a) \/ Register(a) \/ SetHold(a)
  \/ \E w \in Sweepers : Sweep(w) \/ Die(w)

\* Whose file is missing while its intent is on record.
Observe == absent' = absent \cup {a \in Artifacts : execution'[a] # "NONE" /\ FileOf[a] \notin present'}

Next == Step /\ Observe

Spec == Init /\ [][Next]_vars

\* Every worker process sweeps again and again (run_forever).
FairSpec == Spec /\ \A w \in Sweepers : WF_vars(Sweep(w) /\ Observe)

-----------------------------------------------------------------------------
\* An intent is recorded as DELETED only where the bytes were really gone since it
\* was recorded, however sweeps overlap, die or fail (execute, 58-69: the mark
\* follows the call; the locator map and the candidates are two reads).
DeletedMeansGone ==
  \A a \in Artifacts : execution[a] = "DELETED" => a \in absent

Due(a) == a \in locators /\ Expired(a)

\* Bytes go only in a sweep that listed, since its start, an artifact they belong
\* to that is due: of the artifacts of a lost file one is due, and without a hold
\* unless the hold was placed while a sweep was under way.
OnlyDueBytesGo ==
  [][\A f \in present \ present' : \E a \in Artifacts :
       /\ FileOf[a] = f /\ Due(a)
       /\ a \in held => \E w \in Sweepers : sweep[w].pc # "idle" /\ a \notin sweep[w].spared]_vars

\* What is due is deleted in the end, or held: no failure, death or rival sweep
\* keeps it for good.
DueIsDeleted ==
  \A a \in Artifacts : Due(a) /\ a \notin held ~> execution[a] = "DELETED" \/ a \in held
=============================================================================
