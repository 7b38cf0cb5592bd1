------------------------------ MODULE SourceMedia ------------------------------
(***************************************************************************)
(* How an attempt at a task gets its raw media.  ResolveSourceStage asks the    *)
(* source for locators; DownloadStage has them fetched stream by stream into a  *)
(* directory of the attempt (BilibiliMaterializer, XiaoeMaterializer), with one *)
(* refresh of refused locators, has the result probed, and copies it to a file  *)
(* that bears the hash of the bytes (_persist_durable_file).  An attempt that   *)
(* was superseded may still be at work beside its successor, and the temporary  *)
(* file of the copy bears the task's name, not the attempt's.                 *)
(*                                                                         *)
(* A body that ends early is not told from a whole one.  A cut body is short by *)
(* more than the probe tolerates, and ends after the last cue of the subtitle   *)
(* ("late") or before it ends ("early").  What is copied is two chunks.  Files   *)
(* are inodes, named for the attempt that created them, so that two attempts    *)
(* may write one.  The graph of a playlist or a manifest is MediaGraphs.  Left   *)
(* out: hosts, headers, cookies and their checks; a cookie jar is read once, so  *)
(* that a refresh never renews it.                                          *)
(***************************************************************************)
EXTENDS Naturals, Sequences, FiniteSets

CONSTANTS
  Attempts,      \* each at one task
  TaskOf,        \* attempt -> task
  NoInode,
  Sources,       \* what a task may name
  MaxFaults      \* bound on cut bodies, expiries and deaths

\* What the resolvers give: a video as one stream or two, a page's stream, whose
\* subtitles are not fetched, and a bare playlist.
VideoSources == [streams : {1, 2}, duration : BOOLEAN, subtitle : BOOLEAN]
PageSources == [streams : {1}, duration : BOOLEAN, subtitle : {FALSE}]
PlaylistSources == [streams : {1}, duration : {FALSE}, subtitle : {FALSE}]

ASSUME NoInodeAssumption == NoInode \notin Attempts
ASSUME SourcesAssumption == Sources \subseteq VideoSources \cup PageSources \cup PlaylistSources

VARIABLES
  source,        \* what each attempt resolved
  step,          \* where it is
  fresh,         \* its locators are still accepted
  refreshed,     \* it used its one refresh
  got,           \* stream -> how it arrived
  durable,       \* kind of bytes -> the inode that bears their hash
  temporary,     \* task and kind of bytes -> the inode under the temporary name
  chunks,        \* inode -> the chunks written since it was last truncated
  writers,       \* auxiliary: the attempts that opened it
  written,       \* attempt -> the chunks it copied
  faults         \* how much of the bound is used

mediaVars == <<source, step, fresh, refreshed, got, durable, temporary, chunks, writers, written, faults>>

\* A body that ends is taken for whole; a file's bytes are those of its streams.
Bodies == {"whole", "late", "early"}
Bytes == UNION {[1 .. n -> Bodies] : n \in 0 .. 2}
Chunks == {1, 2}
TasksAtWork == {TaskOf[a] : a \in Attempts}

MediaInit ==
  /\ source \in {f \in [Attempts -> Sources] :
                   \A a, b \in Attempts : TaskOf[a] = TaskOf[b] => f[a] = f[b]}
  /\ step = [a \in Attempts |-> "resolve"]
  /\ fresh = [a \in Attempts |-> FALSE]
  /\ refreshed = [a \in Attempts |-> FALSE]
  /\ got = [a \in Attempts |-> <<>>]
  /\ durable = [d \in Bytes |-> NoInode]
  /\ temporary = [t \in TasksAtWork |-> [d \in Bytes |-> NoInode]]
  /\ chunks = [i \in Attempts |-> {}]
  /\ writers = [i \in Attempts |-> {}]
  /\ written = [a \in Attempts |-> {}]
  /\ faults = 0

-----------------------------------------------------------------------------
MoveOn(a, where) == step' = [step EXCEPT ![a] = where]
Fault == faults < MaxFaults /\ faults' = faults + 1

copying == <<durable, temporary, chunks, writers, written>>

\* Locators, and what the source says of duration and subtitles, are the
\* attempt's own and are not kept in the task.
Resolve(a) ==
  /\ step[a] = "resolve"
  /\ \/ MoveOn(a, "failed") /\ UNCHANGED fresh
     \/ MoveOn(a, "fetch") /\ fresh' = [fresh EXCEPT ![a] = TRUE]
  /\ UNCHANGED <<source, refreshed, got, copying, faults>>

\* Signed locators and sessions lapse on their own.
LocatorsLapse(a) ==
  /\ fresh[a] /\ step[a] = "fetch" /\ Fault
  /\ fresh' = [fresh EXCEPT ![a] = FALSE]
  /\ UNCHANGED <<source, step, refreshed, got, copying>>

\* The streams in their order, each written straight to its file; a body that
\* is empty, too large or never comes fails the attempt.
FetchStream(a) ==
  /\ step[a] = "fetch" /\ fresh[a] /\ Len(got[a]) < source[a].streams
  /\ \/ got' = [got EXCEPT ![a] = Append(@, "whole")] /\ UNCHANGED <<step, faults>>
     \/ /\ \E cut \in {"late", "early"} : got' = [got EXCEPT ![a] = Append(@, cut)]
        /\ Fault /\ UNCHANGED step
     \/ MoveOn(a, "failed") /\ UNCHANGED <<got, faults>>
  /\ UNCHANGED <<source, fresh, refreshed, copying>>

\* Another locator of the same source, and nothing kept of what was fetched.
Refresh(a) ==
  /\ refreshed' = [refreshed EXCEPT ![a] = TRUE]
  /\ fresh' = [fresh EXCEPT ![a] = TRUE]
  /\ got' = [got EXCEPT ![a] = <<>>]

\* 401, 403 or a lapsed time: one refresh, which begins anew; a second refusal
\* fails the attempt, and so does a refresh that finds nothing, or another source.
Refuse(a) ==
  /\ step[a] = "fetch" /\ ~fresh[a]
  /\ \/ MoveOn(a, "failed") /\ UNCHANGED <<fresh, refreshed, got>>
     \/ ~refreshed[a] /\ Refresh(a) /\ UNCHANGED step
  /\ UNCHANGED <<source, copying, faults>>

\* Audio and video are merged; the longer of them is the duration of the file.
Some(a, bodies) == \E n \in DOMAIN got[a] : got[a][n] \in bodies

\* _validate_probe: the duration the source gave, if it gave one.
DurationHolds(a) == source[a].duration => Some(a, {"whole"})

\* No cue of a chosen subtitle may end after the media.
CuesFit(a) == source[a].subtitle => Some(a, {"whole", "late"})

Probe(a) ==
  /\ step[a] = "fetch" /\ Len(got[a]) = source[a].streams
  /\ MoveOn(a, IF DurationHolds(a) /\ CuesFit(a) THEN "keep" ELSE "failed")
  /\ UNCHANGED <<source, fresh, refreshed, got, copying, faults>>

-----------------------------------------------------------------------------
(* _persist_durable_file, which names files by hash, task and nothing else. *)

Whole(i) == chunks[i] = Chunks

\* A file that is there is hashed; another hash than its name fails the attempt.
KeepOld(a) ==
  /\ step[a] = "keep" /\ durable[got[a]] # NoInode
  /\ MoveOn(a, IF Whole(durable[got[a]]) THEN "kept" ELSE "failed")
  /\ UNCHANGED <<source, fresh, refreshed, got, copying, faults>>

MissOld(a) ==
  /\ step[a] = "keep" /\ durable[got[a]] = NoInode
  /\ MoveOn(a, "missed")
  /\ UNCHANGED <<source, fresh, refreshed, got, copying, faults>>

\* Opening for writing truncates what another attempt of the task has there.
TemporaryName(a) == temporary[TaskOf[a]][got[a]]

OpenTemporary(a) ==
  /\ step[a] = "missed"
  /\ LET i == IF TemporaryName(a) # NoInode THEN TemporaryName(a) ELSE a IN
       /\ temporary' = [temporary EXCEPT ![TaskOf[a]][got[a]] = i]
       /\ chunks' = [chunks EXCEPT ![i] = {}]
       /\ writers' = [writers EXCEPT ![i] = @ \cup {a}]
  /\ MoveOn(a, "copy")
  /\ UNCHANGED <<source, fresh, refreshed, got, durable, written, faults>>

\* The handle stays with its inode, whatever the name becomes.
Copy(a) ==
  /\ step[a] = "copy" /\ written[a] # Chunks
  /\ LET c == CHOOSE c \in Chunks \ written[a] : \A d \in Chunks \ written[a] : c <= d IN
       /\ written' = [written EXCEPT ![a] = @ \cup {c}]
       /\ chunks' = [i \in Attempts |-> IF a \in writers[i] THEN chunks[i] \cup {c} ELSE chunks[i]]
  /\ UNCHANGED <<source, step, fresh, refreshed, got, durable, temporary, writers, faults>>

\* Mutant of Replace: the name is moved as soon as the file is open.
ReplaceEarly(a) ==
  /\ step[a] = "copy"
  /\ IF TemporaryName(a) # NoInode
       THEN /\ durable' = [durable EXCEPT ![got[a]] = TemporaryName(a)]
            /\ temporary' = [temporary EXCEPT ![TaskOf[a]][got[a]] = NoInode]
            /\ MoveOn(a, "kept")
       ELSE MoveOn(a, "failed") /\ UNCHANGED <<durable, temporary>>
  /\ UNCHANGED <<source, fresh, refreshed, got, chunks, writers, written, faults>>

\* The rename needs the name, which a rival may have renamed already.
Replace(a) ==
  /\ step[a] = "copy" /\ written[a] = Chunks
  /\ IF TemporaryName(a) # NoInode
       THEN /\ durable' = [durable EXCEPT ![got[a]] = TemporaryName(a)]
            /\ temporary' = [temporary EXCEPT ![TaskOf[a]][got[a]] = NoInode]
            /\ MoveOn(a, "kept")
       ELSE MoveOn(a, "failed") /\ UNCHANGED <<durable, temporary>>
  /\ UNCHANGED <<source, fresh, refreshed, got, chunks, writers, written, faults>>

\* An attempt dies, or its worker loses the lease and stops; its files stay.
AttemptDies(a) ==
  /\ step[a] \in {"fetch", "keep", "missed", "copy"} /\ Fault
  /\ MoveOn(a, "dead")
  /\ UNCHANGED <<source, fresh, refreshed, got, copying>>

MediaNext ==
  \E a \in Attempts :
    \/ Resolve(a) \/ LocatorsLapse(a) \/ FetchStream(a) \/ Refuse(a) \/ Probe(a)
    \/ KeepOld(a) \/ MissOld(a) \/ OpenTemporary(a) \/ Copy(a) \/ Replace(a) \/ AttemptDies(a)

MediaSpec == MediaInit /\ [][MediaNext]_mediaVars

-----------------------------------------------------------------------------
\* Whatever bears a hash was written by attempts that fetched those bytes, and all
\* of them are there unless one of these, which truncated the file as another was
\* copying it, has yet to write it again or died before; and no media are kept
\* that were cut in every stream unless the source gave no duration and each of
\* its cues, if it gave cues, was there (_persist_durable_file, _validate_probe,
\* _subtitle_track).
KeptIsWhole ==
  /\ \A d \in Bytes : durable[d] # NoInode =>
        /\ \A a \in writers[durable[d]] : got[a] = d
        /\ \/ Whole(durable[d])
           \/ \E a \in writers[durable[d]] : step[a] \in {"copy", "dead"} /\ written[a] # Chunks
  /\ \A a \in Attempts : step[a] = "kept" /\ ~Some(a, {"whole"}) =>
        ~source[a].duration /\ (source[a].subtitle => Some(a, {"late"}))
=============================================================================
