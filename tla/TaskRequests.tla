----------------------------- MODULE TaskRequests -----------------------------
(***************************************************************************)
(* Requests that make rows of the content task table.  A post of one of the    *)
(* three ingestion routes (api/ingestions.py) is reduced to a command           *)
(* (normalize_command) and made a PENDING row; a demand to process a published  *)
(* snapshot again (ReplayReprocessMixin) is made a RUNNING row that the asking  *)
(* process works off itself and then closes.  Both go through create, which     *)
(* looks for the idempotency key in one transaction and inserts in another.    *)
(*                                                                         *)
(* A post says how it spells its source, so that canonical references are       *)
(* tuples of what they keep of the spelling.  Left out: the options but the     *)
(* language, the policies (every governed source allows ingestion), the lineage *)
(* checks before a replay (ReplayRules) and its stages (ContentPipeline).      *)
(***************************************************************************)
EXTENDS Naturals, FiniteSets

CONSTANTS
  Askers,        \* processes that serve one request each
  None,
  Posts,         \* requests to ingest
  Demands,       \* requests to replay
  MaxMishaps     \* bound on deaths and failed writes

ASSUME NoneAssumption == None \notin Askers

VARIABLES
  asked,         \* what each asks for
  at,            \* where it is
  row,           \* the row it inserted, under an id of its own
  answer,        \* what it was told
  sealed,        \* the raw media of the snapshots are there
  made,          \* the snapshot its replay published, as it compares
  mishaps        \* how much of the bound is used

requestVars == <<asked, at, row, answer, sealed, made, mishaps>>

NoAnswer == [says |-> "NOTHING", of |-> None]

RequestInit ==
  /\ asked = [r \in Askers |-> None]
  /\ at = [r \in Askers |-> "idle"]
  /\ row = [r \in Askers |-> None]
  /\ answer = [r \in Askers |-> NoAnswer]
  /\ sealed = TRUE
  /\ made = [r \in Askers |-> "nothing"]
  /\ mishaps = 0

-----------------------------------------------------------------------------
(* From a post to a command. *)

\* Header and body may both bear the key; they must agree.  A caller's key is
\* never the key of a migration, hence the tuple.
KeysAgree(p) == p.header = None \/ p.body = None \/ p.header = p.body
PostKey(p) == IF p.header # None THEN <<p.header>> ELSE IF p.body # None THEN <<p.body>> ELSE None

\* A URL keeps its page; a short link is expanded by the worker only.
BilibiliRef(p) == <<p.form, p.source, IF p.form = "url" THEN p.page ELSE 0>>

\* A page and its identity are one lesson; a playlist loses its signature.
XiaoeRef(p) == IF p.form \in {"page", "lesson"} THEN <<"lesson", p.source>> ELSE <<"hls", p.source>>

\* Only a lesson or a video's credential is held against the allowlist.
Normalizes(p) ==
  /\ KeysAgree(p)
  /\ \/ /\ p.route \in {"canonical bilibili", "bilibili"}
        /\ p.form \in {"bv", "url", "short"}
        /\ p.credential \in {"none", "listed"}
     \/ /\ p.route = "canonical xiaoe" /\ p.form \in {"page", "lesson"}
        /\ p.credential = "listed"
     \/ /\ p.route = "xiaoe" /\ p.form = "page"
        /\ p.credential = "listed"
     \/ /\ p.route = "xiaoe" /\ p.form \in {"hls", "signed"}
        /\ p.form = "signed" => p.credential # "none"

SourceType(p) ==
  CASE p.route \in {"canonical bilibili", "bilibili"} -> "bilibili"
    [] p.form \in {"hls", "signed"} -> "xiaoe_hls"
    [] OTHER -> "xiaoe"

\* The page of a URL stands for a part left at its default.
Command(p) ==
  [type |-> SourceType(p),
   ref |-> IF SourceType(p) = "bilibili" THEN BilibiliRef(p) ELSE XiaoeRef(p),
   part |-> IF SourceType(p) = "bilibili" /\ p.form = "url" /\ p.page # 0 /\ p.part = 1
              THEN p.page ELSE p.part,
   language |-> p.language]

\* Mutant of RequestHash: a hash without the part.
HashWithoutPart(c) == <<c.type, c.ref, c.language>>

\* The hash of a request is its command: the credential is no part of it.
RequestHash(c) == <<c.type, c.ref, c.part, c.language>>

\* The row keeps of a command what a worker will read; the part is not there.
ContentRow(p) ==
  LET c == Command(p) IN
  [kind |-> "content", key |-> PostKey(p), hash |-> RequestHash(c), status |-> "PENDING",
   type |-> c.type, ref |-> c.ref, result |-> "nothing"]

-----------------------------------------------------------------------------
(* From a demand to a row. *)

\* Overrides may not set what the replay itself fills in.
Forbidden(d) == d.override = "runtime"

\* One migration is one snapshot, one pipeline and the same overrides.
Identity(d) == <<d.snapshot, d.pipeline, d.override>>

\* Only a migration has a key.
ReplayRow(d) ==
  [kind |-> "replay",
   key |-> IF d.mode = "MIGRATION" THEN Identity(d) ELSE None,
   hash |-> IF d.mode = "MIGRATION" THEN Identity(d) ELSE None,
   status |-> "RUNNING", type |-> "any", ref |-> d.snapshot, result |-> "nothing"]

IsPost(a) == "route" \in DOMAIN a
RowFor(a) == IF IsPost(a) THEN ContentRow(a) ELSE ReplayRow(a)
NewRow(r) == RowFor(asked[r])

\* How a replay may end, as its row and whoever asks for it tell.
Ends == {"nothing", "same", "others"}

\* What may become of the row an asker makes of a.
Ended(a, status, result) == [RowFor(a) EXCEPT !.status = status, !.result = result]
TaskRows(a) ==
  {Ended(a, status, result) :
     status \in {"PENDING", "RUNNING", "SUCCEEDED", "FAILED"}, result \in Ends}

\* NULL is neither the key of a migration nor a row.
ASSUME RequestsAssumption ==
  /\ \A p \in Posts : IsPost(p)
  /\ \A d \in Demands : ~IsPost(d) /\ Identity(d) # None
  /\ \A a \in Posts \cup Demands : None \notin TaskRows(a)

RequestTypeOK ==
  /\ asked \in [Askers -> Posts \cup Demands \cup {None}]
  /\ at \in [Askers -> {"idle", "look", "insert", "lost", "replay", "compare", "raised",
                        "answered", "dead"}]
  /\ DOMAIN row = Askers /\ \A r \in Askers : row[r] = None \/ row[r] \in TaskRows(asked[r])
  /\ answer \in [Askers -> [says : Ends \cup {"NOTHING", "REFUSED", "CONFLICT", "TASK", "RUNNING",
                                             "FAILED", "NONDETERMINISTIC", "STALE"},
                            of : Askers \cup {None}]]
  /\ sealed \in BOOLEAN /\ made \in [Askers -> Ends] /\ mishaps \in Nat

-----------------------------------------------------------------------------
GoTo(r, place) == at' = [at EXCEPT ![r] = place]
Say(r, what, t) == answer' = [answer EXCEPT ![r] = [says |-> what, of |-> t]] /\ GoTo(r, "answered")

\* What an asker learns of the row of another: a task, a running replay, how an
\* earlier one ended.
Told(r, t) == IF IsPost(asked[r]) THEN "TASK"
              ELSE CASE row[t].status = "RUNNING" -> "RUNNING"
                     [] row[t].status = "SUCCEEDED" -> row[t].result
                     [] OTHER -> "FAILED"

\* A migration names its pipeline.
Post(r) ==
  /\ at[r] = "idle"
  /\ \E p \in Posts :
       /\ asked' = [asked EXCEPT ![r] = p]
       /\ IF Normalizes(p)
            THEN GoTo(r, IF PostKey(p) = None THEN "insert" ELSE "look") /\ UNCHANGED answer
            ELSE Say(r, "REFUSED", None)
  /\ UNCHANGED <<row, sealed, made, mishaps>>

\* The media are hashed before a row is made.
Demand(r) ==
  /\ at[r] = "idle"
  /\ \E d \in Demands :
       /\ asked' = [asked EXCEPT ![r] = d]
       /\ IF sealed /\ ~Forbidden(d) /\ (d.mode = "MIGRATION" => d.pipeline # None)
            THEN GoTo(r, IF d.mode = "MIGRATION" THEN "look" ELSE "insert") /\ UNCHANGED answer
            ELSE Say(r, "REFUSED", None)
  /\ UNCHANGED <<row, sealed, made, mishaps>>

SameKey(r) == {t \in Askers : row[t] # None /\ row[t].key = NewRow(r).key}

\* _reserve_existing
Reserve(r, t) ==
  IF row[t].hash # NewRow(r).hash THEN Say(r, "CONFLICT", t) ELSE Say(r, Told(r, t), t)

Look(r) ==
  /\ at[r] = "look"
  /\ IF SameKey(r) = {} THEN GoTo(r, "insert") /\ UNCHANGED answer
     ELSE \E t \in SameKey(r) : Reserve(r, t)
  /\ UNCHANGED <<asked, row, sealed, made, mishaps>>

\* The key is unique in the table: a rival's insert sends the loser to look again.
Taken(r) == NewRow(r).key # None /\ SameKey(r) # {}

Insert(r) ==
  /\ at[r] = "insert"
  /\ IF Taken(r) THEN GoTo(r, "lost") /\ UNCHANGED <<row, answer>>
     ELSE /\ row' = [row EXCEPT ![r] = NewRow(r)]
          /\ IF IsPost(asked[r]) THEN Say(r, "TASK", r) ELSE GoTo(r, "replay") /\ UNCHANGED answer
  /\ UNCHANGED <<asked, sealed, made, mishaps>>

LookAgain(r) ==
  /\ at[r] = "lost"
  /\ \E t \in SameKey(r) : Reserve(r, t)
  /\ UNCHANGED <<asked, row, sealed, made, mishaps>>

-----------------------------------------------------------------------------
(* The replay, in the process that asked for it. *)

\* Retention removes the bytes, whoever may be about to read them.
ExpireMedia == sealed /\ sealed' = FALSE /\ UNCHANGED <<asked, at, row, answer, made, mishaps>>

\* The stages run from the sealed media, which the download checks again.  They
\* publish a snapshot whose artifacts are those of the old one or others, or
\* fail and publish nothing.
Process(r) ==
  /\ at[r] = "replay"
  /\ \/ GoTo(r, "raised") /\ UNCHANGED made
     \/ /\ sealed
        /\ \E outcome \in {"same", "others"} : made' = [made EXCEPT ![r] = outcome]
        /\ GoTo(r, "compare")
  /\ UNCHANGED <<asked, row, answer, sealed, mishaps>>

\* A migration may differ; a reprocessing that does has failed.
Matches(r) == made[r] = "same" \/ asked[r].mode = "MIGRATION"

\* succeed_unleased and fail_unleased write only to a RUNNING row, which it is
\* until the process that made it has closed it.
Close(r, status, result) ==
  row' = [row EXCEPT ![r].status = status, ![r].result = result]

Succeed(r) ==
  /\ at[r] = "compare" /\ Matches(r) /\ row[r].status = "RUNNING"
  /\ Close(r, "SUCCEEDED", made[r]) /\ Say(r, made[r], r)
  /\ UNCHANGED <<asked, sealed, made, mishaps>>

Differ(r) ==
  /\ at[r] = "compare" /\ ~Matches(r) /\ row[r].status = "RUNNING"
  /\ Close(r, "FAILED", "nothing") /\ Say(r, "NONDETERMINISTIC", r)
  /\ UNCHANGED <<asked, sealed, made, mishaps>>

\* Whatever was raised, by the stages or by a write, the row is failed.
FailReplay(r) ==
  /\ at[r] = "raised"
  /\ IF row[r].status = "RUNNING"
       THEN Close(r, "FAILED", "nothing") /\ Say(r, "FAILED", r)
       ELSE Say(r, "STALE", r) /\ UNCHANGED row
  /\ UNCHANGED <<asked, sealed, made, mishaps>>

\* The comparison cannot be read, or the closing write is lost before or after
\* its commit.
Mishap == mishaps < MaxMishaps /\ mishaps' = mishaps + 1

LoseWrite(r) ==
  /\ at[r] = "compare" /\ Mishap
  /\ \/ UNCHANGED row
     \/ row[r].status = "RUNNING" /\ Matches(r) /\ Close(r, "SUCCEEDED", made[r])
  /\ GoTo(r, "raised")
  /\ UNCHANGED <<asked, answer, sealed, made>>

\* A death answers nobody and leaves a replay's row RUNNING.
Die(r) ==
  /\ at[r] \in {"look", "insert", "lost", "replay", "compare", "raised"}
  /\ Mishap
  /\ GoTo(r, "dead")
  /\ UNCHANGED <<asked, row, answer, sealed, made>>

RequestNext ==
  \/ ExpireMedia
  \/ \E r \in Askers :
       \/ Post(r) \/ Demand(r) \/ Look(r) \/ Insert(r) \/ LookAgain(r)
       \/ Process(r) \/ Succeed(r) \/ Differ(r) \/ FailReplay(r)
       \/ LoseWrite(r) \/ Die(r)

RequestSpec == RequestInit /\ [][RequestNext]_requestVars

-----------------------------------------------------------------------------
Asks(r) == IF IsPost(asked[r]) THEN Command(asked[r]) ELSE Identity(asked[r])

\* However requests race, a key has one row, every answer under it speaks of
\* that row, and an asker is refused just when the row was made for something
\* else than it asks: a video, a part, a language, a migration (create,
\* _reserve_existing, request_hash_for, migration_replay_request_identity).
OneTaskPerKey ==
  /\ \A r, t \in Askers :
        r # t /\ row[r] # None /\ row[t] # None /\ row[r].key # None => row[r].key # row[t].key
  /\ \A r \in Askers : LET t == answer[r].of IN
        t # None /\ t # r => /\ row[t] # None /\ row[t].key = NewRow(r).key
                            /\ answer[r].says = "CONFLICT" <=> Asks(r) # Asks(t)

\* The row of a replay tells what became of it: it has a result just when it
\* succeeded, the snapshot that was published and may stand; one that failed
\* although it published differs from its origin, or a write was lost; whoever
\* is shown a result is shown this one (_reprocess, _reuse_replay_task).
RowTellsTheReplay ==
  \A r \in Askers :
    /\ row[r] # None /\ row[r].kind = "replay" =>
         /\ row[r].result # "nothing" <=> row[r].status = "SUCCEEDED"
         /\ row[r].status = "SUCCEEDED" => row[r].result = made[r] /\ Matches(r)
         /\ row[r].status = "FAILED" /\ made[r] # "nothing" => ~Matches(r) \/ mishaps > 0
    /\ answer[r].says \in {"same", "others"} =>
         row[answer[r].of].status = "SUCCEEDED" /\ made[answer[r].of] = answer[r].says

\* What the rows say is so (create, _reprocess, _reuse_replay_task).
RowsTellTheTruth == OneTaskPerKey /\ RowTellsTheReplay
=============================================================================
