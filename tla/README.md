# A TLA+ model of stock_content

`stock_content` ingests financial videos, extracts claims and knowledge from
them, verifies the claims against market data and publishes signals. Its
PostgreSQL tables are the source of truth, and everything concurrent in it is
a set of worker processes that lease rows of those tables: the difficult part
of the program is what happens to a row when its worker is slow, dies, or
shares its name with another. This project models that part first.

Paths below are relative to `src/src/stock_content/`.

## Inventory

| Part | State | Operations | Interacts with | What must hold |
|---|---|---|---|---|
| Content task queue (`adapters/postgres/repositories/content_task_repository.py`) | `content_ingest_task` rows: status, lease, fencing token, retries, checkpoint, result | create, claim_pending, renew_lease, update_progress, checkpoint, commit_effect, fail, (un)leased terminal paths of a replay | called by every content worker; its fence guards checkpoints and effects | one process at a time can write a row; terminal is final; the budget strands nothing; what is abandoned is reclaimed |
| Content worker (`application/service.py`, `workers/content_worker.py`, `application/stage_runner.py`, `artifact_repository.py`) | the attempt in memory; stage checkpoints and receipts | process_next: claim, task lease, restore, stages, acknowledge, close | task row, TaskRun, checkpoint store, three transactions per stage | a resumed attempt publishes what the receipts pin; stages leave traces in order |
| Requests (`api/ingestions.py`, `application/source_resolution_service.py`, `application/replay/reprocess.py`) | rows of the task table, under idempotency keys | post, demand, create, close a replay's row | clients, the queue, published snapshots, retention of their media | one row per key, an asker refused just when it is another's; a replay's row tells what became of it |
| Source media (`application/stages.py`: resolve and download; `adapters/sources/`) | files of the attempt, durable files under hashes | resolve, fetch, refresh once, probe, walk a playlist or manifest, copy | servers, attempts of one task beside each other | what is kept is whole; a local graph is closed and within its limits |
| Stage pipeline (`application/pipeline.py`, `stage_runner.py`, `stages.py`, resume in `service.py`) | the attempt's context, a checkpoint and a receipt per stage, the published snapshot, read model and index | the 38 stages in order, restore, fail | sources, models, task row, publication | one snapshot per task; the read model shows it; nothing contradicted is published as supported; the text is the selected one |
| Transcript selection (`application/transcript_selection_service.py`, `transcript_quality_service.py`) | none | gate a candidate, decide on speech recognition, choose, fill gaps | pipeline stages | an official subtitle is not swapped for machine text |
| Task runs (`domain/task_run.py`, `task_run_repository.py`, `api/admin_tasks.py`) | `background_task_run`: state, owner, token | acquire, transition, operator actions | content and verification workers, operators | never ahead of the queue; one holder |
| Fenced effects and knowledge projection (`application/fenced_effects.py`, `knowledge_projection_dispatcher.py`) | `content_task_effect` intents, the vector index | prepare, claim due, call, complete, retry, dead-letter | written by the index stage, consumed by dispatchers | a receipt stands for a call; no superseded claim calls or settles; every intent settles |
| Verification jobs (`verification_job_repository.py`, `application/verification_worker.py`, `application/verification/`) | `claim_verification_job`, results | enqueue, claim, provider call, complete, retry, manual review, requeue | its own TaskRuns, the refresh transaction, operators | one answer per opening; the retry schedule; every job is answered |
| Verification closure and source head (`application/verification/`, `snapshot_repository.py`) | snapshots, verification artifacts, `content_source_head` | refresh, initial publication | jobs, event chain, outbox | a merged view loses no result; the head never goes back |
| Claim state ledger (`claim_event_repository.py`, `domain/claim_state_event.py`, `forecast_outcome_review.py`) | a hash chain per claim, the lifecycle ledger | read tail, append in a session, mirror a review | ingests, replays, refreshes, reviews | one history per claim that grows at its end; a publication is all or nothing and repeatable |
| Signal outbox (`signal_outbox_repository.py`, `application/signal_publisher.py`) | `signal_outbox` rows, the receiver | enqueue, claim, publish, mark | publications and refreshes enqueue | published was received; one payload per id; every signal settles |
| Publication (`publication_unit_of_work.py`, `domain/publication_run.py`) | publication runs | publish | snapshot, outbox, events | atomic |
| Retention (`application/retention_service.py`, `retention_scheduler.py`, `adapters/retention/`) | locators with their legal holds, `retention_execution` intents, the files | register, sweep: list, plan, prepare, delete, mark | downloads, operators, every worker process | only due bytes go; what is recorded as deleted is gone; what is due goes in the end |
| Replay (`application/replay_service.py`, `application/replay/`) | snapshots | verify, reprocess, compare | queue (unleased row), every artifact and row of a snapshot | what is published verifies, then and later; same identity for same inputs |
| Formal readers (`knowledge_bundle_service.py`, `knowledge_bundle_repository.py`, `historical_claim_projector.py`, `formal_factor_signals` in `application/service.py`) | bundles, the binding of idempotency keys | create, get; a signal query as of three instants | claim state ledger, snapshots, occurrences | one answer per key, no bundle out of reach, only occurrences of the snapshot asked for, answers that what came later does not change |
| Semantic segmentation (`domain/semantic_segmenter.py`, `semantic_segment.py`, `semantic_boundary_validator.py`, `semantic_segment_repository.py`) | `semantic_segments` rows, one transaction each | coarse pass, refinement, topic audit, brief labels, reconcile, materialize, save | the model, the stage that runs it, retries of the stage | never refuses its own merging; a label is of its segment; the table holds what the stage returned |
| Pure domain algorithms (temporal semantics, conflicts, lifecycle, quality, signal policy) | none | functions | the stages | agree with their definition |
| Adapters (browser, media, models, Qdrant), the other routes, CLI, readiness, migrations | none modelled | I/O | | |

The hard behaviours: several processes under one worker id; clocks read before
a lock is granted, or once for a whole pass; leases renewed only at stage
boundaries; read-then-write transactions without a lock; a handler that wraps
more than the call it was written for; a crash between an external call and the
commit of its receipt; operators acting at any moment. `PROJECT.json` lists
each of them, with its line, under `hazards`.

## Modules

| Module | Models |
|---|---|
| `ContentTaskRow` | one task row and each transaction's effect on it, as pure operators: relative time, fence, retry budget |
| `ContentTaskTable` | the table and the processes that lease rows of it: what the next module and `ContentWorker` have in common |
| `ContentTaskQueue` | the table and the processes that call the repository; every call is two steps, reading the clock and then running under the row lock, with up to `MaxDelay` ticks in between |
| `JobQueue` | the abstract queue: a job is waiting, granted to at most one grantee, done or dead after `MaxStrikes`. `ContentTaskQueue!ImplementsJobQueue` refines it: the grantee of a row is the process carrying the row's latest token |
| `ContentTaskQueueProofs` | theorems about the queue, about the attempts of `ContentWorker` and about `TaskRequests`; it EXTENDS the three |
| `TaskRunRow` | one TaskRun and its operations, shared by the two workers that use task runs |
| `ContentWorker` | `process_next` as steps over the task row, the TaskRun and the checkpoint store; EXTENDS `ContentTaskTable`, instantiates `TaskRunRow` |
| `TaskRequests` | what is asked for: posts reduced to commands, demands to replay, the rows both make and how a replay closes its own |
| `SourceMedia` | attempts that fetch, probe and keep the media of a task |
| `MediaGraphs` | the walk of a graph of playlists, and of a manifest |
| `TranscriptRules`, `ClaimRules` | pure operators: which transcript is taken; which drafts, windows, frames and checks a claim gets, and what an occurrence, a unit and a lifecycle row say of it |
| `ReplayRules` | pure operators: what a replay demands of a published snapshot; EXTENDS `ClaimRules` |
| `ContentPipeline` | one task through all stages of the graph, with checkpoints, receipts, attempts that die or fail and resume; EXTENDS the three above |
| `ContentPipelineProofs` | the invariant of `ContentPipeline` and the theorems about what it publishes |
| `KnowledgeProjection` | intents, dispatchers and the index |
| `VerificationWorkers` | the processes that verify: what the next module and `SourceHeads` have in common |
| `VerificationJobs` | jobs, workers' passes, their task runs, answers, manual retry; instantiates `TaskRunRow` |
| `SourceHeads` | snapshots, source heads, the ingests and the passes that move them |
| `SourceHeadsProofs` | theorems about the heads, and about the passes of `VerificationJobs`; it EXTENDS both |
| `ClaimHistory` | the abstract claim history: it only ever grows at its end, by events it does not hold |
| `ClaimLedger` | the event chains, the transactions of ingests, replays, closings and reviews that extend them, their locks; `ImplementsClaimHistory` refines `ClaimHistory` |
| `ClaimLedgerProofs` | theorems about the event chains, their transactions and locks, and the refinement of `ClaimHistory`; then about the receipts of the index and who may write them; it EXTENDS `ClaimLedger` and `KnowledgeProjection` |
| `ClaimProjection` | pure operators: what a reader sees of a claim's events as of three instants, and which items a bundle makes of it |
| `FormalReads` | clients that have bundles built under idempotency keys, and what a signal query answers, beside ingests, replays and refreshes; EXTENDS `ClaimProjection` |
| `FormalReadsProofs` | the theorems about keys and bundles, settled answers and what answers show |
| `SignalOutbox` | outbox rows, publishers' passes and the receiver |
| `SignalOutboxProofs` | theorems about deliveries and marks |
| `Segmentation` | the segmentation stage as an attempt that shows a transcript to a model window by window, pass by pass, and then writes rows |
| `SegmentationProofs` | theorems about the passes, the labels and the table |
| `Retention` | raw media files, their artifacts' locators and holds, and the sweeps of several workers that delete them |
| `MediaProofs` | theorems about sweeps, about the files of `SourceMedia` and about `MediaGraphs`; it EXTENDS the three |
| `MC...` | values of the constants for TLC |

Correspondence, module by module (each definition's lines are in
`PROJECT.json`, `map`):

* **Time** is relative everywhere. A row holds the ticks its lease has left, a
  transaction or pass the ticks since it read its clock (`age`), so `expires_at
  <= now` is `left + age <= 0`. Where a lease has lapsed further than any clock
  reading in use can tell, it stops counting.
* **`ContentTaskQueue`**: `BeginClaim`/`Claim`/`ClaimNothing` are
  `claim_pending` (oldest first, SKIP LOCKED over a row another transaction may
  hold); `BeginCall` and one action per call are the fenced updates;
  `LeaseLost` is `StaleTaskLease`; `SucceedUnleased` and `FailUnleased` are the
  local replay's.
* **`ContentWorker`**: `attempt[p].pc` is where `process_next` stands. `Durable` is
  `_restore_resume_context`'s prefix; `Execute`, `ExecuteDrifts`,
  `ExecuteFails` are `StageRunner.execute` with `put_with_fenced_checkpoint`;
  `Commit`, `SucceedRun`, `FailTask`, `FailRun` the tail of `process_next` with
  its handlers. Clock delays are `ContentTaskQueue`'s subject and are zero here.
  A payload is 1, or 2 where a stage is allowed to drift.
* **`TaskRequests`**: an asker is a process that serves one request. `Normalizes`,
  `Command` and `RequestHash` are the routes with `normalize_command` and
  `request_hash_for`; a canonical reference is the tuple of what it keeps of a
  source's spelling. `Look`, `Insert`, `LookAgain` are `create`'s three
  transactions. `Demand`, `Process`, `Succeed`, `Differ`, `FailReplay` are
  `_reprocess`; `LoseWrite` is a closing write whose connection breaks, before or
  after its commit.
* **`SourceMedia`**: `FetchStream` is a download of one stream, `Refuse` the
  handler that refreshes once, `Probe` the probe and the subtitle's bounds,
  `KeepOld`, `MissOld`, `OpenTemporary`, `Copy`, `Replace` the steps of
  `_persist_durable_file`; a file is an inode, so that a rename takes a rival's
  open handle along. A refresh begins anew in the same directory. A body may be cut
  "late", after the last cue of the subtitle, or "early", before it ends: the probe
  (`CuesFit`) refuses only media that end before a cue does, and holds the duration
  against the source only where the source gave one (`DurationHolds`). That the probe
  measures the bytes it is given is taken for granted.
* **`MediaGraphs`**: the recursion of `fetch_manifest` is `stack`; `Known` the two
  entries of `playlists` made before a line is followed. `Localize` is one turn
  of the loop over representations, `templates` what is left of the document.
* **`ContentPipeline`**: `Stages` is the graph of `api/dependencies.py`; each
  stage is an action that reads and writes `mem` (the `PipelineContext`), and
  through `StageRunner`'s part leaves a checkpoint and a receipt (`ckpt`,
  `receipts`). A stage may fail by its own rule, by an `OutsideFailure`, or by a
  receipt that differs; `Die` loses `mem`. `Claim` starts an attempt and
  restores the longest prefix of `Restorable` checkpoints, in the order and with
  the omissions of `_restore_resume_context` (of the transcript candidates a later
  attempt gets the recognised speech back and nothing else): `FirstToRun` is where
  `validate_resume` stops, and a restored slot holds what the last stage of the
  prefix that filled it recorded (`SlotsAfter`). A publication that finds its
  snapshot's id keeps the rows that are there. What the source holds and the
  models see is fixed in `world`; what the language model extracts is drawn anew
  by each attempt. Attempts do not overlap here: overlapping is
  `ContentWorker`'s and `ContentTaskQueue`'s subject. The model runs the
  semantic path; the legacy path of a deployment without segmentation is left
  out. `Select` takes the candidates as a set: the code goes through those it prefers
  by their ids, and whether an official one that is refused comes before one that
  passes depends on hashes (`transcript_selection_service.py:45`).
* **`ReplayRules`**: an artifact is what it says, and a reference to one is its
  value: `semantic_segments` and `evidence` carry the transcript they were made of,
  `occurrences` the segments and evidence, an occurrence the frames and relations its
  packet shows (`seen`). `Verifies` is `_validate_artifact_references` with the two
  validators it calls; hashes, reference data, signals and OCR or vision fields are
  left out.
* **`ClaimLedger`**: a row of a chain is an event and its predecessor, since an
  event's hash covers the predecessor's. `Begin`, `Lock`, `Read`,
  `AppendInSession`/`Refuse`, `Commit`, `Abort` are the steps of a publication
  or a closing: coordination locks claim by claim, the tails read in another
  session, each event appended under the row locks of its claim, one commit.
  `Review` and `Mirror` are `review_claim` and `_append_claim_state`, two
  transactions. A replay projects the lifecycle at `Boundary`, an instant before
  every clock, an ingest at its own snapshot time, which it keeps when it begins
  again.
* **`ClaimProjection`, `FormalReads`**: time is absolute, as in `SourceHeads`. An
  event keeps the fields of its payload a reader decides by (`says`), and
  `State` is what the projector's fold of them comes to: a field is what the last
  visible event that bears it says. The writers are reduced to what a
  reader can tell: `Begin` fixes the instant, `Publish` and `PublishRefresh`
  commit it; how they append is `ClaimLedger`'s subject. A bundle is `Ask` (the
  lookup of the key), `Read` (the snapshot and the rows), `ReadHistory` (the
  events of one row's claim, each a query of its own), `Fail` or `Enter` (the key
  under the advisory lock), `Insert`, `Answer`; `Die` may come between any two.
  `given` remembers what clients were answered. A bundle's id is the hash of its
  content, so a bundle is its content. A row also says of what modality the PRIMARY
  evidence of its occurrence is (`primary`) and whether its claim is in a contradiction
  group (`contested`; the group is part of the claim's identity, so `Contradicted` is a
  constant): a v2 item needs a transcript among the first and must not be in the second
  (`Eligible`). The instance drafts only what the code publishes, occurrences with
  PRIMARY transcript evidence (`domain/claim_occurrence.py:66`); claims that are not
  atomic or not grounded never become occurrences that a reader reads. Requests without a
  key, which only store a bundle, and refusals by an item's text are left out.
* **`KnowledgeProjection`**: `Enter`, `Index`, `Settle` split
  `_dispatch_claim` at the call it makes under the row lock; `Retry`,
  `ClaimLost` are `_retry` and `_owned`. The task that writes the intent is
  reduced to status and token.
* **`SourceHeads`**: time is absolute here, because what the properties relate
  are the times snapshots bear. An ingest fixes its snapshot time in
  `BeginIngest` and publishes with it in `Publish` (plan, closure check,
  snapshot, jobs and head in one step, which holds the claim locks);
  `PublishRefused` is `CONTENT_SNAPSHOT_PERSIST_FAILED`. A pass is `ClaimDue`,
  `ResolveParent`, `BeginComplete` (the job is read before the lock is
  granted), `Complete`. A snapshot is its source, its time and its view, the
  function from its claims to their answer or `Pending`; ids are numbers in no
  order of time, since the code compares hashes. TaskRuns and manual retries
  are left to `VerificationJobs`. Left out: the policy version by which the planner
  filters answers (`verification_job_repository.py:220`; here there is one), and a
  publication whose snapshot's id is there already, which changes nothing
  (`snapshot_repository.py:762`).
* **`Retention`**: a sweep is `Start` (the deleter's locator map), `List` (the
  candidates with their holds, another transaction), then for one candidate after
  the other `Spare` or `Plan`, `Intend`, `Prepare`, `Delete` or `FailDelete`,
  `ReadMark` and `WriteMark`, and `End`; `Die` is a death of the process or an
  exception that ends the sweep. A mark writes only what differs from what it
  read, as the session does. `Download` and `Register` are what ingests do to
  files and locators. `absent` is an observer's: the intents whose file has been
  missing at some time since they were recorded.
* **`Segmentation`**: a segmentation is a function, `starts`, from the rows where
  segments begin to their labels; a boundary after row i is the start i+1, and
  `Merged` is the sorting and `materialize_semantic_segments` in one. In place of
  a label's words stand the rows the answer gave to the topic. `pass` is where
  `segment` stands, `work` its `coarse_segments`, `audited_segments` or
  `provisional`, `shown` the window, `found` `local_proposals`, `fresh`
  `refinements` or `audited_boundaries`, `relabel` `refined_labels` or
  `audit_labels`. `Answer`, `Adjudicate`, `VerifyLabel`, `Invalid`, `WrongModel`
  are what a call of the model may come to, `ClosePass` and `CloseBrief` what
  follows a pass, `SaveRow` a transaction of the repository. Costs are numbers,
  with the instructions of a prompt taken off the budgets beforehand; the ranking
  of proposals by the words of their labels is a choice among the best. A row no
  window can hold ends the pass where it begins, in the code at its segment.
  `parted` is an observer's. The seed of a replay, which gives it ids of its own,
  is left out.
* **`VerificationJobs`** and **`SignalOutbox`**: a pass reads its clock once.
  Their transactions read a row without `FOR UPDATE` and write it later, so
  each is a read step and a write step, `seen` being what was read. In
  `VerificationJobs` (`CompleteJob`) the row is the one read before the advisory lock,
  because the session returns the same object. An exception outside the
  handler, or in it, is `Abort`.

## Runs

| Run | Instance | What it shows |
|---|---|---|
| `queue` | 2 tasks (one a replay), 2 processes, one worker id, 2 retries, lease 2, delay 1, 3 claims a row | exclusive fence under a shared id, budget, finality, checkpoints, refinement of `JobQueue`, reclaiming |
| `worker` | one of four parts at a time. Stages: 1 task, 3 stages (two restorable, the third drifting), 3 processes (two share an id), 2 claims, all operator actions. Requests: 3 askers, 10 posts that spell 3 sources, 5 demands, 1 mishap. Media: 3 attempts at 2 tasks of 3 kinds of source, 2 faults (a body cut late or early, a lapse, a death). Graphs: all of three playlists of two lines and six others, 40 manifests; depth 2, 3 playlists, 2 assets, duration 3 | published outputs match the receipts, stages in order, TaskRun never ahead, nobody at work under an older claim than another's records; one row per key, replay rows that tell the truth; what is kept is whole, or cut where nothing could tell; local graphs are closed |
| `pipeline` | 1 task, 38 stages, 2 media parts, 2 claims, 2 spans, 3 retries, 2 faults | what is published is what the selection among the candidates at hand, the cross-check and the review allow; one snapshot, which a replay verifies; the read model and the index show it; a resume restores what the receipts hold; the task ends |
| `pipeline_swap` (violation) | the same | a task whose official subtitle was refused publishes machine text on its retry |
| `segmentation` | 7 rows of one token, blocks of 6 (audit 5) that share up to 2 rows, 2 confidences, 2 boundaries, 2 attempts | the passes merge into a segmentation the segmenter accepts, labels are of their segments, the table holds what was returned, an attempt ends |
| `verification` | 2 jobs (one without a claim), 2 workers under one id, one crash, one manual retry | one TaskRun holder, settled jobs stay settled but for late writes, every job answered unless one is poisoned |
| `verification_revoke` (violation) | 1 job, 1 worker | a manual retry clears a live lease |
| `source_heads` | 2 sources sharing 1 of 2 claims, 2 ingests and 2 workers at a time, one worker id, 4 snapshots, clock 0..2, lease 1 | heads never go back, a shown answer is never lost, each answer reaches the head it was taken for, every snapshot verifies for ever |
| `ledger` | one of two parts at a time. Histories: 2 claims, one shared by both sources, 2 ingests (one begins twice), a replay, a closing, a review. Intents: 1 intent, 2 dispatchers, 4 attempts, base 1, cap 3 | one history per claim, whole publications, no circular wait, refinement of `ClaimHistory`; receipts are backed by calls, only owners call and settle, every intent settles |
| `reads` | 2 sources sharing 1 of 4 claims (one of them unsupported, one contested), once in an occurrence under review, a replay, a refresh, 2 clients, 1 key, 4 requests (one of the other contract, one in the past of the snapshot), 3 calls | one answer per key, no unreachable bundle, only undisputed occurrences that stand in the snapshot asked for, and of the newest snapshot all of them; answers rewritten only by what was begun by then or by replays |
| `outbox` | 2 signals, 2 payloads, 2 publishers, 1 crash, schedule of 2 | delivery, one payload per id, settlement |
| `retention` | 2 artifacts of one file, 2 sweepers, 2 days, 2 downloads, one change of a hold, one failure or death | deletions on record took place, only due bytes go, what is due is deleted or held in the end |

**Bounds.** A second process is what every race here needs; a third appears in
`worker` because two share an id while a third has its own, which is the only
combination that distinguishes owner from token. Two claims of a row are one takeover, three a
takeover of a takeover. A lease of one or two ticks separates "in time",
"lapsed" and "judged by an older clock"; `MaxDelay` and `PassTicks` are at most
as long as needed to read the clock inside a lease and write after it. Retry
budgets of two let a row fail, be retried and fail for good; the projection's
budget of four lets its back-off pass the cap. Two jobs or signals make a batch
whose second element suffers from the first one's exception. `MaxToken`,
`AttemptBound`, `MaxCrashes`, `Mortal` and `Askable` cap what the code leaves
unbounded and are named in the guards they appear in; liveness properties say
"unless the bound is reached" where a cap could otherwise be the reason.
The four parts of `worker` share no state a property speaks of, so `MCContentWorker`
lets one move while the others rest, and a part that can move no more must have
settled. Three askers are a winner, a loser of the race and one who comes later;
three attempts two of one task and one whose source has the same bytes; the small
graphs contain every way in which three playlists can refer to each other, one
perhaps through a redirect.
In `pipeline` there are two kinds of worlds (`MCContentPipeline`): every outcome
of subtitles and speech with one plain claim and two deaths or failures, which
is a resume after a resume; and healthy sources with two claims, two spans,
theses, flawed drafts and every relation a cross-check can find, which need no
fault. In the worlds that are resumed the model's answers may differ in the span,
which the receipts tell apart, or in the attribution only, which they do not. Its histories end with the task, and those of `ledger` with the tries, so
deadlock is not checked there. In
`segmentation` seven rows are the fewest that make two blocks with two rows in
common, which can propose one boundary twice or disagree about a near one; two
boundaries (`MaxCuts`) are a split and a split of its part, with three the state
space grows eightfold and every property still holds (checked once); two attempts
(`MaxAttempts`) are one that leaves a row (`MaxLeft`) and one that meets it; and
attempts run out. In `reads` the clients are alike, which is symmetric; two of the three calls race
for the key and the third repeats, or asks under the key for something else. The
instants are those of the writers, 1 to 4: one request knows less than is
available, one has a business instant before the lifecycle of its snapshot (the
claim is then active by the other source's event), and two are of the end. The
calls run out, so deadlock is not checked. The two parts of `ledger` share no
state a property speaks of either: `MCClaimLedger` lets one move while the other rests, and
while the projection rests nothing of it is enabled, so that its fairness asks for
nothing. Two claims are what a circular wait
needs, and the shared one meets all five writers; where the first begins again, one of the
second, the closing and the review stays away (`OneStaysAway`), without which there are
six times as many states and every property still holds (checked once). In
`source_heads`, four snapshots are an ingest with both claims, one by a rival,
and two refreshes on top, in every order; `Room` lets nothing begin that has no
snapshot id left to end with, so the bound cuts no publication short. Its clock
and ids run out, which is why deadlock is not checked there. Its workers share
one id and its ingests differ in nothing, so both are symmetric, which is sound
for its invariants and action properties; elsewhere `WorkerOf` tells the
processes apart and symmetry is not used.

**Fairness.** Time passes (WF on `Tick`, except in `retention`, where an artifact
is either due or not); processes poll (the workers' `main`
loops sleep and call again, and swallow a failed pass or are restarted); a
repository call, provider call or post returns or raises (database and HTTP
timeouts). In the queue an attempt ends too (SF on beginning its last call: the
pipeline is a finite list of stages, whatever heartbeats come between), and a
model that is asked answers or raises. Nothing
is assumed to renew in time, stay alive, or succeed.

## Findings

Each has a run that ends in a counterexample.

* `verification_revoke`: a manual retry can revoke a live lease.
* `pipeline_swap`: an official subtitle that was refused is swapped for machine text.
  `application/transcript_selection_service.py:35` says "An invalid official
  candidate is an official-boundary failure. Do not silently swap it for machine
  output and create a false authority." In the trace the first attempt recognises the
  speech and its selection refuses the subtitle, which fails the attempt. The second
  restores the stages up to the speech recognition, and `_restored_asr_candidate`
  (`application/service.py:226`, called at 804) gives it the machine transcript for its
  only candidate: its selection has no official one to refuse, and takes it.
  `OfficialIsNotSwapped` states what the comment says; `ReadModelIsTheSnapshot` what does
  hold: the text shown is the snapshot's, passed the gate, and is what the selection makes
  of the subtitles, of subtitles and speech, or, in an attempt that resumes, of speech
  alone.

### Further disagreements met

Found while modelling; no run of their own.
* `adapters/postgres/repositories/semantic_segment_repository.py:47` commits
  segment by segment, before the stage's checkpoint, under ids made of the
  transcript and the segment's first and last row. When an attempt dies in
  between, or fails at a later segment, a later one whose answer agrees on such a
  segment but not on its label, order or confidence is refused ("already stores
  different payload"), and so is every retry until the model answers as it did
  before. `StoredAsReturned` says that nothing worse comes of it.
* A segment that is shown window by window takes a new label only from its first
  window. When that window's splits are all rejected and a later window's are not,
  the segment keeps the label of its first look, which may name what now is
  another chapter's; `LabelsSpeakOfTheirSegment` excepts such segments (`parted`).
* `application/stages.py:4885`: when `append_in_session` returns a stored event,
  the publishing loop takes it for the tail although it lies in the middle of the
  chain; the claim's next event is refused, so the second replay of a published
  snapshot fails every time. The comment at 4864 says "Re-projecting an unchanged
  lifecycle event is an idempotent no-op." With two replays of one ingest in
  `MCClaimLedger` the refusal is `Refuse` of the second.
* `application/stages.py:227`: the file of raw media bears only the hash of its
  bytes (`_persist_durable_file`), but an artifact's identity also covers its
  source reference and availability time. When the older of two artifacts with
  one file expires, the younger one, not due and perhaps under a legal hold, loses
  its bytes, as `MCRetention` reaches; `application/retention_service.py:51` says
  "Legal holds and non-expired data never touch the byte adapter."
* `application/knowledge_projection_dispatcher.py:94`: `_claim_due` selects
  intents by kind, state and time and never looks at the task, so an intent is
  delivered while its task is RUNNING and may yet fail. The module's docstring
  (lines 3-5) says it consumes intents "after that task has completed".
* `application/service.py:1369`: `formal_factor_signals` ("Read only
  snapshot-bound formal candidates") never compares the projection's snapshot
  with the one asked for, as `read_bundle_source` does. Once another ingest has
  recorded a claim, a signal for the first snapshot bears the occurrence of the
  second. It does not ask for an ACTIVE lifecycle either, so a claim that awaits
  a review has a signal.
* An ingest empties older bundles: as of any later instant the claim's last
  INITIAL names the new snapshot, and a request for the first snapshot finds no
  item. For the same reason the child snapshot of a refresh, which no INITIAL
  names, has an empty bundle, and the result of a refresh never shows as the
  verification status of an item, which is INITIAL's.
* `application/stages.py:2303` says "A frame may have one singleton relation per owned
  window", and `_admitted_scoped_visual_relation` admits such a frame; the replay's
  `_validate_admitted_visual_evidence_source` (`application/replay/integrity.py:957`)
  wants exactly one relation over all windows of the occurrence. Two accepted
  statements that cite the same span make two windows that both own, so a snapshot
  with a frame admitted there is published and can never be verified or replayed.
  `ReplayAccepts` excepts it; without the exception the `pipeline` run finds it.
* `check_current_verification_liveness` (`application/replay_service.py:99`) calls a
  pending claim of a current head whose job is done
  `DANGLING_CURRENT_VERIFICATION_PENDING`. The system gets there: the answer went to
  the snapshot of another source that shares the claim, or it came when the head
  lacked the claim, after an ingest with it had fixed its time and before that
  published. A refresh of a sibling claim then moves such a head's own instant
  past the answer it does not show. `AuditsForEver` says that these are the only
  ways: with no other source in play, a head's pending claim had no answer when
  the ingest behind the head (`planned`) fixed its time.
* Replays rewrite answers as of instants before them, by a lifecycle event at the
  transcript's boundary; `tests/test_p0_formal_contract_and_history.py:156` says
  "An appended current lifecycle state cannot rewrite an old as-of view".
  `OnlyWhatWasKnownRewrites` excepts them, and events committed after the instant
  they bear.
* A v2 request is refused as a whole when an earlier occurrence of a claim awaits
  a review and the last does not. A v1 bundle shows an occurrence under review
  whenever the last lifecycle visible to it is another source's ACTIVE; v2 looks
  at the occurrence. An occurrence recorded again keeps the first row's review.

* `application/service.py:573`: the TaskRun transition after `commit_effect` sits
  in the same `try` as the stages. Its lease is never renewed, so after a long
  pipeline it raises and `tasks.fail` is called for a task that has SUCCEEDED;
  the fence refuses that, the result is reported as LEASE_LOST and the TaskRun
  stays RUNNING.
* `application/verification_worker.py:55`: a job reopened after a success is
  never verified again, and ends the pass that claims it, because its TaskRun is
  terminal.
* `application/verification/transaction.py:66`: the re-read after the advisory
  lock returns the row as read before it, so an expired worker can record a
  second, different answer.
* `application/stages.py:4786`: the publication keeps the last occurrence of each
  claim for its INITIAL event, while the support it states is that of the claim;
  the comment at `_claim_state_payload` asks them to agree.
* `application/forecast_outcome_review.py`: the lifecycle event is committed
  before its mirror. A crash or a refused append in between is never repaired: the
  retry finds the claim no longer ACTIVE, although the docstring promises to
  "mirror lifecycle mutations into the append-only formal state stream". Nothing
  but tests calls it. Its event is effective from the end of the forecast's
  target, which may precede the ACTIVE event's: `select_as_of` then still answers
  ACTIVE where the projector, which takes the last event of the chain, does not.
* `application/service.py` (`_checkpoint_identity`, resume): a resume past OCR
  gives later stages an identity their first receipt did not have, and a live OCR
  checkpoint without frames has none, so such a task can never be resumed. An
  official subtitle that passes the gate and a death before the selection's
  checkpoint leave a resume with no candidates. A resume past the segmentation
  restores chapters of fixed length (`service.py:814`). A resume from `resolve`
  alone loses the source's metadata (`service.py:609`). The lifecycle artifact
  carries the wall clock, so running that stage again after its receipt is an
  integrity error.
* `part` of a request is nowhere but in its hash. `enqueue_ingestion` stores no
  part, and `_resolve_materialization` (`application/stages.py:184`, `345`) reads
  an option nobody sets, so a `BV` identity posted with part 2 downloads the
  default part. The comment at `application/source_resolution_service.py:126` says
  "The lower resolver validates its cardinality/range and binds it to the queued
  command's part."
* The canonical route refuses every https playlist of type xiaoe: line 216 of
  `source_resolution_service.py` sends it to the page's canonical form first, so
  that `is_direct_hls` (218, 227) is dead, although the message in between says
  "or public HLS URL". The legacy route's "signed Xiaoe HLS requires an allowlisted
  credential_ref" (`api/ingestions.py:162`) demands a reference and holds it
  against no allowlist.
* `adapters/sources/dash_materializer.py:262` takes inherited templates out of the
  document at the first representation, so a second one that inherits is refused
  as unsupported, although the class says "Download a finite clear static MPD
  graph". `GraphIsClosed` excepts it (`Missing`).
* `_persist_durable_file` names its temporary file for the task: two attempts may
  leave a torn file under a hash's name, which every later attempt then refuses
  (`ARTIFACT_INTEGRITY_ERROR`). `KeptIsWhole` says that this is the only way: a file
  under a hash's name that lacks bytes was truncated by another attempt with the same
  bytes, which has yet to write them again or died before it did. Media that were cut
  in every stream are kept only where nothing could tell: the source gave no duration,
  and each cue of its subtitle, if it gave one, ends before the cut.
* A migration whose process dies leaves its row RUNNING; every later demand of the
  same migration is answered RUNNING, and one that failed is never run again.
* `application/retention_scheduler.py:1` calls the sweep "leased"; there is no
  lease, and every worker process sweeps at its own pace. That is harmless for the
  properties above, but a failure can be recorded over a rival's success, after
  which the file is "deleted" once more. Bytes fetched again for an artifact that
  is recorded as DELETED are never deleted again.
* A closing locks ledger rows and then the head row, an ingest the other way
  round; with two providers for a claim they can deadlock, and PostgreSQL aborts
  one. `ClaimLedger` has one provider.

Two consequences of `SourceHeads` are no findings, because no document speaks of
them, but a maintainer should know them. An ingest whose snapshot time is
earlier than the creation of its claim's job is refused for good
(`PublishRefused`): that happens when another ingest of the claim, begun later,
is published first. And an answer reaches the head of one source only, that of
the newest snapshot with the claim: another source that shares the claim shows
it as pending until it is ingested again.

What `UndoneOnlyByALateWrite` and `UndoneOnlyByALateMark` bound is related: the
only way a settled job or signal is undone is a write whose read came first. No
document promises more.

## Proofs

`ContentTaskQueueProofs` proves, for every set of tasks and processes, every
assignment of worker ids (shared or not), retry budget, lease and delay, under
the named assumptions of `ContentTaskRow`, `ContentTaskTable` and `ContentTaskQueue`
(`NoWorkerAssumption`, `RetriesAssumption`, `TimeAssumption`,
`TasksAssumption`, `ProcsAssumption`, `KindsAssumption`):

* `TypeCorrect`, `ExclusiveFence`, `BudgetNeverStrands`: `[]TypeOK` (which no run
  repeats), `[]OneFencedProcess`, `[]RetryBudget`;
* `TerminalNeverChanges`, `NoCheckpointLost`: that a terminal row and a recorded
  stage stay, together `RecordsOutlast`, `RecordsStay`;
* `Refinement`: `Spec => JQ!Spec`.

The argument. `OneFencedProcess` is not inductive: it says that two processes
with the same worker id do not both pass the fence, and the fence compares the
token a process carries with the row's. `QueueInv` adds what the code relies
on: a process carries no token above its row's (`TokenBound`) and no two carry
the same generation of the same row (`DistinctClaims`). A claim writes
`token + 1`, above all that are carried, so it creates a new generation, and no
other step raises a token. The exclusive fence then follows at once, because
passing it means carrying the row's own token. The refinement uses the same
two facts: the grantee of a row, the carrier of its latest token, is at most one
process; a claim is a `Grant` to it, losing it by a crash or a refusal a
`Withdraw`, and a write through the fence must come from the grantee.
`QueueInvariant` states the invariant; each lemma about a row operator says
which fields it leaves alone, so that a step of the proof looks at one action.

The second part of the module proves about `ContentWorker`, for the same
tasks, processes and worker ids, `OutcomesHaveReceipts`
(`[]OutcomesAreBacked`) and `RecordsAreOfTheClaim` (`OnlyCurrentClaimRecords`),
for any tasks, processes, worker ids, pipeline, restorable and drifting stages, lease
and budget, from `StagesAssumption` and `InterventionsAssumption`. `WorkerInv` says
what backs an attempt wherever it stands (`Backed`): before and in a stage it has in
hand what the receipts of all earlier stages pin, at the end those of all stages, and
before it closes its TaskRun the task is acknowledged. Since neither a receipt nor an
acknowledgement is ever taken back (`NothingTakenBack`), what others do between its
calls, or a takeover, does not touch this. A stage that fails keeps its receipt and a stage that
succeeded has one (`TablesHold`), so the prefix a resume finds by its checkpoints
(`DurableIs`) is backed by receipts.

`OnlyCurrentClaimRecords` says nothing of the fence: whoever changes a checkpoint or a
receipt, or ends the claim of a row, is ahead of everybody else who is at work on the task,
even one with the same worker id who was about to write when the row was taken over. The
fence compares a token with the row's only; that tokens order the attempts is what has to
be shown (`ClaimsHold`): no attempt carries a token beyond its row's and no two attempts
at a task carry the same. A claim advances the row's token beyond all that are carried, and
nothing else moves it (`RowTokens`), operators included; an attempt keeps the token it
claimed with until it drops the task (`AttemptTokens`, `ClaimsStayApart`).

The third part proves about `TaskRequests`, for every set of askers, posts and
demands, `RowsAreTrue` (`[]RowsTellTheTruth`) and `RequestTypeCorrect`
(`[]RequestTypeOK`), from `NoneAssumption` and `RequestsAssumption`: NULL is no asker,
no row and no identity of a migration, and what is posted is told apart from what is
demanded. `RequestInv` says what asker, row and published snapshot are wherever the
asker stands (`AskerStands`): no row before the insert, at the replay a RUNNING one
with no result, and after a lost write either that row still or one that succeeded
with the snapshot the replay made (`RowStands`); the rows of a key are one
(`KeysAreUnique`), and what an asker was told of another's row still holds
(`ToldTruth`). `RowsTellTheTruth` alone is not inductive: it does not say that a
replay about to close its row is the one that made it. Any step of one asker keeps the
invariant if it leaves the others alone, keeps a row's key and a success, and makes
no row under a key that is there (`AskerMoves`); each action is then one use of that
lemma. That the loser of a race is refused just when the winner asked for something
else rests on `HashTells`: two rows with one key are both posts or both migrations,
and have one hash just when their askers want one thing.

`ClaimLedgerProofs` proves `ClaimsHaveOneHistory` (`[]OneHistory`),
`PublicationsAreUnits` (`[]PublishedAsOneUnit`), `NobodyWaitsInACircle`
(`[]NoCircularWait`) and `HistoriesOnlyGrow` (`ImplementsClaimHistory`, the
refinement of `ClaimHistory`), for every finite set of claims (numbers,
`ClaimsAssumption`), writers of distinct kinds (`KindsAssumption`), claims of each
(`ClaimsOfAssumption`) and tries, with their locks, crashes and repeats.

* `OneHistory` speaks of committed rows and is not inductive: a commit adds rows
  that were checked against the chain of an earlier moment. The invariant `IInv`
  says what the row locks give: a transaction's own rows lie on claims it has
  locked (`OwnRowsLocked`), no claim is locked by two (`OneAppenderPerClaim`), a
  transaction that is not appending has nothing (`NotYetAppending`), and the chain
  each transaction sees, committed rows and its own, is the links of one list
  (`ChainsWhole`, `RowsWhole`). `LinkAtTail` is the fact about chains: an event
  that is not in a whole chain, linked at its tail, leaves it whole. The
  coordination locks and the order of events play no part in it.
* `PublishedAsOneUnit` needs `UnitInv`: what a transaction has in hand are events
  of its own pass (`OnlyOwnEvents`), none of them is lost between the read and the
  commit (`AllAccounted`), and an ingest's time, once given, stays (`Stamped`), so
  that a later pass makes the events of the first.
* `NoCircularWait` needs `LockInv`: the locks a transaction holds are its own, the
  least of them first (`HeldOfOwn`, `HeldInOrder`), each held by one
  (`OneHolderPerClaim`), and a review, which takes none, has one event and waits
  for nothing once its row is locked (`OneEventOfAReview`). A circle would have a
  writer that waits for its greatest claim; that its events are appended claim by
  claim is not needed.
* The refinement maps a chain to the sequence `HistoryOf` walks from its root. That
  a whole chain's walk is the list it is made of (and that a longer list's walk
  extends a shorter one's) is an induction over the list, done by the least place
  where the two would differ (`LeastOfNaturals`, from the well-foundedness of the
  naturals).

`MediaProofs` proves `DeletionsTookPlace`, `[]DeletedMeansGone`, and
`DeletionsWereDue`, `OnlyDueBytesGo`, for any artifacts, files, sharing, sweepers
and bounds, from `FilesAssumption` and `DaysAssumption`. Intents are written by
every sweep without a lock, so neither follows from the row alone: the invariant
says what each sweep has established where it stands. From `Plan` on its candidate
is due and was not held when listed (`Justified`, stable because time and
registration only move one way), an intent that is there stays there
(`IntentFirst`), and a sweep that comes to mark a deletion has seen the file off
since (`GoneBeforeMark`).

The second part of the module proves about `SourceMedia`, for any attempts, tasks,
sources and faults, `KeptMediaAreWhole` (`[]KeptIsWhole`), from `SourcesAssumption`. Two attempts at one task may open, truncate, write and rename
one temporary file, so `MediaInv` follows inodes rather than names. In an inode is
all that one of its writers has written since it opened it, the last to truncate it
(`InodesStand`): who is torn by a rival is whole again as soon as the rival has written
everything, since both write the same bytes. A name, temporary or durable, is of an inode
all of whose writers fetched those bytes (`NamesStand`), which the path alone, a hash and a
task, ensures. A rename moves whatever the name means by then, its own file or a rival's
that is not written yet; so what is proved of a durable file is what holds of the inode.
And whoever is past the probe passed it with what it still has (`ProbedStand`).

The third part proves about `MediaGraphs`, for any graphs, manifests and limits,
`GraphsAreClosed` (`[]GraphIsClosed`), from `LimitsAssumption` (limits that
`download_hls_playlist` accepts) and `GraphsAssumption` (what is followed can be asked
for). `GraphInv` says how the recursion, the dict and the files fit: the URLs open are
distinct and known, but for one that is about to be asked for
(`StackStands`); a name that is known is known by itself, and there is room for one more
when a playlist is asked for (`DictStands`); every known name is written or its playlist
is open (`FilesStand`), so that when the last is closed all are written; and what the
lines done with refer to is there, or is the playlist on top that is yet unread
(`LinesStand`). A playlist found elsewhere than where it was asked for is known by
both URLs before its lines are followed; known by the first alone, the file about to be
written is no known name, and `FilesStand` fails. `MediaSpec` and `GraphSpec` are the
parts that `worker` runs beside each other.

`FormalReadsProofs` proves `KeysAndBundles`, `[]EachKeyItsBundle`, for any
clients, keys and requests and whatever the writers do. A client looks its key up
long before it takes the lock; what the invariant adds is that under the lock a
key about to be bound is unbound (`InsertsFirst`) and nobody else's
(`OneInserterPerKey`), and that answers and bindings agree (`GivenIsBound`,
`AnswerIsBound`, `BindingsHold`).

Its second theorem, `AnswersAreSettled`, is the action property
`OnlyWhatWasKnownRewrites`, for any requests, drafts, refreshes and interleaving, from
`InstantsAssumption` (instants are numbers) and `WritersAssumption` (a replay is of an
ingest, a refresh of a claim). Rows and events are only added, and those of an ingest or
a refresh bear the time it began with (`Adds`): where that lies after the instant known
or the instant available, the bundle does not read the row and the projection does not
see the event. That unseen events change no projection (`UnseenIsUntold`) rests on the
fold being what the last visible event says; that there is a last one, in a chain of any
length, is the well-foundedness of the numbers (`LatestIs`).

The third, `AnswersAreTheirSnapshots`, is `[]AnswersShowTheirSnapshot`, from these and
`DraftsAssumption` (an occurrence's id names its claim, as `occurrence_id_of` hashes it),
for any evidence and any contradiction groups. Its lower bound has a condition
(`HeldBackByRow`): the row of an occurrence keeps the review of its first draft, and where
a later ingest holds the claim back though the row awaits none, a v2 request is refused as
a whole (see the disagreements above). `BundlesAreOfTheirSnapshot` is the upper bound alone.
`StandInv` is about what is shown too much: an event that names a
snapshot names the occurrence that stands in it (`EventsStand`), so an item taken from a
history that has grown since its row was read is of the snapshot asked for or is no item
(`ItemsStand`); what clients have read, built and stored stays true while the tables grow
(`ShownStays`). `NewestInv` is about what is shown too little: nothing bears a time to
come (`Times`), histories are made of an ingest's pairs of events and of refreshes
(`Histories`), a published ingest has its events and rows (`Recorders`), and a row has the
claim of a draft (`RowsAreDrafted`). Then a
reader of now sees what the last pair says (`ProjectionIsNewest`), each claim with PRIMARY
evidence has one item (`ItemsOfNewest`), none is unfit, and as many as there are occurrences cut none off
(`NoneIsCutOff`).

`SourceHeadsProofs` proves `AuditedForEver` (`[]AuditsForEver`), `NoHeadGoesBack`
(`HeadsNeverGoBack`), `AnswersReachTheirHead` (`AnswersReachAndStay`) and
`TypeCorrect`, for any sources, contents, ingests, passes, worker ids, lease and
number of snapshots, from `SnapshotIdsAssumption`, `ContentsAssumption`,
`TimeAssumption`, `WorkersAssumption` and `PendingAssumption`. `HeadsInv` adds to
`AuditsForEver` that a head is a snapshot of its source (`HeadsOfTheirSource`) and
not before the verified head (`VerifiedBehindHead`), and that a pass that has a
parent has one with its claim (`PassesHaveParents`). Snapshots are immutable, answers
are never withdrawn and a job keeps its creation, so what was closed stays closed
(`StaysClosed`). The excuse of a pending entry is the hard part: an answer that comes
in takes the excuse "none was available" from every head that shows the claim
pending. The head of the pass's own source has the claim replaced, because
`complete` takes the locked head for its parent when that has the claim; for every
other source the new snapshot is the excuse (`ExcusedAfterComplete`). That the planner
finds an answer whenever one is available needs a latest one to exist
(`LatestExists`). The excuse speaks of the instant of the ingest behind the head, not
of the head's own: with the latter the formula is not inductive, and false with five
snapshots, where the run has four.

The second part of the module proves about `VerificationJobs`, for the same
workers, `OneRunHolderHolds` (`[]OneRunHolder`) and `SettledIsUndoneByALateWrite`
(`UndoneOnlyByALateWrite`), for any jobs, workers, worker ids, answers, orphans, lease
and schedule, from `JobsAssumption`. `OneRunHolder` needs that the passes at one job
have leased its TaskRun under different tokens, none above the run's (`RunsAreCounted`);
owner and expiry play no part in it. That a settled job is undone only by a retry
request, by an answer on record or by a pass that read it as its own needs that a pass
about to mark a job had read it so (`ReadAsOwn`), and that a request is not granted
twice (`AskedOnce`).

`SignalOutboxProofs` proves `DeliveredIsRecorded` (`[]DeliveredAsRecorded`),
`OnlyLateMarksUndo` (`UndoneOnlyByALateMark`) and `TypeCorrect`, for any signals,
payloads, publishers, lease and schedule of retries, from `SignalsAssumption`,
`PayloadsAssumption`, `TicksAssumption` and `DelaysAssumption`. A claim has no
token, so nothing keeps two passes off one row, and the argument does not use any
ownership: `PassIsTrue` says that a pass which is about to mark a row published has
itself delivered it, and `RowIsTrue` that nothing is delivered before it is enqueued
and that a settled row has no clock running, so that time and claims leave it alone.

The second part of `ClaimLedgerProofs` proves about `KnowledgeProjection`
`ReceiptsAreBacked` (`[]CompletedMeansIndexed`),
`OwnersAct` (`OnlyOwnerActs`) and `TypeCorrect`, for any tasks, dispatchers, worker
ids (shared or not), lease, budget and back-off, from `ProjectionAssumption`. Here the
row lock carries the argument: one dispatcher at a time is in delivery of an intent
(`OneLocker`), and as claims, retries and new intents wait for the lock, the claim
whose token was checked when the lock was taken is still the row's when the call is
made and the receipt is committed (`LockersOwn`, `RowUnderLock`), whatever the call took.

`SegmentationProofs` proves `ReturnedIsStored` (`[]StoredAsReturned`),
`PassesNeverRefuse` (`[]NeverRefusesItself`) and `LabelsAreTrue`
(`[]LabelsSpeakOfTheirSegment`), for every transcript, cost, budget, overlap and
bound, from `RowsAssumption`, `OverlapAssumption` and `BudgetAssumption`.

* `StoredAsReturned` speaks of the stage's return only; `Progress` adds that while
  the rows are written those of the segments in `saved` are in the table as they
  should be (`Stored`), which the next transaction extends and, since rows are never
  changed, none undoes, and that the return comes after the last.
* `PassInv` carries the other two. What a pass has brought is inside segments, one
  boundary at a coordinate, and none of it in a segment that is still to be shown
  (`Bringing`), so that what the next segment brings cannot meet it; what the windows
  under way have brought lies in their segment (`UnderWay`), because windows begin
  behind their predecessors and end in the segment (`WindowEndIs`, for every budget),
  and the reconciliation leaves one boundary at a coordinate (`SettledIs`). Then the
  list the pass ends with is valid (`InnerIsValid`), and segments made of valid
  boundaries leave no gap (`SpansCover`).
* Labels: a topic ends before the next boundary its answer proposed
  (`TopicEndIs`), hence before the next that is accepted (`Successive`); a label that
  is given looks no further than the boundaries the pass has brought, and a segment
  whose label is left alone has been split by none (`Fitting`). `MergedIsHonest` then
  says that labels are still true when the boundaries join. A segment shown window by
  window is where this fails, and the property excepts it.

`ContentPipelineProofs` proves `ConflictsStayUnpublished` (`[]ConflictIsNeverPublished`),
`SnapshotsCanBeReplayed` (`[]ReplayAccepts`), `OneSnapshotIsShown`
(`[]ReadModelIsTheSnapshot`) and `PipelineTypes` (`[]TypeOK`), for any worlds (what media
hold, what models see and answer, how many deaths and failures), timelines, claims,
spans and retry budget, from `PipelineAssumption`: a world is of the shape the stages
expect, and the budget a natural number. None of the three says what an attempt in the
middle of the graph relies on; `PipelineInv` does, stage by stage:

* `RegistryInv`: the stages passed have receipts, and the active slots are what these
  say (`SlotsAfter`), first attempt or resumed; the transcript is excepted before the
  selection, where the candidate of an earlier attempt may stand in it. `RowsInv`: a
  checkpoint that succeeded says what the receipt of its stage says, which is why a
  resume that finds its slots in the checkpoints finds what was recorded.
* `SourceInv` and `ChainInv`: what the memory holds of source and transcript, and how
  drafts, windows, frames, checks, anchors and evidence hang together from the stage on
  that makes them. Everything of the claims is made behind the last stage a resume
  can skip (`semantic_context` is not restorable), by the attempt that publishes it.
* `OccurrenceInv`: what is sealed in occurrences, units and lifecycles. A contradiction
  the cross-check found makes a review of the occurrence (`WellSealed`) and a packet for a
  human; a review of one occurrence keeps its claim extracted (`ProjectedBy`). That the
  n-th claim of a name gets the n-th occurrence of that name (`NthIsThere`,
  `UnitsAre`) is what lets a unit speak of its own occurrence.
* `SnapshotInv`, `ReadInv` and `IndexInv`: what is published agrees with the receipts of
  the stages before it (`SealedPackets`, `SealedLife`), not with the memory of the
  attempt that publishes. Receipts are written once and stop an attempt that would say
  something else (`Advanced`), so two attempts that both reach the publication agree in
  what receipts tell apart: the snapshot is one, and the second attempt finds it there.

Parts that name the stage take memory and slots as parameters, so that one lemma says
what a stage that leaves them alone passes on (`PartsKept`, `ResultsKept`) and each of
the 38 stages shows only what it adds. The proof corrected one property: that the read
model shows the snapshot's occurrences *as records* is false. Where the
fixture's clock makes ids the same in each attempt, a second attempt whose answer differs
only in its attribution passes every receipt; the rows of an occurrence keep what the
first attempt wrote (`_occurrence_identity` compares identity, not metadata) and the read
model shows the last. `ReadModelIsTheSnapshot` therefore compares packets, and what a
reader sees of a unit (`Shown`); the run has a world with such an answer.

Only model-checked:

* all liveness (`AbandonedIsReclaimed`, `EveryIntentSettles`, `EveryJobIsAnswered`,
  `EverySignalSettles`, `Settles`, `DueIsDeleted`, `AttemptEnds`), which the prover
  cannot do.

Every invariant and every action property of the passing runs is stated by a theorem,
under the assumptions on the constants and no other hypothesis.

The `TypeOK` of `ContentWorker` and `VerificationJobs` documents the shape of their
states and is in no run; that of `ContentPipeline` is in none either, and proved.

## Plan

1. The policy and identity of signals.
2. The pure algorithms with a stated reference: temporal normalisation,
   cross-video comparison of claims.

## Not modelled

What models, OCR and recognition compute, artifact hashing and lineage beyond
"same payload or not", progress and audit columns, batch limits, network, browser,
media and model adapters, HTTP wiring, CLI, readiness and migrations. The parts of the plan above are listed in
`PROJECT.json` as not modelled yet. `TaskRun.renew`, `save_checkpoint` and
`release` exist in the service and no worker calls them.
