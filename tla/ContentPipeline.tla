--------------------------- MODULE ContentPipeline ---------------------------
(***************************************************************************)
(* One content task through the stage graph of api/dependencies.py: the    *)
(* stages of application/stages.py run by StageRunner and ContentPipeline, *)
(* with the checkpoint and the receipt each stage leaves, attempts that    *)
(* die or fail at any stage, and the resume that restores the durable      *)
(* prefix and loses the rest of the worker's memory.                       *)
(*                                                                         *)
(* The leases and fences under which an attempt writes are ContentWorker's *)
(* subject; here attempts do not overlap.  What a source or a model        *)
(* answers is fixed in world, except the claims a language model extracts, *)
(* which each attempt draws anew.                                          *)
(***************************************************************************)
EXTENDS ReplayRules, TranscriptRules

CONSTANTS
    Worlds,          \* the sources a behaviour may be about
    MaxRetries       \* the task's retry budget

\* A source: what its media holds, what the models see and answer, and how
\* often an attempt may die or be failed from outside.
World == [ fixture : BOOLEAN, tracks : SUBSET Candidate, asr : Candidate,
           sees : [Frame -> Relations], legible : SUBSET Frame,
           theses : SUBSET Seq(Draft), answers : SUBSET Seq(Draft), faults : Nat ]

ASSUME PipelineAssumption == Worlds \subseteq World /\ MaxRetries \in Nat

VARIABLES
    world,           \* what the source holds and what the models see in it
    task,            \* the queue's row: state, failed attempts so far
    pos,             \* index of the stage the attempt is at; 0 without one
    mem,             \* the attempt's PipelineContext
    ckpt,            \* the checkpoint row of each stage
    receipts,        \* the effect row (payload) of each stage
    store,           \* what the task has published
    faults           \* process deaths and outside failures still to come

vars == <<world, task, pos, mem, ckpt, receipts, store, faults>>

-----------------------------------------------------------------------------
\* The stage graph, in order (semantic segmentation enabled, no legacy path).
Stages == << "resolve", "download", "transcript_candidate", "audio", "asr",
    "transcript_selection", "transcript_quality", "diarization",
    "transcript_postprocess", "transcript", "chapter", "semantic_segmentation",
    "semantic_context", "chapter_thesis_identification",
    "atomic_claim_extraction", "atomic_claim_validation", "knowledge_frame",
    "frame_fixture", "ocr", "vision", "transcript_visual_crosscheck",
    "security_entity_alignment", "claim_visual_binding", "multimodal_context",
    "temporal_window", "evidence_grounding", "temporal_normalization",
    "claim_canonicalization", "claim_occurrence_persistence", "knowledge",
    "verification", "financial_enrichment", "lifecycle_projection", "summary",
    "claim_persistence", "content_snapshot", "persist", "index" >>

StageNames == {Stages[i] : i \in DOMAIN Stages}
Position(s) == CHOOSE i \in DOMAIN Stages : Stages[i] = s

\* The stages a resume may skip; the first other one ends the prefix.
Restorable == { "resolve", "download", "audio", "asr", "transcript_candidate",
    "transcript_selection", "transcript_quality", "diarization",
    "transcript_postprocess", "transcript", "chapter", "semantic_segmentation",
    "knowledge_frame", "ocr", "vision", "transcript_visual_crosscheck",
    "security_entity_alignment" }

\* Stages whose checkpoint must carry the OCR worker's observed identity.
OcrBound == { "ocr", "vision", "transcript_visual_crosscheck",
    "security_entity_alignment", "claim_visual_binding", "multimodal_context",
    "temporal_window" }

None == "none"
NoOutput == << >>                           \* the empty set of artifact slots
NoCheckpoint == [status |-> "NONE", out |-> NoOutput, ident |-> "plain"]
NoReceipt == [ins |-> NoOutput, out |-> NoOutput, ident |-> None]

\* Before its publication a task has nothing in any table.
NothingPublished ==
    [ claims |-> {}, snapshots |-> {}, ledger |-> NoOutput, index |-> {},
      read |-> [units |-> << >>, text |-> NoTranscript, gate |-> None,
                chapters |-> None, meta |-> None] ]

\* A new PipelineContext: the request and nothing else.
FreshContext ==
    [ reg |-> NoOutput,          \* active artifact slots
      meta |-> None,             \* where state.metadata comes from
      tracks |-> {},             \* runtime.subtitle_tracks, parsed
      mode |-> FALSE,            \* options._transcript_candidate_mode
      speech |-> FALSE,          \* options._asr_required
      cands |-> {},              \* state.transcript_candidates
      report |-> None,           \* state.transcript_quality_report
      ocr |-> FALSE,             \* options.ocr_runtime_identity is set
      chapters |-> None,         \* which segmenter drew state.chapters
      video |-> None,            \* the metadata state.video was built from
      claims |-> NoClaims ]      \* the claim chain's part of the state

Live == ~ world.fixture

-----------------------------------------------------------------------------
\* StageRunner: what a checkpoint's model identity holds.  The semantic
\* context made before any frame leaves the visual models out.
Ident(s, m) ==
    IF m.ocr /\ ~ (s = "semantic_context"
                     /\ DOMAIN m.reg \cap {"frames", "ocr", "vision"} = {})
    THEN "observed" ELSE "plain"

\* Faulty variant: the budget is overdrawn by one before the task is failed.
EndAttemptOneMore ==
    /\ task' = [task EXCEPT !.retries = @ + 1,
                            !.state = IF task.retries + 1 > MaxRetries THEN "FAILED" ELSE @]
    /\ pos' = 0
    /\ mem' = FreshContext

\* SqlContentTaskRepository.fail: back to the queue until the budget is spent.
EndAttempt ==
    /\ task' = [task EXCEPT !.retries = @ + 1,
                            !.state = IF task.retries + 1 >= MaxRetries THEN "FAILED" ELSE @]
    /\ pos' = 0
    /\ mem' = FreshContext

At(s) == pos \in DOMAIN Stages /\ Stages[pos] = s

\* The stage raised: a FAILED checkpoint takes the place of whatever the
\* stage's row said, and the attempt ends.
Raise(s) ==
    /\ ckpt' = [ckpt EXCEPT ![s] =
                  [status |-> "FAILED", out |-> NoOutput, ident |-> Ident(s, mem)]]
    /\ EndAttempt
    /\ UNCHANGED <<world, receipts, store, faults>>

\* The stage returned context m and produced the artifacts out: its receipt
\* is written once and its checkpoint with it; the same receipt again changes
\* nothing; another one is an integrity error, which ends the attempt.
Commit(s, m, out) ==
    LET receipt == [ins |-> mem.reg, out |-> out, ident |-> Ident(s, m)] IN
    \/ /\ receipts[s] = NoReceipt
       /\ receipts' = [receipts EXCEPT ![s] = receipt]
       /\ ckpt' = [ckpt EXCEPT ![s] =
                     [status |-> "SUCCEEDED", out |-> out, ident |-> Ident(s, m)]]
       /\ mem' = m
       /\ pos' = pos + 1
       /\ UNCHANGED <<world, task, store, faults>>
    \/ /\ receipts[s] = receipt
       /\ mem' = m
       /\ pos' = pos + 1
       /\ UNCHANGED <<world, task, ckpt, receipts, store, faults>>
    \/ /\ receipts[s] \notin {NoReceipt, receipt}
       /\ EndAttempt
       /\ UNCHANGED <<world, ckpt, receipts, store, faults>>

\* The rows of a table, with those of the same key replaced.
Extended(table, rows) ==
    [k \in DOMAIN table \cup DOMAIN rows |->
        IF k \in DOMAIN rows THEN rows[k] ELSE table[k]]

\* The stage puts its outputs in the active slots as well.
CommitActive(s, m, out) == Commit(s, [m EXCEPT !.reg = Extended(@, out)], out)

-----------------------------------------------------------------------------
\* Claiming the task: a first attempt starts clean; a later one restores.
Records == {s \in StageNames : ckpt[s].status # "NONE"}

\* The contiguous prefix of successful, restorable checkpoints is skipped.
Skippable(i) == ckpt[Stages[i]].status = "SUCCEEDED" /\ Stages[i] \in Restorable

FirstToRun ==
    CHOOSE i \in DOMAIN Stages : ~ Skippable(i) /\ \A j \in 1..(i - 1) : Skippable(j)

OcrObserved == Live /\ ckpt["ocr"].status = "SUCCEEDED"

\* A checkpoint at or after OCR that does not carry the identity the probe
\* now observes refuses the whole resume.
IdentityAccepted ==
    Live => \A s \in OcrBound :
        ckpt[s].status = "SUCCEEDED" => ckpt[s].ident = "observed" /\ OcrObserved

\* The active slots after the first n stages, from the rows of a stage table:
\* each holds what the last stage that filled it put there.
Fillers(rows, n, slot) == {i \in 1..n : slot \in DOMAIN rows[Stages[i]].out}
LastFiller(rows, n, slot) ==
    CHOOSE i \in Fillers(rows, n, slot) : \A j \in Fillers(rows, n, slot) : j <= i

SlotsAfter(rows, n) ==
    [slot \in UNION {DOMAIN rows[Stages[i]].out : i \in 1..n} |->
        rows[Stages[LastFiller(rows, n, slot)]].out[slot]]

RestoredSlots == SlotsAfter(ckpt, FirstToRun - 1)

\* _restore_resume_context and _restore_typed_prefix: state.metadata comes
\* from the source artifact only; of the transcript candidates only the one
\* speech recognition wrote comes back; subtitle tracks and options do not.
RestoredContext ==
    LET reg == RestoredSlots
        has(slot) == slot \in DOMAIN reg
        meta == IF has("source") THEN reg["source"] ELSE None
    IN  [FreshContext EXCEPT
           !.reg = reg,
           !.meta = meta,
           !.ocr = OcrObserved,
           !.cands = IF has("transcript") /\ reg["transcript"].by = "asr"
                       THEN {world.asr} ELSE {},
           !.report = IF has("transcript") THEN reg["transcript"].gate ELSE None,
           !.video = IF has("transcript") THEN meta ELSE None,
           !.chapters = IF has("transcript") THEN "fixed" ELSE None]

\* (An attempt that claims a fresh task and one that resumes differ only in
\* that; the attempt's number stands for its wall clock.)
Claim ==
    /\ task.state = "PENDING" /\ task.retries < MaxRetries /\ pos = 0
    /\ \/ /\ Records = {}
          /\ pos' = 1 /\ mem' = FreshContext
          /\ task' = [task EXCEPT !.attempt = @ + 1]
       \/ /\ Records # {} /\ IdentityAccepted
          /\ pos' = FirstToRun /\ mem' = RestoredContext
          /\ task' = [task EXCEPT !.attempt = @ + 1]
       \/ /\ Records # {} /\ ~ IdentityAccepted
          /\ EndAttempt
    /\ UNCHANGED <<world, ckpt, receipts, store, faults>>

\* The process dies (it may at any time): nothing is recorded, and another worker
\* takes over.
Die ==
    /\ pos # 0 /\ faults > 0
    /\ faults' = faults - 1
    /\ pos' = 0 /\ mem' = FreshContext
    /\ UNCHANGED <<world, task, ckpt, receipts, store>>

\* A source, a model or the database fails the stage the attempt is at.
OutsideFailure ==
    /\ pos \in DOMAIN Stages /\ faults > 0
    /\ faults' = faults - 1
    /\ ckpt' = [ckpt EXCEPT ![Stages[pos]] =
                  [status |-> "FAILED", out |-> NoOutput, ident |-> Ident(Stages[pos], mem)]]
    /\ EndAttempt
    /\ UNCHANGED <<world, receipts, store>>

-----------------------------------------------------------------------------
\* The source: resolve yields metadata only, download the source and media
\* artifacts (with the metadata the attempt has) and the subtitle tracks.
Resolve ==
    /\ At("resolve")
    /\ Commit("resolve", [mem EXCEPT !.meta = "resolved"], NoOutput)

Download ==
    /\ At("download")
    /\ CommitActive("download", [mem EXCEPT !.tracks = world.tracks],
                    [source |-> mem.meta, media |-> "media"])

-----------------------------------------------------------------------------
\* The transcript.
\* A transcript artifact: who registered it, its text, and what the gate says.
TextOf(t, by, gate) == [by |-> by, text |-> t, gate |-> gate]
Whole(c) == [src |-> c.src, filled |-> FALSE]
Gate(c) == IF Passes(c) THEN "PASS" ELSE "FAIL"
Put(slot, value) == [s \in {slot} |-> value]

\* Candidates are artifacts of their own, not active slots; with several,
\* the last is the one a resume would find.
TranscriptCandidate ==
    /\ At("transcript_candidate")
    /\ LET m == [mem EXCEPT !.cands = mem.tracks, !.mode = TRUE,
                            !.speech = SpeechRequired(mem.tracks)]
       IN  IF mem.tracks = {}
             THEN Commit("transcript_candidate", m, NoOutput)
             ELSE LET last == CHOOSE c \in mem.tracks : TRUE IN
                  Commit("transcript_candidate", m,
                         Put("transcript", TextOf(Whole(last), "transcript_candidate", Gate(last))))

Audio ==
    /\ At("audio")
    /\ Commit("audio", mem, NoOutput)

\* Speech recognition is skipped when the candidates, seen in this attempt,
\* made it unnecessary; without that memory it registers its transcript and
\* leaves the candidates alone.
ASR ==
    /\ At("asr")
    /\ LET spoken == Put("transcript", TextOf(Whole(world.asr), "asr", Gate(world.asr))) IN
       IF mem.mode /\ ~ mem.speech THEN Commit("asr", mem, NoOutput)
       ELSE IF world.asr.cover = {} THEN Raise("asr")
       ELSE IF mem.mode THEN Commit("asr", [mem EXCEPT !.cands = @ \cup {world.asr}], spoken)
       ELSE CommitActive("asr", mem, spoken)

TranscriptSelection ==
    /\ At("transcript_selection")
    /\ LET t == Select(mem.cands) IN
       IF t = NoTranscript THEN Raise("transcript_selection")
       ELSE CommitActive("transcript_selection", [mem EXCEPT !.report = "PASS"],
                         Put("transcript", TextOf(t, "transcript_selection", "PASS")))

TranscriptQuality ==
    /\ At("transcript_quality")
    /\ IF mem.report # "PASS" THEN Raise("transcript_quality")
       ELSE Commit("transcript_quality", mem, NoOutput)

\* Diarization and post-processing register a new version of the transcript.
Reregister(s) ==
    /\ At(s)
    /\ CommitActive(s, mem, Put("transcript", [mem.reg["transcript"] EXCEPT !.by = s]))

Diarization == Reregister("diarization")
TranscriptPostprocess == Reregister("transcript_postprocess")

\* BuildVideoStage is named "transcript".
BuildVideo ==
    /\ At("transcript")
    /\ Commit("transcript", [mem EXCEPT !.video = mem.meta], NoOutput)

Chapter ==
    /\ At("chapter")
    /\ Commit("chapter", [mem EXCEPT !.chapters = "fixed"], NoOutput)

\* For live media the chapters are redrawn along the semantic segments.
SemanticSegmentation ==
    /\ At("semantic_segmentation")
    /\ CommitActive("semantic_segmentation",
                    [mem EXCEPT !.chapters = IF Live THEN "semantic" ELSE @],
                    Put("semantic_segments", [text |-> mem.reg["transcript"], spans |-> Spans]))

-----------------------------------------------------------------------------
\* The claims.  The stages keep their results in mem.claims.
Chain == mem.claims
Keep(c) == [mem EXCEPT !.claims = c]
Plain(s, c) == Commit(s, Keep(c), NoOutput)

SemanticContext ==
    /\ At("semantic_context")
    /\ Plain("semantic_context", [Chain EXCEPT !.contexts = TRUE])

\* A language model names the chapters' theses, then the atomic claims; each
\* attempt asks again.  A draft of a segment that is not there is refused.
ChapterThesisIdentification ==
    /\ At("chapter_thesis_identification")
    /\ \E theses \in world.theses :
          Plain("chapter_thesis_identification", [Chain EXCEPT !.theses = theses])

AtomicClaimExtraction ==
    /\ At("atomic_claim_extraction")
    /\ \E answer \in world.answers :
          IF Refuses("atomic_claim_extraction", answer)
            THEN Raise("atomic_claim_extraction")
            ELSE Plain("atomic_claim_extraction", [Chain EXCEPT !.drafts = Chain.theses \o answer])

AtomicClaimValidation ==
    /\ At("atomic_claim_validation")
    /\ Plain("atomic_claim_validation",
             [Chain EXCEPT !.drafts = Accepted(Chain.drafts, mem.report)])

\* Frames are cut for the windows of the accepted drafts, which live media must
\* have; fixtures have none.
KnowledgeFrame ==
    /\ At("knowledge_frame")
    /\ LET windows == Windows(Chain.drafts)
           frames == IF Live THEN Frames(windows) ELSE {}
           m == Keep([Chain EXCEPT !.windows = windows, !.frames = frames])
       IN  IF Refuses("knowledge_frame", Chain.drafts) \/ (Live /\ frames = {})
             THEN Raise("knowledge_frame")
           ELSE IF frames = {} THEN Commit("knowledge_frame", m, NoOutput)
           ELSE CommitActive("knowledge_frame", m, Put("frames", frames))

FrameFixture ==
    /\ At("frame_fixture")
    /\ Plain("frame_fixture", Chain)

\* The OCR worker tells its runtime identity when it has a frame to read.
OCR ==
    /\ At("ocr")
    /\ IF Chain.frames = {} THEN Plain("ocr", Chain)
       ELSE CommitActive("ocr", [mem EXCEPT !.ocr = TRUE],
                         Put("ocr", Chain.frames \cap world.legible))

Vision ==
    /\ At("vision")
    /\ IF Chain.frames = {} THEN Plain("vision", Chain)
       ELSE CommitActive("vision", mem, Put("vision", Chain.frames \cap world.legible))

TranscriptVisualCrosscheck ==
    /\ At("transcript_visual_crosscheck")
    /\ LET checks == Checks(Chain.windows, Chain.frames, world.sees)
       IN  CommitActive("transcript_visual_crosscheck", Keep([Chain EXCEPT !.checks = checks]),
                        Put("crosscheck", checks))

SecurityEntityAlignment ==
    /\ At("security_entity_alignment")
    /\ CommitActive("security_entity_alignment", mem,
                    Put("alignment", [text |-> mem.reg["transcript"],
                                      checks |-> mem.reg["crosscheck"]]))

ClaimVisualBinding ==
    /\ At("claim_visual_binding")
    /\ Plain("claim_visual_binding",
             [Chain EXCEPT !.bound = TRUE,
                           !.anchors = [i \in DOMAIN Chain.drafts |->
                               Anchors(Chain, Chain.drafts[i], world.legible)]])

MultimodalContext ==
    /\ At("multimodal_context")
    /\ Plain("multimodal_context", Chain)

TemporalWindow ==
    /\ At("temporal_window")
    /\ Plain("temporal_window", Chain)

\* Every coordinate, conclusion and anchor is looked up again; one that
\* cannot be found fails the whole stage.
EvidenceGrounding ==
    /\ At("evidence_grounding")
    /\ LET found(i) == Chain.anchors[i] \subseteq
                         {f \in Chain.frames : Admits(Chain, Chain.drafts[i], f)}
           items == {Chain.drafts[i].span : i \in DOMAIN Chain.drafts}
                      \cup UNION {Chain.anchors[i] : i \in DOMAIN Chain.drafts}
       IN  IF \/ Refuses("evidence_grounding", Chain.drafts)
              \/ \E i \in DOMAIN Chain.drafts : ~ found(i)
             THEN Raise("evidence_grounding")
             ELSE CommitActive("evidence_grounding", mem,
                    Put("evidence", [text |-> mem.reg["transcript"], items |-> items]))

TemporalNormalization ==
    /\ At("temporal_normalization")
    /\ IF Refuses("temporal_normalization", Chain.drafts)
         THEN Raise("temporal_normalization")
         ELSE Plain("temporal_normalization", Chain)

ClaimCanonicalization ==
    /\ At("claim_canonicalization")
    /\ LET claims == [i \in DOMAIN Chain.drafts |-> Chain.drafts[i].claim]
       IN  CommitActive("claim_canonicalization", Keep([Chain EXCEPT !.claims = claims]),
                        Put("claims", claims))

\* A live occurrence is dated by the wall clock of the attempt, a fixture's
\* by its transcript.
ClaimOccurrencePersistence ==
    /\ At("claim_occurrence_persistence")
    /\ LET occs == Occurrences(Chain, world.legible)
           clock == IF Live THEN task.attempt ELSE 0
       IN  CommitActive("claim_occurrence_persistence",
                        Keep([Chain EXCEPT !.occs = occs, !.clock = clock]),
                        [occurrences |-> [rows |-> {OccurrenceId(o) : o \in ToSet(occs)},
                                          segments |-> mem.reg["semantic_segments"],
                                          evidence |-> mem.reg["evidence"]],
                         visual_evidence |-> {PacketOf(o) : o \in ToSet(occs)},
                         claims |-> Chain.claims])

\* The knowledge artifact lists its units by the ids of their occurrences.
UnitIds(units) == {OccurrenceId(u.occ) : u \in ToSet(units)}

KnowledgeExtraction ==
    /\ At("knowledge")
    /\ LET units == KnowledgeUnits(Chain.claims, Chain.occs)
       IN  CommitActive("knowledge", Keep([Chain EXCEPT !.units = units]),
                        [verification |-> "provisional", knowledge |-> UnitIds(units)])

Verification ==
    /\ At("verification")
    /\ Plain("verification", Chain)

FinancialEnrichment ==
    /\ At("financial_enrichment")
    /\ Plain("financial_enrichment", Chain)

\* The lifecycle artifact carries the occurrences' clock.
LifecycleProjection ==
    /\ At("lifecycle_projection")
    /\ CommitActive("lifecycle_projection", Keep([Chain EXCEPT !.units = Projected(@)]),
                    [lifecycle |-> <<ClaimLife(Chain.claims, Chain.occs), Chain.clock>>,
                     knowledge |-> UnitIds(Chain.units)])

\* The summary artifact holds the first unit's statement, or that of the chapters.
Summary ==
    /\ At("summary")
    /\ CommitActive("summary", mem,
                    Put("summary", [knowledge |-> mem.reg["knowledge"],
                                    core |-> IF Chain.units = << >> THEN mem.chapters
                                             ELSE Chain.units[1].claim]))

-----------------------------------------------------------------------------
\* The stages that write outside the context do so in a transaction of their
\* own, before the one that records the stage.
WithEffect(s, effect) ==
    /\ At(s)
    /\ \/ /\ ~ Chain.acted
          /\ store' = effect
          /\ mem' = Keep([Chain EXCEPT !.acted = TRUE])
          /\ UNCHANGED <<world, task, pos, ckpt, receipts, faults>>
       \/ /\ Chain.acted
          /\ Plain(s, [Chain EXCEPT !.acted = FALSE])

ClaimPersistence ==
    WithEffect("claim_persistence", [store EXCEPT !.claims = @ \cup ToSet(Chain.claims)])

\* The snapshot is identified by the artifacts it is made of; one that is
\* there already keeps the rows it was published with.  The ledger's first
\* events of a claim are written once.
ContentSnapshot ==
    WithEffect("content_snapshot",
        [store EXCEPT
            !.snapshots = IF \E sn \in @ : sn.slots = mem.reg THEN @ ELSE
                @ \cup {[slots |-> mem.reg, occs |-> ToSet(Chain.occs),
                         life |-> ClaimLife(Chain.claims, Chain.occs)]},
            !.ledger = Extended(LedgerEvents(Chain.claims, Chain.occs), @)])

\* The read model of the video, replaced as a whole.
Persist ==
    WithEffect("persist",
        [store EXCEPT !.read = [units |-> Chain.units, text |-> mem.reg["transcript"].text,
                                gate |-> mem.report, chapters |-> mem.chapters,
                                meta |-> mem.video]])

\* The index entry is only an intent; publishing it is KnowledgeProjection's.
Index ==
    WithEffect("index", [store EXCEPT !.index = ToSet(Chain.units)])

Finish ==
    /\ pos = Len(Stages) + 1
    /\ task' = [task EXCEPT !.state = "SUCCEEDED"]
    /\ pos' = 0 /\ mem' = FreshContext
    /\ UNCHANGED <<world, ckpt, receipts, store, faults>>

-----------------------------------------------------------------------------
Init ==
    /\ world \in Worlds
    /\ task = [state |-> "PENDING", retries |-> 0, attempt |-> 0]
    /\ pos = 0
    /\ mem = FreshContext
    /\ ckpt = [s \in StageNames |-> NoCheckpoint]
    /\ receipts = [s \in StageNames |-> NoReceipt]
    /\ store = NothingPublished
    /\ faults = world.faults

RunStage ==
    \/ Resolve \/ Download \/ TranscriptCandidate \/ Audio \/ ASR
    \/ TranscriptSelection \/ TranscriptQuality \/ Diarization
    \/ TranscriptPostprocess \/ BuildVideo \/ Chapter \/ SemanticSegmentation
    \/ SemanticContext \/ ChapterThesisIdentification \/ AtomicClaimExtraction
    \/ AtomicClaimValidation \/ KnowledgeFrame \/ FrameFixture \/ OCR \/ Vision
    \/ TranscriptVisualCrosscheck \/ SecurityEntityAlignment
    \/ ClaimVisualBinding \/ MultimodalContext \/ TemporalWindow
    \/ EvidenceGrounding \/ TemporalNormalization \/ ClaimCanonicalization
    \/ ClaimOccurrencePersistence \/ KnowledgeExtraction \/ Verification
    \/ FinancialEnrichment \/ LifecycleProjection \/ Summary
    \/ ClaimPersistence \/ ContentSnapshot \/ Persist \/ Index

Next == Claim \/ RunStage \/ Finish \/ Die \/ OutsideFailure

\* The worker's loop claims what is pending and an attempt runs on.
Spec == Init /\ [][Next]_vars /\ WF_vars(Claim \/ RunStage \/ Finish)

-----------------------------------------------------------------------------
SlotsOf(r) == DOMAIN r
Published == store.read # NothingPublished.read

\* The frames that were cut for the published claims.
CutFrames ==
    LET out == receipts["knowledge_frame"].out
    IN  IF "frames" \in SlotsOf(out) THEN out["frames"] ELSE {}

Contradicted(span) == \E f \in CutFrames : f.span = span /\ world.sees[f] = "CONTRADICTS"

\* Shape of the state: the attempt is at a stage or at none, and every row
\* of the stage tables belongs to a stage of the graph.
TypeOK ==
    /\ world \in Worlds
    /\ task.state \in {"PENDING", "SUCCEEDED", "FAILED"}
    /\ task.retries \in 0..MaxRetries
    /\ pos \in 0..(Len(Stages) + 1)
    /\ DOMAIN ckpt = StageNames /\ DOMAIN receipts = StageNames
    /\ mem.cands \subseteq Candidate
    /\ ToSet(Chain.drafts) \subseteq Draft
    /\ faults \in Nat

\* What the picture contradicts is never published as supported: the unit is
\* located and extracted only, and its claim is not active in the snapshot
\* (the cross-check, the binding, the review codes and the lifecycle
\* projection together); and the packet sealed with it, a second reading of the
\* cross-check, asks for a human exactly then, and calls available only what
\* rests on an anchor the binding admitted.
ConflictIsNeverPublished ==
    /\ Published =>
        \A i \in DOMAIN store.read.units :
            LET u == store.read.units[i] IN
            Contradicted(u.occ.span) =>
                /\ u.support = "SOURCE_LOCATED" /\ u.life = "EXTRACTED"
                /\ \A sn \in store.snapshots : sn.life[u.claim] = "EXTRACTED"
    /\ \A sn \in store.snapshots : \A o \in sn.occs :
        /\ o.packet = "HUMAN_REVIEW_REQUIRED" <=> o.review
        /\ o.packet = "AVAILABLE" => o.anchors # {}

\* Every snapshot that is published can be verified and replayed: the replay's
\* own reading of its slots, rows, packets and cross-check accepts what the
\* stages made of them, through every restore.  (Not so where two statements
\* cite one span: the frame they share then has a relation in each one's
\* window, and the replay wants exactly one.)
ReplayAccepts ==
    \A sn \in store.snapshots :
        Verifies(sn.slots, sn.occs) \/ \E o \in sn.occs : SharedSpan(o, sn.occs)

\* What the selection may choose: among the source's candidates, with speech or
\* without it; only an attempt that resumes can have speech as its one candidate.
SelectableTexts ==
    ( {Select(world.tracks), Select(world.tracks \cup {world.asr})}
        \cup {t \in {Select({world.asr})} : task.attempt > 1} ) \ {NoTranscript}

\* The published text was chosen and passed the gate, and the snapshot holds the
\* same one.
TextWasSelected ==
    Published =>
        /\ store.read.gate = "PASS"
        /\ store.read.text \in SelectableTexts
        /\ \A sn \in store.snapshots : sn.slots["transcript"].text = store.read.text

\* What the selection's own comment says ("do not silently swap it for machine
\* output and create a false authority"): where an official subtitle is refused
\* for more than its coverage, nothing else is published in its place.  It does
\* not hold: the attempt after the refusal finds the checkpoint of the speech
\* recognition, restores that candidate alone, and the selection takes it.
OfficialIsNotSwapped ==
    Published /\ OfficialRefused(world.tracks) => store.read.text.src = "OFFICIAL_SUBTITLE"

\* Once a transcript is selected the active slots of an attempt, first or
\* resumed, hold what the last stage that filled them recorded.
RegistryIsDurable ==
    pos > Position("transcript_selection") =>
        \A slot \in SlotsOf(mem.reg) :
            /\ Fillers(receipts, pos - 1, slot) # {}
            /\ mem.reg[slot] = SlotsAfter(receipts, pos - 1)[slot]

\* What a unit is known by and what a reader sees of it.
Shown(units) == {<<u.claim, PacketOf(u.occ), u.support, u.life>> : u \in units}

\* However often attempts die and models answer differently, a task commits
\* one snapshot (the receipts of the stages before it stop the second); the read
\* model shows its occurrences, packet for packet, its text, which the selection
\* chose, and the metadata its source artifact was recorded with, and the index what
\* the read model shows; and an attempt works with what the receipts hold.
ReadModelIsTheSnapshot ==
    /\ Cardinality(store.snapshots) <= 1
    /\ Published =>
        /\ \A sn \in store.snapshots :
            {PacketOf(u.occ) : u \in ToSet(store.read.units)} = {PacketOf(o) : o \in sn.occs}
        /\ store.read.meta = receipts["download"].out["source"]
        /\ Shown(store.index) \subseteq Shown(ToSet(store.read.units))
    /\ TextWasSelected
    /\ RegistryIsDurable

\* A task does not stay in the queue for ever.
Settles == <>[](task.state \in {"SUCCEEDED", "FAILED"})
=============================================================================
