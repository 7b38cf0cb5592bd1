------------------------ MODULE ContentPipelineProofs ------------------------
(***************************************************************************)
(* The invariants of ContentPipeline, for every set of worlds, every retry *)
(* budget and any number of deaths and failures.                           *)
(*                                                                         *)
(* PipelineInv says, stage by stage, what an attempt knows when it comes   *)
(* there: what of the source and the transcript its memory holds           *)
(* (SourceInv), how drafts, windows, frames, checks, anchors and evidence  *)
(* hang together (ChainInv), and what the occurrences, units and lives     *)
(* made of them say (OccurrenceInv); that its active slots are those of    *)
(* the receipts (RegistryInv) and the checkpoints no more than the         *)
(* receipts (RowsInv); and that the snapshot, the read model and the index *)
(* agree with the receipts (SnapshotInv, ReadInv, IndexInv).  A resume     *)
(* forgets the memory and finds it again in the rows; a receipt that is    *)
(* there stops an attempt that would say something else.                   *)
(*                                                                         *)
(* The parts of it that name the stage n an attempt has come to take the   *)
(* memory and the slots as parameters, so that one lemma says what a stage *)
(* that leaves them alone passes on (PartsKept, ResultsKept) and each      *)
(* stage shows only what it adds.                                          *)
(***************************************************************************)
EXTENDS ContentPipeline, FiniteSetTheorems, WellFoundedInduction, TLAPS

\* Where a stage stands in the graph.
Rank == [
    resolve |-> 1, download |-> 2, transcript_candidate |-> 3, audio |-> 4,
    asr |-> 5, transcript_selection |-> 6, transcript_quality |-> 7,
    diarization |-> 8, transcript_postprocess |-> 9, transcript |-> 10,
    chapter |-> 11, semantic_segmentation |-> 12, semantic_context |-> 13,
    chapter_thesis_identification |-> 14, atomic_claim_extraction |-> 15,
    atomic_claim_validation |-> 16, knowledge_frame |-> 17, frame_fixture |-> 18,
    ocr |-> 19, vision |-> 20, transcript_visual_crosscheck |-> 21,
    security_entity_alignment |-> 22, claim_visual_binding |-> 23,
    multimodal_context |-> 24, temporal_window |-> 25, evidence_grounding |-> 26,
    temporal_normalization |-> 27, claim_canonicalization |-> 28,
    claim_occurrence_persistence |-> 29, knowledge |-> 30, verification |-> 31,
    financial_enrichment |-> 32, lifecycle_projection |-> 33, summary |-> 34,
    claim_persistence |-> 35, content_snapshot |-> 36, persist |-> 37, index |-> 38 ]

\* The stages, one by one.
LEMMA StageTable ==
  /\ Len(Stages) = 38 /\ DOMAIN Stages = 1..38
  /\ Stages[1] = "resolve" /\ Stages[2] = "download"
  /\ Stages[3] = "transcript_candidate" /\ Stages[4] = "audio" /\ Stages[5] = "asr"
  /\ Stages[6] = "transcript_selection" /\ Stages[7] = "transcript_quality"
  /\ Stages[8] = "diarization" /\ Stages[9] = "transcript_postprocess"
  /\ Stages[10] = "transcript" /\ Stages[11] = "chapter"
  /\ Stages[12] = "semantic_segmentation" /\ Stages[13] = "semantic_context"
  /\ Stages[14] = "chapter_thesis_identification"
  /\ Stages[15] = "atomic_claim_extraction"
  /\ Stages[16] = "atomic_claim_validation" /\ Stages[17] = "knowledge_frame"
  /\ Stages[18] = "frame_fixture" /\ Stages[19] = "ocr" /\ Stages[20] = "vision"
  /\ Stages[21] = "transcript_visual_crosscheck"
  /\ Stages[22] = "security_entity_alignment"
  /\ Stages[23] = "claim_visual_binding" /\ Stages[24] = "multimodal_context"
  /\ Stages[25] = "temporal_window" /\ Stages[26] = "evidence_grounding"
  /\ Stages[27] = "temporal_normalization" /\ Stages[28] = "claim_canonicalization"
  /\ Stages[29] = "claim_occurrence_persistence" /\ Stages[30] = "knowledge"
  /\ Stages[31] = "verification" /\ Stages[32] = "financial_enrichment"
  /\ Stages[33] = "lifecycle_projection" /\ Stages[34] = "summary"
  /\ Stages[35] = "claim_persistence" /\ Stages[36] = "content_snapshot"
  /\ Stages[37] = "persist" /\ Stages[38] = "index"
BY DEF Stages

\* Rank is the inverse of the stage table.
LEMMA Ranked == \A i \in 1..38 : Rank[Stages[i]] = i
BY StageTable DEF Rank

\* An attempt at stage s is at the position of s.
LEMMA AtRank ==
  ASSUME NEW s, At(s)
  PROVE  pos \in 1..38 /\ pos = Rank[s] /\ s = Stages[pos] /\ s \in StageNames
BY StageTable, Ranked DEF At, StageNames

-----------------------------------------------------------------------------
\* A set of naturals that is not empty has a least element.
LEMMA LeastNatural ==
  ASSUME NEW S \in SUBSET Nat, S # {}
  PROVE  \E n \in S : \A m \in S : n <= m
<1> DEFINE R == OpToRel(<, Nat)
<1>1. PICK n \in S : \A m \in S : <<m, n>> \notin R
  <2>1. IsWellFoundedOn(R, Nat)
    BY NatLessThanWellFounded
  <2> HIDE DEF R
  <2> QED
    BY <2>1, WFMin, Zenon
<1>2. ASSUME NEW m \in S PROVE n <= m
  <2>1. ~(m < n)
    BY <1>1 DEF OpToRel
  <2> QED
    BY <2>1
<1> QED
  BY <1>2

\* Of some numbers up to n one is the last.
LEMMA LastUpTo ==
  ASSUME NEW n \in Nat, NEW ns, ns \subseteq 1..n, ns # {}
  PROVE  \E i \in ns : \A j \in ns : j <= i
<1> DEFINE behind == {n - i : i \in ns}
<1>1. behind \subseteq Nat /\ behind # {}
  OBVIOUS
<1>2. PICK d \in behind : \A e \in behind : d <= e
  <2> HIDE DEF behind
  <2> QED
    BY <1>1, LeastNatural
<1>3. PICK i \in ns : d = n - i
  BY <1>2
<1>4. \A j \in ns : n - j \in behind
  OBVIOUS
<1>5. \A j \in ns : j <= i
  <2> SUFFICES ASSUME NEW j \in ns PROVE j <= i
    OBVIOUS
  <2>1. n - i <= n - j
    BY <1>2, <1>3, <1>4
  <2> QED
    BY <2>1
<1> QED
  BY <1>5

\* What fills a slot last is one of the stages that fill it, after the others.
LEMMA LastFillerIs ==
  ASSUME NEW rows, NEW n \in Nat, NEW slot, Fillers(rows, n, slot) # {}
  PROVE  /\ LastFiller(rows, n, slot) \in Fillers(rows, n, slot)
         /\ \A j \in Fillers(rows, n, slot) : j <= LastFiller(rows, n, slot)
<1>1. Fillers(rows, n, slot) \subseteq 1..n
  BY DEF Fillers
<1>2. \E i \in Fillers(rows, n, slot) : \A j \in Fillers(rows, n, slot) : j <= i
  BY <1>1, LastUpTo
<1> QED
  BY <1>2 DEF LastFiller

\* A filler after which no other comes is the last one.
LEMMA LastFillerUnique ==
  ASSUME NEW rows, NEW n \in Nat, NEW slot, NEW i \in Fillers(rows, n, slot),
         \A j \in Fillers(rows, n, slot) : j <= i
  PROVE  LastFiller(rows, n, slot) = i
<1>1. /\ LastFiller(rows, n, slot) \in Fillers(rows, n, slot)
      /\ \A j \in Fillers(rows, n, slot) : j <= LastFiller(rows, n, slot)
  BY LastFillerIs
<1>2. Fillers(rows, n, slot) \subseteq 1..n
  BY DEF Fillers
<1>3. i <= LastFiller(rows, n, slot) /\ LastFiller(rows, n, slot) <= i
  BY <1>1
<1>4. i \in Int /\ LastFiller(rows, n, slot) \in Int
  BY <1>1, <1>2
<1> QED
  BY <1>3, <1>4

\* The slots after n stages are those that some of them filled.
LEMMA SlotsAfterDomain ==
  ASSUME NEW rows, NEW n \in Nat
  PROVE  \A slot : slot \in DOMAIN SlotsAfter(rows, n) <=> Fillers(rows, n, slot) # {}
BY DEF SlotsAfter, Fillers

\* Rows that agree on the first n stages leave the same slots after them.
LEMMA SlotsAfterSame ==
  ASSUME NEW rows, NEW other, NEW n \in Nat,
         \A i \in 1..n : rows[Stages[i]].out = other[Stages[i]].out
  PROVE  SlotsAfter(rows, n) = SlotsAfter(other, n)
<1>1. \A slot : Fillers(rows, n, slot) = Fillers(other, n, slot)
  BY DEF Fillers
<1>2. \A slot : LastFiller(rows, n, slot) = LastFiller(other, n, slot)
  BY <1>1 DEF LastFiller
<1>3. DOMAIN SlotsAfter(rows, n) = DOMAIN SlotsAfter(other, n)
  BY <1>1, SlotsAfterDomain
<1>4. ASSUME NEW slot \in DOMAIN SlotsAfter(rows, n)
      PROVE  SlotsAfter(rows, n)[slot] = SlotsAfter(other, n)[slot]
  <2>1. LastFiller(rows, n, slot) \in 1..n
    BY LastFillerIs, SlotsAfterDomain, <1>4 DEF Fillers
  <2>2. SlotsAfter(rows, n)[slot] = rows[Stages[LastFiller(rows, n, slot)]].out[slot]
    BY <1>4 DEF SlotsAfter
  <2>3. SlotsAfter(other, n)[slot] = other[Stages[LastFiller(other, n, slot)]].out[slot]
    BY <1>3, <1>4 DEF SlotsAfter
  <2> QED
    BY <2>1, <2>2, <2>3, <1>2
<1> QED
  BY <1>3, <1>4 DEF SlotsAfter

\* The stage that comes next replaces what it fills and leaves the rest.
LEMMA SlotsAfterNext ==
  ASSUME NEW rows, NEW n \in Nat
  PROVE  SlotsAfter(rows, n + 1) = Extended(SlotsAfter(rows, n), rows[Stages[n + 1]].out)
<1> DEFINE out == rows[Stages[n + 1]].out
           old == SlotsAfter(rows, n)
           new == SlotsAfter(rows, n + 1)
<1>1. \A slot : slot \in DOMAIN out => LastFiller(rows, n + 1, slot) = n + 1
  <2> SUFFICES ASSUME NEW slot, slot \in DOMAIN out
               PROVE  LastFiller(rows, n + 1, slot) = n + 1
    OBVIOUS
  <2>1. n + 1 \in Fillers(rows, n + 1, slot)
    BY DEF Fillers
  <2>2. \A j \in Fillers(rows, n + 1, slot) : j <= n + 1
    BY DEF Fillers
  <2> QED
    BY <2>1, <2>2, LastFillerUnique
<1>2. \A slot : slot \notin DOMAIN out => Fillers(rows, n + 1, slot) = Fillers(rows, n, slot)
  BY DEF Fillers
<1>3. \A slot : slot \notin DOMAIN out => LastFiller(rows, n + 1, slot) = LastFiller(rows, n, slot)
  BY <1>2 DEF LastFiller
<1>4. \A slot : slot \in DOMAIN out => n + 1 \in Fillers(rows, n + 1, slot)
  BY DEF Fillers
<1>5. DOMAIN new = DOMAIN old \cup DOMAIN out
  <2>1. \A slot : slot \in DOMAIN old <=> Fillers(rows, n, slot) # {}
    BY SlotsAfterDomain
  <2>2. \A slot : slot \in DOMAIN new <=> Fillers(rows, n + 1, slot) # {}
    BY SlotsAfterDomain
  <2> HIDE DEF old, new, out
  <2>3. \A slot : slot \in DOMAIN new <=> slot \in DOMAIN old \cup DOMAIN out
    BY <2>1, <2>2, <1>2, <1>4
  <2> QED
    BY <2>3
<1>6. ASSUME NEW slot \in DOMAIN new
      PROVE  new[slot] = IF slot \in DOMAIN out THEN out[slot] ELSE old[slot]
  <2>1. new[slot] = rows[Stages[LastFiller(rows, n + 1, slot)]].out[slot]
    BY <1>6 DEF SlotsAfter
  <2>2. CASE slot \in DOMAIN out
    BY <2>1, <2>2, <1>1
  <2>3. CASE slot \notin DOMAIN out
    <3>1. old[slot] = rows[Stages[LastFiller(rows, n, slot)]].out[slot]
      BY <1>5, <2>3 DEF SlotsAfter
    <3> QED
      BY <2>1, <2>3, <3>1, <1>3
  <2> QED
    BY <2>2, <2>3
<1>7. new = [slot \in DOMAIN new |-> new[slot]]
  BY DEF SlotsAfter
<1> QED
  BY <1>5, <1>6, <1>7 DEF Extended

-----------------------------------------------------------------------------
\* The shape of the state.
MemFields == { "reg", "meta", "tracks", "mode", "speech", "cands", "report", "ocr",
               "chapters", "video", "claims" }
ChainFields == { "contexts", "theses", "drafts", "windows", "frames", "checks", "anchors",
                 "bound", "claims", "occs", "clock", "units", "acted" }
StoreFields == {"claims", "snapshots", "ledger", "index", "read"}

Shape ==
  /\ world \in Worlds /\ pos \in 0..39 /\ faults \in Nat
  /\ DOMAIN mem = MemFields /\ DOMAIN mem.claims = ChainFields
  /\ DOMAIN store = StoreFields
  /\ DOMAIN ckpt = StageNames /\ DOMAIN receipts = StageNames

\* The queue's row: an attempt is made of a pending task within its budget.
TaskInv ==
  /\ DOMAIN task = {"state", "retries", "attempt"}
  /\ task.state \in {"PENDING", "SUCCEEDED", "FAILED"} /\ task.retries \in 0..MaxRetries
  /\ pos # 0 => task.state = "PENDING" /\ task.retries < MaxRetries
  /\ task.attempt \in Nat /\ (pos # 0 \/ Records # {} => task.attempt > 0)

-----------------------------------------------------------------------------
\* The stages that have a receipt ...
Done(i) == receipts[Stages[i]] # NoReceipt
DoneUpTo(n) == \A i \in 1..n : Done(i)
Output(s, slot) == receipts[s].out[slot]

\* ... and what a text that passed the selection says.
GoodText(t) == DOMAIN t = {"by", "text", "gate"} /\ t.gate = "PASS" /\ t.text \in SelectableTexts

TranscriptStages == { "transcript_candidate", "asr", "transcript_selection",
                      "diarization", "transcript_postprocess" }

\* A successful checkpoint says what the receipt of its stage says; some slots
\* are filled by few stages; every transcript after the selection is one it chose;
\* and the segments were cut from the transcript of their time.
RowsInv ==
  /\ \A s \in StageNames :
       /\ ckpt[s].status = "SUCCEEDED" => receipts[s] # NoReceipt /\ receipts[s].out = ckpt[s].out
       /\ "source" \in DOMAIN receipts[s].out <=> s = "download" /\ receipts[s] # NoReceipt
       /\ "semantic_segments" \in DOMAIN receipts[s].out
            <=> s = "semantic_segmentation" /\ receipts[s] # NoReceipt
       /\ "transcript" \in DOMAIN receipts[s].out => s \in TranscriptStages
  /\ \A s \in TranscriptStages \ {"transcript_candidate", "asr"} :
       receipts[s] # NoReceipt =>
         "transcript" \in DOMAIN receipts[s].out /\ GoodText(Output(s, "transcript"))
  /\ receipts["semantic_segmentation"] # NoReceipt =>
       /\ DoneUpTo(11)
       /\ Output("semantic_segmentation", "semantic_segments").spans = Spans
       /\ Output("semantic_segmentation", "semantic_segments").text
            = SlotsAfter(receipts, 11)["transcript"]

\* The stages before the one an attempt is at have their receipts, and its active
\* slots hold what these say, but for the transcript before the selection.
Unselected == [s \in {"transcript"} |-> None]
RegistryInv ==
  /\ DoneUpTo(pos - 1)
  /\ pos > 0 => Extended(mem.reg, Unselected) = Extended(SlotsAfter(receipts, pos - 1), Unselected)
  /\ pos > 6 => mem.reg = SlotsAfter(receipts, pos - 1)

\* What an attempt that has come to stage n with memory m remembers of the source
\* and the transcript.
SourceOf(m, n, source) ==
  /\ m.tracks \in {{}, world.tracks}
  /\ m.cands \in {{}, world.tracks, {world.asr}, world.tracks \cup {world.asr}}
  /\ task.attempt < 2 =>
       /\ n > 2 => m.tracks = world.tracks
       /\ n > 3 => m.cands \in {world.tracks, world.tracks \cup {world.asr}}
  /\ n > 2 => "source" \in DOMAIN m.reg /\ m.meta = source
  /\ n > 6 => /\ "transcript" \in DOMAIN m.reg /\ GoodText(m.reg["transcript"])
              /\ m.report = "PASS"
  /\ n > 10 => m.video = source
  /\ n > 12 => /\ "semantic_segments" \in DOMAIN m.reg
               /\ m.reg["semantic_segments"].spans = Spans
               /\ m.reg["semantic_segments"].text = m.reg["transcript"]

SourceNow == Output("download", "source")
SourceInv == SourceOf(mem, pos, SourceNow)

-----------------------------------------------------------------------------
\* What of the attempt's memory the rules of the cross-check look at, and what its
\* grounded evidence is made of.
LookOf(c) == [windows |-> c.windows, frames |-> c.frames, checks |-> c.checks]
ItemsOf(c) == {c.drafts[i].span : i \in DOMAIN c.drafts}
                \cup UNION {c.anchors[i] : i \in DOMAIN c.drafts}

\* The claim stages an attempt has passed when it comes to stage n: frames cut, frames
\* checked, names aligned, anchors bound, evidence grounded, claims named.
Cut(c, n, cut) ==
  n > 17 => /\ c.windows = Windows(c.drafts)
            /\ c.frames \in {{}, Frames(c.windows)} /\ c.frames = cut
Checked(c, reg, n) ==
  n > 21 => /\ c.checks = Checks(c.windows, c.frames, world.sees)
            /\ "crosscheck" \in DOMAIN reg /\ reg["crosscheck"] = c.checks
Aligned(reg, n) == n > 22 => "alignment" \in DOMAIN reg /\ AlignmentClosed(reg)
Anchored(c, n) ==
  n > 23 => c.anchors = [i \in DOMAIN c.drafts |->
                           Anchors(LookOf(c), c.drafts[i], world.legible)]
Grounded(c, reg, n) ==
  n > 26 => /\ "evidence" \in DOMAIN reg
            /\ reg["evidence"].text = reg["transcript"]
            /\ reg["evidence"].items = ItemsOf(c)
Canonical(c, n) == n > 28 => c.claims = [i \in DOMAIN c.drafts |-> c.drafts[i].claim]

ChainOf(c, reg, n, cut) ==
  /\ c.theses \in Seq(Draft) /\ c.drafts \in Seq(Draft)
  /\ Cut(c, n, cut) /\ Checked(c, reg, n) /\ Aligned(reg, n)
  /\ Anchored(c, n) /\ Grounded(c, reg, n) /\ Canonical(c, n)

ChainInv == ChainOf(Chain, mem.reg, pos, CutFrames)

\* The verdict sealed with an occurrence is that of its checks and of the picture.
WellSealed(o) ==
  /\ o.packet = "HUMAN_REVIEW_REQUIRED" <=> o.review
  /\ o.packet = "AVAILABLE" => o.anchors # {}
  /\ o.review <=> \E k \in o.seen : k.relation = "CONTRADICTS"
  /\ Contradicted(o.span) => o.review

\* What the replay asks but for the lifecycle.
Shared(occs) == \E o \in occs : SharedSpan(o, occs)
Closed(slots, occs) ==
  /\ occs # {} => /\ SlotsClosed(slots)
                  /\ \A o \in occs : RowInside(slots, o)
                  /\ VisualsAdmitted(slots, occs)
  /\ PacketsSealed(slots, occs)
  /\ AlignmentClosed(slots)

Packets(occs) == {PacketOf(o) : o \in occs}
SealedPackets == Output("claim_occurrence_persistence", "visual_evidence")
SealedLife == Output("lifecycle_projection", "lifecycle")[1]

\* A unit under review is located and extracted only, and so is its claim.
ProjectedBy(u, life) ==
  /\ u.support = IF u.occ.review THEN "SOURCE_LOCATED" ELSE "SOURCE_SUPPORTED"
  /\ u.life = Life(u.occ.review)
  /\ u.occ.review => life[u.claim] = "EXTRACTED"
WellProjected(u) == ProjectedBy(u, SealedLife)

\* The occurrences, the units and the life of their claims.
Sealed(c, reg, n, packets) ==
  n > 29 => /\ DOMAIN c.occs = DOMAIN c.claims
            /\ \A i \in DOMAIN c.claims : c.occs[i].claim = c.claims[i]
            /\ \A o \in ToSet(c.occs) : WellSealed(o)
            /\ Packets(ToSet(c.occs)) = packets
            /\ {"occurrences", "visual_evidence", "claims"} \subseteq DOMAIN reg
            /\ reg["claims"] = c.claims
            /\ Closed(reg, ToSet(c.occs)) \/ Shared(ToSet(c.occs))
Paired(c, n) ==
  n > 30 => /\ DOMAIN c.units = DOMAIN c.claims
            /\ \A i \in DOMAIN c.claims :
                 c.units[i].claim = c.claims[i] /\ c.units[i].occ = c.occs[i]
Provisional(c, n) ==
  n \in 31..33 => \A i \in DOMAIN c.claims :
                    /\ DOMAIN c.units[i] = {"claim", "occ", "support", "life"}
                    /\ c.units[i].support = "SOURCE_SUPPORTED"
Judged(c, reg, n, life) ==
  n > 33 => /\ life = ClaimLife(c.claims, c.occs)
            /\ "lifecycle" \in DOMAIN reg /\ LifecycleInside(reg)
            /\ \A i \in DOMAIN c.claims : ProjectedBy(c.units[i], life)

\* The read model is published before the index is written.
ReadFirst(c, n) == n > 37 \/ (n = 37 /\ c.acted) => Published

OccurrencesOf(c, reg, n, packets, life) ==
  /\ Sealed(c, reg, n, packets) /\ Paired(c, n) /\ Provisional(c, n)
  /\ Judged(c, reg, n, life) /\ ReadFirst(c, n)

OccurrenceInv == OccurrencesOf(Chain, mem.reg, pos, SealedPackets, SealedLife)

-----------------------------------------------------------------------------
\* What is published agrees with the receipts.
SnapshotInv ==
  /\ \A sn, other \in store.snapshots : sn = other
  /\ \A sn \in store.snapshots :
       /\ DoneUpTo(35) /\ sn.slots = SlotsAfter(receipts, 35)
       /\ Packets(sn.occs) = SealedPackets
       /\ sn.life = SealedLife
       /\ \A o \in sn.occs : WellSealed(o)
       /\ Verifies(sn.slots, sn.occs) \/ Shared(sn.occs)

WellShown(u) == u.claim = u.occ.claim /\ WellSealed(u.occ) /\ WellProjected(u)

ReadInv ==
  Published =>
    /\ DoneUpTo(36)
    /\ store.read.gate = "PASS" /\ store.read.text \in SelectableTexts
    /\ store.read.text = SlotsAfter(receipts, 35)["transcript"].text
    /\ store.read.meta = Output("download", "source")
    /\ {PacketOf(u.occ) : u \in ToSet(store.read.units)} = SealedPackets
    /\ \A u \in ToSet(store.read.units) : WellShown(u)

IndexInv ==
  /\ store.index # {} => Published
  /\ \A u \in store.index : WellShown(u) /\ PacketOf(u.occ) \in SealedPackets

PipelineInv ==
  /\ Shape /\ TaskInv
  /\ RowsInv /\ RegistryInv /\ SourceInv
  /\ ChainInv /\ OccurrenceInv
  /\ SnapshotInv /\ ReadInv /\ IndexInv

-----------------------------------------------------------------------------
\* The attempt is over; of the stages' rows only a success may have been lost.
Ended ==
  /\ pos' = 0 /\ mem' = FreshContext
  /\ UNCHANGED <<world, receipts, store>>
  /\ DOMAIN ckpt' = DOMAIN ckpt
  /\ \A s \in StageNames : ckpt'[s].status = "SUCCEEDED" => ckpt'[s] = ckpt[s]

\* The attempt has passed stage s with context m; its receipt says out.
Advanced(s, m, out) ==
  /\ pos' = pos + 1 /\ mem' = m
  /\ UNCHANGED <<world, task, store, faults>>
  /\ DOMAIN receipts' = DOMAIN receipts /\ DOMAIN ckpt' = DOMAIN ckpt
  /\ receipts'[s].out = out /\ receipts'[s] # NoReceipt
  /\ \A t \in StageNames \ {s} : receipts'[t] = receipts[t]
  /\ receipts[s] # NoReceipt => receipts' = receipts
  /\ \A t \in StageNames : ckpt'[t].status = "SUCCEEDED" =>
       ckpt'[t] = ckpt[t] \/ (t = s /\ ckpt'[t].out = out)

\* A stage that raises ends the attempt; one that commits ends or advances it.
LEMMA RaiseEnds ==
  ASSUME Shape, NEW s \in StageNames, Raise(s)
  PROVE  Ended
BY DEF Shape, Raise, EndAttempt, Ended

\* A commit ends the attempt or advances it.
LEMMA CommitOutcome ==
  ASSUME Shape, NEW s \in StageNames, NEW m, NEW out, Commit(s, m, out)
  PROVE  Ended \/ Advanced(s, m, out)
<1> DEFINE receipt == [ins |-> mem.reg, out |-> out, ident |-> Ident(s, m)]
<1>0. receipt # NoReceipt /\ receipt.out = out
  BY DEF NoReceipt, Ident, None
<1>1. CASE /\ receipts[s] = NoReceipt
           /\ receipts' = [receipts EXCEPT ![s] = receipt]
           /\ ckpt' = [ckpt EXCEPT ![s] =
                     [status |-> "SUCCEEDED", out |-> out, ident |-> Ident(s, m)]]
           /\ mem' = m
           /\ pos' = pos + 1
           /\ UNCHANGED <<world, task, store, faults>>
  <2> HIDE DEF receipt
  <2> QED
    BY <1>0, <1>1 DEF Shape, Advanced
<1>2. CASE /\ receipts[s] = receipt
           /\ mem' = m
           /\ pos' = pos + 1
           /\ UNCHANGED <<world, task, ckpt, receipts, store, faults>>
  <2> HIDE DEF receipt
  <2> QED
    BY <1>0, <1>2 DEF Shape, Advanced
<1>3. CASE /\ receipts[s] \notin {NoReceipt, receipt}
           /\ EndAttempt
           /\ UNCHANGED <<world, ckpt, receipts, store, faults>>
  BY <1>3 DEF Ended, EndAttempt
<1> QED
  BY <1>1, <1>2, <1>3 DEF Commit

\* Receipts are written once.
LEMMA ReceiptsKept ==
  ASSUME NEW s, NEW m, NEW out, Advanced(s, m, out)
  PROVE  /\ \A t \in StageNames : receipts[t] # NoReceipt => receipts'[t] = receipts[t]
         /\ \A i \in 1..38 : Done(i) => receipts'[Stages[i]] = receipts[Stages[i]] /\ Done(i)'
<1>1. \A t \in StageNames : receipts[t] # NoReceipt => receipts'[t] = receipts[t]
  BY DEF Advanced
<1>2. \A i \in 1..38 : Stages[i] \in StageNames
  BY StageTable DEF StageNames
<1>3. \A i \in 1..38 : Done(i) => receipts'[Stages[i]] = receipts[Stages[i]]
  BY <1>1, <1>2 DEF Done
<1>4. \A i \in 1..38 : Done(i) => Done(i)'
  BY <1>3 DEF Done
<1> QED
  BY <1>1, <1>3, <1>4

\* Receipts that are there stay what they are.
Durable ==
  \A i \in 1..38 : Done(i) => receipts'[Stages[i]] = receipts[Stages[i]] /\ Done(i)'

\* What the receipts of the first stages say stays what it is.
LEMMA SealedKept ==
  ASSUME Durable, UNCHANGED world, DoneUpTo(35)
  PROVE  /\ DoneUpTo(35)' /\ CutFrames' = CutFrames
         /\ SealedPackets' = SealedPackets /\ SealedLife' = SealedLife
         /\ Output("download", "source")' = Output("download", "source")
         /\ SlotsAfter(receipts, 35)' = SlotsAfter(receipts, 35)
<1>1. \A i \in 1..35 : receipts'[Stages[i]] = receipts[Stages[i]] /\ Done(i)'
  BY DEF Durable, DoneUpTo
<1>2. DoneUpTo(35)'
  BY <1>1 DEF DoneUpTo
<1>3. /\ receipts'["knowledge_frame"] = receipts["knowledge_frame"]
      /\ receipts'["claim_occurrence_persistence"] = receipts["claim_occurrence_persistence"]
      /\ receipts'["lifecycle_projection"] = receipts["lifecycle_projection"]
      /\ receipts'["download"] = receipts["download"]
  <2>1. /\ receipts'[Stages[17]] = receipts[Stages[17]]
        /\ receipts'[Stages[29]] = receipts[Stages[29]]
        /\ receipts'[Stages[33]] = receipts[Stages[33]]
        /\ receipts'[Stages[2]] = receipts[Stages[2]]
    BY <1>1
  <2> QED
    BY <2>1, StageTable
<1>4. SlotsAfter(receipts', 35) = SlotsAfter(receipts, 35)
  <2>1. \A i \in 1..35 : receipts'[Stages[i]].out = receipts[Stages[i]].out
    BY <1>1
  <2> QED
    BY <2>1, SlotsAfterSame
<1> QED
  BY <1>2, <1>3, <1>4 DEF CutFrames, SealedPackets, SealedLife, Output

\* So do the verdicts that rest on them.
LEMMA WellKept ==
  ASSUME Durable, UNCHANGED world, DoneUpTo(35)
  PROVE  /\ \A o : WellSealed(o) => WellSealed(o)'
         /\ \A u : WellShown(u) => WellShown(u)'
<1>1. CutFrames' = CutFrames /\ SealedLife' = SealedLife
  BY SealedKept
<1>2. ASSUME NEW o, WellSealed(o) PROVE WellSealed(o)'
  BY <1>1, <1>2 DEF WellSealed, Contradicted
<1>3. ASSUME NEW u, WellShown(u) PROVE WellShown(u)'
  BY <1>1, <1>2, <1>3 DEF WellShown, WellProjected
<1> QED
  BY <1>2, <1>3

\* Attempts are only added to a task, so what could be selected still can be.
Later ==
  /\ world' = world /\ task.attempt \in Nat
  /\ task'.attempt \in {task.attempt, task.attempt + 1}

LEMMA TextsKept ==
  ASSUME Later
  PROVE  /\ SelectableTexts \subseteq SelectableTexts'
         /\ \A t : GoodText(t) => GoodText(t)'
<1>1. task.attempt > 1 => task'.attempt > 1
  BY DEF Later
<1>2. SelectableTexts \subseteq SelectableTexts'
  BY <1>1 DEF SelectableTexts, Later
<1> QED
  BY <1>2 DEF GoodText

\* A step that publishes nothing leaves what is published in agreement.
LEMMA PublishedKept ==
  ASSUME SnapshotInv, ReadInv, IndexInv, Durable, Later, UNCHANGED store
  PROVE  SnapshotInv' /\ ReadInv' /\ IndexInv'
<1>0. UNCHANGED <<world, store>>
  BY DEF Later
<1>1. SnapshotInv'
  <2>1. CASE store.snapshots = {}
    BY <2>1 DEF SnapshotInv
  <2>2. CASE store.snapshots # {}
    <3>1. DoneUpTo(35)
      BY <2>2 DEF SnapshotInv
    <3>2. \A sn \in store.snapshots : Verifies(sn.slots, sn.occs)' <=> Verifies(sn.slots, sn.occs)
      OBVIOUS
    <3>3. \A sn \in store.snapshots : \A o \in sn.occs : WellSealed(o)'
      BY <1>0, <3>1, WellKept DEF SnapshotInv
    <3> QED
      BY <1>0, <3>1, <3>3, SealedKept DEF SnapshotInv
  <2> QED
    BY <2>1, <2>2
<1>2. Published' = Published
  BY DEF Published
<1>3. ReadInv'
  <2>1. CASE ~ Published
    BY <2>1, <1>2 DEF ReadInv
  <2>2. CASE Published
    <3>1. DoneUpTo(36) /\ DoneUpTo(35)
      BY <2>2 DEF ReadInv, DoneUpTo
    <3>2. DoneUpTo(36)'
      BY <3>1 DEF DoneUpTo, Durable
    <3>3. \A u \in ToSet(store.read.units) : WellShown(u)'
      BY <1>0, <2>2, <3>1, WellKept DEF ReadInv
    <3>4. SelectableTexts \subseteq SelectableTexts'
      BY TextsKept
    <3> QED
      BY <1>0, <2>2, <3>1, <3>2, <3>3, <3>4, SealedKept DEF ReadInv
  <2> QED
    BY <2>1, <2>2
<1>4. IndexInv'
  <2>1. CASE store.index = {}
    BY <2>1 DEF IndexInv
  <2>2. CASE store.index # {}
    <3>1. Published /\ DoneUpTo(35)
      BY <2>2 DEF IndexInv, ReadInv, DoneUpTo
    <3>2. \A u \in store.index : WellShown(u)'
      BY <1>0, <3>1, WellKept DEF IndexInv
    <3> QED
      BY <1>0, <1>2, <3>1, <3>2, SealedKept DEF IndexInv
  <2> QED
    BY <2>1, <2>2
<1> QED
  BY <1>1, <1>3, <1>4

-----------------------------------------------------------------------------
\* Where the stages the invariant names stand.
LEMMA NamesAre ==
  /\ \A i \in 1..38 : Stages[i] \in StageNames
  /\ \A s \in StageNames : \E i \in 1..38 : s = Stages[i]
  /\ \A i \in 1..38 : /\ Stages[i] = "download" => i = 2
                      /\ Stages[i] = "semantic_segmentation" => i = 12
                      /\ Stages[i] \in TranscriptStages => i \in {3, 5, 6, 8, 9}
<1>1. /\ \A i \in 1..38 : Stages[i] \in StageNames
      /\ \A s \in StageNames : \E i \in 1..38 : s = Stages[i]
  BY StageTable DEF StageNames
<1>2. \A i \in 1..38 : /\ Stages[i] = "download" => i = 2
                       /\ Stages[i] = "semantic_segmentation" => i = 12
                       /\ Stages[i] \in TranscriptStages => i \in {3, 5, 6, 8, 9}
  BY Ranked DEF Rank, TranscriptStages
<1> QED
  BY <1>1, <1>2

\* The stages of the transcript belong to the graph.
LEMMA TranscriptNames == TranscriptStages \subseteq StageNames
<1>1. /\ Stages[3] \in StageNames /\ Stages[5] \in StageNames /\ Stages[6] \in StageNames
      /\ Stages[8] \in StageNames /\ Stages[9] \in StageNames
  BY NamesAre
<1> QED
  BY <1>1, StageTable DEF TranscriptStages

\* Checkpoints that are lost, while the receipts stay, leave the rows in agreement.
LEMMA RowsKept ==
  ASSUME RowsInv, Later, UNCHANGED receipts,
         \A s \in StageNames : ckpt'[s].status = "SUCCEEDED" => ckpt'[s] = ckpt[s]
  PROVE  RowsInv'
<1>1. \A s \in StageNames : ckpt'[s].status = "SUCCEEDED" =>
         receipts[s] # NoReceipt /\ receipts[s].out = ckpt'[s].out
  BY DEF RowsInv
<1>2. \A t : GoodText(t) => GoodText(t)'
  BY TextsKept
<1>3. /\ \A s \in StageNames :
           /\ "source" \in DOMAIN receipts[s].out <=> s = "download" /\ receipts[s] # NoReceipt
           /\ "semantic_segments" \in DOMAIN receipts[s].out
                <=> s = "semantic_segmentation" /\ receipts[s] # NoReceipt
           /\ "transcript" \in DOMAIN receipts[s].out => s \in TranscriptStages
      /\ \A s \in TranscriptStages \ {"transcript_candidate", "asr"} :
           receipts[s] # NoReceipt =>
             "transcript" \in DOMAIN receipts[s].out /\ GoodText(Output(s, "transcript"))
      /\ receipts["semantic_segmentation"] # NoReceipt =>
           /\ DoneUpTo(11)
           /\ Output("semantic_segmentation", "semantic_segments").spans = Spans
           /\ Output("semantic_segmentation", "semantic_segments").text
                = SlotsAfter(receipts, 11)["transcript"]
  BY DEF RowsInv
<1>4. DoneUpTo(11)' <=> DoneUpTo(11)
  BY DEF DoneUpTo, Done
<1>5. \A s : Output(s, "transcript")' = Output(s, "transcript")
  BY DEF Output
<1>6. Output("semantic_segmentation", "semantic_segments")'
        = Output("semantic_segmentation", "semantic_segments")
  BY DEF Output
<1> HIDE DEF RowsInv
<1>7. \A s \in TranscriptStages \ {"transcript_candidate", "asr"} :
           receipts'[s] # NoReceipt =>
             "transcript" \in DOMAIN receipts'[s].out /\ GoodText(Output(s, "transcript"))'
  <2> SUFFICES ASSUME NEW s \in TranscriptStages \ {"transcript_candidate", "asr"},
                      receipts'[s] # NoReceipt
               PROVE  "transcript" \in DOMAIN receipts'[s].out /\ GoodText(Output(s, "transcript"))'
    OBVIOUS
  <2>1. "transcript" \in DOMAIN receipts[s].out /\ GoodText(Output(s, "transcript"))
    BY <1>3
  <2>2. GoodText(Output(s, "transcript"))'
    <3>1. SelectableTexts \subseteq SelectableTexts'
      BY TextsKept
    <3> QED
      BY <2>1, <3>1 DEF GoodText, Output
  <2> QED
    BY <2>1, <2>2
<1> QED
  BY <1>1, <1>3, <1>4, <1>6, <1>7 DEF RowsInv

\* What a stage may put in its receipt.
Fits(s, out) ==
  /\ "source" \in DOMAIN out <=> s = "download"
  /\ "semantic_segments" \in DOMAIN out <=> s = "semantic_segmentation"
  /\ "transcript" \in DOMAIN out => s \in TranscriptStages
  /\ s \in TranscriptStages \ {"transcript_candidate", "asr"} =>
       "transcript" \in DOMAIN out /\ GoodText(out["transcript"])
  /\ s = "semantic_segmentation" =>
       /\ out["semantic_segments"].spans = Spans
       /\ out["semantic_segments"].text = mem.reg["transcript"]

\* A stage that fits leaves the rows in agreement.
LEMMA RowsAdvance ==
  ASSUME RowsInv, RegistryInv, NEW s \in StageNames, NEW m, NEW out, Advanced(s, m, out),
         At(s), Fits(s, out)
  PROVE  RowsInv'
<1>1. \A t \in StageNames : receipts[t] # NoReceipt => receipts'[t] = receipts[t]
  BY ReceiptsKept
<1>2. \A t : GoodText(t)' <=> GoodText(t)
  BY DEF GoodText, SelectableTexts, Advanced
<1>3. \A t \in StageNames : ckpt'[t].status = "SUCCEEDED" =>
         receipts'[t] # NoReceipt /\ receipts'[t].out = ckpt'[t].out
  BY <1>1 DEF RowsInv, Advanced
<1>4. \A t \in StageNames :
        /\ "source" \in DOMAIN receipts'[t].out <=> t = "download" /\ receipts'[t] # NoReceipt
        /\ "semantic_segments" \in DOMAIN receipts'[t].out
             <=> t = "semantic_segmentation" /\ receipts'[t] # NoReceipt
        /\ "transcript" \in DOMAIN receipts'[t].out => t \in TranscriptStages
  <2> SUFFICES ASSUME NEW t \in StageNames
               PROVE  /\ "source" \in DOMAIN receipts'[t].out
                            <=> t = "download" /\ receipts'[t] # NoReceipt
                      /\ "semantic_segments" \in DOMAIN receipts'[t].out
                            <=> t = "semantic_segmentation" /\ receipts'[t] # NoReceipt
                      /\ "transcript" \in DOMAIN receipts'[t].out => t \in TranscriptStages
    OBVIOUS
  <2>1. CASE t = s
    BY <2>1 DEF Fits, Advanced
  <2>2. CASE t # s
    BY <2>2 DEF RowsInv, Advanced
  <2> QED
    BY <2>1, <2>2
<1>5. \A t \in TranscriptStages \ {"transcript_candidate", "asr"} :
        receipts'[t] # NoReceipt =>
          "transcript" \in DOMAIN receipts'[t].out /\ GoodText(Output(t, "transcript"))'
  <2> SUFFICES ASSUME NEW t \in TranscriptStages \ {"transcript_candidate", "asr"},
                      receipts'[t] # NoReceipt
               PROVE  "transcript" \in DOMAIN receipts'[t].out
                        /\ GoodText(Output(t, "transcript"))'
    OBVIOUS
  <2>0. t \in StageNames
    BY TranscriptNames
  <2>1. CASE t = s
    <3>1. GoodText(out["transcript"]) /\ receipts'[t].out = out /\ "transcript" \in DOMAIN out
      BY <2>1 DEF Fits, Advanced
    <3>2. GoodText(Output(t, "transcript"))'
      BY <3>1 DEF GoodText, SelectableTexts, Advanced, Output
    <3> QED
      BY <3>1, <3>2
  <2>2. CASE t # s
    <3>1. receipts'[t] = receipts[t]
      BY <2>0, <2>2 DEF Advanced
    <3>2. "transcript" \in DOMAIN receipts[t].out /\ GoodText(Output(t, "transcript"))
      BY <3>1 DEF RowsInv
    <3>3. GoodText(Output(t, "transcript"))'
      BY <3>1, <3>2 DEF GoodText, SelectableTexts, Advanced, Output
    <3> QED
      BY <3>1, <3>2, <3>3
  <2> QED
    BY <2>1, <2>2
<1>6. ASSUME receipts'["semantic_segmentation"] # NoReceipt
      PROVE  /\ DoneUpTo(11)'
             /\ Output("semantic_segmentation", "semantic_segments")'.spans = Spans
             /\ Output("semantic_segmentation", "semantic_segments")'.text
                  = SlotsAfter(receipts', 11)["transcript"]
  <2> DEFINE seg == "semantic_segmentation"
  <2>0. Stages[12] = seg /\ seg \in StageNames
    BY StageTable DEF StageNames
  <2>1. CASE s # seg
    <3>1. receipts'[seg] = receipts[seg]
      BY <2>0, <2>1 DEF Advanced
    <3>2. /\ DoneUpTo(11)
          /\ Output(seg, "semantic_segments").spans = Spans
          /\ Output(seg, "semantic_segments").text = SlotsAfter(receipts, 11)["transcript"]
      BY <1>6, <3>1 DEF RowsInv
    <3>3. \A i \in 1..11 : receipts'[Stages[i]] = receipts[Stages[i]] /\ Done(i)'
      BY <3>2, ReceiptsKept DEF DoneUpTo
    <3>4. SlotsAfter(receipts', 11) = SlotsAfter(receipts, 11)
      <4>1. \A i \in 1..11 : receipts'[Stages[i]].out = receipts[Stages[i]].out
        BY <3>3
      <4> QED
        BY <4>1, SlotsAfterSame
    <3> QED
      BY <3>1, <3>2, <3>3, <3>4 DEF DoneUpTo, Output
  <2>2. CASE s = seg
    <3>1. pos = 12
      BY <2>2, AtRank DEF Rank
    <3>2. DoneUpTo(11) /\ mem.reg = SlotsAfter(receipts, 11)
      BY <3>1 DEF RegistryInv
    <3>3. \A i \in 1..11 : receipts'[Stages[i]] = receipts[Stages[i]] /\ Done(i)'
      BY <3>2, ReceiptsKept DEF DoneUpTo
    <3>4. SlotsAfter(receipts', 11) = SlotsAfter(receipts, 11)
      <4>1. \A i \in 1..11 : receipts'[Stages[i]].out = receipts[Stages[i]].out
        BY <3>3
      <4> QED
        BY <4>1, SlotsAfterSame
    <3>5. receipts'[seg].out = out
      BY <2>2 DEF Advanced
    <3> QED
      BY <2>2, <3>2, <3>3, <3>4, <3>5 DEF DoneUpTo, Output, Fits
  <2> QED
    BY <2>1, <2>2
<1> QED
  BY <1>3, <1>4, <1>5, <1>6 DEF RowsInv

\* How a stage leaves the active slots: with its outputs, or, while the transcript is
\* not selected, without the transcript it proposes.
Registers(m, out) ==
  \/ m.reg = Extended(mem.reg, out) /\ (pos = 6 => "transcript" \in DOMAIN out)
  \/ m.reg = mem.reg /\ DOMAIN out = {} /\ pos # 6
  \/ m.reg = mem.reg /\ DOMAIN out = {"transcript"} /\ pos < 6

\* Functions that agree but for the transcript agree after they are extended alike, ...
LEMMA AgreeExtended ==
  ASSUME NEW f, NEW g, NEW out, Extended(f, Unselected) = Extended(g, Unselected)
  PROVE  /\ Extended(Extended(f, out), Unselected) = Extended(Extended(g, out), Unselected)
         /\ "transcript" \in DOMAIN out => Extended(f, out) = Extended(g, out)
         /\ DOMAIN out = {"transcript"} =>
              Extended(f, Unselected) = Extended(Extended(g, out), Unselected)
<1> DEFINE others(h) == DOMAIN h \ {"transcript"}
<1>1. \A h : /\ DOMAIN Extended(h, Unselected) = DOMAIN h \cup {"transcript"}
             /\ \A k \in others(h) : Extended(h, Unselected)[k] = h[k]
  BY DEF Extended, Unselected
<1>2. others(f) = others(g)
  <2>1. DOMAIN f \cup {"transcript"} = DOMAIN g \cup {"transcript"}
    BY <1>1
  <2> QED
    BY <2>1
<1>3. \A k \in others(f) : f[k] = g[k]
  BY <1>1, <1>2
<1>4. \A h, e : (others(h) = others(e) /\ \A k \in others(h) : h[k] = e[k])
                  => Extended(h, Unselected) = Extended(e, Unselected)
  BY DEF Extended, Unselected
<1>5. others(Extended(f, out)) = others(Extended(g, out))
  BY <1>2 DEF Extended
<1>6. \A k \in others(Extended(f, out)) : Extended(f, out)[k] = Extended(g, out)[k]
  BY <1>2, <1>3 DEF Extended
<1>7. Extended(Extended(f, out), Unselected) = Extended(Extended(g, out), Unselected)
  <2> HIDE DEF others
  <2> QED
    BY <1>4, <1>5, <1>6
<1>8. ASSUME "transcript" \in DOMAIN out PROVE Extended(f, out) = Extended(g, out)
  BY <1>2, <1>3, <1>8 DEF Extended
<1>9. ASSUME DOMAIN out = {"transcript"}
      PROVE  Extended(f, Unselected) = Extended(Extended(g, out), Unselected)
  <2>1. others(Extended(g, out)) = others(g)
    BY <1>9 DEF Extended
  <2>2. \A k \in others(g) : Extended(g, out)[k] = g[k]
    BY <1>9 DEF Extended
  <2> QED
    BY <2>1, <2>2, <1>2, <1>3, <1>4
<1> QED
  BY <1>7, <1>8, <1>9

\* A stage that registers nothing leaves the slots of its receipts as they were.
LEMMA ExtendedByNone ==
  ASSUME NEW rows, NEW n, NEW out, DOMAIN out = {}
  PROVE  Extended(SlotsAfter(rows, n), out) = SlotsAfter(rows, n)
BY DEF Extended, SlotsAfter

\* The active slots keep to the receipts.
LEMMA RegistryAdvance ==
  ASSUME Shape, RegistryInv, NEW s, NEW m, NEW out, At(s), Advanced(s, m, out),
         Registers(m, out)
  PROVE  RegistryInv'
<1>1. pos \in 1..38 /\ s = Stages[pos] /\ s \in StageNames
  BY AtRank
<1>2. pos' = pos + 1 /\ pos' - 1 = pos /\ (pos - 1) + 1 = pos /\ pos - 1 \in Nat
  BY <1>1 DEF Advanced
<1>3. \A i \in 1..(pos - 1) : receipts'[Stages[i]] = receipts[Stages[i]] /\ Done(i)'
  BY <1>1, ReceiptsKept DEF RegistryInv, DoneUpTo
<1>4. \A i \in 1..pos : Done(i)'
  <2>1. receipts'[Stages[pos]] # NoReceipt
    BY <1>1 DEF Advanced
  <2>2. \A i \in 1..pos : i = pos \/ i \in 1..(pos - 1)
    BY <1>1
  <2> QED
    BY <2>1, <2>2, <1>3 DEF Done
<1>5. DoneUpTo(pos - 1)'
  BY <1>2, <1>4 DEF DoneUpTo
<1> DEFINE old == SlotsAfter(receipts, pos - 1)
           new == SlotsAfter(receipts', pos)
<1>6. new = Extended(old, out)
  <2>1. SlotsAfter(receipts', pos - 1) = old
    <3>1. \A i \in 1..(pos - 1) : receipts'[Stages[i]].out = receipts[Stages[i]].out
      BY <1>3
    <3> QED
      BY <1>2, <3>1, SlotsAfterSame
  <2>2. receipts'[Stages[pos]].out = out
    BY <1>1 DEF Advanced
  <2>3. new = Extended(SlotsAfter(receipts', pos - 1), receipts'[Stages[pos]].out)
    BY <1>2, SlotsAfterNext
  <2> QED
    BY <2>1, <2>2, <2>3
<1>7. DOMAIN out = {} => Extended(old, out) = old
  BY ExtendedByNone
<1>8. /\ Extended(mem.reg, Unselected) = Extended(old, Unselected)
      /\ pos > 6 => mem.reg = old
  BY <1>1 DEF RegistryInv
<1> HIDE DEF old, new
<1>9. /\ Extended(m.reg, Unselected) = Extended(new, Unselected)
      /\ pos > 5 => m.reg = new
  <2>1. CASE m.reg = Extended(mem.reg, out) /\ (pos = 6 => "transcript" \in DOMAIN out)
    <3>1. pos > 5 => m.reg = new
      <4>1. CASE pos = 6
        BY <4>1, <2>1, <1>6, <1>8, AgreeExtended
      <4>2. CASE pos > 6
        BY <4>2, <2>1, <1>6, <1>8
      <4> QED
        BY <4>1, <4>2, <1>1
    <3> QED
      BY <2>1, <3>1, <1>6, <1>8, AgreeExtended
  <2>2. CASE m.reg = mem.reg /\ DOMAIN out = {} /\ pos # 6
    <3>1. new = old
      BY <2>2, <1>6, <1>7
    <3>2. pos > 5 => pos > 6
      BY <2>2, <1>1
    <3> QED
      BY <2>2, <3>1, <3>2, <1>8
  <2>3. CASE m.reg = mem.reg /\ DOMAIN out = {"transcript"} /\ pos < 6
    BY <2>3, <1>1, <1>6, <1>8, AgreeExtended
  <2> QED
    BY <2>1, <2>2, <2>3 DEF Registers
<1>10. mem' = m
  BY DEF Advanced
<1>11. /\ pos' > 0 => Extended(mem'.reg, Unselected)
                         = Extended(SlotsAfter(receipts', pos' - 1), Unselected)
       /\ pos' > 6 => mem'.reg = SlotsAfter(receipts', pos' - 1)
  BY <1>1, <1>2, <1>9, <1>10 DEF new
<1>12. Unselected' = Unselected
  BY DEF Unselected
<1> QED
  BY <1>5, <1>11, <1>12 DEF RegistryInv

-----------------------------------------------------------------------------
\* What is claimed of an attempt's memory.
MemoryInv == RegistryInv /\ SourceInv /\ ChainInv /\ OccurrenceInv

\* When no attempt is under way its memory is that of a new one.
LEMMA NothingRemembered ==
  ASSUME pos' \in {0, 1}, mem' = FreshContext, Shape'
  PROVE  MemoryInv'
<1>1. pos' \in Int /\ pos' < 2 /\ pos' > -1
  OBVIOUS
<1>2. RegistryInv'
  <2>1. \A i \in 1..(pos' - 1) : FALSE
    <3>1. CASE pos' = 0
      BY <3>1
    <3>2. CASE pos' = 1
      BY <3>2
    <3> QED
      BY <3>1, <3>2
  <2>2. DoneUpTo(pos - 1)'
    BY <2>1 DEF DoneUpTo
  <2>3. ASSUME pos' > 0
        PROVE  Extended(mem'.reg, Unselected')
                 = Extended(SlotsAfter(receipts', pos' - 1), Unselected')
    <3>1. pos' - 1 = 0
      BY <1>1, <2>3
    <3>2. 1..0 = {}
      OBVIOUS
    <3>3. DOMAIN SlotsAfter(receipts', 0) = {}
      BY <3>2 DEF SlotsAfter
    <3>4. DOMAIN FreshContext.reg = {}
      BY DEF FreshContext, NoOutput
    <3> QED
      BY <3>1, <3>3, <3>4 DEF Extended
  <2> QED
    BY <1>1, <2>2, <2>3 DEF RegistryInv
<1>3. SourceInv'
  BY <1>1 DEF SourceInv, SourceOf, SourceNow, FreshContext
<1>4. ChainInv'
  <2>1. << >> \in Seq(Draft)
    OBVIOUS
  <2> QED
    BY <1>1, <2>1 DEF ChainInv, ChainOf, Cut, Checked, Aligned, Anchored, Grounded, Canonical,
                      FreshContext, NoClaims, Chain
<1>5. OccurrenceInv'
  <2>1. ~(pos' \in 31..33)
    BY <1>1
  <2> QED
    BY <1>1, <2>1 DEF OccurrenceInv, OccurrencesOf, Sealed, Paired, Provisional, Judged, ReadFirst
<1> QED
  BY <1>2, <1>3, <1>4, <1>5 DEF MemoryInv

\* A new context has the fields of one.
LEMMA FreshShape == DOMAIN FreshContext = MemFields /\ DOMAIN FreshContext.claims = ChainFields
BY DEF FreshContext, NoClaims, MemFields, ChainFields

\* The queue's row through a failed attempt.
LEMMA TaskOfEnd ==
  ASSUME TaskInv, task.state = "PENDING", task.retries < MaxRetries, EndAttempt,
         pos # 0 \/ Records # {}
  PROVE  TaskInv' /\ task'.attempt = task.attempt
<1>1. MaxRetries \in Nat /\ task.retries \in 0..MaxRetries
  BY PipelineAssumption DEF TaskInv
<1>2. task.retries + 1 \in 0..MaxRetries
  BY <1>1
<1>3. /\ DOMAIN task' = {"state", "retries", "attempt"} /\ task'.retries = task.retries + 1
      /\ task'.state = IF task.retries + 1 >= MaxRetries THEN "FAILED" ELSE task.state
      /\ task'.attempt = task.attempt /\ task.attempt \in Nat /\ task.attempt > 0
  BY DEF EndAttempt, TaskInv
<1>4. pos' = 0
  BY DEF EndAttempt
<1> QED
  BY <1>2, <1>3, <1>4 DEF TaskInv

\* A failed stage leaves its row without success.
LEMMA FailedRow ==
  ASSUME Shape, NEW s \in StageNames, NEW row, row.status # "SUCCEEDED",
         ckpt' = [ckpt EXCEPT ![s] = row]
  PROVE  /\ DOMAIN ckpt' = DOMAIN ckpt
         /\ \A t \in StageNames : ckpt'[t].status = "SUCCEEDED" => ckpt'[t] = ckpt[t]
BY DEF Shape

\* Where an attempt is over, or has not done anything yet, all that is recorded
\* and published stays in agreement.
LEMMA IdleKeeps ==
  ASSUME PipelineInv, pos' \in {0, 1}, mem' = FreshContext, faults' \in Nat,
         UNCHANGED <<world, receipts, store>>, DOMAIN ckpt' = DOMAIN ckpt,
         \A s \in StageNames : ckpt'[s].status = "SUCCEEDED" => ckpt'[s] = ckpt[s],
         TaskInv', task'.attempt \in {task.attempt, task.attempt + 1}
  PROVE  PipelineInv'
<1>0. Later
  BY DEF PipelineInv, TaskInv, Later
<1>1. Shape'
  BY FreshShape DEF PipelineInv, Shape
<1>2. MemoryInv'
  BY <1>1, NothingRemembered
<1>3. RowsInv'
  BY <1>0, RowsKept DEF PipelineInv
<1>4. Durable
  BY DEF Durable, Done
<1>5. SnapshotInv' /\ ReadInv' /\ IndexInv'
  BY <1>0, <1>4, PublishedKept DEF PipelineInv
<1> QED
  BY <1>1, <1>2, <1>3, <1>5 DEF PipelineInv, MemoryInv

\* An attempt that ends leaves all of it in agreement.
LEMMA EndedKeeps ==
  ASSUME PipelineInv, Ended, faults' \in Nat, TaskInv', task'.attempt = task.attempt
  PROVE  PipelineInv'
BY IdleKeeps DEF Ended

\* A stage that raises.
LEMMA RaiseKeeps ==
  ASSUME PipelineInv, NEW s, At(s), Raise(s)
  PROVE  PipelineInv'
<1>1. pos # 0 /\ s \in StageNames
  BY AtRank
<1>2. Ended
  BY <1>1, RaiseEnds DEF PipelineInv
<1>3. TaskInv' /\ task'.attempt = task.attempt
  <2>1. task.state = "PENDING" /\ task.retries < MaxRetries
    BY <1>1 DEF PipelineInv, TaskInv
  <2> QED
    BY <1>1, <2>1, TaskOfEnd DEF PipelineInv, Raise
<1>4. faults' \in Nat
  BY DEF PipelineInv, Shape, Raise
<1> QED
  BY <1>2, <1>3, <1>4, EndedKeeps

\* A stage that commits: what is left to say is its own.
LEMMA CommitKeeps ==
  ASSUME PipelineInv, NEW s, At(s), NEW m, NEW out, Commit(s, m, out),
         DOMAIN m = MemFields, DOMAIN m.claims = ChainFields,
         Fits(s, out), Registers(m, out),
         Advanced(s, m, out) /\ RowsInv' /\ RegistryInv' => SourceInv' /\ ChainInv' /\ OccurrenceInv'
  PROVE  PipelineInv'
<1>1. pos \in 1..38 /\ s \in StageNames
  BY AtRank
<1>2. task.state = "PENDING" /\ task.retries < MaxRetries
  BY <1>1 DEF PipelineInv, TaskInv
<1>3. CASE Ended
  <2>1. faults' \in Nat
    BY DEF PipelineInv, Shape, Commit
  <2>2. TaskInv' /\ task'.attempt = task.attempt
    <3>1. CASE EndAttempt
      BY <1>1, <1>2, <3>1, TaskOfEnd DEF PipelineInv
    <3>2. CASE UNCHANGED task
      BY <1>1, <1>3, <3>2 DEF Ended, PipelineInv, TaskInv
    <3> QED
      BY <3>1, <3>2 DEF Commit
  <2> QED
    BY <1>3, <2>1, <2>2, EndedKeeps
<1>4. CASE Advanced(s, m, out)
  <2>1. Shape'
    BY <1>1, <1>4 DEF PipelineInv, Shape, Advanced
  <2>2. TaskInv'
    BY <1>1, <1>2, <1>4 DEF PipelineInv, TaskInv, Advanced
  <2>3. RowsInv'
    BY <1>1, <1>4, RowsAdvance DEF PipelineInv
  <2>4. RegistryInv'
    BY <1>4, RegistryAdvance DEF PipelineInv
  <2>5. Durable
    BY <1>4, ReceiptsKept DEF Durable
  <2>6. SnapshotInv' /\ ReadInv' /\ IndexInv'
    <3>1. Later /\ UNCHANGED store
      BY <1>4 DEF Advanced, PipelineInv, TaskInv, Later
    <3> QED
      BY <2>5, <3>1, PublishedKept DEF PipelineInv
  <2> QED
    BY <1>4, <2>1, <2>2, <2>3, <2>4, <2>6 DEF PipelineInv
<1> QED
  BY <1>1, <1>3, <1>4, CommitOutcome DEF PipelineInv

\* The invariant holds in the beginning.
LEMMA InitHolds ==
  ASSUME Init PROVE PipelineInv
<1>1. world \in World /\ MaxRetries \in Nat /\ world.faults \in Nat
  BY PipelineAssumption DEF Init, World
<1>2. Shape
  BY <1>1, FreshShape DEF Init, Shape, NothingPublished, StoreFields
<1>3. TaskInv
  <2>1. Records = {}
    BY DEF Init, Records, NoCheckpoint
  <2> QED
    BY <1>1, <2>1 DEF Init, TaskInv
<1>4. \A s \in StageNames : receipts[s] = NoReceipt /\ ckpt[s].status # "SUCCEEDED"
  BY DEF Init, NoCheckpoint
<1>5. RowsInv
  <2>1. "semantic_segmentation" \in StageNames
    <3>1. Stages[12] \in StageNames
      BY NamesAre
    <3> QED
      BY <3>1, StageTable
  <2>2. DOMAIN NoReceipt.out = {}
    BY DEF NoReceipt, NoOutput
  <2> QED
    BY <1>4, <2>1, <2>2, TranscriptNames DEF RowsInv
<1>6. RegistryInv
  <2>1. \A i \in 1..(pos - 1) : FALSE
    BY DEF Init
  <2> QED
    BY <2>1 DEF RegistryInv, DoneUpTo, Init
<1>7. SourceInv
  BY DEF Init, SourceInv, SourceOf, SourceNow, FreshContext
<1>8. ChainInv
  <2>1. << >> \in Seq(Draft)
    OBVIOUS
  <2>2. pos = 0 /\ mem = FreshContext
    BY DEF Init
  <2>3. Chain.theses = << >> /\ Chain.drafts = << >>
    BY <2>2 DEF FreshContext, NoClaims, Chain
  <2> QED
    BY <2>1, <2>2, <2>3 DEF ChainInv, ChainOf, Cut, Checked, Aligned, Anchored, Grounded, Canonical
<1>9. OccurrenceInv
  BY DEF Init, OccurrenceInv, OccurrencesOf, Sealed, Paired, Provisional, Judged, ReadFirst
<1>10. SnapshotInv /\ ReadInv /\ IndexInv
  BY DEF Init, SnapshotInv, ReadInv, IndexInv, NothingPublished, Published
<1> QED
  BY <1>2, <1>3, <1>5, <1>6, <1>7, <1>8, <1>9, <1>10 DEF PipelineInv

\* The last stage is passed.
LEMMA FinishKeeps ==
  ASSUME PipelineInv, Finish PROVE PipelineInv'
<1>1. TaskInv' /\ task'.attempt = task.attempt
  BY DEF PipelineInv, TaskInv, Finish
<1> QED
  BY <1>1, IdleKeeps DEF Finish, PipelineInv, Shape

\* The process dies.
LEMMA DieKeeps ==
  ASSUME PipelineInv, Die PROVE PipelineInv'
<1>1. TaskInv' /\ task'.attempt = task.attempt
  BY DEF PipelineInv, TaskInv, Die
<1>2. faults' \in Nat
  BY DEF PipelineInv, Shape, Die
<1> QED
  BY <1>1, <1>2, IdleKeeps DEF Die

\* The stage is failed from outside.
LEMMA OutsideFailureKeeps ==
  ASSUME PipelineInv, OutsideFailure PROVE PipelineInv'
<1>1. pos \in 1..38 /\ Stages[pos] \in StageNames
  BY StageTable, NamesAre DEF OutsideFailure
<1>2. task.state = "PENDING" /\ task.retries < MaxRetries
  BY <1>1 DEF PipelineInv, TaskInv
<1>3. TaskInv' /\ task'.attempt = task.attempt
  BY <1>1, <1>2, TaskOfEnd DEF PipelineInv, OutsideFailure
<1>4. faults' \in Nat
  BY DEF PipelineInv, Shape, OutsideFailure
<1>5. /\ DOMAIN ckpt' = DOMAIN ckpt
      /\ \A t \in StageNames : ckpt'[t].status = "SUCCEEDED" => ckpt'[t] = ckpt[t]
  BY <1>1, FailedRow DEF PipelineInv, OutsideFailure
<1>6. pos' = 0 /\ mem' = FreshContext /\ UNCHANGED <<world, receipts, store>>
  BY DEF OutsideFailure, EndAttempt
<1> QED
  BY <1>3, <1>4, <1>5, <1>6, IdleKeeps

\* Nothing happens.
LEMMA NothingKeeps ==
  ASSUME PipelineInv, UNCHANGED vars PROVE PipelineInv'
<1>0. Later
  BY DEF PipelineInv, TaskInv, Later, vars
<1>1. Shape' /\ TaskInv' /\ RegistryInv'
  BY DEF PipelineInv, Shape, TaskInv, Records, RegistryInv, vars, DoneUpTo, Done
<1>2. SourceInv'
  BY DEF PipelineInv, SourceInv, SourceOf, SourceNow, vars, Output, GoodText, SelectableTexts
<1>3. ChainInv'
  BY DEF PipelineInv, ChainInv, ChainOf, Cut, Checked, Aligned, Anchored, Grounded, Canonical,
         vars, Chain, CutFrames, SlotsOf
<1>4. OccurrenceInv'
  BY DEF PipelineInv, OccurrenceInv, OccurrencesOf, Sealed, Paired, Provisional, Judged, ReadFirst,
         Published, vars, Chain, WellSealed, Contradicted, CutFrames, SlotsOf,
         SealedPackets, SealedLife, WellProjected, Output
<1>5. RowsInv'
  BY <1>0, RowsKept DEF PipelineInv, vars
<1>6. Durable /\ UNCHANGED <<world, store>>
  BY DEF Durable, Done, vars
<1>7. SnapshotInv' /\ ReadInv' /\ IndexInv'
  BY <1>0, <1>6, PublishedKept DEF PipelineInv
<1> QED
  BY <1>1, <1>2, <1>3, <1>4, <1>5, <1>7 DEF PipelineInv

\* What the rows say of the slots after the first stages.
LEMMA SourceAfter ==
  ASSUME RowsInv, NEW n \in 2..38, DoneUpTo(n)
  PROVE  /\ "source" \in DOMAIN SlotsAfter(receipts, n)
         /\ SlotsAfter(receipts, n)["source"] = Output("download", "source")
<1>1. Done(2) /\ Stages[2] = "download" /\ "download" \in StageNames
  BY StageTable, NamesAre DEF DoneUpTo
<1>2. "source" \in DOMAIN receipts[Stages[2]].out
  BY <1>1 DEF RowsInv, Done
<1>3. 2 \in Fillers(receipts, n, "source")
  BY <1>2 DEF Fillers
<1>4. \A i \in Fillers(receipts, n, "source") : i = 2
  <2> SUFFICES ASSUME NEW i \in Fillers(receipts, n, "source") PROVE i = 2
    OBVIOUS
  <2>1. i \in 1..38 /\ "source" \in DOMAIN receipts[Stages[i]].out
    BY DEF Fillers
  <2>2. Stages[i] \in StageNames
    BY <2>1, NamesAre
  <2>3. Stages[i] = "download"
    BY <2>1, <2>2 DEF RowsInv
  <2> QED
    BY <2>1, <2>3, NamesAre
<1>5. LastFiller(receipts, n, "source") = 2
  BY <1>3, <1>4, LastFillerIs
<1>6. "source" \in DOMAIN SlotsAfter(receipts, n)
  BY <1>3, SlotsAfterDomain
<1> QED
  BY <1>1, <1>5, <1>6 DEF SlotsAfter, Output

\* From the selection on the slots hold a text that passed it, ...
LEMMA TextAfter ==
  ASSUME RowsInv, NEW n \in 6..38, DoneUpTo(n)
  PROVE  /\ "transcript" \in DOMAIN SlotsAfter(receipts, n)
         /\ GoodText(SlotsAfter(receipts, n)["transcript"])
<1> DEFINE last == LastFiller(receipts, n, "transcript")
<1>1. Done(6) /\ Stages[6] = "transcript_selection"
  BY StageTable DEF DoneUpTo
<1>2. "transcript" \in DOMAIN receipts[Stages[6]].out
  BY <1>1 DEF RowsInv, Done, TranscriptStages
<1>3. 6 \in Fillers(receipts, n, "transcript")
  BY <1>2 DEF Fillers
<1>4. last \in Fillers(receipts, n, "transcript") /\ 6 <= last
  BY <1>3, LastFillerIs
<1>5. last \in 1..n /\ last \in 1..38 /\ "transcript" \in DOMAIN receipts[Stages[last]].out
  BY <1>4 DEF Fillers
<1>6. Stages[last] \in StageNames
  BY <1>5, NamesAre
<1>7. Stages[last] \in TranscriptStages
  BY <1>5, <1>6 DEF RowsInv
<1>8. last \in {6, 8, 9}
  <2>1. last \in {3, 5, 6, 8, 9}
    BY <1>5, <1>7, NamesAre
  <2> QED
    BY <2>1, <1>4
<1>9. Stages[last] \in TranscriptStages \ {"transcript_candidate", "asr"}
  <2>1. /\ Stages[6] = "transcript_selection" /\ Stages[8] = "diarization"
        /\ Stages[9] = "transcript_postprocess"
    BY StageTable
  <2> HIDE DEF last
  <2> QED
    BY <1>7, <1>8, <2>1
<1>10. GoodText(Output(Stages[last], "transcript"))
  <2>1. receipts[Stages[last]] # NoReceipt
    BY <1>5 DEF DoneUpTo, Done
  <2> QED
    BY <1>9, <2>1 DEF RowsInv
<1>11. "transcript" \in DOMAIN SlotsAfter(receipts, n)
  BY <1>3, SlotsAfterDomain
<1>12. SlotsAfter(receipts, n)["transcript"] = receipts[Stages[last]].out["transcript"]
  BY <1>11 DEF SlotsAfter
<1> QED
  BY <1>10, <1>11, <1>12 DEF Output

\* ... and from the segmentation on the segments of that text.
LEMMA SegmentsAfter ==
  ASSUME RowsInv, DoneUpTo(12)
  PROVE  LET slots == SlotsAfter(receipts, 12) IN
         /\ "semantic_segments" \in DOMAIN slots
         /\ slots["semantic_segments"].spans = Spans
         /\ slots["semantic_segments"].text = slots["transcript"]
<1> DEFINE seg == "semantic_segmentation"
           before == SlotsAfter(receipts, 11)
           out == receipts[seg].out
<1>1. Done(12) /\ Stages[12] = seg /\ seg \in StageNames
  BY StageTable, NamesAre DEF DoneUpTo
<1>2. SlotsAfter(receipts, 12) = Extended(before, out)
  <2>1. SlotsAfter(receipts, 11 + 1)
          = Extended(SlotsAfter(receipts, 11), receipts[Stages[11 + 1]].out)
    BY SlotsAfterNext
  <2> QED
    BY <2>1, <1>1
<1>3. /\ "semantic_segments" \in DOMAIN out /\ "transcript" \notin DOMAIN out
      /\ out["semantic_segments"].spans = Spans
      /\ out["semantic_segments"].text = before["transcript"]
  BY <1>1 DEF RowsInv, Done, Output, TranscriptStages
<1>4. "transcript" \in DOMAIN before
  <2>1. DoneUpTo(11)
    BY DEF DoneUpTo
  <2> QED
    BY <2>1, TextAfter
<1> HIDE DEF before, out
<1> QED
  BY <1>2, <1>3, <1>4 DEF Extended

\* A resume begins at the first stage without a successful checkpoint, before the
\* claims at the latest.
LEMMA FirstIs ==
  /\ FirstToRun \in 1..13
  /\ \A j \in 1..(FirstToRun - 1) : Skippable(j)
<1> DEFINE others == {i \in 1..13 : ~ Skippable(i)}
<1>1. 13 \in others
  BY StageTable DEF Skippable, Restorable
<1>2. PICK i \in others : \A j \in others : i <= j
  <2>1. others \in SUBSET Nat /\ others # {}
    BY <1>1
  <2> HIDE DEF others
  <2> QED
    BY <2>1, LeastNatural
<1>3. i \in DOMAIN Stages /\ ~ Skippable(i) /\ \A j \in 1..(i - 1) : Skippable(j)
  BY <1>2, StageTable
<1>4. /\ FirstToRun \in DOMAIN Stages /\ ~ Skippable(FirstToRun)
      /\ \A j \in 1..(FirstToRun - 1) : Skippable(j)
  BY <1>3 DEF FirstToRun
<1>5. FirstToRun \in 1..38
  BY <1>4, StageTable
<1>6. ~ Skippable(13)
  BY <1>1
<1>7. ~(FirstToRun > 13)
  BY <1>4, <1>5, <1>6
<1> QED
  BY <1>4, <1>5, <1>7

\* What is restored is what the receipts of the skipped stages hold.
LEMMA RestoredAgrees ==
  ASSUME RowsInv
  PROVE  /\ DoneUpTo(FirstToRun - 1)
         /\ RestoredSlots = SlotsAfter(receipts, FirstToRun - 1)
<1>1. FirstToRun - 1 \in 0..12
  BY FirstIs
<1>2. \A i \in 1..(FirstToRun - 1) :
        Done(i) /\ ckpt[Stages[i]].out = receipts[Stages[i]].out
  <2> SUFFICES ASSUME NEW i \in 1..(FirstToRun - 1)
               PROVE  Done(i) /\ ckpt[Stages[i]].out = receipts[Stages[i]].out
    OBVIOUS
  <2>1. ckpt[Stages[i]].status = "SUCCEEDED"
    BY FirstIs DEF Skippable
  <2>2. Stages[i] \in StageNames
    BY <1>1, NamesAre
  <2> QED
    BY <2>1, <2>2 DEF RowsInv, Done
<1>3. \A i \in 1..(FirstToRun - 1) : ckpt[Stages[i]].out = receipts[Stages[i]].out
  BY <1>2
<1> QED
  BY <1>1, <1>2, <1>3, SlotsAfterSame DEF DoneUpTo, RestoredSlots

\* What a resume brings back, field by field.
LEMMA RestoredShape ==
  /\ DOMAIN RestoredContext = MemFields /\ RestoredContext.claims = NoClaims
  /\ RestoredContext.reg = RestoredSlots /\ RestoredContext.tracks = {}
  /\ RestoredContext.cands \in {{}, {world.asr}}
  /\ "source" \in DOMAIN RestoredSlots => RestoredContext.meta = RestoredSlots["source"]
  /\ "transcript" \in DOMAIN RestoredSlots =>
        /\ RestoredContext.report = RestoredSlots["transcript"].gate
        /\ RestoredContext.video = RestoredContext.meta
<1>1. /\ DOMAIN FreshContext = MemFields /\ FreshContext.claims = NoClaims
      /\ FreshContext.tracks = {}
  BY FreshShape DEF FreshContext
<1> HIDE DEF FreshContext
<1> QED
  BY <1>1 DEF RestoredContext, MemFields

\* An attempt that resumes remembers what the receipts of the stages it skips say.
LEMMA ResumeRemembers ==
  ASSUME RowsInv, pos' = FirstToRun, mem' = RestoredContext, UNCHANGED <<world, ckpt, receipts>>,
         Later, task'.attempt > 1
  PROVE  MemoryInv'
<1> DEFINE n == FirstToRun - 1
           slots == SlotsAfter(receipts, n)
<1>1. n \in 0..12 /\ pos' = n + 1 /\ pos' \in 1..13 /\ DoneUpTo(n) /\ RestoredSlots = slots
  BY FirstIs, RestoredAgrees
<1>2. SlotsAfter(receipts', n) = slots /\ pos' - 1 = n
  BY <1>1
<1>3. mem'.reg = slots
  BY <1>1, RestoredShape
<1>4. RegistryInv'
  <2>1. DoneUpTo(pos - 1)'
    BY <1>1, <1>2 DEF DoneUpTo, Done
  <2> QED
    BY <1>2, <1>3, <2>1 DEF RegistryInv
<1> HIDE DEF n, slots
<1>5. SourceInv'
  <2>1. ASSUME pos' > 2
        PROVE  "source" \in DOMAIN mem'.reg /\ mem'.meta = Output("download", "source")
    <3>1. n \in 2..38
      BY <1>1, <2>1
    <3>2. "source" \in DOMAIN slots /\ slots["source"] = Output("download", "source")
      BY <1>1, <3>1, SourceAfter DEF slots
    <3> QED
      BY <1>1, <1>3, <3>2, RestoredShape
  <2>2. ASSUME pos' > 6
        PROVE  /\ "transcript" \in DOMAIN mem'.reg /\ GoodText(mem'.reg["transcript"])
               /\ mem'.report = "PASS" /\ mem'.video = mem'.meta
    <3>1. n \in 6..38
      BY <1>1, <2>2
    <3>2. "transcript" \in DOMAIN slots /\ GoodText(slots["transcript"])
      BY <1>1, <3>1, TextAfter DEF slots
    <3> QED
      BY <1>1, <1>3, <3>2, RestoredShape DEF GoodText
  <2>3. ASSUME pos' > 12
        PROVE  /\ "semantic_segments" \in DOMAIN mem'.reg
               /\ mem'.reg["semantic_segments"].spans = Spans
               /\ mem'.reg["semantic_segments"].text = mem'.reg["transcript"]
    <3>1. n = 12
      BY <1>1, <2>3
    <3> QED
      BY <1>1, <1>3, <3>1, SegmentsAfter DEF slots
  <2>4. mem'.tracks = {} /\ mem'.cands \in {{}, {world.asr}}
    BY RestoredShape
  <2>5. Output("download", "source")' = Output("download", "source")
    BY DEF Output
  <2>6. GoodText(mem'.reg["transcript"]) => GoodText(mem.reg["transcript"])'
    BY TextsKept DEF GoodText
  <2>7. ~(task'.attempt < 2)
    BY DEF Later
  <2> QED
    BY <1>1, <2>1, <2>2, <2>3, <2>4, <2>5, <2>6, <2>7 DEF SourceInv, SourceOf, SourceNow
<1>6. Chain' = NoClaims
  BY RestoredShape DEF Chain
<1>7. ChainInv'
  <2>1. << >> \in Seq(Draft)
    OBVIOUS
  <2>2. Chain.theses' = << >> /\ Chain.drafts' = << >>
    BY <1>6 DEF NoClaims
  <2> QED
    BY <1>1, <2>1, <2>2 DEF ChainInv, ChainOf, Cut, Checked, Aligned, Anchored, Grounded, Canonical
<1>8. OccurrenceInv'
  <2>1. ~(pos' \in 31..33)
    BY <1>1
  <2> QED
    BY <1>1, <2>1 DEF OccurrenceInv, OccurrencesOf, Sealed, Paired, Provisional, Judged, ReadFirst
<1> QED
  BY <1>4, <1>5, <1>7, <1>8 DEF MemoryInv

\* An attempt starts, first or resumed, or is refused its resume.
LEMMA ClaimKeeps ==
  ASSUME PipelineInv, Claim PROVE PipelineInv'
<1>1. /\ task.state = "PENDING" /\ task.retries < MaxRetries
      /\ UNCHANGED <<world, ckpt, receipts, store, faults>>
  BY DEF Claim
<1>2. faults' \in Nat
  BY <1>1 DEF PipelineInv, Shape
<1>3. CASE pos' = 1 /\ mem' = FreshContext /\ task' = [task EXCEPT !.attempt = @ + 1]
  <2>1. TaskInv' /\ task'.attempt = task.attempt + 1
    BY <1>1, <1>3 DEF PipelineInv, TaskInv
  <2> QED
    BY <1>1, <1>2, <1>3, <2>1, IdleKeeps
<1>4. CASE Records # {} /\ EndAttempt
  <2>1. TaskInv' /\ task'.attempt = task.attempt
    BY <1>1, <1>4, TaskOfEnd DEF PipelineInv
  <2>2. pos' = 0 /\ mem' = FreshContext
    BY <1>4 DEF EndAttempt
  <2> QED
    BY <1>1, <1>2, <2>1, <2>2, IdleKeeps
<1>5. CASE Records # {} /\ pos' = FirstToRun /\ mem' = RestoredContext
             /\ task' = [task EXCEPT !.attempt = @ + 1]
  <2>1. /\ TaskInv' /\ task.attempt \in Nat /\ task.attempt > 0
        /\ task'.attempt = task.attempt + 1
    BY <1>1, <1>5 DEF PipelineInv, TaskInv
  <2>7. Later /\ task'.attempt > 1
    BY <1>1, <2>1 DEF Later
  <2>2. Shape'
    <3>1. pos' \in 0..39
      BY <1>5, FirstIs
    <3>2. DOMAIN mem' = MemFields /\ DOMAIN mem'.claims = ChainFields
      BY <1>5, RestoredShape DEF NoClaims, ChainFields
    <3> QED
      BY <1>1, <1>2, <3>1, <3>2 DEF PipelineInv, Shape
  <2>3. MemoryInv'
    BY <1>1, <1>5, <2>7, ResumeRemembers DEF PipelineInv
  <2>4. RowsInv'
    BY <1>1, <2>7, RowsKept DEF PipelineInv
  <2>5. Durable /\ UNCHANGED <<world, store>>
    BY <1>1 DEF Durable, Done
  <2>6. SnapshotInv' /\ ReadInv' /\ IndexInv'
    BY <2>5, <2>7, PublishedKept DEF PipelineInv
  <2> QED
    BY <2>1, <2>2, <2>3, <2>4, <2>6 DEF PipelineInv, MemoryInv
<1> QED
  BY <1>3, <1>4, <1>5 DEF Claim

\* What a claim stage leaves alone.
SameSource(m) ==
  /\ DOMAIN m = MemFields /\ DOMAIN m.claims = ChainFields
  /\ m.tracks = mem.tracks /\ m.cands = mem.cands /\ m.report = mem.report
  /\ m.video = mem.video /\ m.meta = mem.meta

SourceSlots == {"source", "transcript", "semantic_segments"}

\* A stage after the segmentation: what is left to say is about the claims.
LEMMA LateStage ==
  ASSUME PipelineInv, NEW s, At(s), pos > 12, NEW m, NEW out, Commit(s, m, out),
         SameSource(m), DOMAIN out \cap SourceSlots = {},
         m.reg = Extended(mem.reg, out) \/ (m.reg = mem.reg /\ DOMAIN out = {}),
         Advanced(s, m, out) /\ RowsInv' /\ RegistryInv' /\ SourceInv' => ChainInv' /\ OccurrenceInv'
  PROVE  PipelineInv'
<1>1. pos \in 1..38 /\ s = Stages[pos] /\ s \in StageNames
  BY AtRank
<1>2. s # "download" /\ s # "semantic_segmentation" /\ s \notin TranscriptStages
  <2>1. /\ Stages[pos] = "download" => pos = 2
        /\ Stages[pos] = "semantic_segmentation" => pos = 12
        /\ Stages[pos] \in TranscriptStages => pos \in {3, 5, 6, 8, 9}
    BY <1>1, NamesAre
  <2> QED
    BY <2>1, <1>1
<1>3. Fits(s, out)
  BY <1>2 DEF Fits, SourceSlots
<1>4. Registers(m, out)
  BY <1>1 DEF Registers
<1>5. ASSUME Advanced(s, m, out), RowsInv', RegistryInv'
      PROVE  SourceInv'
  <2>1. /\ mem' = m /\ pos' = pos + 1 /\ world' = world /\ task' = task
    BY <1>5 DEF Advanced
  <2>2. Output("download", "source")' = Output("download", "source")
    <3>1. "download" \in StageNames
      <4>1. Stages[2] = "download" /\ Stages[2] \in StageNames
        BY StageTable, NamesAre
      <4> QED
        BY <4>1
    <3>2. receipts'["download"] = receipts["download"]
      BY <1>2, <1>5, <3>1 DEF Advanced
    <3> QED
      BY <3>2 DEF Output
  <2>3. /\ {"source", "transcript", "semantic_segments"} \subseteq DOMAIN mem.reg
        /\ mem.meta = Output("download", "source") /\ mem.video = Output("download", "source")
        /\ GoodText(mem.reg["transcript"]) /\ mem.report = "PASS"
        /\ mem.reg["semantic_segments"].spans = Spans
        /\ mem.reg["semantic_segments"].text = mem.reg["transcript"]
    BY <1>1 DEF PipelineInv, SourceInv, SourceOf, SourceNow
  <2>4. \A slot \in SourceSlots : slot \in DOMAIN m.reg /\ m.reg[slot] = mem.reg[slot]
    BY <2>3 DEF Extended, SourceSlots
  <2>5. GoodText(mem.reg["transcript"])' <=> GoodText(m.reg["transcript"])
    BY <2>1 DEF GoodText, SelectableTexts
  <2>6. /\ mem'.tracks \in {{}, world'.tracks}
        /\ mem'.cands \in {{}, world'.tracks, {world'.asr}, world'.tracks \cup {world'.asr}}
        /\ task'.attempt < 2 =>
             /\ mem'.tracks = world'.tracks
             /\ mem'.cands \in {world'.tracks, world'.tracks \cup {world'.asr}}
    <3>1. pos > 2 /\ pos > 3
      BY <1>1
    <3>2. /\ mem.tracks \in {{}, world.tracks}
          /\ mem.cands \in {{}, world.tracks, {world.asr}, world.tracks \cup {world.asr}}
          /\ task.attempt < 2 =>
               mem.tracks = world.tracks /\ mem.cands \in {world.tracks, world.tracks \cup {world.asr}}
      BY <3>1 DEF PipelineInv, SourceInv, SourceOf
    <3> QED
      BY <2>1, <3>2 DEF SameSource
  <2> QED
    BY <2>1, <2>2, <2>3, <2>4, <2>5, <2>6 DEF SourceInv, SourceOf, SourceNow, SameSource, SourceSlots
<1> QED
  BY <1>3, <1>4, <1>5, CommitKeeps DEF SameSource

\* A stage that passes the claims on as they are ...
LEMMA SameSourceKeep ==
  ASSUME Shape, NEW c, DOMAIN c = ChainFields
  PROVE  /\ SameSource(Keep(c)) /\ Keep(c).claims = c /\ Keep(c).reg = mem.reg
         /\ \A out : LET m == [Keep(c) EXCEPT !.reg = Extended(@, out)] IN
              SameSource(m) /\ m.claims = c /\ m.reg = Extended(mem.reg, out)
BY DEF Shape, SameSource, Keep, MemFields

\* What is remembered of the source, without its name.
LEMMA SourceIs == ASSUME SourceInv PROVE SourceOf(mem, pos, SourceNow)
BY DEF SourceInv, SourceOf, SourceNow

\* A stage up to the segmentation: what is left to say is about the source.
LEMMA EarlyStage ==
  ASSUME PipelineInv, NEW s, At(s), pos < 13, NEW m, NEW out, Commit(s, m, out),
         DOMAIN m = MemFields, m.claims = mem.claims, Fits(s, out), Registers(m, out),
         NEW source, s = "download" => source = out["source"],
         s # "download" => source = SourceNow,
         SourceOf(m, pos + 1, source)
  PROVE  PipelineInv'
<1>1. pos \in 1..12 /\ s \in StageNames
  BY AtRank
<1>2. ASSUME Advanced(s, m, out)
      PROVE  SourceInv' /\ ChainInv' /\ OccurrenceInv'
  <2>1. mem' = m /\ pos' = pos + 1 /\ world' = world /\ task' = task /\ pos' \in 2..13
    BY <1>1, <1>2 DEF Advanced
  <2>2. SourceNow' = source
    <3>1. CASE s = "download"
      BY <1>2, <3>1 DEF Advanced, SourceNow, Output
    <3>2. CASE s # "download"
      <4>1. Stages[2] = "download" /\ Stages[2] \in StageNames
        BY StageTable, NamesAre
      <4>2. receipts'["download"] = receipts["download"]
        BY <1>2, <3>2, <4>1 DEF Advanced
      <4> QED
        BY <3>2, <4>2 DEF SourceNow, Output
    <3> QED
      BY <3>1, <3>2
  <2>3. GoodText(mem.reg["transcript"])' <=> GoodText(m.reg["transcript"])
    BY <2>1 DEF GoodText, SelectableTexts
  <2>4. SourceInv'
    BY <2>1, <2>2, <2>3 DEF SourceInv, SourceOf, SourceNow
  <2>5. ChainInv'
    <3>1. Chain' = Chain
      BY <2>1 DEF Chain
    <3>2. Chain.theses \in Seq(Draft) /\ Chain.drafts \in Seq(Draft)
      BY DEF PipelineInv, ChainInv, ChainOf, Cut, Checked, Aligned, Anchored, Grounded, Canonical
    <3> QED
      BY <2>1, <3>1, <3>2 DEF ChainInv, ChainOf, Cut, Checked, Aligned, Anchored, Grounded, Canonical
  <2>6. OccurrenceInv'
    <3>1. ~(pos' \in 31..33)
      BY <2>1
    <3> QED
      BY <2>1, <3>1 DEF OccurrenceInv, OccurrencesOf, Sealed, Paired, Provisional, Judged, ReadFirst
  <2> QED
    BY <2>4, <2>5, <2>6
<1>3. DOMAIN m.claims = ChainFields
  BY DEF PipelineInv, Shape
<1> QED
  BY <1>2, <1>3, CommitKeeps

-----------------------------------------------------------------------------
\* The stages that get the source and the transcript.
LEMMA ResolveKeeps == ASSUME PipelineInv, Resolve PROVE PipelineInv'
<1> DEFINE m == [mem EXCEPT !.meta = "resolved"]
<1>1. At("resolve") /\ Commit("resolve", m, NoOutput)
  BY DEF Resolve
<1>2. pos = 1
  BY <1>1, AtRank DEF Rank
<1>3. /\ DOMAIN m = MemFields /\ m.claims = mem.claims /\ m.reg = mem.reg
      /\ m.tracks = mem.tracks /\ m.cands = mem.cands
  BY DEF PipelineInv, Shape, MemFields
<1> HIDE DEF m
<1>4. Fits("resolve", NoOutput) /\ Registers(m, NoOutput)
  BY <1>2, <1>3 DEF Fits, Registers, NoOutput, TranscriptStages
<1>5. SourceOf(m, pos + 1, SourceNow)
  BY <1>2, <1>3 DEF PipelineInv, SourceInv, SourceOf, SourceNow
<1> QED
  BY <1>1, <1>2, <1>3, <1>4, <1>5, EarlyStage

\* Stage 2: the source and the media, with the metadata of the attempt.
LEMMA DownloadKeeps == ASSUME PipelineInv, Download PROVE PipelineInv'
<1> DEFINE out == [source |-> mem.meta, media |-> "media"]
           m == [[mem EXCEPT !.tracks = world.tracks] EXCEPT !.reg = Extended(@, out)]
<1>1. At("download") /\ Commit("download", m, out)
  BY DEF Download, CommitActive
<1>2. pos = 2
  BY <1>1, AtRank DEF Rank
<1>3. /\ DOMAIN m = MemFields /\ m.claims = mem.claims /\ m.reg = Extended(mem.reg, out)
      /\ m.tracks = world.tracks /\ m.cands = mem.cands /\ m.meta = mem.meta
  BY DEF PipelineInv, Shape, MemFields
<1>4. out["source"] = mem.meta /\ DOMAIN out = {"source", "media"}
  OBVIOUS
<1> HIDE DEF m, out
<1>5. Fits("download", out) /\ Registers(m, out)
  BY <1>2, <1>3, <1>4 DEF Fits, Registers, TranscriptStages
<1>6. SourceOf(m, pos + 1, mem.meta)
  <2>1. "source" \in DOMAIN m.reg
    BY <1>3, <1>4 DEF Extended
  <2> QED
    BY <1>2, <1>3, <2>1 DEF PipelineInv, SourceInv, SourceOf, SourceNow
<1> QED
  BY <1>1, <1>2, <1>3, <1>4, <1>5, <1>6, EarlyStage

\* A stage that remembers nothing new of the source, and records nothing.
LEMMA SilentStage ==
  ASSUME PipelineInv, NEW s, At(s), pos < 12, pos \notin {2, 3, 6},
         s \notin TranscriptStages, NEW m, Commit(s, m, NoOutput),
         DOMAIN m = MemFields, m.claims = mem.claims, m.reg = mem.reg,
         m.tracks = mem.tracks, m.cands = mem.cands, m.report = mem.report, m.meta = mem.meta,
         m.video \in {mem.video, mem.meta}, pos = 10 => m.video = mem.meta
  PROVE  PipelineInv'
<1>1. pos \in 1..11 /\ s = Stages[pos]
  BY AtRank
<1>2. s # "download" /\ s # "semantic_segmentation"
  <2>1. /\ Stages[pos] = "download" => pos = 2
        /\ Stages[pos] = "semantic_segmentation" => pos = 12
    BY <1>1, NamesAre
  <2> QED
    BY <2>1, <1>1
<1>3. Fits(s, NoOutput) /\ Registers(m, NoOutput)
  BY <1>2 DEF Fits, Registers, NoOutput
<1>4. SourceOf(m, pos + 1, SourceNow)
  <2>1. SourceOf(mem, pos, SourceNow)
    BY SourceIs DEF PipelineInv
  <2>2. /\ pos + 1 > 2 => pos > 2
        /\ pos + 1 > 3 => pos > 3
        /\ pos + 1 > 6 => pos > 6
        /\ ~(pos + 1 > 12) /\ (pos + 1 > 10 => pos = 10 \/ pos > 10)
        /\ (pos > 10 => pos > 2)
    BY <1>1
  <2> QED
    BY <1>1, <2>1, <2>2 DEF SourceOf
<1> QED
  BY <1>1, <1>2, <1>3, <1>4, EarlyStage

\* A slot that is put, and nothing else.
LEMMA PutIs ==
  ASSUME NEW slot, NEW value
  PROVE  DOMAIN Put(slot, value) = {slot} /\ Put(slot, value)[slot] = value
BY DEF Put

\* Without candidates nothing is selected.
LEMMA NothingToSelect == Select({}) = NoTranscript
<1>1. Official({}) = {} /\ Automatic({}) = {} /\ Speech({}) = {}
  BY DEF Official, Automatic, Speech, Of
<1>2. ~ OfficialRefused({})
  BY <1>1 DEF OfficialRefused
<1> QED
  BY <1>1, <1>2 DEF Select

\* Stages that register a transcript, or propose one.
LEMMA SpokenStage ==
  ASSUME PipelineInv, NEW s, At(s), pos \in {3, 5}, NEW m, NEW out, Commit(s, m, out),
         DOMAIN m = MemFields, m.claims = mem.claims, m.meta = mem.meta,
         m.tracks \in {{}, world.tracks},
         m.cands \in {{}, world.tracks, {world.asr}, world.tracks \cup {world.asr}},
         task.attempt < 2 =>
           m.tracks = world.tracks /\ m.cands \in {world.tracks, world.tracks \cup {world.asr}},
         \/ m.reg = mem.reg /\ DOMAIN out \subseteq {"transcript"}
         \/ m.reg = Extended(mem.reg, out) /\ DOMAIN out = {"transcript"}
  PROVE  PipelineInv'
<1>1. s = Stages[pos] /\ s \in {"transcript_candidate", "asr"}
  BY AtRank, StageTable
<1>2. Fits(s, out)
  BY <1>1 DEF Fits, TranscriptStages
<1>3. Registers(m, out)
  <2>1. DOMAIN out \subseteq {"transcript"} => DOMAIN out = {} \/ DOMAIN out = {"transcript"}
    BY Zenon
  <2>2. pos # 6 /\ pos < 6
    OBVIOUS
  <2> QED
    BY <2>1, <2>2, Zenon DEF Registers
<1>4. SourceOf(m, pos + 1, SourceNow)
  <2>1. "source" \in DOMAIN mem.reg /\ mem.meta = SourceNow
    BY DEF PipelineInv, SourceInv, SourceOf, SourceNow
  <2>2. "source" \in DOMAIN m.reg
    BY <2>1 DEF Extended
  <2> QED
    BY <2>1, <2>2 DEF SourceOf
<1> QED
  BY <1>1, <1>2, <1>3, <1>4, EarlyStage

\* Stage 3: the subtitle tracks become candidates; the transcript slot is only proposed.
LEMMA TranscriptCandidateKeeps == ASSUME PipelineInv, TranscriptCandidate PROVE PipelineInv'
<1> DEFINE m == [mem EXCEPT !.cands = mem.tracks, !.mode = TRUE,
                            !.speech = SpeechRequired(mem.tracks)]
           last == CHOOSE c \in mem.tracks : TRUE
           out == Put("transcript", TextOf(Whole(last), "transcript_candidate", Gate(last)))
<1>1. /\ At("transcript_candidate")
      /\ \/ Commit("transcript_candidate", m, NoOutput)
         \/ Commit("transcript_candidate", m, out)
  BY DEF TranscriptCandidate
<1>2. pos = 3
  BY <1>1, AtRank DEF Rank
<1>3. /\ DOMAIN m = MemFields /\ m.claims = mem.claims /\ m.reg = mem.reg
      /\ m.tracks = mem.tracks /\ m.cands = mem.tracks /\ m.meta = mem.meta
  BY DEF PipelineInv, Shape, MemFields
<1>4. mem.tracks \in {{}, world.tracks} /\ (task.attempt < 2 => mem.tracks = world.tracks)
  BY <1>2 DEF PipelineInv, SourceInv, SourceOf, SourceNow
<1>5. DOMAIN out = {"transcript"} /\ DOMAIN NoOutput = {}
  BY DEF Put, NoOutput
<1> HIDE DEF m, out
<1>6. CASE Commit("transcript_candidate", m, NoOutput)
  BY <1>1, <1>2, <1>3, <1>4, <1>5, <1>6, SpokenStage
<1>7. CASE Commit("transcript_candidate", m, out)
  BY <1>1, <1>2, <1>3, <1>4, <1>5, <1>7, SpokenStage
<1> QED
  BY <1>1, <1>6, <1>7

\* Stage 4.
LEMMA AudioKeeps == ASSUME PipelineInv, Audio PROVE PipelineInv'
<1>1. At("audio") /\ Commit("audio", mem, NoOutput)
  BY DEF Audio
<1>2. pos = 4
  BY <1>1, AtRank DEF Rank
<1>3. DOMAIN mem = MemFields /\ "audio" \notin TranscriptStages
  BY DEF PipelineInv, Shape, TranscriptStages
<1> QED
  BY <1>1, <1>2, <1>3, SilentStage

\* Stage 5: skipped, added to the candidates, or, after a resume, registered.
LEMMA ASRKeeps == ASSUME PipelineInv, ASR PROVE PipelineInv'
<1> DEFINE out == Put("transcript", TextOf(Whole(world.asr), "asr", Gate(world.asr)))
           both == [mem EXCEPT !.cands = @ \cup {world.asr}]
           active == [mem EXCEPT !.reg = Extended(@, out)]
<1>1. /\ At("asr")
      /\ \/ Commit("asr", mem, NoOutput)
         \/ Raise("asr")
         \/ Commit("asr", both, out)
         \/ Commit("asr", active, out)
  BY DEF ASR, CommitActive
<1>2. pos = 5
  BY <1>1, AtRank DEF Rank
<1>3. DOMAIN mem = MemFields
  BY DEF PipelineInv, Shape
<1>4. /\ DOMAIN both = MemFields /\ both.claims = mem.claims /\ both.reg = mem.reg
      /\ both.tracks = mem.tracks /\ both.cands = mem.cands \cup {world.asr}
      /\ both.meta = mem.meta
  BY <1>3 DEF MemFields
<1>5. /\ DOMAIN active = MemFields /\ active.claims = mem.claims
      /\ active.reg = Extended(mem.reg, out)
      /\ active.tracks = mem.tracks /\ active.cands = mem.cands /\ active.meta = mem.meta
  BY <1>3 DEF MemFields
<1>6. /\ mem.tracks \in {{}, world.tracks}
      /\ mem.cands \in {{}, world.tracks, {world.asr}, world.tracks \cup {world.asr}}
      /\ task.attempt < 2 =>
           mem.tracks = world.tracks /\ mem.cands \in {world.tracks, world.tracks \cup {world.asr}}
  BY <1>2 DEF PipelineInv, SourceInv, SourceOf, SourceNow
<1>7. /\ mem.cands \cup {world.asr} \in {{}, world.tracks, {world.asr}, world.tracks \cup {world.asr}}
      /\ task.attempt < 2 =>
           mem.cands \cup {world.asr} \in {world.tracks, world.tracks \cup {world.asr}}
  BY <1>6
<1>8. DOMAIN out = {"transcript"} /\ DOMAIN NoOutput = {}
  BY DEF Put, NoOutput
<1> HIDE DEF both, active, out
<1>9. CASE Commit("asr", mem, NoOutput)
  BY <1>1, <1>2, <1>3, <1>6, <1>8, <1>9, SpokenStage
<1>10. CASE Commit("asr", both, out)
  BY <1>1, <1>2, <1>4, <1>6, <1>7, <1>8, <1>10, SpokenStage
<1>11. CASE Commit("asr", active, out)
  BY <1>1, <1>2, <1>5, <1>6, <1>8, <1>11, SpokenStage
<1>12. CASE Raise("asr")
  BY <1>1, <1>12, RaiseKeeps
<1> QED
  BY <1>1, <1>9, <1>10, <1>11, <1>12

\* A stage that registers a text that was selected.
LEMMA TextStage ==
  ASSUME PipelineInv, NEW s, At(s), pos \in {6, 8, 9}, NEW m, NEW text,
         Commit(s, m, Put("transcript", text)), GoodText(text),
         DOMAIN m = MemFields, m.claims = mem.claims, m.meta = mem.meta,
         m.tracks = mem.tracks, m.cands = mem.cands, m.report = "PASS",
         m.reg = Extended(mem.reg, Put("transcript", text))
  PROVE  PipelineInv'
<1> DEFINE out == Put("transcript", text)
<1>1. s = Stages[pos] /\ s \in {"transcript_selection", "diarization", "transcript_postprocess"}
  BY AtRank, StageTable
<1>2. DOMAIN out = {"transcript"} /\ out["transcript"] = text
  BY PutIs
<1> HIDE DEF out
<1>3. Fits(s, out)
  BY <1>1, <1>2 DEF Fits, TranscriptStages
<1>4. Registers(m, out)
  BY <1>2 DEF Registers, out
<1>5. SourceOf(m, pos + 1, SourceNow)
  <2>1. "source" \in DOMAIN mem.reg /\ mem.meta = SourceNow
    BY DEF PipelineInv, SourceInv, SourceOf, SourceNow
  <2>2. "source" \in DOMAIN m.reg /\ "transcript" \in DOMAIN m.reg /\ m.reg["transcript"] = text
    BY <1>2, <2>1 DEF Extended, out
  <2>3. /\ mem.tracks \in {{}, world.tracks}
        /\ mem.cands \in {{}, world.tracks, {world.asr}, world.tracks \cup {world.asr}}
        /\ task.attempt < 2 =>
             mem.tracks = world.tracks /\ mem.cands \in {world.tracks, world.tracks \cup {world.asr}}
    BY DEF PipelineInv, SourceInv, SourceOf, SourceNow
  <2> QED
    BY <2>1, <2>2, <2>3 DEF SourceOf
<1> QED
  BY <1>1, <1>3, <1>4, <1>5, EarlyStage DEF out

\* Stage 6: from here on the slot holds what the selection chose.
LEMMA TranscriptSelectionKeeps ==
  ASSUME PipelineInv, TranscriptSelection PROVE PipelineInv'
<1> DEFINE t == Select(mem.cands)
           text == TextOf(t, "transcript_selection", "PASS")
           out == Put("transcript", text)
           m == [[mem EXCEPT !.report = "PASS"] EXCEPT !.reg = Extended(@, out)]
<1>1. At("transcript_selection")
  BY DEF TranscriptSelection
<1>2. CASE t = NoTranscript
  BY <1>1, <1>2, RaiseKeeps DEF TranscriptSelection
<1>3. CASE t # NoTranscript
  <2>1. Commit("transcript_selection", m, out)
    BY <1>3 DEF TranscriptSelection, CommitActive
  <2>2. pos = 6
    BY <1>1, AtRank DEF Rank
  <2>3. /\ DOMAIN m = MemFields /\ m.claims = mem.claims /\ m.reg = Extended(mem.reg, out)
        /\ m.tracks = mem.tracks /\ m.cands = mem.cands /\ m.meta = mem.meta /\ m.report = "PASS"
    BY DEF PipelineInv, Shape, MemFields
  <2>4. GoodText(text)
    <3>1. /\ mem.cands \in {{}, world.tracks, {world.asr}, world.tracks \cup {world.asr}}
          /\ task.attempt < 2 => mem.cands \in {world.tracks, world.tracks \cup {world.asr}}
          /\ task.attempt \in Nat
      BY <2>2 DEF PipelineInv, TaskInv, SourceInv, SourceOf, SourceNow
    <3>2. t \in SelectableTexts
      <4>1. CASE task.attempt < 2
        BY <1>3, <3>1, <4>1 DEF SelectableTexts
      <4>2. CASE task.attempt > 1
        BY <1>3, <3>1, <4>2, NothingToSelect DEF SelectableTexts
      <4> QED
        BY <3>1, <4>1, <4>2
    <3> HIDE DEF t
    <3> QED
      BY <3>2 DEF TextOf, GoodText
  <2> HIDE DEF m, text
  <2> QED
    BY <1>1, <2>1, <2>2, <2>3, <2>4, TextStage
<1> QED
  BY <1>2, <1>3

\* Stage 7: the gate.
LEMMA TranscriptQualityKeeps ==
  ASSUME PipelineInv, TranscriptQuality PROVE PipelineInv'
<1>1. /\ At("transcript_quality")
      /\ Raise("transcript_quality") \/ Commit("transcript_quality", mem, NoOutput)
  BY DEF TranscriptQuality
<1>2. CASE Raise("transcript_quality")
  BY <1>1, <1>2, RaiseKeeps
<1>3. CASE Commit("transcript_quality", mem, NoOutput)
  <2>1. pos = 7
    BY <1>1, AtRank DEF Rank
  <2>2. DOMAIN mem = MemFields /\ "transcript_quality" \notin TranscriptStages
    BY DEF PipelineInv, Shape, TranscriptStages
  <2> QED
    BY <1>1, <1>3, <2>1, <2>2, SilentStage
<1> QED
  BY <1>1, <1>2, <1>3

\* Stages 8 and 9: new versions of the same text.
LEMMA ReregisterKeeps ==
  ASSUME PipelineInv, NEW s \in {"diarization", "transcript_postprocess"}, Reregister(s)
  PROVE  PipelineInv'
<1> DEFINE text == [mem.reg["transcript"] EXCEPT !.by = s]
           out == Put("transcript", text)
           m == [mem EXCEPT !.reg = Extended(@, out)]
<1>1. At(s) /\ Commit(s, m, out)
  BY DEF Reregister, CommitActive
<1>2. pos \in {8, 9}
  BY <1>1, AtRank DEF Rank
<1>3. GoodText(mem.reg["transcript"]) /\ mem.report = "PASS"
  BY <1>2 DEF PipelineInv, SourceInv, SourceOf, SourceNow
<1>4. GoodText(text)
  BY <1>3 DEF GoodText
<1>5. /\ DOMAIN m = MemFields /\ m.claims = mem.claims /\ m.reg = Extended(mem.reg, out)
      /\ m.tracks = mem.tracks /\ m.cands = mem.cands /\ m.meta = mem.meta
      /\ m.report = mem.report
  BY DEF PipelineInv, Shape, MemFields
<1> HIDE DEF m, text
<1> QED
  BY <1>1, <1>2, <1>3, <1>4, <1>5, TextStage

\* Stage 10: the video is built from the metadata.
LEMMA BuildVideoKeeps == ASSUME PipelineInv, BuildVideo PROVE PipelineInv'
<1> DEFINE m == [mem EXCEPT !.video = mem.meta]
<1>1. At("transcript") /\ Commit("transcript", m, NoOutput)
  BY DEF BuildVideo
<1>2. pos = 10
  BY <1>1, AtRank DEF Rank
<1>3. /\ DOMAIN m = MemFields /\ m.claims = mem.claims /\ m.reg = mem.reg
      /\ m.tracks = mem.tracks /\ m.cands = mem.cands /\ m.meta = mem.meta
      /\ m.report = mem.report /\ m.video = mem.meta /\ "transcript" \notin TranscriptStages
  BY DEF PipelineInv, Shape, MemFields, TranscriptStages
<1> HIDE DEF m
<1> QED
  BY <1>1, <1>2, <1>3, SilentStage

\* Stage 11.
LEMMA ChapterKeeps == ASSUME PipelineInv, Chapter PROVE PipelineInv'
<1> DEFINE m == [mem EXCEPT !.chapters = "fixed"]
<1>1. At("chapter") /\ Commit("chapter", m, NoOutput)
  BY DEF Chapter
<1>2. pos = 11
  BY <1>1, AtRank DEF Rank
<1>3. /\ DOMAIN m = MemFields /\ m.claims = mem.claims /\ m.reg = mem.reg
      /\ m.tracks = mem.tracks /\ m.cands = mem.cands /\ m.meta = mem.meta
      /\ m.report = mem.report /\ m.video = mem.video /\ "chapter" \notin TranscriptStages
  BY DEF PipelineInv, Shape, MemFields, TranscriptStages
<1> HIDE DEF m
<1> QED
  BY <1>1, <1>2, <1>3, SilentStage

\* Stage 12: the segments are cut from the transcript of the slot.
LEMMA SemanticSegmentationKeeps ==
  ASSUME PipelineInv, SemanticSegmentation PROVE PipelineInv'
<1> DEFINE seg == "semantic_segmentation"
           cut == [text |-> mem.reg["transcript"], spans |-> Spans]
           out == Put("semantic_segments", cut)
           m == [[mem EXCEPT !.chapters = IF Live THEN "semantic" ELSE @]
                    EXCEPT !.reg = Extended(@, out)]
<1>1. At(seg) /\ Commit(seg, m, out)
  BY DEF SemanticSegmentation, CommitActive
<1>2. pos = 12
  BY <1>1, AtRank DEF Rank
<1>3. /\ DOMAIN m = MemFields /\ m.claims = mem.claims /\ m.reg = Extended(mem.reg, out)
      /\ m.tracks = mem.tracks /\ m.cands = mem.cands /\ m.meta = mem.meta
      /\ m.report = mem.report /\ m.video = mem.video
  BY DEF PipelineInv, Shape, MemFields
<1>4. DOMAIN out = {"semantic_segments"} /\ out["semantic_segments"] = cut
  BY PutIs
<1>5. cut.text = mem.reg["transcript"] /\ cut.spans = Spans
  OBVIOUS
<1> HIDE DEF m, out, cut
<1>6. Fits(seg, out) /\ Registers(m, out)
  BY <1>2, <1>3, <1>4, <1>5 DEF Fits, Registers, TranscriptStages
<1>7. SourceOf(m, pos + 1, SourceNow)
  <2>1. SourceOf(mem, pos, SourceNow)
    BY SourceIs DEF PipelineInv
  <2>2. /\ {"source", "transcript", "semantic_segments"} \subseteq DOMAIN m.reg
        /\ m.reg["transcript"] = mem.reg["transcript"]
        /\ m.reg["semantic_segments"] = cut
    BY <1>2, <1>3, <1>4, <2>1 DEF Extended, SourceOf
  <2> QED
    BY <1>2, <1>3, <1>5, <2>1, <2>2 DEF SourceOf
<1> QED
  BY <1>1, <1>2, <1>3, <1>6, <1>7, EarlyStage

\* The slots a memory still has, with what they held.
KeptSlots(reg, slots) ==
  \A slot \in slots : slot \in DOMAIN mem.reg => slot \in DOMAIN reg /\ reg[slot] = mem.reg[slot]

ClosedSlots == SourceSlots \cup { "crosscheck", "alignment", "evidence", "claims", "occurrences",
                                  "visual_evidence" }

\* A stage keeps the slots it does not fill.
LEMMA ExtendedKeeps ==
  ASSUME NEW out, NEW reg, reg = Extended(mem.reg, out) \/ reg = mem.reg,
         NEW slots, DOMAIN out \cap slots = {}
  PROVE  KeptSlots(reg, slots)
BY DEF Extended, KeptSlots

\* What the replay asks depends on these slots only.
LEMMA ClosedKept ==
  ASSUME NEW reg, KeptSlots(reg, ClosedSlots), ClosedSlots \subseteq DOMAIN mem.reg, NEW occs
  PROVE  Closed(mem.reg, occs) => Closed(reg, occs)
<1>1. \A slot \in ClosedSlots : slot \in DOMAIN reg /\ reg[slot] = mem.reg[slot]
  BY DEF KeptSlots
<1>2. /\ reg["transcript"] = mem.reg["transcript"]
      /\ reg["semantic_segments"] = mem.reg["semantic_segments"]
      /\ reg["crosscheck"] = mem.reg["crosscheck"] /\ reg["alignment"] = mem.reg["alignment"]
      /\ reg["evidence"] = mem.reg["evidence"] /\ reg["claims"] = mem.reg["claims"]
      /\ reg["occurrences"] = mem.reg["occurrences"]
      /\ reg["visual_evidence"] = mem.reg["visual_evidence"]
  BY <1>1 DEF ClosedSlots, SourceSlots
<1>3. {"source", "transcript", "semantic_segments", "evidence", "claims"} \subseteq DOMAIN reg
  BY <1>1 DEF ClosedSlots, SourceSlots
<1>4. SlotsClosed(mem.reg) => SlotsClosed(reg)
  BY <1>2, <1>3 DEF SlotsClosed
<1>5. \A o \in occs : RowInside(mem.reg, o) => RowInside(reg, o)
  BY <1>2 DEF RowInside
<1>6. VisualsAdmitted(mem.reg, occs) => VisualsAdmitted(reg, occs)
  BY <1>2 DEF VisualsAdmitted, ExactRelations
<1>7. PacketsSealed(mem.reg, occs) => PacketsSealed(reg, occs)
  BY <1>2 DEF PacketsSealed
<1>8. AlignmentClosed(mem.reg) => AlignmentClosed(reg)
  BY <1>2 DEF AlignmentClosed
<1> QED
  BY <1>4, <1>5, <1>6, <1>7, <1>8 DEF Closed

-----------------------------------------------------------------------------
\* What the next stage must know of the claims is known already where a stage leaves
\* alone what it is about.
SamePlans(c) == c.drafts = Chain.drafts /\ c.windows = Chain.windows /\ c.frames = Chain.frames
SameChecks(c) == SamePlans(c) /\ c.checks = Chain.checks

\* Of the chain of claims the next stage knows what this one knew.
LEMMA PartsKept ==
  ASSUME ChainInv, pos \in 13..38, NEW c, NEW reg
  PROVE  /\ pos < 17 \/ (pos # 17 /\ SamePlans(c)) => Cut(c, pos + 1, CutFrames)
         /\ pos < 21 \/ (pos # 21 /\ SameChecks(c) /\ KeptSlots(reg, {"crosscheck"}))
              => Checked(c, reg, pos + 1)
         /\ pos < 22 \/ (pos # 22 /\ "transcript" \in DOMAIN mem.reg
                           /\ KeptSlots(reg, {"transcript", "crosscheck", "alignment"}))
              => Aligned(reg, pos + 1)
         /\ pos < 23 \/ (pos # 23 /\ SameChecks(c) /\ c.anchors = Chain.anchors)
              => Anchored(c, pos + 1)
         /\ pos < 26 \/ (pos # 26 /\ SamePlans(c) /\ c.anchors = Chain.anchors
                           /\ "transcript" \in DOMAIN mem.reg
                           /\ KeptSlots(reg, {"transcript", "evidence"}))
              => Grounded(c, reg, pos + 1)
         /\ pos < 28 \/ (pos # 28 /\ SamePlans(c) /\ c.claims = Chain.claims)
              => Canonical(c, pos + 1)
<1>1. /\ Cut(Chain, pos, CutFrames) /\ Checked(Chain, mem.reg, pos) /\ Aligned(mem.reg, pos)
      /\ Anchored(Chain, pos) /\ Grounded(Chain, mem.reg, pos) /\ Canonical(Chain, pos)
  BY DEF ChainInv, ChainOf
<1>2. \A k \in {17, 21, 22, 23, 26, 28} : /\ pos < k => ~(pos + 1 > k)
                                          /\ pos # k /\ pos + 1 > k => pos > k
  OBVIOUS
<1>3. pos < 17 \/ (pos # 17 /\ SamePlans(c)) => Cut(c, pos + 1, CutFrames)
  BY <1>1, <1>2 DEF Cut, SamePlans
<1>4. pos < 21 \/ (pos # 21 /\ SameChecks(c) /\ KeptSlots(reg, {"crosscheck"}))
              => Checked(c, reg, pos + 1)
  BY <1>1, <1>2 DEF Checked, SameChecks, SamePlans, KeptSlots
<1>5. ASSUME pos # 22, "transcript" \in DOMAIN mem.reg, pos + 1 > 22,
             KeptSlots(reg, {"transcript", "crosscheck", "alignment"})
      PROVE  Aligned(reg, pos + 1)
  <2>1. /\ "alignment" \in DOMAIN mem.reg /\ AlignmentClosed(mem.reg)
        /\ "crosscheck" \in DOMAIN mem.reg
    BY <1>1, <1>2, <1>5 DEF Aligned, Checked
  <2>2. /\ reg["transcript"] = mem.reg["transcript"] /\ reg["crosscheck"] = mem.reg["crosscheck"]
        /\ reg["alignment"] = mem.reg["alignment"] /\ "alignment" \in DOMAIN reg
    BY <2>1, <1>5 DEF KeptSlots
  <2> QED
    BY <2>1, <2>2 DEF Aligned, AlignmentClosed
<1>6. pos < 22 => Aligned(reg, pos + 1)
  BY <1>2 DEF Aligned
<1>7. pos < 23 \/ (pos # 23 /\ SameChecks(c) /\ c.anchors = Chain.anchors)
              => Anchored(c, pos + 1)
  BY <1>1, <1>2 DEF Anchored, SameChecks, SamePlans, LookOf
<1>8. ASSUME pos # 26, pos + 1 > 26, SamePlans(c), c.anchors = Chain.anchors,
             "transcript" \in DOMAIN mem.reg, KeptSlots(reg, {"transcript", "evidence"})
      PROVE  Grounded(c, reg, pos + 1)
  <2>1. /\ "evidence" \in DOMAIN mem.reg
        /\ mem.reg["evidence"].text = mem.reg["transcript"]
        /\ mem.reg["evidence"].items = ItemsOf(Chain)
    BY <1>1, <1>2, <1>8 DEF Grounded
  <2>2. /\ reg["transcript"] = mem.reg["transcript"] /\ reg["evidence"] = mem.reg["evidence"]
        /\ "evidence" \in DOMAIN reg
    BY <2>1, <1>8 DEF KeptSlots
  <2>3. ItemsOf(c) = ItemsOf(Chain)
    BY <1>8 DEF ItemsOf, SamePlans
  <2> QED
    BY <2>1, <2>2, <2>3 DEF Grounded
<1>9. pos < 26 => Grounded(c, reg, pos + 1)
  BY <1>2 DEF Grounded
<1>10. pos < 28 \/ (pos # 28 /\ SamePlans(c) /\ c.claims = Chain.claims)
              => Canonical(c, pos + 1)
  BY <1>1, <1>2 DEF Canonical, SamePlans
<1>11. /\ pos < 22 \/ (pos # 22 /\ "transcript" \in DOMAIN mem.reg
                           /\ KeptSlots(reg, {"transcript", "crosscheck", "alignment"}))
              => Aligned(reg, pos + 1)
       /\ pos < 26 \/ (pos # 26 /\ SamePlans(c) /\ c.anchors = Chain.anchors
                           /\ "transcript" \in DOMAIN mem.reg
                           /\ KeptSlots(reg, {"transcript", "evidence"}))
              => Grounded(c, reg, pos + 1)
  <2>1. pos >= 22 /\ pos # 22 => pos + 1 > 22
    OBVIOUS
  <2>2. pos >= 26 /\ pos # 26 => pos + 1 > 26
    OBVIOUS
  <2>3. (pos < 22 \/ pos >= 22) /\ (pos < 26 \/ pos >= 26)
    OBVIOUS
  <2> QED
    BY <2>1, <2>2, <2>3, <1>5, <1>6, <1>8, <1>9
<1> QED
  BY <1>3, <1>4, <1>7, <1>10, <1>11

SameOccurrences(c) == c.claims = Chain.claims /\ c.occs = Chain.occs

\* By the time there are occurrences the slots they rest on are filled.
LEMMA ClosedSlotsThere ==
  ASSUME SourceInv, ChainInv, OccurrenceInv, pos \in 30..38
  PROVE  ClosedSlots \subseteq DOMAIN mem.reg
<1>1. /\ pos > 2 /\ pos > 6 /\ pos > 12 /\ pos > 21 /\ pos > 22 /\ pos > 26 /\ pos > 29
  OBVIOUS
<1>2. {"source", "transcript", "semantic_segments"} \subseteq DOMAIN mem.reg
  BY <1>1 DEF SourceInv, SourceOf
<1>3. {"crosscheck", "alignment", "evidence"} \subseteq DOMAIN mem.reg
  BY <1>1 DEF ChainInv, ChainOf, Checked, Aligned, Grounded
<1>4. {"occurrences", "visual_evidence", "claims"} \subseteq DOMAIN mem.reg
  BY <1>1 DEF OccurrenceInv, OccurrencesOf, Sealed
<1> QED
  BY <1>2, <1>3, <1>4 DEF ClosedSlots, SourceSlots

\* And of the occurrences, the units and the life of the claims.
LEMMA ResultsKept ==
  ASSUME SourceInv, ChainInv, OccurrenceInv, pos \in 13..38, NEW c, NEW reg
  PROVE  /\ pos < 29 \/ (pos # 29 /\ SameOccurrences(c) /\ KeptSlots(reg, ClosedSlots))
              => Sealed(c, reg, pos + 1, SealedPackets)
         /\ pos < 30 \/ (pos # 30 /\ SameOccurrences(c) /\ c.units = Chain.units)
              => Paired(c, pos + 1)
         /\ pos < 30 \/ pos > 32 \/ (pos # 30 /\ SameOccurrences(c) /\ c.units = Chain.units)
              => Provisional(c, pos + 1)
         /\ pos < 33 \/ (pos # 33 /\ SameOccurrences(c) /\ c.units = Chain.units
                           /\ KeptSlots(reg, {"lifecycle", "claims"}))
              => Judged(c, reg, pos + 1, SealedLife)
         /\ pos < 36 \/ (~ c.acted /\ (pos = 37 => Chain.acted)) => ReadFirst(c, pos + 1)
<1>1. /\ Sealed(Chain, mem.reg, pos, SealedPackets) /\ Paired(Chain, pos)
      /\ Provisional(Chain, pos) /\ Judged(Chain, mem.reg, pos, SealedLife)
      /\ ReadFirst(Chain, pos)
  BY DEF OccurrenceInv, OccurrencesOf
<1>2. \A k \in {29, 30, 33} : /\ pos < k => ~(pos + 1 > k)
                              /\ pos # k /\ pos + 1 > k => pos > k
  OBVIOUS
<1>3. ASSUME pos # 29, pos + 1 > 29, SameOccurrences(c), KeptSlots(reg, ClosedSlots)
      PROVE  Sealed(c, reg, pos + 1, SealedPackets)
  <2>1. pos > 29 /\ pos \in 30..38
    BY <1>2, <1>3
  <2>2. ClosedSlots \subseteq DOMAIN mem.reg
    BY <2>1, ClosedSlotsThere
  <2>3. Closed(mem.reg, ToSet(Chain.occs)) => Closed(reg, ToSet(Chain.occs))
    BY <1>3, <2>2, ClosedKept
  <2>4. /\ {"occurrences", "visual_evidence", "claims"} \subseteq DOMAIN reg
        /\ reg["claims"] = mem.reg["claims"]
    BY <1>3, <2>2 DEF KeptSlots, ClosedSlots
  <2> QED
    BY <1>1, <1>3, <2>1, <2>3, <2>4 DEF Sealed, SameOccurrences
<1>4. pos < 29 => Sealed(c, reg, pos + 1, SealedPackets)
  BY <1>2 DEF Sealed
<1>5. pos < 30 \/ (pos # 30 /\ SameOccurrences(c) /\ c.units = Chain.units)
              => Paired(c, pos + 1)
  BY <1>1, <1>2 DEF Paired, SameOccurrences
<1>6. pos < 30 \/ pos > 32 \/ (pos # 30 /\ SameOccurrences(c) /\ c.units = Chain.units)
              => Provisional(c, pos + 1)
  <2>1. pos < 30 \/ pos > 32 => ~(pos + 1 \in 31..33)
    OBVIOUS
  <2>2. pos # 30 /\ pos + 1 \in 31..33 => pos \in 31..33
    OBVIOUS
  <2> QED
    BY <1>1, <2>1, <2>2 DEF Provisional, SameOccurrences
<1>7. ASSUME pos # 33, pos + 1 > 33, SameOccurrences(c), c.units = Chain.units,
             KeptSlots(reg, {"lifecycle", "claims"})
      PROVE  Judged(c, reg, pos + 1, SealedLife)
  <2>1. pos > 33 /\ pos > 29
    BY <1>2, <1>7
  <2>2. "claims" \in DOMAIN mem.reg
    BY <1>1, <2>1 DEF Sealed
  <2>3. /\ SealedLife = ClaimLife(Chain.claims, Chain.occs)
        /\ "lifecycle" \in DOMAIN mem.reg /\ LifecycleInside(mem.reg)
        /\ \A i \in DOMAIN Chain.claims : ProjectedBy(Chain.units[i], SealedLife)
    BY <1>1, <2>1 DEF Judged
  <2>4. /\ reg["lifecycle"] = mem.reg["lifecycle"] /\ reg["claims"] = mem.reg["claims"]
        /\ "lifecycle" \in DOMAIN reg
    BY <1>7, <2>2, <2>3 DEF KeptSlots
  <2>5. LifecycleInside(reg)
    BY <2>3, <2>4 DEF LifecycleInside
  <2> QED
    BY <1>7, <2>3, <2>4, <2>5 DEF Judged, SameOccurrences
<1>8. pos < 33 => Judged(c, reg, pos + 1, SealedLife)
  BY <1>2 DEF Judged
<1>9. pos < 36 \/ (~ c.acted /\ (pos = 37 => Chain.acted)) => ReadFirst(c, pos + 1)
  <2>1. pos < 36 => ~(pos + 1 > 37) /\ pos + 1 # 37
    OBVIOUS
  <2>2. pos + 1 > 37 => pos = 37 \/ pos > 37
    OBVIOUS
  <2> QED
    BY <1>1, <2>1, <2>2 DEF ReadFirst
<1>10. /\ pos < 29 \/ (pos # 29 /\ SameOccurrences(c) /\ KeptSlots(reg, ClosedSlots))
              => Sealed(c, reg, pos + 1, SealedPackets)
       /\ pos < 33 \/ (pos # 33 /\ SameOccurrences(c) /\ c.units = Chain.units
                           /\ KeptSlots(reg, {"lifecycle", "claims"}))
              => Judged(c, reg, pos + 1, SealedLife)
  <2>1. pos >= 29 /\ pos # 29 => pos + 1 > 29
    OBVIOUS
  <2>2. pos >= 33 /\ pos # 33 => pos + 1 > 33
    OBVIOUS
  <2>3. (pos < 29 \/ pos >= 29) /\ (pos < 33 \/ pos >= 33)
    OBVIOUS
  <2> QED
    BY <2>1, <2>2, <2>3, <1>3, <1>4, <1>7, <1>8
<1> QED
  BY <1>5, <1>6, <1>9, <1>10

-----------------------------------------------------------------------------
\* A stage of the claims: what is left to say is what the next one must know.
LEMMA ClaimStage ==
  ASSUME PipelineInv, NEW s, At(s), pos > 12, NEW m, NEW out, Commit(s, m, out),
         SameSource(m), DOMAIN out \cap SourceSlots = {},
         m.reg = Extended(mem.reg, out) \/ (m.reg = mem.reg /\ DOMAIN out = {}),
         NEW cut, pos # 17 => cut = CutFrames,
         pos = 17 => cut = IF "frames" \in DOMAIN out THEN out["frames"] ELSE {},
         NEW packets, pos # 29 => packets = SealedPackets,
         pos = 29 => packets = out["visual_evidence"],
         NEW life, pos # 33 => life = SealedLife,
         pos = 33 => life = out["lifecycle"][1],
         ChainOf(m.claims, m.reg, pos + 1, cut),
         OccurrencesOf(m.claims, m.reg, pos + 1, packets, life)
  PROVE  PipelineInv'
<1>1. pos \in 1..38 /\ pos = Rank[s] /\ s = Stages[pos] /\ s \in StageNames
  BY AtRank
<1>2. ASSUME Advanced(s, m, out)
      PROVE  ChainInv' /\ OccurrenceInv'
  <2>1. mem' = m /\ pos' = pos + 1 /\ world' = world /\ store' = store
    BY <1>2 DEF Advanced
  <2>2. \A t \in StageNames : receipts'[t].out = IF t = s THEN out ELSE receipts[t].out
    BY <1>2 DEF Advanced
  <2>3. /\ "knowledge_frame" \in StageNames /\ "claim_occurrence_persistence" \in StageNames
        /\ "lifecycle_projection" \in StageNames
    <3>1. Stages[17] \in StageNames /\ Stages[29] \in StageNames /\ Stages[33] \in StageNames
      BY NamesAre
    <3> QED
      BY <3>1, StageTable
  <2>4. /\ s = "knowledge_frame" <=> pos = 17
        /\ s = "claim_occurrence_persistence" <=> pos = 29
        /\ s = "lifecycle_projection" <=> pos = 33
    <3>1. /\ s = "knowledge_frame" => pos = 17
          /\ s = "claim_occurrence_persistence" => pos = 29
          /\ s = "lifecycle_projection" => pos = 33
      <4>1. /\ Rank["knowledge_frame"] = 17 /\ Rank["lifecycle_projection"] = 33
            /\ Rank["claim_occurrence_persistence"] = 29
        BY DEF Rank
      <4> QED
        BY <1>1, <4>1
    <3>2. /\ Stages[17] = "knowledge_frame" /\ Stages[33] = "lifecycle_projection"
          /\ Stages[29] = "claim_occurrence_persistence"
      BY StageTable
    <3> QED
      BY <1>1, <3>1, <3>2
  <2>5. CutFrames' = cut
    BY <2>2, <2>3, <2>4 DEF CutFrames, SlotsOf
  <2>6. SealedPackets' = packets
    BY <2>2, <2>3, <2>4 DEF SealedPackets, Output
  <2>7. SealedLife' = life
    BY <2>2, <2>3, <2>4 DEF SealedLife, Output
  <2>8. Chain' = m.claims
    BY <2>1 DEF Chain
  <2>9. ChainInv'
    BY <2>1, <2>5, <2>8 DEF ChainInv, ChainOf, Cut, Checked, Aligned, Anchored, Grounded, Canonical
  <2>10. ASSUME pos + 1 > 29 PROVE \A o : WellSealed(o) => WellSealed(o)'
    <3>1. CutFrames' = CutFrames
      BY <2>5, <2>10
    <3> QED
      BY <2>1, <3>1 DEF WellSealed, Contradicted
  <2>11. Sealed(m.claims, m.reg, pos + 1, packets)
    BY DEF OccurrencesOf
  <2>12. Sealed(Chain, mem.reg, pos, SealedPackets)'
    <3>1. CASE ~(pos + 1 > 29)
      BY <2>1, <3>1 DEF Sealed
    <3>2. CASE pos + 1 > 29
      <4>1. \A o \in ToSet(m.claims.occs) : WellSealed(o)'
        BY <2>10, <2>11, <3>2 DEF Sealed
      <4> QED
        BY <2>1, <2>6, <2>8, <2>11, <3>2, <4>1 DEF Sealed
    <3> QED
      BY <3>1, <3>2
  <2>13. ReadFirst(Chain, pos)'
    BY <2>1, <2>8 DEF OccurrencesOf, ReadFirst, Published
  <2> QED
    BY <2>1, <2>7, <2>8, <2>9, <2>12, <2>13
       DEF OccurrenceInv, OccurrencesOf, Paired, Provisional, Judged
<1> QED
  BY <1>2, LateStage

SameClaims(c) ==
  /\ c.theses = Chain.theses /\ SameChecks(c) /\ c.anchors = Chain.anchors
  /\ SameOccurrences(c) /\ c.units = Chain.units

JudgedSlots == ClosedSlots \cup {"lifecycle"}

\* A stage that passes the claims on as they are.
LEMMA PassingStage ==
  ASSUME PipelineInv, NEW s, At(s), pos \in {18, 19, 20, 24, 25, 27, 31, 32, 34, 35, 36, 37, 38},
         NEW m, NEW out, Commit(s, m, out), SameSource(m), SameClaims(m.claims),
         DOMAIN out \cap JudgedSlots = {},
         m.reg = Extended(mem.reg, out) \/ (m.reg = mem.reg /\ DOMAIN out = {}),
         pos >= 36 => ~ m.claims.acted, pos = 37 => Chain.acted
  PROVE  PipelineInv'
<1> DEFINE c == m.claims
           reg == m.reg
<1>1. /\ pos \in 13..38 /\ pos > 12
      /\ pos \notin {17, 21, 22, 23, 26, 28, 29, 30, 33}
  OBVIOUS
<1>2. SourceInv /\ ChainInv /\ OccurrenceInv
  BY DEF PipelineInv
<1>3. KeptSlots(reg, JudgedSlots)
  BY ExtendedKeeps
<1>4. /\ KeptSlots(reg, ClosedSlots) /\ KeptSlots(reg, {"crosscheck"})
      /\ KeptSlots(reg, {"transcript", "crosscheck", "alignment"})
      /\ KeptSlots(reg, {"transcript", "evidence"}) /\ KeptSlots(reg, {"lifecycle", "claims"})
  BY <1>3 DEF KeptSlots, JudgedSlots, ClosedSlots, SourceSlots
<1>5. "transcript" \in DOMAIN mem.reg
  BY <1>1, <1>2 DEF SourceInv, SourceOf
<1>6. ChainOf(c, reg, pos + 1, CutFrames)
  <2>1. c.theses \in Seq(Draft) /\ c.drafts \in Seq(Draft)
    BY <1>2 DEF ChainInv, ChainOf, SameClaims, SameChecks, SamePlans
  <2>2. SamePlans(c) /\ SameChecks(c) /\ c.anchors = Chain.anchors /\ c.claims = Chain.claims
    BY DEF SameClaims, SameChecks, SameOccurrences
  <2> HIDE DEF c, reg
  <2> QED
    BY <1>1, <1>2, <1>4, <1>5, <2>1, <2>2, PartsKept DEF ChainOf
<1>7. OccurrencesOf(c, reg, pos + 1, SealedPackets, SealedLife)
  <2>1. SameOccurrences(c) /\ c.units = Chain.units
    BY DEF SameClaims
  <2>2. pos < 36 \/ (~ c.acted /\ (pos = 37 => Chain.acted))
    BY <1>1
  <2> HIDE DEF c, reg
  <2> QED
    BY <1>1, <1>2, <1>4, <2>1, <2>2, ResultsKept DEF OccurrencesOf
<1>8. DOMAIN out \cap SourceSlots = {}
  BY DEF JudgedSlots, ClosedSlots
<1> QED
  BY <1>1, <1>6, <1>7, <1>8, ClaimStage

\* Such a stage that records nothing.
LEMMA PassingPlain ==
  ASSUME PipelineInv, NEW s, At(s), pos \in {18, 19, 20, 24, 25, 27, 31, 32}, Plain(s, Chain)
  PROVE  PipelineInv'
<1> DEFINE m == Keep(Chain)
<1>1. Commit(s, m, NoOutput)
  BY DEF Plain
<1>2. SameSource(m) /\ m.claims = Chain /\ m.reg = mem.reg
  BY SameSourceKeep DEF PipelineInv, Shape, Chain
<1>3. SameClaims(m.claims)
  BY <1>2 DEF SameClaims, SameChecks, SamePlans, SameOccurrences
<1>4. DOMAIN NoOutput = {}
  BY DEF NoOutput
<1> HIDE DEF m
<1> QED
  BY <1>1, <1>2, <1>3, <1>4, PassingStage

\* Stage 18.
LEMMA FrameFixtureKeeps == ASSUME PipelineInv, FrameFixture PROVE PipelineInv'
<1>1. At("frame_fixture") /\ Plain("frame_fixture", Chain)
  BY DEF FrameFixture
<1>2. pos = 18
  BY <1>1, AtRank DEF Rank
<1> QED
  BY <1>1, <1>2, PassingPlain

\* Stage 24.
LEMMA MultimodalContextKeeps == ASSUME PipelineInv, MultimodalContext PROVE PipelineInv'
<1>1. At("multimodal_context") /\ Plain("multimodal_context", Chain)
  BY DEF MultimodalContext
<1>2. pos = 24
  BY <1>1, AtRank DEF Rank
<1> QED
  BY <1>1, <1>2, PassingPlain

\* Stage 25.
LEMMA TemporalWindowKeeps == ASSUME PipelineInv, TemporalWindow PROVE PipelineInv'
<1>1. At("temporal_window") /\ Plain("temporal_window", Chain)
  BY DEF TemporalWindow
<1>2. pos = 25
  BY <1>1, AtRank DEF Rank
<1> QED
  BY <1>1, <1>2, PassingPlain

\* Stage 27: refuses a draft, or passes the claims on.
LEMMA TemporalNormalizationKeeps ==
  ASSUME PipelineInv, TemporalNormalization PROVE PipelineInv'
<1>1. /\ At("temporal_normalization")
      /\ Raise("temporal_normalization") \/ Plain("temporal_normalization", Chain)
  BY DEF TemporalNormalization
<1>2. pos = 27
  BY <1>1, AtRank DEF Rank
<1> QED
  BY <1>1, <1>2, PassingPlain, RaiseKeeps

\* Stage 31.
LEMMA VerificationKeeps == ASSUME PipelineInv, Verification PROVE PipelineInv'
<1>1. At("verification") /\ Plain("verification", Chain)
  BY DEF Verification
<1>2. pos = 31
  BY <1>1, AtRank DEF Rank
<1> QED
  BY <1>1, <1>2, PassingPlain

\* Stage 32.
LEMMA FinancialEnrichmentKeeps == ASSUME PipelineInv, FinancialEnrichment PROVE PipelineInv'
<1>1. At("financial_enrichment") /\ Plain("financial_enrichment", Chain)
  BY DEF FinancialEnrichment
<1>2. pos = 32
  BY <1>1, AtRank DEF Rank
<1> QED
  BY <1>1, <1>2, PassingPlain

\* Such a stage that registers an artifact the replay does not ask for.
LEMMA PassingPut ==
  ASSUME PipelineInv, NEW s, At(s), pos \in {19, 20, 34}, NEW m, NEW slot, NEW value,
         slot \notin JudgedSlots, CommitActive(s, m, Put(slot, value)),
         DOMAIN m = MemFields, m.claims = mem.claims, m.reg = mem.reg,
         m.tracks = mem.tracks, m.cands = mem.cands, m.report = mem.report,
         m.video = mem.video, m.meta = mem.meta
  PROVE  PipelineInv'
<1> DEFINE out == Put(slot, value)
           n == [m EXCEPT !.reg = Extended(@, out)]
<1>1. Commit(s, n, out)
  BY DEF CommitActive
<1>2. /\ DOMAIN n = MemFields /\ n.claims = mem.claims /\ n.reg = Extended(mem.reg, out)
      /\ n.tracks = mem.tracks /\ n.cands = mem.cands /\ n.report = mem.report
      /\ n.video = mem.video /\ n.meta = mem.meta
  BY DEF MemFields
<1>3. DOMAIN out = {slot}
  BY PutIs
<1> HIDE DEF n, out
<1>4. SameSource(n)
  BY <1>2 DEF SameSource, PipelineInv, Shape
<1>5. SameClaims(n.claims)
  BY <1>2 DEF SameClaims, SameChecks, SamePlans, SameOccurrences, Chain
<1>6. DOMAIN out \cap JudgedSlots = {}
  BY <1>3
<1> QED
  BY <1>1, <1>2, <1>4, <1>5, <1>6, PassingStage

\* Stage 19: with a frame to read the worker tells its identity.
LEMMA OCRKeeps == ASSUME PipelineInv, OCR PROVE PipelineInv'
<1> DEFINE m == [mem EXCEPT !.ocr = TRUE]
           value == Chain.frames \cap world.legible
<1>1. /\ At("ocr")
      /\ Plain("ocr", Chain) \/ CommitActive("ocr", m, Put("ocr", value))
  BY DEF OCR
<1>2. pos = 19
  BY <1>1, AtRank DEF Rank
<1>3. /\ DOMAIN m = MemFields /\ m.claims = mem.claims /\ m.reg = mem.reg
      /\ m.tracks = mem.tracks /\ m.cands = mem.cands /\ m.report = mem.report
      /\ m.video = mem.video /\ m.meta = mem.meta
  BY DEF PipelineInv, Shape, MemFields
<1>4. "ocr" \notin JudgedSlots
  BY DEF JudgedSlots, ClosedSlots, SourceSlots
<1> HIDE DEF m, value
<1>5. CASE CommitActive("ocr", m, Put("ocr", value))
  BY <1>1, <1>2, <1>3, <1>4, <1>5, PassingPut
<1> QED
  BY <1>1, <1>2, <1>5, PassingPlain

\* Stage 20.
LEMMA VisionKeeps == ASSUME PipelineInv, Vision PROVE PipelineInv'
<1> DEFINE value == Chain.frames \cap world.legible
<1>1. /\ At("vision")
      /\ Plain("vision", Chain) \/ CommitActive("vision", mem, Put("vision", value))
  BY DEF Vision
<1>2. pos = 20
  BY <1>1, AtRank DEF Rank
<1>3. DOMAIN mem = MemFields /\ "vision" \notin JudgedSlots
  BY DEF PipelineInv, Shape, JudgedSlots, ClosedSlots, SourceSlots
<1> HIDE DEF value
<1>4. CASE CommitActive("vision", mem, Put("vision", value))
  BY <1>1, <1>2, <1>3, <1>4, PassingPut
<1> QED
  BY <1>1, <1>2, <1>4, PassingPlain

\* Stage 34.
LEMMA SummaryKeeps == ASSUME PipelineInv, Summary PROVE PipelineInv'
<1> DEFINE value == [knowledge |-> mem.reg["knowledge"],
                     core |-> IF Chain.units = << >> THEN mem.chapters ELSE Chain.units[1].claim]
<1>1. At("summary") /\ CommitActive("summary", mem, Put("summary", value))
  BY DEF Summary
<1>2. pos = 34
  BY <1>1, AtRank DEF Rank
<1>3. DOMAIN mem = MemFields /\ "summary" \notin JudgedSlots
  BY DEF PipelineInv, Shape, JudgedSlots, ClosedSlots, SourceSlots
<1> HIDE DEF value
<1> QED
  BY <1>1, <1>2, <1>3, PassingPut

\* The stages that draft claims.
LEMMA DraftStage ==
  ASSUME PipelineInv, NEW s, At(s), pos \in 13..16, NEW c, Plain(s, c),
         DOMAIN c = ChainFields, c.theses \in Seq(Draft), c.drafts \in Seq(Draft)
  PROVE  PipelineInv'
<1> DEFINE m == Keep(c)
<1>1. Commit(s, m, NoOutput)
  BY DEF Plain
<1>2. SameSource(m) /\ m.claims = c /\ m.reg = mem.reg
  BY SameSourceKeep DEF PipelineInv
<1>3. DOMAIN NoOutput = {} /\ DOMAIN NoOutput \cap SourceSlots = {}
  BY DEF NoOutput
<1>4. SourceInv /\ ChainInv /\ OccurrenceInv
  BY DEF PipelineInv
<1>5. /\ pos > 12 /\ pos \in 13..38 /\ pos < 17 /\ pos < 21 /\ pos < 22 /\ pos < 23 /\ pos < 26
      /\ pos < 28 /\ pos < 29 /\ pos < 30 /\ pos < 33 /\ pos < 36
  OBVIOUS
<1> HIDE DEF m
<1>6. ChainOf(m.claims, m.reg, pos + 1, CutFrames)
  BY <1>2, <1>4, <1>5, PartsKept DEF ChainOf
<1>7. OccurrencesOf(m.claims, m.reg, pos + 1, SealedPackets, SealedLife)
  BY <1>4, <1>5, ResultsKept DEF OccurrencesOf
<1> QED
  <2>1. pos # 17 /\ pos # 29 /\ pos # 33
    OBVIOUS
  <2>2. m.reg = mem.reg /\ DOMAIN NoOutput = {}
    BY <1>2, <1>3
  <2> QED
    BY <1>1, <1>2, <1>3, <1>5, <1>6, <1>7, <2>1, <2>2, ClaimStage

\* Stage 13.
LEMMA SemanticContextKeeps == ASSUME PipelineInv, SemanticContext PROVE PipelineInv'
<1> DEFINE c == [Chain EXCEPT !.contexts = TRUE]
<1>1. At("semantic_context") /\ Plain("semantic_context", c)
  BY DEF SemanticContext
<1>2. pos = 13
  BY <1>1, AtRank DEF Rank
<1>3. DOMAIN c = ChainFields /\ c.theses = Chain.theses /\ c.drafts = Chain.drafts
  BY DEF PipelineInv, Shape, Chain, ChainFields
<1>4. Chain.theses \in Seq(Draft) /\ Chain.drafts \in Seq(Draft)
  BY DEF PipelineInv, ChainInv, ChainOf
<1> HIDE DEF c
<1> QED
  BY <1>1, <1>2, <1>3, <1>4, DraftStage

\* Stage 14: the theses of this attempt.
LEMMA ChapterThesisIdentificationKeeps ==
  ASSUME PipelineInv, ChapterThesisIdentification PROVE PipelineInv'
<1>1. At("chapter_thesis_identification")
  BY DEF ChapterThesisIdentification
<1>2. PICK theses \in world.theses :
        Plain("chapter_thesis_identification", [Chain EXCEPT !.theses = theses])
  BY DEF ChapterThesisIdentification
<1>3. pos = 14
  BY <1>1, AtRank DEF Rank
<1> DEFINE c == [Chain EXCEPT !.theses = theses]
<1>4. DOMAIN c = ChainFields /\ c.theses = theses /\ c.drafts = Chain.drafts
  BY DEF PipelineInv, Shape, Chain, ChainFields
<1>5. theses \in Seq(Draft)
  BY PipelineAssumption DEF PipelineInv, Shape, World
<1>6. Chain.drafts \in Seq(Draft)
  BY DEF PipelineInv, ChainInv, ChainOf
<1>7. Plain("chapter_thesis_identification", c)
  BY <1>2
<1> HIDE DEF c
<1> QED
  BY <1>1, <1>3, <1>4, <1>5, <1>6, <1>7, DraftStage

\* Stage 15: the drafts of this attempt, theses first.
LEMMA AtomicClaimExtractionKeeps ==
  ASSUME PipelineInv, AtomicClaimExtraction PROVE PipelineInv'
<1> DEFINE s == "atomic_claim_extraction"
<1>1. At(s)
  BY DEF AtomicClaimExtraction
<1>2. PICK answer \in world.answers :
        Raise(s) \/ Plain(s, [Chain EXCEPT !.drafts = Chain.theses \o answer])
  BY DEF AtomicClaimExtraction
<1>3. pos = 15
  BY <1>1, AtRank DEF Rank
<1> DEFINE c == [Chain EXCEPT !.drafts = Chain.theses \o answer]
<1>4. DOMAIN c = ChainFields /\ c.theses = Chain.theses /\ c.drafts = Chain.theses \o answer
  BY DEF PipelineInv, Shape, Chain, ChainFields
<1>5. answer \in Seq(Draft) /\ Chain.theses \in Seq(Draft)
  BY PipelineAssumption DEF PipelineInv, Shape, World, ChainInv, ChainOf
<1>6. Chain.theses \o answer \in Seq(Draft)
  BY <1>5
<1>7. Raise(s) \/ Plain(s, c)
  BY <1>2
<1> HIDE DEF c
<1>8. CASE Plain(s, c)
  <2>1. c.drafts \in Seq(Draft) /\ c.theses \in Seq(Draft) /\ DOMAIN c = ChainFields
    BY <1>4, <1>5, <1>6
  <2>2. pos \in 13..16
    BY <1>3
  <2> HIDE DEF s
  <2> QED
    BY <1>1, <1>8, <2>1, <2>2, DraftStage
<1>9. CASE Raise(s)
  BY <1>1, <1>9, RaiseKeeps
<1> QED
  BY <1>7, <1>8, <1>9

-----------------------------------------------------------------------------
\* The n-th number of a finite set of positions is one of them.
LEMMA NthOfSet ==
  ASSUME NEW N \in Nat, NEW kept, kept \subseteq 1..N, NEW n \in 1..Cardinality(kept)
  PROVE  \E i \in kept : Cardinality({j \in kept : j <= i}) = n
<1> DEFINE upto(i) == {j \in kept : j <= i}
           enough == {i \in 0..N : Cardinality(upto(i)) >= n}
<1>1. IsFiniteSet(kept) /\ Cardinality(kept) \in Nat /\ n \in Nat /\ n > 0
  <2>1. IsFiniteSet(1..N)
    BY FS_Interval
  <2>2. IsFiniteSet(kept)
    BY <2>1, FS_Subset
  <2> QED
    BY <2>2, FS_CardinalityType
<1>2. \A i : IsFiniteSet(upto(i)) /\ Cardinality(upto(i)) \in Nat
  <2> SUFFICES ASSUME NEW i PROVE IsFiniteSet(upto(i)) /\ Cardinality(upto(i)) \in Nat
    OBVIOUS
  <2>1. upto(i) \subseteq kept
    OBVIOUS
  <2> HIDE DEF upto
  <2> QED
    BY <1>1, <2>1, FS_Subset, FS_CardinalityType
<1>3. upto(N) = kept /\ upto(0) = {}
  <2>1. \A j \in kept : j \in 1..N /\ j <= N /\ ~(j <= 0)
    OBVIOUS
  <2> QED
    BY <2>1
<1>4. N \in enough /\ enough \subseteq Nat
  <2>1. Cardinality(upto(N)) >= n
    BY <1>1, <1>3
  <2> QED
    BY <2>1
<1>5. PICK i \in enough : \A j \in enough : i <= j
  <2> HIDE DEF enough
  <2> QED
    BY <1>4, LeastNatural
<1>6. i \in 0..N /\ Cardinality(upto(i)) >= n
  BY <1>5
<1>7. i # 0
  <2>1. Cardinality({}) = 0
    BY FS_EmptySet
  <2> HIDE DEF upto
  <2> QED
    BY <1>1, <1>3, <1>6, <2>1
<1>8. i - 1 \in 0..N /\ i - 1 \notin enough
  <2>1. i - 1 \in 0..N
    BY <1>6, <1>7
  <2>2. ~(i <= i - 1)
    BY <1>6
  <2> HIDE DEF enough
  <2> QED
    BY <1>5, <2>1, <2>2
<1>9. Cardinality(upto(i - 1)) < n
  <2>1. ~(Cardinality(upto(i - 1)) >= n)
    BY <1>8
  <2> HIDE DEF upto
  <2> QED
    BY <1>1, <1>2, <2>1
<1>10. i \in kept
  <2> SUFFICES ASSUME i \notin kept PROVE FALSE
    OBVIOUS
  <2>1. upto(i) = upto(i - 1)
    <3>1. \A j \in kept : j <= i <=> j <= i - 1
      BY <1>6
    <3> QED
      BY <3>1
  <2> HIDE DEF upto
  <2> QED
    BY <1>1, <1>2, <1>6, <1>9, <2>1
<1>11. upto(i) = upto(i - 1) \cup {i} /\ i \notin upto(i - 1)
  <2>1. \A j \in kept : j <= i <=> j <= i - 1 \/ j = i
    BY <1>6
  <2>2. ~(i <= i - 1)
    BY <1>6
  <2> QED
    BY <1>10, <2>1, <2>2
<1>12. Cardinality(upto(i)) = Cardinality(upto(i - 1)) + 1
  <2> HIDE DEF upto
  <2> QED
    BY <1>2, <1>11, FS_AddElement
<1>13. Cardinality(upto(i)) = n
  <2> HIDE DEF upto
  <2> QED
    BY <1>1, <1>2, <1>6, <1>9, <1>12
<1> QED
  BY <1>10, <1>13

\* The accepted drafts are some of the drafts.
LEMMA AcceptedIs ==
  ASSUME NEW drafts \in Seq(Draft), NEW report
  PROVE  Accepted(drafts, report) \in Seq(Draft)
<1> DEFINE kept == {i \in DOMAIN drafts :
                      report = "PASS" /\ drafts[i].flaw # "atomic_claim_validation"}
           nth(n) == CHOOSE i \in kept : Cardinality({j \in kept : j <= i}) = n
<1>1. DOMAIN drafts = 1..Len(drafts) /\ Len(drafts) \in Nat
  OBVIOUS
<1>2. kept \subseteq 1..Len(drafts)
  BY <1>1
<1>3. Cardinality(kept) \in Nat
  <2>1. IsFiniteSet(1..Len(drafts))
    BY <1>1, FS_Interval
  <2> HIDE DEF kept
  <2> QED
    BY <1>2, <2>1, FS_Subset, FS_CardinalityType
<1>4. \A n \in 1..Cardinality(kept) : nth(n) \in kept
  <2> SUFFICES ASSUME NEW n \in 1..Cardinality(kept) PROVE nth(n) \in kept
    OBVIOUS
  <2> HIDE DEF kept
  <2>1. \E i \in kept : Cardinality({j \in kept : j <= i}) = n
    BY <1>1, <1>2, NthOfSet
  <2> QED
    BY <2>1
<1>5. \A i \in kept : drafts[i] \in Draft
  BY <1>1
<1>6. Accepted(drafts, report) = [n \in 1..Cardinality(kept) |-> drafts[nth(n)]]
  BY DEF Accepted
<1> HIDE DEF kept, nth
<1>7. Accepted(drafts, report) \in [1..Cardinality(kept) -> Draft]
  BY <1>4, <1>5, <1>6
<1> QED
  BY <1>3, <1>7

\* Stage 16: the drafts that are accepted are drafts.
LEMMA AtomicClaimValidationKeeps ==
  ASSUME PipelineInv, AtomicClaimValidation PROVE PipelineInv'
<1> DEFINE drafts == Accepted(Chain.drafts, mem.report)
           c == [Chain EXCEPT !.drafts = drafts]
<1>1. At("atomic_claim_validation") /\ Plain("atomic_claim_validation", c)
  BY DEF AtomicClaimValidation
<1>2. pos = 16
  BY <1>1, AtRank DEF Rank
<1>3. DOMAIN c = ChainFields /\ c.theses = Chain.theses /\ c.drafts = drafts
  BY DEF PipelineInv, Shape, Chain, ChainFields
<1>4. Chain.theses \in Seq(Draft) /\ Chain.drafts \in Seq(Draft)
  BY DEF PipelineInv, ChainInv, ChainOf
<1>5. drafts \in Seq(Draft)
  BY <1>4, AcceptedIs
<1> HIDE DEF c, drafts
<1> QED
  BY <1>1, <1>2, <1>3, <1>4, <1>5, DraftStage

\* A claim stage before the occurrences.
LEMMA PlanningStage ==
  ASSUME PipelineInv, NEW s, At(s), pos \in 17..28, NEW base, NEW c, NEW out,
         SameSource(base), base.claims = c, base.reg = mem.reg,
         CommitActive(s, base, out) \/ (Commit(s, base, out) /\ DOMAIN out = {}),
         c.theses = Chain.theses, c.drafts = Chain.drafts,
         DOMAIN out \cap SourceSlots = {},
         NEW cut, pos # 17 => cut = CutFrames,
         pos = 17 => cut = IF "frames" \in DOMAIN out THEN out["frames"] ELSE {},
         \A r : (r = Extended(mem.reg, out) \/ (r = mem.reg /\ DOMAIN out = {})) =>
           /\ Cut(c, pos + 1, cut) /\ Checked(c, r, pos + 1) /\ Aligned(r, pos + 1)
           /\ Anchored(c, pos + 1) /\ Grounded(c, r, pos + 1) /\ Canonical(c, pos + 1)
  PROVE  PipelineInv'
<1>1. /\ pos > 12 /\ pos \in 13..38 /\ pos < 29 /\ pos < 30 /\ pos < 33 /\ pos < 36
      /\ pos # 29 /\ pos # 33
  OBVIOUS
<1>2. SourceInv /\ ChainInv /\ OccurrenceInv
  BY DEF PipelineInv
<1>3. c.theses \in Seq(Draft) /\ c.drafts \in Seq(Draft)
  BY <1>2 DEF ChainInv, ChainOf
<1>4. PICK m : /\ Commit(s, m, out) /\ SameSource(m) /\ m.claims = c
               /\ m.reg = Extended(mem.reg, out) \/ (m.reg = mem.reg /\ DOMAIN out = {})
  <2>1. CASE CommitActive(s, base, out)
    <3> DEFINE m == [base EXCEPT !.reg = Extended(@, out)]
    <3>1. Commit(s, m, out)
      BY <2>1 DEF CommitActive
    <3>2. SameSource(m) /\ m.claims = c /\ m.reg = Extended(mem.reg, out)
      BY DEF SameSource, MemFields
    <3> QED
      BY <3>1, <3>2
  <2>2. CASE Commit(s, base, out) /\ DOMAIN out = {}
    BY <2>2
  <2> QED
    BY <2>1, <2>2
<1>5. ChainOf(m.claims, m.reg, pos + 1, cut)
  BY <1>3, <1>4 DEF ChainOf
<1>6. OccurrencesOf(m.claims, m.reg, pos + 1, SealedPackets, SealedLife)
  BY <1>1, <1>2, ResultsKept DEF OccurrencesOf
<1> QED
  BY <1>1, <1>4, <1>5, <1>6, ClaimStage

\* Stage 17: windows for the drafts, frames for the windows.
LEMMA KnowledgeFrameKeeps == ASSUME PipelineInv, KnowledgeFrame PROVE PipelineInv'
<1> DEFINE s == "knowledge_frame"
           windows == Windows(Chain.drafts)
           frames == IF Live THEN Frames(windows) ELSE {}
           c == [Chain EXCEPT !.windows = windows, !.frames = frames]
           out == Put("frames", frames)
<1>1. /\ At(s)
      /\ Raise(s) \/ (frames = {} /\ Commit(s, Keep(c), NoOutput)) \/ CommitActive(s, Keep(c), out)
  BY DEF KnowledgeFrame
<1>2. pos = 17
  BY <1>1, AtRank DEF Rank
<1>3. /\ DOMAIN c = ChainFields /\ c.theses = Chain.theses /\ c.drafts = Chain.drafts
      /\ c.windows = windows /\ c.frames = frames
  BY DEF PipelineInv, Shape, Chain, ChainFields
<1>4. frames \in {{}, Frames(windows)}
  OBVIOUS
<1>5. DOMAIN out = {"frames"} /\ out["frames"] = frames /\ DOMAIN NoOutput = {}
  <2> HIDE DEF frames
  <2> QED
    BY DEF Put, NoOutput
<1>12. SameSource(Keep(c)) /\ Keep(c).claims = c /\ Keep(c).reg = mem.reg
  <2> HIDE DEF c
  <2> QED
    BY <1>3, SameSourceKeep DEF PipelineInv
<1>6. windows = Windows(c.drafts)
  BY <1>3
<1> HIDE DEF c, frames, windows, out
<1>7. Cut(c, pos + 1, frames)
  BY <1>3, <1>4, <1>6 DEF Cut
<1>8. \A r : /\ Checked(c, r, pos + 1) /\ Aligned(r, pos + 1) /\ Anchored(c, pos + 1)
             /\ Grounded(c, r, pos + 1) /\ Canonical(c, pos + 1)
  BY <1>2 DEF Checked, Aligned, Anchored, Grounded, Canonical
<1>9. CASE Raise(s)
  BY <1>1, <1>9, RaiseKeeps
<1>10. CASE frames = {} /\ Commit(s, Keep(c), NoOutput)
  <2>2. frames = IF "frames" \in DOMAIN NoOutput THEN NoOutput["frames"] ELSE {}
    BY <1>5, <1>10
  <2>3. DOMAIN NoOutput \cap SourceSlots = {}
    BY <1>5
  <2>4. Commit(s, Keep(c), NoOutput) /\ DOMAIN NoOutput = {}
    BY <1>5, <1>10
  <2>5. \A r : /\ Cut(c, pos + 1, frames) /\ Checked(c, r, pos + 1) /\ Aligned(r, pos + 1)
               /\ Anchored(c, pos + 1) /\ Grounded(c, r, pos + 1) /\ Canonical(c, pos + 1)
    BY <1>7, <1>8
  <2>6. pos \in 17..28
    BY <1>2
  <2> HIDE DEF s
  <2> QED
    BY <1>1, <1>2, <1>3, <1>12, <2>2, <2>3, <2>4, <2>5, <2>6, PlanningStage
<1>11. CASE CommitActive(s, Keep(c), out)
  <2>1. frames = IF "frames" \in DOMAIN out THEN out["frames"] ELSE {}
    BY <1>5
  <2>2. DOMAIN out \cap SourceSlots = {}
    BY <1>5 DEF SourceSlots
  <2> HIDE DEF s
  <2> QED
    BY <1>1, <1>2, <1>3, <1>7, <1>8, <1>11, <1>12, <2>1, <2>2, PlanningStage
<1> QED
  BY <1>1, <1>9, <1>10, <1>11

\* Stage 21: the checks in memory are those in the slot.
LEMMA TranscriptVisualCrosscheckKeeps ==
  ASSUME PipelineInv, TranscriptVisualCrosscheck PROVE PipelineInv'
<1> DEFINE s == "transcript_visual_crosscheck"
           checks == Checks(Chain.windows, Chain.frames, world.sees)
           c == [Chain EXCEPT !.checks = checks]
           out == Put("crosscheck", checks)
<1>1. At(s) /\ CommitActive(s, Keep(c), out)
  BY DEF TranscriptVisualCrosscheck
<1>2. pos = 21
  BY <1>1, AtRank DEF Rank
<1>3. /\ DOMAIN c = ChainFields /\ c.theses = Chain.theses /\ SamePlans(c)
      /\ c.checks = checks
  BY DEF PipelineInv, Shape, Chain, ChainFields, SamePlans
<1>4. DOMAIN out = {"crosscheck"} /\ out["crosscheck"] = checks
  BY PutIs
<1>5. checks = Checks(c.windows, c.frames, world.sees)
  BY <1>3 DEF SamePlans
<1>11. SameSource(Keep(c)) /\ Keep(c).claims = c /\ Keep(c).reg = mem.reg
  <2> HIDE DEF c
  <2> QED
    BY <1>3, SameSourceKeep DEF PipelineInv
<1> HIDE DEF c, checks, out
<1>6. Cut(c, pos + 1, CutFrames)
  BY <1>2, <1>3, PartsKept DEF PipelineInv
<1>7. ASSUME NEW r, r = Extended(mem.reg, out) \/ (r = mem.reg /\ DOMAIN out = {})
      PROVE  Checked(c, r, pos + 1)
  <2>1. r = Extended(mem.reg, out)
    BY <1>4, <1>7
  <2>2. "crosscheck" \in DOMAIN r /\ r["crosscheck"] = checks
    BY <2>1, <1>4 DEF Extended
  <2> QED
    BY <1>3, <1>5, <2>2 DEF Checked
<1>8. \A r : /\ Aligned(r, pos + 1) /\ Anchored(c, pos + 1)
             /\ Grounded(c, r, pos + 1) /\ Canonical(c, pos + 1)
  BY <1>2 DEF Aligned, Anchored, Grounded, Canonical
<1>9. DOMAIN out \cap SourceSlots = {}
  BY <1>4 DEF SourceSlots
<1>10. c.drafts = Chain.drafts
  BY <1>3 DEF SamePlans
<1> HIDE DEF s
<1> QED
  BY <1>1, <1>2, <1>3, <1>6, <1>7, <1>8, <1>9, <1>10, <1>11, PlanningStage

\* Stage 22: aligned with this transcript and these checks.
LEMMA SecurityEntityAlignmentKeeps ==
  ASSUME PipelineInv, SecurityEntityAlignment PROVE PipelineInv'
<1> DEFINE s == "security_entity_alignment"
           value == [text |-> mem.reg["transcript"], checks |-> mem.reg["crosscheck"]]
           out == Put("alignment", value)
<1>1. At(s) /\ CommitActive(s, mem, out)
  BY DEF SecurityEntityAlignment
<1>2. pos = 22
  BY <1>1, AtRank DEF Rank
<1>3. SameSource(mem) /\ mem.claims = Chain
  BY DEF PipelineInv, Shape, SameSource, Chain
<1>4. DOMAIN out = {"alignment"} /\ out["alignment"] = value
  <2> HIDE DEF value
  <2> QED
    BY PutIs
<1>5. value.text = mem.reg["transcript"] /\ value.checks = mem.reg["crosscheck"]
  OBVIOUS
<1>6. SamePlans(Chain) /\ SameChecks(Chain)
  BY DEF SamePlans, SameChecks
<1>7. "transcript" \in DOMAIN mem.reg /\ "crosscheck" \in DOMAIN mem.reg
  BY <1>2 DEF PipelineInv, SourceInv, SourceOf, ChainInv, ChainOf, Checked
<1> HIDE DEF value, out, s
<1>8. ASSUME NEW r, r = Extended(mem.reg, out) \/ (r = mem.reg /\ DOMAIN out = {})
      PROVE  /\ Cut(Chain, pos + 1, CutFrames) /\ Checked(Chain, r, pos + 1)
             /\ Aligned(r, pos + 1) /\ Anchored(Chain, pos + 1)
             /\ Grounded(Chain, r, pos + 1) /\ Canonical(Chain, pos + 1)
  <2>1. r = Extended(mem.reg, out)
    BY <1>4, <1>8
  <2>2. KeptSlots(r, {"crosscheck"})
    BY <1>4, <2>1, ExtendedKeeps
  <2>3. Aligned(r, pos + 1)
    <3>1. /\ r["transcript"] = mem.reg["transcript"] /\ r["crosscheck"] = mem.reg["crosscheck"]
          /\ "alignment" \in DOMAIN r /\ r["alignment"] = value
      BY <1>4, <1>7, <2>1 DEF Extended
    <3> QED
      BY <1>5, <3>1 DEF Aligned, AlignmentClosed
  <2>4. Cut(Chain, pos + 1, CutFrames) /\ Checked(Chain, r, pos + 1)
    BY <1>2, <1>6, <2>2, PartsKept DEF PipelineInv
  <2> QED
    BY <1>2, <2>3, <2>4 DEF Anchored, Grounded, Canonical
<1>9. DOMAIN out \cap SourceSlots = {}
  BY <1>4 DEF SourceSlots
<1> QED
  BY <1>1, <1>2, <1>3, <1>6, <1>8, <1>9, PlanningStage

\* The rules of the cross-check see nothing of a memory but this.
LEMMA LookEnough ==
  ASSUME NEW c, NEW d, NEW legible
  PROVE  Anchors(LookOf(c), d, legible) = Anchors(c, d, legible)
<1>1. /\ LookOf(c).windows = c.windows /\ LookOf(c).frames = c.frames
      /\ LookOf(c).checks = c.checks
  BY DEF LookOf
<1>2. OwnChecks(LookOf(c), d) = OwnChecks(c, d)
  BY <1>1 DEF OwnChecks
<1>3. \A f : RelationsOf(LookOf(c), d, f) = RelationsOf(c, d, f)
  BY <1>2 DEF RelationsOf
<1>4. \A f : Admits(LookOf(c), d, f) <=> Admits(c, d, f)
  BY <1>3 DEF Admits
<1> QED
  BY <1>1, <1>4 DEF Anchors

\* Stage 23: the anchors.
LEMMA ClaimVisualBindingKeeps ==
  ASSUME PipelineInv, ClaimVisualBinding PROVE PipelineInv'
<1> DEFINE s == "claim_visual_binding"
           anchors == [i \in DOMAIN Chain.drafts |->
                         Anchors(Chain, Chain.drafts[i], world.legible)]
           c == [Chain EXCEPT !.bound = TRUE, !.anchors = anchors]
<1>1. At(s) /\ Plain(s, c)
  BY DEF ClaimVisualBinding
<1>2. pos = 23
  BY <1>1, AtRank DEF Rank
<1>3. /\ DOMAIN c = ChainFields /\ c.theses = Chain.theses /\ SameChecks(c)
      /\ c.anchors = anchors
  BY DEF PipelineInv, Shape, Chain, ChainFields, SamePlans, SameChecks
<1>4. c.drafts = Chain.drafts /\ SamePlans(c)
  BY <1>3 DEF SameChecks, SamePlans
<1>5. Anchored(c, pos + 1)
  <2>1. LookOf(c) = LookOf(Chain)
    BY <1>3 DEF LookOf, SameChecks, SamePlans
  <2>2. anchors = [i \in DOMAIN Chain.drafts |->
                     Anchors(LookOf(Chain), Chain.drafts[i], world.legible)]
    BY LookEnough
  <2> HIDE DEF anchors, c
  <2> QED
    BY <1>3, <1>4, <2>1, <2>2 DEF Anchored
<1> HIDE DEF c, anchors
<1>6. SameSource(Keep(c)) /\ Keep(c).claims = c /\ Keep(c).reg = mem.reg
  BY <1>3, SameSourceKeep DEF PipelineInv
<1>7. Commit(s, Keep(c), NoOutput) /\ DOMAIN NoOutput = {} /\ DOMAIN NoOutput \cap SourceSlots = {}
  BY <1>1 DEF Plain, NoOutput
<1>8. Cut(c, pos + 1, CutFrames)
  BY <1>2, <1>4, PartsKept DEF PipelineInv
<1>9. "transcript" \in DOMAIN mem.reg
  BY <1>2 DEF PipelineInv, SourceInv, SourceOf
<1>10. ASSUME NEW r, r = Extended(mem.reg, NoOutput) \/ (r = mem.reg /\ DOMAIN NoOutput = {})
       PROVE  Checked(c, r, pos + 1) /\ Aligned(r, pos + 1)
  <2>1. KeptSlots(r, {"crosscheck"}) /\ KeptSlots(r, {"transcript", "crosscheck", "alignment"})
    BY <1>7, <1>10, ExtendedKeeps
  <2> QED
    BY <1>2, <1>3, <1>9, <2>1, PartsKept DEF PipelineInv
<1>11. \A r : Grounded(c, r, pos + 1) /\ Canonical(c, pos + 1)
  BY <1>2 DEF Grounded, Canonical
<1> HIDE DEF s
<1> QED
  BY <1>1, <1>2, <1>3, <1>4, <1>5, <1>6, <1>7, <1>8, <1>10, <1>11, PlanningStage

\* Stage 26: the evidence is that of all drafts and anchors.
LEMMA EvidenceGroundingKeeps == ASSUME PipelineInv, EvidenceGrounding PROVE PipelineInv'
<1> DEFINE s == "evidence_grounding"
           value == [text |-> mem.reg["transcript"], items |-> ItemsOf(Chain)]
           out == Put("evidence", value)
<1>1. At(s) /\ (Raise(s) \/ CommitActive(s, mem, out))
  BY DEF EvidenceGrounding, ItemsOf
<1>2. pos = 26
  BY <1>1, AtRank DEF Rank
<1>3. SameSource(mem) /\ mem.claims = Chain
  BY DEF PipelineInv, Shape, SameSource, Chain
<1>4. DOMAIN out = {"evidence"} /\ out["evidence"] = value
  <2> HIDE DEF value
  <2> QED
    BY PutIs
<1>5. value.text = mem.reg["transcript"] /\ value.items = ItemsOf(Chain)
  OBVIOUS
<1>6. SamePlans(Chain) /\ SameChecks(Chain)
  BY DEF SamePlans, SameChecks
<1>7. "transcript" \in DOMAIN mem.reg
  BY <1>2 DEF PipelineInv, SourceInv, SourceOf
<1> HIDE DEF value, out, s
<1>8. ASSUME NEW r, r = Extended(mem.reg, out) \/ (r = mem.reg /\ DOMAIN out = {})
      PROVE  /\ Cut(Chain, pos + 1, CutFrames) /\ Checked(Chain, r, pos + 1)
             /\ Aligned(r, pos + 1) /\ Anchored(Chain, pos + 1)
             /\ Grounded(Chain, r, pos + 1) /\ Canonical(Chain, pos + 1)
  <2>1. r = Extended(mem.reg, out)
    BY <1>4, <1>8
  <2>2. KeptSlots(r, {"crosscheck"}) /\ KeptSlots(r, {"transcript", "crosscheck", "alignment"})
    BY <1>4, <2>1, ExtendedKeeps
  <2>3. Grounded(Chain, r, pos + 1)
    <3>1. /\ r["transcript"] = mem.reg["transcript"]
          /\ "evidence" \in DOMAIN r /\ r["evidence"] = value
      BY <1>4, <1>7, <2>1 DEF Extended
    <3> QED
      BY <1>5, <3>1 DEF Grounded
  <2>4. /\ Cut(Chain, pos + 1, CutFrames) /\ Checked(Chain, r, pos + 1)
        /\ Aligned(r, pos + 1) /\ Anchored(Chain, pos + 1)
    BY <1>2, <1>6, <1>7, <2>2, PartsKept DEF PipelineInv
  <2> QED
    BY <1>2, <2>3, <2>4 DEF Canonical
<1>9. DOMAIN out \cap SourceSlots = {}
  BY <1>4 DEF SourceSlots
<1>10. CASE Raise(s)
  BY <1>1, <1>10, RaiseKeeps
<1>11. CASE CommitActive(s, mem, out)
  BY <1>1, <1>2, <1>3, <1>8, <1>9, <1>11, PlanningStage
<1> QED
  BY <1>1, <1>10, <1>11

\* Stage 28: one claim for each draft.
LEMMA ClaimCanonicalizationKeeps ==
  ASSUME PipelineInv, ClaimCanonicalization PROVE PipelineInv'
<1> DEFINE s == "claim_canonicalization"
           claims == [i \in DOMAIN Chain.drafts |-> Chain.drafts[i].claim]
           c == [Chain EXCEPT !.claims = claims]
           out == Put("claims", claims)
<1>1. At(s) /\ CommitActive(s, Keep(c), out)
  BY DEF ClaimCanonicalization
<1>2. pos = 28
  BY <1>1, AtRank DEF Rank
<1>3. /\ DOMAIN c = ChainFields /\ c.theses = Chain.theses /\ SameChecks(c)
      /\ c.claims = claims /\ c.anchors = Chain.anchors
  BY DEF PipelineInv, Shape, Chain, ChainFields, SamePlans, SameChecks
<1>4. c.drafts = Chain.drafts /\ SamePlans(c)
  BY <1>3 DEF SameChecks, SamePlans
<1>5. Canonical(c, pos + 1)
  <2> HIDE DEF c
  <2> QED
    BY <1>3, <1>4 DEF Canonical
<1> HIDE DEF c, claims
<1>6. SameSource(Keep(c)) /\ Keep(c).claims = c /\ Keep(c).reg = mem.reg
  BY <1>3, SameSourceKeep DEF PipelineInv
<1>7. DOMAIN out = {"claims"}
  BY PutIs
<1> HIDE DEF out, s
<1>8. "transcript" \in DOMAIN mem.reg
  BY <1>2 DEF PipelineInv, SourceInv, SourceOf
<1>9. ASSUME NEW r, r = Extended(mem.reg, out) \/ (r = mem.reg /\ DOMAIN out = {})
      PROVE  /\ Cut(c, pos + 1, CutFrames) /\ Checked(c, r, pos + 1)
             /\ Aligned(r, pos + 1) /\ Anchored(c, pos + 1) /\ Grounded(c, r, pos + 1)
  <2>1. r = Extended(mem.reg, out) \/ r = mem.reg
    BY <1>9
  <2>2. /\ KeptSlots(r, {"crosscheck"}) /\ KeptSlots(r, {"transcript", "crosscheck", "alignment"})
        /\ KeptSlots(r, {"transcript", "evidence"})
    BY <1>7, <2>1, ExtendedKeeps
  <2> QED
    BY <1>2, <1>3, <1>4, <1>8, <2>2, PartsKept DEF PipelineInv
<1>10. DOMAIN out \cap SourceSlots = {}
  BY <1>7 DEF SourceSlots
<1> QED
  BY <1>1, <1>2, <1>3, <1>4, <1>5, <1>6, <1>9, <1>10, PlanningStage

\* The check of a window's frame.
CheckOf(w, sees) == [frame |-> FrameOf(w), window |-> w, relation |-> sees[FrameOf(w)]]

\* A cross-check holds one check for each window whose frame was cut.
LEMMA ChecksAre ==
  ASSUME NEW windows, NEW frames, NEW sees
  PROVE  /\ \A w \in windows :
              FrameOf(w) \in frames => CheckOf(w, sees) \in Checks(windows, frames, sees)
         /\ \A k \in Checks(windows, frames, sees) :
              /\ k.window \in windows /\ k.frame = FrameOf(k.window) /\ k.frame \in frames
              /\ k.relation = sees[k.frame] /\ k = CheckOf(k.window, sees)
<1>1. Checks(windows, frames, sees) = {CheckOf(w, sees) : w \in {x \in windows : FrameOf(x) \in frames}}
  BY DEF Checks, CheckOf
<1>2. \A w : /\ CheckOf(w, sees).window = w /\ CheckOf(w, sees).frame = FrameOf(w)
             /\ CheckOf(w, sees).relation = sees[FrameOf(w)]
  BY DEF CheckOf
<1> QED
  BY <1>1, <1>2

\* The checks of one frame agree.
LEMMA RelationsAre ==
  ASSUME NEW c, NEW sees, c.checks = Checks(c.windows, c.frames, sees), NEW d, NEW f
  PROVE  RelationsOf(c, d, f) \subseteq {sees[f]}
<1>1. \A k \in c.checks : k.relation = sees[k.frame]
  BY ChecksAre
<1> QED
  BY <1>1 DEF RelationsOf, OwnChecks

\* What a window's checks say.
LEMMA WindowRelations ==
  ASSUME NEW c, NEW sees, c.checks = Checks(c.windows, c.frames, sees), NEW w \in c.windows,
         FrameOf(w) \in c.frames
  PROVE  {k.relation : k \in {x \in c.checks : x.window = w}} = {sees[FrameOf(w)]}
<1>1. CheckOf(w, sees) \in c.checks /\ CheckOf(w, sees).window = w
      /\ CheckOf(w, sees).relation = sees[FrameOf(w)]
  BY ChecksAre DEF CheckOf
<1>2. \A k \in c.checks : k.window = w => k.relation = sees[FrameOf(w)]
  BY ChecksAre
<1> QED
  BY <1>1, <1>2

\* When a window asks for a human, and what makes it available.
LEMMA WindowStatusIs ==
  ASSUME NEW c, NEW sees, c.checks = Checks(c.windows, c.frames, sees), NEW w \in c.windows,
         NEW d, NEW legible
  PROVE  /\ WindowStatus(c, d, w, legible) = "HUMAN_REVIEW_REQUIRED"
              <=> FrameOf(w) \in c.frames /\ sees[FrameOf(w)] = "CONTRADICTS"
         /\ WindowStatus(c, d, w, legible) = "AVAILABLE" =>
              /\ FrameOf(w) \in c.frames /\ FrameOf(w) \in legible
              /\ sees[FrameOf(w)] = "SUPPORTS" \/ (sees[FrameOf(w)] = "SECONDARY" /\ d.attributed)
<1>1. CASE FrameOf(w) \notin c.frames
  BY <1>1 DEF WindowStatus
<1>2. CASE FrameOf(w) \in c.frames
  <2>1. {k.relation : k \in {x \in c.checks : x.window = w}} = {sees[FrameOf(w)]}
    BY <1>2, WindowRelations
  <2> QED
    BY <1>2, <2>1 DEF WindowStatus
<1> QED
  BY <1>1, <1>2

\* The packet asks for a human exactly when a check of the draft contradicts.
LEMMA ReviewIs ==
  ASSUME NEW c, NEW sees, c.checks = Checks(c.windows, c.frames, sees), NEW d, NEW legible
  PROVE  Packet(c, d, legible) = "HUMAN_REVIEW_REQUIRED" <=> NeedsReview(c, d)
<1> DEFINE S == {WindowStatus(c, d, w, legible) : w \in Owned(c.windows, d)}
<1>1. Packet(c, d, legible) = "HUMAN_REVIEW_REQUIRED" <=> "HUMAN_REVIEW_REQUIRED" \in S
  BY DEF Packet
<1>2. "HUMAN_REVIEW_REQUIRED" \in S <=>
        \E w \in Owned(c.windows, d) : FrameOf(w) \in c.frames /\ sees[FrameOf(w)] = "CONTRADICTS"
  <2>1. \A w \in Owned(c.windows, d) : w \in c.windows
    BY DEF Owned
  <2>2. \A w \in Owned(c.windows, d) :
          WindowStatus(c, d, w, legible) = "HUMAN_REVIEW_REQUIRED"
            <=> FrameOf(w) \in c.frames /\ sees[FrameOf(w)] = "CONTRADICTS"
    BY <2>1, WindowStatusIs
  <2> QED
    BY <2>2
<1>3. ASSUME NEW w \in Owned(c.windows, d), FrameOf(w) \in c.frames,
             sees[FrameOf(w)] = "CONTRADICTS"
      PROVE  NeedsReview(c, d)
  <2>1. CheckOf(w, sees) \in c.checks
    BY <1>3, ChecksAre DEF Owned
  <2>2. CheckOf(w, sees).window = w /\ CheckOf(w, sees).relation = "CONTRADICTS"
    BY <1>3 DEF CheckOf
  <2> QED
    BY <2>1, <2>2 DEF NeedsReview, OwnChecks
<1>4. ASSUME NEW k \in OwnChecks(c, d), k.relation = "CONTRADICTS"
      PROVE  \E w \in Owned(c.windows, d) :
               FrameOf(w) \in c.frames /\ sees[FrameOf(w)] = "CONTRADICTS"
  <2>1. k \in c.checks /\ k.window \in Owned(c.windows, d)
    BY DEF OwnChecks
  <2>2. k.frame = FrameOf(k.window) /\ k.frame \in c.frames /\ k.relation = sees[k.frame]
    BY <2>1, ChecksAre
  <2> QED
    BY <1>4, <2>1, <2>2
<1> QED
  BY <1>1, <1>2, <1>3, <1>4 DEF NeedsReview

\* A packet that calls itself available rests on an anchor the binding admits.
LEMMA AvailableRests ==
  ASSUME NEW c, NEW sees, c.checks = Checks(c.windows, c.frames, sees), NEW d, NEW legible,
         Packet(c, d, legible) = "AVAILABLE"
  PROVE  Anchors(c, d, legible) # {}
<1> DEFINE S == {WindowStatus(c, d, w, legible) : w \in Owned(c.windows, d)}
<1>1. S = {"AVAILABLE"}
  BY DEF Packet
<1>2. PICK w \in Owned(c.windows, d) : WindowStatus(c, d, w, legible) = "AVAILABLE"
  BY <1>1
<1> DEFINE f == FrameOf(w)
<1>3. w \in c.windows
  BY DEF Owned
<1>4. /\ f \in c.frames /\ f \in legible
      /\ sees[f] = "SUPPORTS" \/ (sees[f] = "SECONDARY" /\ d.attributed)
  BY <1>2, <1>3, WindowStatusIs
<1>5. CheckOf(w, sees) \in c.checks
  BY <1>3, <1>4, ChecksAre
<1>6. /\ CheckOf(w, sees).window = w /\ CheckOf(w, sees).relation = sees[f]
      /\ CheckOf(w, sees).frame = f
  BY DEF CheckOf
<1>7. sees[f] \in RelationsOf(c, d, f)
  BY <1>5, <1>6 DEF RelationsOf, OwnChecks
<1>8. RelationsOf(c, d, f) = {sees[f]}
  <2>1. RelationsOf(c, d, f) \subseteq {sees[f]}
    BY RelationsAre
  <2> QED
    BY <1>7, <2>1
<1>9. Admits(c, d, f)
  BY <1>4, <1>8 DEF Admits
<1> HIDE DEF f
<1> QED
  BY <1>4, <1>9 DEF Anchors

\* A frame that was cut and contradicts its span puts every draft of the span under review.
LEMMA ContradictedIsReviewed ==
  ASSUME NEW c, NEW sees, c.checks = Checks(c.windows, c.frames, sees),
         c.frames \in {{}, Frames(c.windows)}, NEW d,
         NEW f \in c.frames, f.span = d.span, sees[f] = "CONTRADICTS"
  PROVE  NeedsReview(c, d)
<1>1. PICK w \in c.windows : f = FrameOf(w)
  BY DEF Frames
<1>2. w \in Owned(c.windows, d)
  BY <1>1 DEF Owned, FrameOf
<1>3. CheckOf(w, sees) \in c.checks
  BY <1>1, ChecksAre
<1>4. CheckOf(w, sees).window = w /\ CheckOf(w, sees).relation = "CONTRADICTS"
  BY <1>1 DEF CheckOf
<1> QED
  BY <1>2, <1>3, <1>4 DEF NeedsReview, OwnChecks

\* An occurrence, field by field.
LEMMA OccurrencesAre ==
  ASSUME NEW c, NEW legible
  PROVE  /\ DOMAIN Occurrences(c, legible) = DOMAIN c.drafts
         /\ \A i \in DOMAIN c.drafts :
              LET o == Occurrences(c, legible)[i] IN
              /\ o.claim = c.drafts[i].claim /\ o.span = c.drafts[i].span
              /\ o.attributed = c.drafts[i].attributed /\ o.anchors = c.anchors[i]
              /\ o.seen = OwnChecks(c, c.drafts[i]) /\ o.review = NeedsReview(c, c.drafts[i])
              /\ o.packet = Packet(c, c.drafts[i], legible)
BY DEF Occurrences

\* What the claim stages have agreed on when the occurrences are made.
Planned(c, sees, legible) ==
  /\ c.drafts \in Seq(Draft)
  /\ c.windows = Windows(c.drafts) /\ c.frames \in {{}, Frames(c.windows)}
  /\ c.checks = Checks(c.windows, c.frames, sees)
  /\ c.anchors = [i \in DOMAIN c.drafts |-> Anchors(c, c.drafts[i], legible)]

\* The statement a window was made for cites its span.
LEMMA WindowIsOf ==
  ASSUME NEW c, NEW sees, NEW legible, Planned(c, sees, legible), NEW i \in DOMAIN c.drafts,
         NEW w \in c.windows
  PROVE  \E j \in DOMAIN c.drafts :
           w = [claim |-> c.drafts[j].claim, span |-> c.drafts[j].span,
                thesis |-> c.drafts[j].thesis]
<1>1. c.drafts # << >>
  BY DEF Planned
<1>2. w \in {[claim |-> d.claim, span |-> d.span, thesis |-> d.thesis] : d \in ToSet(c.drafts)}
  BY <1>1 DEF Planned, Windows
<1>3. PICK d \in ToSet(c.drafts) : w = [claim |-> d.claim, span |-> d.span, thesis |-> d.thesis]
  BY <1>2
<1>4. PICK j \in DOMAIN c.drafts : d = c.drafts[j]
  BY DEF ToSet
<1> QED
  BY <1>3, <1>4

\* Where no other statement cites its span, an occurrence has one check of a frame.
LEMMA OneWindow ==
  ASSUME NEW c, NEW sees, NEW legible, Planned(c, sees, legible), NEW i \in DOMAIN c.drafts,
         ~ Shared(ToSet(Occurrences(c, legible))),
         NEW k \in OwnChecks(c, c.drafts[i])
  PROVE  k.window = [claim |-> c.drafts[i].claim, span |-> c.drafts[i].span,
                     thesis |-> k.frame.thesis]
<1> DEFINE occs == Occurrences(c, legible)
<1>1. /\ k \in c.checks /\ k.window \in c.windows /\ k.window.span = c.drafts[i].span
      /\ k.frame = FrameOf(k.window)
  <2>1. k \in c.checks /\ k.window \in Owned(c.windows, c.drafts[i])
    BY DEF OwnChecks
  <2>2. c.checks = Checks(c.windows, c.frames, sees)
    BY DEF Planned
  <2>3. k.frame = FrameOf(k.window)
    BY <2>1, <2>2, ChecksAre
  <2> QED
    BY <2>1, <2>3 DEF Owned
<1>2. PICK j \in DOMAIN c.drafts :
        k.window = [claim |-> c.drafts[j].claim, span |-> c.drafts[j].span,
                    thesis |-> c.drafts[j].thesis]
  BY <1>1, WindowIsOf
<1>3. /\ occs[i].claim = c.drafts[i].claim /\ occs[i].span = c.drafts[i].span
      /\ occs[j].claim = c.drafts[j].claim /\ occs[j].span = c.drafts[j].span
      /\ occs[i] \in ToSet(occs) /\ occs[j] \in ToSet(occs)
  BY OccurrencesAre DEF ToSet
<1>4. c.drafts[j].span = c.drafts[i].span
  BY <1>1, <1>2
<1>5. c.drafts[j].claim = c.drafts[i].claim
  BY <1>3, <1>4 DEF Shared, SharedSpan
<1>6. k.frame.thesis = c.drafts[j].thesis
  BY <1>1, <1>2 DEF FrameOf
<1> QED
  BY <1>2, <1>4, <1>5, <1>6

\* So it has exactly one relation for each of its anchors.
LEMMA OneRelation ==
  ASSUME NEW c, NEW sees, NEW legible, Planned(c, sees, legible), NEW i \in DOMAIN c.drafts,
         ~ Shared(ToSet(Occurrences(c, legible))),
         NEW f \in Anchors(c, c.drafts[i], legible),
         NEW slots, slots["crosscheck"] = c.checks
  PROVE  Cardinality(ExactRelations(slots, Occurrences(c, legible)[i], f)) = 1
<1> DEFINE d == c.drafts[i]
           o == Occurrences(c, legible)[i]
           exact == ExactRelations(slots, o, f)
           own == {k \in OwnChecks(c, d) : k.frame = f}
<1>1. o.seen = OwnChecks(c, d) /\ o.attributed = d.attributed
  BY OccurrencesAre
<1>2. Admits(c, d, f)
  BY DEF Anchors
<1>3. \A k \in own : k.relation \in RelationsOf(c, d, f)
  BY DEF RelationsOf
<1>4. \A k \in own : k.relation \in {"SUPPORTS", "CONTRADICTS"}
                       \/ (k.relation = "SECONDARY" /\ d.attributed)
  <2> HIDE DEF own, d
  <2> QED
    BY <1>2, <1>3 DEF Admits
<1>5. c.checks = Checks(c.windows, c.frames, sees)
  BY DEF Planned
<1>6. \A k, x \in c.checks : k.window = x.window => k = x
  BY <1>5, ChecksAre
<1>7. OwnChecks(c, d) \subseteq c.checks
  BY DEF OwnChecks
<1>8. PICK k \in own : TRUE
  <2>1. RelationsOf(c, d, f) # {}
    BY <1>2 DEF Admits
  <2> QED
    BY <2>1 DEF RelationsOf
<1>9. \A x \in own : x = k
  <2> SUFFICES ASSUME NEW x \in own PROVE x = k
    OBVIOUS
  <2>1. /\ x.window = [claim |-> d.claim, span |-> d.span, thesis |-> x.frame.thesis]
        /\ k.window = [claim |-> d.claim, span |-> d.span, thesis |-> k.frame.thesis]
    BY OneWindow
  <2>2. x.frame = k.frame
    OBVIOUS
  <2>3. x.window = k.window
    BY <2>1, <2>2
  <2> QED
    BY <1>6, <1>7, <2>3
<1>10. exact \subseteq own
  <2> SUFFICES ASSUME NEW x \in exact PROVE x \in own
    OBVIOUS
  <2>1. x \in c.checks /\ x.frame = f
    BY DEF ExactRelations
  <2>2. PICK y \in o.seen : y.frame = f /\ x.window = y.window
    BY DEF ExactRelations
  <2>3. x = y
    BY <1>1, <1>6, <1>7, <2>1, <2>2
  <2> QED
    BY <1>1, <2>1, <2>2, <2>3
<1>11. k \in exact
  <2> HIDE DEF d, o
  <2>1. k \in slots["crosscheck"] /\ k.frame = f /\ k \in o.seen
    BY <1>1, <1>7
  <2>2. k.relation \in {"SUPPORTS", "CONTRADICTS"} \/ (k.relation = "SECONDARY" /\ o.attributed)
    BY <1>1, <1>4
  <2> QED
    BY <2>1, <2>2 DEF ExactRelations
<1>12. exact = {k}
  <2> HIDE DEF exact, own
  <2> QED
    BY <1>9, <1>10, <1>11
<1> HIDE DEF exact
<1>13. Cardinality({k}) = 1
  BY FS_Singleton
<1>14. Cardinality(exact) = 1
  BY <1>12, <1>13
<1> QED
  BY <1>14 DEF exact

\* The slots that the occurrences were made from and are sealed with.
MadeFor(slots, c, occs) ==
  /\ {"source", "transcript", "semantic_segments", "evidence", "claims"} \subseteq DOMAIN slots
  /\ slots["semantic_segments"].text = slots["transcript"]
  /\ slots["semantic_segments"].spans = Spans
  /\ slots["evidence"].text = slots["transcript"] /\ slots["evidence"].items = ItemsOf(c)
  /\ slots["occurrences"].rows = {OccurrenceId(o) : o \in ToSet(occs)}
  /\ slots["occurrences"].segments = slots["semantic_segments"]
  /\ slots["occurrences"].evidence = slots["evidence"]
  /\ slots["visual_evidence"] = Packets(ToSet(occs))
  /\ slots["claims"] = [i \in DOMAIN c.drafts |-> c.drafts[i].claim]
  /\ slots["crosscheck"] = c.checks
  /\ AlignmentClosed(slots)

\* The replay accepts what was made so, where no two statements cite one span.
LEMMA MadeIsClosed ==
  ASSUME NEW c, NEW sees, NEW legible, Planned(c, sees, legible),
         NEW slots, MadeFor(slots, c, Occurrences(c, legible)),
         ~ Shared(ToSet(Occurrences(c, legible)))
  PROVE  Closed(slots, ToSet(Occurrences(c, legible)))
<1> DEFINE occs == Occurrences(c, legible)
<1>1. SlotsClosed(slots)
  BY DEF MadeFor, SlotsClosed
<1>2. \A o \in ToSet(occs) : \E i \in DOMAIN c.drafts : o = occs[i]
  BY OccurrencesAre DEF ToSet
<1>3. \A i \in DOMAIN c.drafts :
        /\ occs[i].claim = c.drafts[i].claim /\ occs[i].span = c.drafts[i].span
        /\ occs[i].anchors = c.anchors[i] /\ occs[i].seen = OwnChecks(c, c.drafts[i])
        /\ occs[i] \in ToSet(occs)
  BY OccurrencesAre DEF ToSet
<1>4. \A i \in DOMAIN c.drafts : c.drafts[i].span \in Spans
  <2>1. \A i \in DOMAIN c.drafts : c.drafts[i] \in Draft
    BY DEF Planned
  <2> QED
    BY <2>1 DEF Draft
<1>5. \A i \in DOMAIN c.drafts :
        /\ c.anchors[i] = Anchors(c, c.drafts[i], legible)
        /\ c.drafts[i].span \in ItemsOf(c) /\ c.anchors[i] \subseteq ItemsOf(c)
  BY DEF Planned, ItemsOf
<1>6. c.checks = Checks(c.windows, c.frames, sees)
  BY DEF Planned
<1> HIDE DEF occs
<1>7. ASSUME NEW o \in ToSet(occs) PROVE RowInside(slots, o)
  <2>1. PICK i \in DOMAIN c.drafts : o = occs[i]
    BY <1>2
  <2>2. OccurrenceId(o) \in slots["occurrences"].rows
    BY DEF MadeFor, occs
  <2>3. o.claim \in ToSet(slots["claims"])
    <3>1. slots["claims"] = [j \in DOMAIN c.drafts |-> c.drafts[j].claim]
      BY DEF MadeFor
    <3>2. slots["claims"][i] = o.claim /\ i \in DOMAIN slots["claims"]
      BY <1>3, <2>1, <3>1
    <3> QED
      BY <3>2 DEF ToSet
  <2>4. o.span \in slots["semantic_segments"].spans
    BY <1>3, <1>4, <2>1 DEF MadeFor
  <2>5. {o.span} \cup o.anchors \subseteq slots["evidence"].items
    BY <1>3, <1>5, <2>1 DEF MadeFor
  <2> QED
    BY <2>2, <2>3, <2>4, <2>5 DEF RowInside
<1>8. VisualsAdmitted(slots, ToSet(occs))
  <2>1. ASSUME NEW x \in ItemsOf(c), x \notin Spans
        PROVE  x \in UNION {o.anchors : o \in ToSet(occs)}
    <3>1. PICK i \in DOMAIN c.drafts : x \in c.anchors[i]
      BY <1>4, <2>1 DEF ItemsOf
    <3>2. x \in occs[i].anchors /\ occs[i] \in ToSet(occs)
      BY <1>3, <3>1
    <3> QED
      BY <3>2
  <2>2. ASSUME NEW o \in ToSet(occs), NEW f \in o.anchors
        PROVE  Cardinality(ExactRelations(slots, o, f)) = 1
    <3>1. PICK i \in DOMAIN c.drafts : o = occs[i]
      BY <1>2
    <3>2. f \in Anchors(c, c.drafts[i], legible)
      BY <1>3, <1>5, <2>2, <3>1
    <3>3. slots["crosscheck"] = c.checks
      BY DEF MadeFor
    <3>4. Cardinality(ExactRelations(slots, Occurrences(c, legible)[i], f)) = 1
      BY <3>2, <3>3, OneRelation
    <3> QED
      BY <3>1, <3>4 DEF occs
  <2>3. slots["evidence"].items = ItemsOf(c)
    BY DEF MadeFor
  <2> QED
    BY <2>1, <2>2, <2>3 DEF VisualsAdmitted
<1>9. PacketsSealed(slots, ToSet(occs))
  <2>1. slots["visual_evidence"] = {PacketOf(o) : o \in ToSet(occs)}
    BY DEF MadeFor, Packets, occs
  <2>2. ASSUME NEW o \in ToSet(occs), NEW k \in o.seen
        PROVE  {x \in slots["crosscheck"] : x.frame = k.frame /\ x.window = k.window} = {k}
    <3>1. PICK i \in DOMAIN c.drafts : o = occs[i]
      BY <1>2
    <3>2. k \in c.checks
      BY <1>3, <2>2, <3>1 DEF OwnChecks
    <3>3. \A x \in c.checks : x.window = k.window => x = k
      BY <1>6, <3>2, ChecksAre
    <3>4. slots["crosscheck"] = c.checks
      BY DEF MadeFor
    <3> QED
      BY <3>2, <3>3, <3>4
  <2> QED
    BY <2>1, <2>2 DEF PacketsSealed
<1>10. AlignmentClosed(slots)
  BY DEF MadeFor
<1> QED
  BY <1>1, <1>7, <1>8, <1>9, <1>10 DEF Closed, occs

\* What is sealed with an occurrence is the verdict of its checks.
LEMMA MadeIsSealed ==
  ASSUME NEW c, NEW sees, NEW legible, Planned(c, sees, legible),
         sees = world.sees, c.frames = CutFrames, NEW i \in DOMAIN c.drafts
  PROVE  WellSealed(Occurrences(c, legible)[i])
<1> DEFINE o == Occurrences(c, legible)[i]
           d == c.drafts[i]
<1>1. /\ o.span = d.span /\ o.anchors = c.anchors[i] /\ o.seen = OwnChecks(c, d)
      /\ o.review = NeedsReview(c, d) /\ o.packet = Packet(c, d, legible)
  BY OccurrencesAre
<1>2. /\ c.checks = Checks(c.windows, c.frames, sees) /\ c.frames \in {{}, Frames(c.windows)}
      /\ c.anchors[i] = Anchors(c, d, legible)
  BY DEF Planned
<1> HIDE DEF o, d
<1>3. o.packet = "HUMAN_REVIEW_REQUIRED" <=> o.review
  BY <1>1, <1>2, ReviewIs
<1>4. o.packet = "AVAILABLE" => o.anchors # {}
  BY <1>1, <1>2, AvailableRests
<1>5. o.review <=> \E k \in o.seen : k.relation = "CONTRADICTS"
  BY <1>1 DEF NeedsReview
<1>6. ASSUME Contradicted(o.span) PROVE o.review
  <2>1. PICK f \in CutFrames : f.span = d.span /\ sees[f] = "CONTRADICTS"
    BY <1>1, <1>6 DEF Contradicted
  <2> QED
    BY <1>1, <1>2, <2>1, ContradictedIsReviewed
<1>7. WellSealed(o)
  BY <1>3, <1>4, <1>5, <1>6 DEF WellSealed
<1> QED
  BY <1>7 DEF o

\* What has been agreed on when the occurrences are made.
LEMMA PlannedNow ==
  ASSUME PipelineInv, pos = 29
  PROVE  /\ Planned(Chain, world.sees, world.legible)
         /\ Chain.frames = CutFrames
         /\ Chain.claims = [i \in DOMAIN Chain.drafts |-> Chain.drafts[i].claim]
<1>1. /\ Chain.drafts \in Seq(Draft)
      /\ Cut(Chain, pos, CutFrames) /\ Checked(Chain, mem.reg, pos)
      /\ Anchored(Chain, pos) /\ Canonical(Chain, pos)
  BY DEF PipelineInv, ChainInv, ChainOf
<1>2. /\ Chain.windows = Windows(Chain.drafts) /\ Chain.frames \in {{}, Frames(Chain.windows)}
      /\ Chain.frames = CutFrames
  BY <1>1 DEF Cut
<1>3. Chain.checks = Checks(Chain.windows, Chain.frames, world.sees)
  BY <1>1 DEF Checked
<1>4. Chain.anchors = [i \in DOMAIN Chain.drafts |->
                         Anchors(Chain, Chain.drafts[i], world.legible)]
  BY <1>1, LookEnough DEF Anchored
<1>5. Chain.claims = [i \in DOMAIN Chain.drafts |-> Chain.drafts[i].claim]
  BY <1>1 DEF Canonical
<1> QED
  BY <1>1, <1>2, <1>3, <1>4, <1>5 DEF Planned

\* The slots as the occurrences leave them.
LEMMA MadeNow ==
  ASSUME PipelineInv, pos = 29, NEW occs, NEW out, NEW reg, reg = Extended(mem.reg, out),
         DOMAIN out = {"occurrences", "visual_evidence", "claims"},
         out["occurrences"] = [rows |-> {OccurrenceId(o) : o \in ToSet(occs)},
                               segments |-> mem.reg["semantic_segments"],
                               evidence |-> mem.reg["evidence"]],
         out["visual_evidence"] = Packets(ToSet(occs)),
         out["claims"] = Chain.claims
  PROVE  MadeFor(reg, Chain, occs)
<1>1. /\ {"source", "transcript", "semantic_segments"} \subseteq DOMAIN mem.reg
      /\ mem.reg["semantic_segments"].spans = Spans
      /\ mem.reg["semantic_segments"].text = mem.reg["transcript"]
  BY DEF PipelineInv, SourceInv, SourceOf
<1>2. /\ {"crosscheck", "alignment", "evidence"} \subseteq DOMAIN mem.reg
      /\ mem.reg["crosscheck"] = Chain.checks /\ AlignmentClosed(mem.reg)
      /\ mem.reg["evidence"].text = mem.reg["transcript"]
      /\ mem.reg["evidence"].items = ItemsOf(Chain)
  BY DEF PipelineInv, ChainInv, ChainOf, Checked, Aligned, Grounded
<1>3. \A k \in {"source", "transcript", "semantic_segments", "crosscheck", "alignment", "evidence"} :
        k \in DOMAIN reg /\ reg[k] = mem.reg[k]
  BY <1>1, <1>2 DEF Extended
<1>4. \A k \in {"occurrences", "visual_evidence", "claims"} : k \in DOMAIN reg /\ reg[k] = out[k]
  BY DEF Extended
<1>5. AlignmentClosed(reg)
  BY <1>2, <1>3 DEF AlignmentClosed
<1>6. /\ reg["occurrences"].rows = {OccurrenceId(o) : o \in ToSet(occs)}
      /\ reg["occurrences"].segments = reg["semantic_segments"]
      /\ reg["occurrences"].evidence = reg["evidence"]
  BY <1>3, <1>4
<1>7. reg["claims"] = [i \in DOMAIN Chain.drafts |-> Chain.drafts[i].claim]
  BY <1>4, PlannedNow
<1> QED
  BY <1>1, <1>2, <1>3, <1>4, <1>5, <1>6, <1>7 DEF MadeFor

\* Stage 29: the occurrences are sealed as the replay will read them.
LEMMA ClaimOccurrencePersistenceKeeps ==
  ASSUME PipelineInv, ClaimOccurrencePersistence PROVE PipelineInv'
<1> DEFINE s == "claim_occurrence_persistence"
           occs == Occurrences(Chain, world.legible)
           clock == IF Live THEN task.attempt ELSE 0
           c == [Chain EXCEPT !.occs = occs, !.clock = clock]
           out == [occurrences |-> [rows |-> {OccurrenceId(o) : o \in ToSet(occs)},
                                    segments |-> mem.reg["semantic_segments"],
                                    evidence |-> mem.reg["evidence"]],
                   visual_evidence |-> {PacketOf(o) : o \in ToSet(occs)},
                   claims |-> Chain.claims]
           m == [Keep(c) EXCEPT !.reg = Extended(@, out)]
<1>1. At(s) /\ Commit(s, m, out)
  BY DEF ClaimOccurrencePersistence, CommitActive
<1>2. pos = 29
  BY <1>1, AtRank DEF Rank
<1>3. /\ DOMAIN c = ChainFields /\ c.theses = Chain.theses /\ SameChecks(c)
      /\ c.anchors = Chain.anchors /\ c.claims = Chain.claims /\ c.occs = occs
  <2> HIDE DEF occs, clock
  <2> QED
    BY DEF PipelineInv, Shape, Chain, ChainFields, SamePlans, SameChecks
<1>4. /\ DOMAIN out = {"occurrences", "visual_evidence", "claims"}
      /\ out["occurrences"] = [rows |-> {OccurrenceId(o) : o \in ToSet(occs)},
                               segments |-> mem.reg["semantic_segments"],
                               evidence |-> mem.reg["evidence"]]
      /\ out["visual_evidence"] = Packets(ToSet(occs)) /\ out["claims"] = Chain.claims
  BY DEF Packets
<1>5. SameSource(m) /\ m.claims = c /\ m.reg = Extended(mem.reg, out)
  <2> HIDE DEF c, out
  <2> QED
    BY <1>3, SameSourceKeep DEF PipelineInv
<1> HIDE DEF out, c, m
<1>6. SamePlans(c)
  BY <1>3 DEF SameChecks
<1>7. MadeFor(m.reg, Chain, occs)
  <2> HIDE DEF occs
  <2> QED
    BY <1>2, <1>4, <1>5, MadeNow
<1>8. ChainOf(c, m.reg, pos + 1, CutFrames)
  <2>1. DOMAIN out \cap {"crosscheck", "transcript", "alignment", "evidence"} = {}
    BY <1>4
  <2>2. /\ KeptSlots(m.reg, {"crosscheck"})
        /\ KeptSlots(m.reg, {"transcript", "crosscheck", "alignment"})
        /\ KeptSlots(m.reg, {"transcript", "evidence"})
    BY <1>5, <2>1, ExtendedKeeps
  <2>3. "transcript" \in DOMAIN mem.reg
    BY <1>2 DEF PipelineInv, SourceInv, SourceOf
  <2>4. c.theses \in Seq(Draft) /\ c.drafts \in Seq(Draft)
    BY <1>3, <1>6 DEF PipelineInv, ChainInv, ChainOf, SamePlans
  <2> QED
    BY <1>2, <1>3, <1>6, <2>2, <2>3, <2>4, PartsKept DEF PipelineInv, ChainOf
<1>9. Sealed(c, m.reg, pos + 1, out["visual_evidence"])
  <2>1. /\ Planned(Chain, world.sees, world.legible) /\ Chain.frames = CutFrames
        /\ Chain.claims = [i \in DOMAIN Chain.drafts |-> Chain.drafts[i].claim]
    BY <1>2, PlannedNow
  <2>2. /\ DOMAIN occs = DOMAIN Chain.drafts
        /\ \A i \in DOMAIN Chain.drafts : occs[i].claim = Chain.drafts[i].claim
    BY OccurrencesAre
  <2>3. \A i \in DOMAIN Chain.drafts : WellSealed(occs[i])
    BY <2>1, MadeIsSealed
  <2>4. Closed(m.reg, ToSet(occs)) \/ Shared(ToSet(occs))
    BY <1>7, <2>1, MadeIsClosed
  <2> HIDE DEF occs
  <2>5. \A o \in ToSet(occs) : WellSealed(o)
    BY <2>2, <2>3 DEF ToSet
  <2>6. DOMAIN c.occs = DOMAIN c.claims /\ \A i \in DOMAIN c.claims : c.occs[i].claim = c.claims[i]
    BY <1>3, <2>1, <2>2
  <2>7. /\ {"occurrences", "visual_evidence", "claims"} \subseteq DOMAIN m.reg
        /\ m.reg["claims"] = c.claims
    BY <1>3, <1>4, <1>5 DEF Extended
  <2> QED
    BY <1>3, <1>4, <2>4, <2>5, <2>6, <2>7 DEF Sealed
<1>10. OccurrencesOf(c, m.reg, pos + 1, out["visual_evidence"], SealedLife)
  BY <1>2, <1>9 DEF OccurrencesOf, Paired, Provisional, Judged, ReadFirst
<1>11. /\ pos > 12 /\ pos # 17 /\ pos # 33 /\ DOMAIN out \cap SourceSlots = {}
  BY <1>2, <1>4 DEF SourceSlots
<1> HIDE DEF s
<1> QED
  BY <1>1, <1>2, <1>5, <1>8, <1>10, <1>11, ClaimStage

\* Where occurrences and claims go side by side, the n-th occurrence of a claim stands
\* where the n-th record of the claim does.
LEMMA NthIsThere ==
  ASSUME NEW N \in Nat, NEW claims, NEW occs, DOMAIN claims = 1..N, DOMAIN occs = 1..N,
         \A i \in 1..N : occs[i].claim = claims[i], NEW i \in 1..N
  PROVE  NthOf(occs, claims[i], Nth(claims, i)) = i
<1> DEFINE cl == claims[i]
           upto(k) == {j \in 1..k : occs[j].claim = cl}
           fits(k) == occs[k].claim = cl /\ Cardinality(upto(k)) = Nth(claims, i)
<1>1. Nth(claims, i) = Cardinality(upto(i))
  <2>1. {j \in 1..i : claims[j] = cl} = upto(i)
    OBVIOUS
  <2> HIDE DEF upto
  <2> QED
    BY <2>1 DEF Nth
<1>2. \A k \in 1..N : IsFiniteSet(upto(k))
  <2> SUFFICES ASSUME NEW k \in 1..N PROVE IsFiniteSet(upto(k))
    OBVIOUS
  <2>1. IsFiniteSet(1..k) /\ upto(k) \subseteq 1..k
    BY FS_Interval
  <2> HIDE DEF upto
  <2> QED
    BY <2>1, FS_Subset
<1>3. \A k, l \in 1..N : k < l /\ occs[l].claim = cl => Cardinality(upto(k)) # Cardinality(upto(l))
  <2> SUFFICES ASSUME NEW k \in 1..N, NEW l \in 1..N, k < l, occs[l].claim = cl
               PROVE  Cardinality(upto(k)) # Cardinality(upto(l))
    OBVIOUS
  <2>1. upto(k) \subseteq upto(l) /\ l \in upto(l) /\ l \notin upto(k)
    OBVIOUS
  <2> HIDE DEF upto
  <2> QED
    BY <1>2, <2>1, FS_Subset
<1>4. fits(i)
  BY <1>1
<1>5. \A k \in 1..N : fits(k) => k = i
  <2> SUFFICES ASSUME NEW k \in 1..N, fits(k), k # i PROVE FALSE
    OBVIOUS
  <2>1. k < i \/ i < k
    OBVIOUS
  <2>2. /\ occs[k].claim = cl /\ occs[i].claim = cl
        /\ Cardinality(upto(k)) = Cardinality(upto(i))
    BY <1>1, <1>4
  <2> HIDE DEF upto, fits, cl
  <2> QED
    BY <1>3, <2>1, <2>2
<1>6. NthOf(occs, cl, Nth(claims, i)) = CHOOSE k \in 1..N : fits(k)
  BY DEF NthOf
<1> HIDE DEF fits
<1>7. i = CHOOSE k \in 1..N : fits(k)
  BY <1>4, <1>5
<1> QED
  BY <1>6, <1>7

\* The units take the occurrences one by one.
LEMMA UnitsAre ==
  ASSUME NEW N \in Nat, NEW claims, NEW occs, DOMAIN claims = 1..N, DOMAIN occs = 1..N,
         \A i \in 1..N : occs[i].claim = claims[i]
  PROVE  /\ DOMAIN KnowledgeUnits(claims, occs) = 1..N
         /\ \A i \in 1..N : KnowledgeUnits(claims, occs)[i] =
              [claim |-> claims[i], occ |-> occs[i], support |-> "SOURCE_SUPPORTED",
               life |-> "ACTIVE"]
<1>1. \A i \in 1..N : NthOf(occs, claims[i], Nth(claims, i)) = i
  BY NthIsThere
<1> QED
  BY <1>1 DEF KnowledgeUnits

\* The claims are numbered like the drafts.
LEMMA ClaimsNumbered ==
  ASSUME PipelineInv, pos \in 30..38
  PROVE  \E N \in Nat : /\ DOMAIN Chain.claims = 1..N /\ DOMAIN Chain.occs = 1..N
                        /\ \A i \in 1..N : Chain.occs[i].claim = Chain.claims[i]
<1>1. /\ Chain.drafts \in Seq(Draft)
      /\ Chain.claims = [i \in DOMAIN Chain.drafts |-> Chain.drafts[i].claim]
  BY DEF PipelineInv, ChainInv, ChainOf, Canonical
<1>2. /\ DOMAIN Chain.occs = DOMAIN Chain.claims
      /\ \A i \in DOMAIN Chain.claims : Chain.occs[i].claim = Chain.claims[i]
  BY DEF PipelineInv, OccurrenceInv, OccurrencesOf, Sealed
<1>3. PICK N \in Nat : DOMAIN Chain.drafts = 1..N
  BY <1>1
<1> QED
  BY <1>1, <1>2, <1>3

-----------------------------------------------------------------------------
\* Units that suit the next stage.
UnitsFit(units, out, life) ==
  \A c, reg : c.claims = Chain.claims /\ c.occs = Chain.occs /\ c.units = units
                /\ reg = Extended(mem.reg, out)
    => Paired(c, pos + 1) /\ Provisional(c, pos + 1) /\ Judged(c, reg, pos + 1, life)

\* A stage after the occurrences that changes the units only: what is left to say is
\* about them.
LEMMA UnitStage ==
  ASSUME PipelineInv, NEW s, At(s), pos \in {30, 33}, NEW units, NEW out,
         CommitActive(s, Keep([Chain EXCEPT !.units = units]), out),
         DOMAIN out \cap ClosedSlots = {},
         NEW life, pos # 33 => life = SealedLife, pos = 33 => life = out["lifecycle"][1],
         UnitsFit(units, out, life)
  PROVE  PipelineInv'
<1> DEFINE c == [Chain EXCEPT !.units = units]
           m == [Keep(c) EXCEPT !.reg = Extended(@, out)]
<1>1. Commit(s, m, out)
  BY DEF CommitActive
<1>2. /\ DOMAIN c = ChainFields /\ c.theses = Chain.theses /\ SameChecks(c)
      /\ c.anchors = Chain.anchors /\ c.claims = Chain.claims /\ c.occs = Chain.occs
      /\ c.units = units
  BY DEF PipelineInv, Shape, Chain, ChainFields, SamePlans, SameChecks
<1> HIDE DEF c
<1>3. SameSource(m) /\ m.claims = c /\ m.reg = Extended(mem.reg, out)
  BY <1>2, SameSourceKeep DEF PipelineInv
<1> HIDE DEF m
<1>4. SamePlans(c) /\ SameOccurrences(c)
  BY <1>2 DEF SameChecks, SameOccurrences
<1>5. KeptSlots(m.reg, ClosedSlots)
  BY <1>3, ExtendedKeeps
<1>6. /\ KeptSlots(m.reg, {"crosscheck"})
      /\ KeptSlots(m.reg, {"transcript", "crosscheck", "alignment"})
      /\ KeptSlots(m.reg, {"transcript", "evidence"})
  BY <1>5 DEF KeptSlots, ClosedSlots, SourceSlots
<1>7. /\ pos \in 13..38 /\ pos > 12 /\ pos # 17 /\ pos # 29 /\ pos < 36
      /\ pos # 21 /\ pos # 22 /\ pos # 23 /\ pos # 26 /\ pos # 28
  OBVIOUS
<1>8. ChainOf(c, m.reg, pos + 1, CutFrames)
  <2>1. "transcript" \in DOMAIN mem.reg
    BY <1>7 DEF PipelineInv, SourceInv, SourceOf
  <2>2. c.theses \in Seq(Draft) /\ c.drafts \in Seq(Draft)
    BY <1>2, <1>4 DEF PipelineInv, ChainInv, ChainOf, SamePlans
  <2> QED
    BY <1>2, <1>4, <1>6, <1>7, <2>1, <2>2, PartsKept DEF PipelineInv, ChainOf
<1>9. OccurrencesOf(c, m.reg, pos + 1, SealedPackets, life)
  <2>1. Sealed(c, m.reg, pos + 1, SealedPackets) /\ ReadFirst(c, pos + 1)
    BY <1>4, <1>5, <1>7, ResultsKept DEF PipelineInv
  <2>2. Paired(c, pos + 1) /\ Provisional(c, pos + 1) /\ Judged(c, m.reg, pos + 1, life)
    BY <1>2, <1>3 DEF UnitsFit
  <2> QED
    BY <2>1, <2>2 DEF OccurrencesOf
<1>10. DOMAIN out \cap SourceSlots = {}
  BY DEF ClosedSlots
<1> QED
  BY <1>1, <1>3, <1>7, <1>8, <1>9, <1>10, ClaimStage

\* Stage 30: units and occurrences are paired.
LEMMA KnowledgeExtractionKeeps ==
  ASSUME PipelineInv, KnowledgeExtraction PROVE PipelineInv'
<1> DEFINE s == "knowledge"
           units == KnowledgeUnits(Chain.claims, Chain.occs)
           out == [verification |-> "provisional", knowledge |-> UnitIds(units)]
<1>1. At(s) /\ CommitActive(s, Keep([Chain EXCEPT !.units = units]), out)
  BY DEF KnowledgeExtraction
<1>2. pos = 30
  BY <1>1, AtRank DEF Rank
<1>3. DOMAIN out \cap ClosedSlots = {}
  BY DEF ClosedSlots, SourceSlots
<1>4. PICK N \in Nat : /\ DOMAIN Chain.claims = 1..N /\ DOMAIN Chain.occs = 1..N
                       /\ \A i \in 1..N : Chain.occs[i].claim = Chain.claims[i]
  BY <1>2, ClaimsNumbered
<1>5. /\ DOMAIN units = 1..N
      /\ \A i \in 1..N : units[i] =
              [claim |-> Chain.claims[i], occ |-> Chain.occs[i],
               support |-> "SOURCE_SUPPORTED", life |-> "ACTIVE"]
  BY <1>4, UnitsAre
<1> HIDE DEF units, out, s
<1>6. \A i \in 1..N :
        /\ units[i].claim = Chain.claims[i] /\ units[i].occ = Chain.occs[i]
        /\ units[i].support = "SOURCE_SUPPORTED"
        /\ DOMAIN units[i] = {"claim", "occ", "support", "life"}
  BY <1>5
<1>7. ASSUME NEW c, NEW reg, c.claims = Chain.claims, c.occs = Chain.occs, c.units = units
      PROVE  Paired(c, pos + 1) /\ Provisional(c, pos + 1) /\ Judged(c, reg, pos + 1, SealedLife)
  BY <1>2, <1>4, <1>5, <1>6, <1>7 DEF Paired, Provisional, Judged
<1>8. pos \in {30, 33} /\ pos # 33
  BY <1>2
<1>9. UnitsFit(units, out, SealedLife)
  BY <1>7 DEF UnitsFit
<1>10. /\ pos # 33 => SealedLife = SealedLife
       /\ pos = 33 => SealedLife = out["lifecycle"][1]
  BY <1>8
<1> QED
  BY <1>1, <1>3, <1>8, <1>9, <1>10, UnitStage

\* A claim with an occurrence under review is extracted only.
LEMMA ReviewedIsExtracted ==
  ASSUME NEW N \in Nat, NEW claims, NEW occs, DOMAIN claims = 1..N, DOMAIN occs = 1..N,
         \A i \in 1..N : occs[i].claim = claims[i]
  PROVE  /\ DOMAIN ClaimLife(claims, occs) = ToSet(claims)
         /\ \A i \in 1..N : occs[i].review => ClaimLife(claims, occs)[claims[i]] = "EXTRACTED"
<1>1. DOMAIN ClaimLife(claims, occs) = ToSet(claims)
  BY DEF ClaimLife
<1>2. ASSUME NEW i \in 1..N, occs[i].review
      PROVE  ClaimLife(claims, occs)[claims[i]] = "EXTRACTED"
  <2>1. occs[i] \in UnderReview(occs)
    BY <1>2 DEF UnderReview, ToSet
  <2>2. claims[i] \in ClaimsUnderReview(occs)
    BY <2>1 DEF ClaimsUnderReview
  <2>3. claims[i] \in ToSet(claims)
    BY DEF ToSet
  <2> QED
    BY <2>2, <2>3 DEF ClaimLife, Life
<1> QED
  BY <1>1, <1>2

\* A unit that is projected keeps its claim and its occurrence.
LEMMA ProjectedIs ==
  ASSUME NEW units, NEW i \in DOMAIN units,
         DOMAIN units[i] = {"claim", "occ", "support", "life"},
         units[i].support = "SOURCE_SUPPORTED"
  PROVE  LET u == Projected(units)[i] IN
         /\ u.claim = units[i].claim /\ u.occ = units[i].occ
         /\ u.support = IF u.occ.review THEN "SOURCE_LOCATED" ELSE "SOURCE_SUPPORTED"
         /\ u.life = Life(u.occ.review)
<1>1. Projected(units)[i] =
        IF units[i].occ.review
          THEN [units[i] EXCEPT !.support = "SOURCE_LOCATED", !.life = "EXTRACTED"]
          ELSE [units[i] EXCEPT !.life = "ACTIVE"]
  BY DEF Projected
<1>2. CASE units[i].occ.review
  BY <1>1, <1>2 DEF Life
<1>3. CASE ~ units[i].occ.review
  BY <1>1, <1>3 DEF Life
<1> QED
  BY <1>2, <1>3

\* Stage 33: what is under review is located and extracted only.
LEMMA LifecycleProjectionKeeps ==
  ASSUME PipelineInv, LifecycleProjection PROVE PipelineInv'
<1> DEFINE s == "lifecycle_projection"
           units == Projected(Chain.units)
           claimLife == ClaimLife(Chain.claims, Chain.occs)
           out == [lifecycle |-> <<claimLife, Chain.clock>>, knowledge |-> UnitIds(Chain.units)]
<1>1. At(s) /\ CommitActive(s, Keep([Chain EXCEPT !.units = units]), out)
  BY DEF LifecycleProjection
<1>2. pos = 33
  BY <1>1, AtRank DEF Rank
<1>3. DOMAIN out \cap ClosedSlots = {} /\ "lifecycle" \in DOMAIN out
  BY DEF ClosedSlots, SourceSlots
<1>4. out["lifecycle"][1] = claimLife
  <2> HIDE DEF claimLife
  <2> QED
    OBVIOUS
<1>5. PICK N \in Nat : /\ DOMAIN Chain.claims = 1..N /\ DOMAIN Chain.occs = 1..N
                       /\ \A i \in 1..N : Chain.occs[i].claim = Chain.claims[i]
  BY <1>2, ClaimsNumbered
<1>6. /\ DOMAIN Chain.units = 1..N
      /\ \A i \in 1..N : /\ Chain.units[i].claim = Chain.claims[i]
                         /\ Chain.units[i].occ = Chain.occs[i]
                         /\ DOMAIN Chain.units[i] = {"claim", "occ", "support", "life"}
                         /\ Chain.units[i].support = "SOURCE_SUPPORTED"
  BY <1>2, <1>5 DEF PipelineInv, OccurrenceInv, OccurrencesOf, Paired, Provisional
<1>7. DOMAIN units = 1..N
  BY <1>6 DEF Projected
<1>8. \A i \in 1..N :
        /\ units[i].claim = Chain.claims[i] /\ units[i].occ = Chain.occs[i]
        /\ units[i].support = IF units[i].occ.review THEN "SOURCE_LOCATED" ELSE "SOURCE_SUPPORTED"
        /\ units[i].life = Life(units[i].occ.review)
  <2> DEFINE old == Chain.units
  <2> SUFFICES ASSUME NEW i \in 1..N
               PROVE  /\ units[i].claim = Chain.claims[i] /\ units[i].occ = Chain.occs[i]
                      /\ units[i].support = IF units[i].occ.review THEN "SOURCE_LOCATED"
                                            ELSE "SOURCE_SUPPORTED"
                      /\ units[i].life = Life(units[i].occ.review)
    OBVIOUS
  <2>1. /\ i \in DOMAIN old /\ old[i].support = "SOURCE_SUPPORTED"
        /\ DOMAIN old[i] = {"claim", "occ", "support", "life"}
        /\ old[i].claim = Chain.claims[i] /\ old[i].occ = Chain.occs[i]
    BY <1>6
  <2>2. units = Projected(old)
    OBVIOUS
  <2> HIDE DEF old, units
  <2>3. /\ Projected(old)[i].claim = old[i].claim /\ Projected(old)[i].occ = old[i].occ
        /\ Projected(old)[i].support = IF Projected(old)[i].occ.review THEN "SOURCE_LOCATED"
                                       ELSE "SOURCE_SUPPORTED"
        /\ Projected(old)[i].life = Life(Projected(old)[i].occ.review)
    BY <2>1, ProjectedIs
  <2> QED
    BY <2>1, <2>2, <2>3
<1>9. /\ DOMAIN claimLife = ToSet(Chain.claims)
      /\ \A i \in 1..N : Chain.occs[i].review => claimLife[Chain.claims[i]] = "EXTRACTED"
  BY <1>5, ReviewedIsExtracted
<1>10. "claims" \in DOMAIN mem.reg /\ mem.reg["claims"] = Chain.claims
  BY <1>2 DEF PipelineInv, OccurrenceInv, OccurrencesOf, Sealed
<1>11. claimLife = ClaimLife(Chain.claims, Chain.occs)
  OBVIOUS
<1>14. "claims" \notin DOMAIN out
  BY <1>3 DEF ClosedSlots
<1> HIDE DEF units, out, s, claimLife
<1>12. ASSUME NEW c, NEW reg, c.claims = Chain.claims, c.occs = Chain.occs, c.units = units,
              reg = Extended(mem.reg, out)
       PROVE  Paired(c, pos + 1) /\ Provisional(c, pos + 1) /\ Judged(c, reg, pos + 1, claimLife)
  <2>1. \A i \in 1..N : ProjectedBy(c.units[i], claimLife)
    BY <1>8, <1>9, <1>12 DEF ProjectedBy
  <2>2. "lifecycle" \in DOMAIN reg /\ LifecycleInside(reg)
    <3>1. reg["lifecycle"] = out["lifecycle"] /\ "lifecycle" \in DOMAIN reg
      BY <1>3, <1>12 DEF Extended
    <3>2. reg["claims"] = Chain.claims
      BY <1>10, <1>12, <1>14 DEF Extended
    <3> QED
      BY <1>4, <1>9, <3>1, <3>2 DEF LifecycleInside
  <2>3. Paired(c, pos + 1)
    BY <1>5, <1>7, <1>8, <1>12 DEF Paired
  <2>4. Provisional(c, pos + 1)
    BY <1>2 DEF Provisional
  <2>5. claimLife = ClaimLife(c.claims, c.occs)
    BY <1>11, <1>12
  <2> QED
    BY <1>5, <1>12, <2>1, <2>2, <2>3, <2>4, <2>5 DEF Judged
<1>13. UnitsFit(units, out, claimLife)
  BY <1>12 DEF UnitsFit
<1>15. pos \in {30, 33} /\ (pos # 33 => claimLife = SealedLife) /\ claimLife = out["lifecycle"][1]
  BY <1>2, <1>4
<1> QED
  BY <1>1, <1>3, <1>13, <1>15, UnitStage

\* Where nothing is recorded, what is published and left alone stays in agreement.
LEMMA UntouchedKept ==
  ASSUME PipelineInv, UNCHANGED <<world, task, receipts>>
  PROVE  /\ store'.snapshots = store.snapshots => SnapshotInv'
         /\ store'.read = store.read => ReadInv' /\ (Published => Published')
         /\ store'.index = store.index /\ (Published => Published') => IndexInv'
         /\ \A o : WellSealed(o)' <=> WellSealed(o)
         /\ \A u : WellShown(u)' <=> WellShown(u)
<1>1. /\ SealedPackets' = SealedPackets /\ SealedLife' = SealedLife /\ CutFrames' = CutFrames
      /\ SelectableTexts' = SelectableTexts /\ Output("download", "source")' = Output("download", "source")
  BY DEF SealedPackets, SealedLife, CutFrames, SelectableTexts, Output
<1>2. \A o : WellSealed(o)' <=> WellSealed(o)
  BY <1>1 DEF WellSealed, Contradicted
<1>3. \A u : WellShown(u)' <=> WellShown(u)
  BY <1>1, <1>2 DEF WellShown, WellProjected
<1>4. DoneUpTo(35)' <=> DoneUpTo(35)
  BY DEF DoneUpTo, Done
<1>5. DoneUpTo(36)' <=> DoneUpTo(36)
  BY DEF DoneUpTo, Done
<1>6. ASSUME store'.snapshots = store.snapshots PROVE SnapshotInv'
  <2>1. \A sn, other \in store.snapshots : sn = other
    BY DEF PipelineInv, SnapshotInv
  <2>2. ASSUME NEW sn \in store.snapshots
        PROVE  /\ DoneUpTo(35)' /\ sn.slots = SlotsAfter(receipts', 35)
               /\ Packets(sn.occs) = SealedPackets' /\ sn.life = SealedLife'
               /\ \A o \in sn.occs : WellSealed(o)'
               /\ Verifies(sn.slots, sn.occs) \/ Shared(sn.occs)
    BY <1>1, <1>2, <1>4, <2>2 DEF PipelineInv, SnapshotInv
  <2> QED
    BY <1>6, <2>1, <2>2 DEF SnapshotInv
<1>7. ASSUME store'.read = store.read PROVE ReadInv' /\ (Published => Published')
  <2>1. Published' <=> Published
    BY <1>7 DEF Published
  <2> QED
    BY <1>1, <1>3, <1>5, <1>7, <2>1 DEF PipelineInv, ReadInv
<1>8. ASSUME store'.index = store.index, Published => Published' PROVE IndexInv'
  BY <1>1, <1>3, <1>8 DEF PipelineInv, IndexInv
<1> QED
  BY <1>2, <1>3, <1>6, <1>7, <1>8

\* A stage that has written outside the context remembers so, and nothing else.
LEMMA ActedKeeps ==
  ASSUME PipelineInv, pos \in 35..38, mem' = Keep([Chain EXCEPT !.acted = TRUE]),
         UNCHANGED <<world, task, pos, ckpt, receipts, faults>>,
         DOMAIN store' = StoreFields, SnapshotInv', ReadInv', IndexInv',
         pos > 36 => Published'
  PROVE  PipelineInv'
<1> DEFINE c == [Chain EXCEPT !.acted = TRUE]
<1>1. /\ DOMAIN c = ChainFields /\ c.theses = Chain.theses /\ c.drafts = Chain.drafts
      /\ c.windows = Chain.windows /\ c.frames = Chain.frames /\ c.checks = Chain.checks
      /\ c.anchors = Chain.anchors /\ c.claims = Chain.claims /\ c.occs = Chain.occs
      /\ c.units = Chain.units
  BY DEF PipelineInv, Shape, Chain, ChainFields
<1> HIDE DEF c
<1>2. SameSource(mem') /\ mem'.claims = c /\ mem'.reg = mem.reg
  <2>1. SameSource(Keep(c)) /\ Keep(c).claims = c /\ Keep(c).reg = mem.reg
    BY <1>1, SameSourceKeep DEF PipelineInv
  <2>2. mem' = Keep(c)
    BY DEF c
  <2> QED
    BY <2>1, <2>2
<1>3. Chain' = c
  BY <1>2 DEF Chain
<1>4. /\ SealedPackets' = SealedPackets /\ SealedLife' = SealedLife /\ CutFrames' = CutFrames
      /\ SourceNow' = SourceNow /\ SelectableTexts' = SelectableTexts
  BY DEF SealedPackets, SealedLife, CutFrames, SourceNow, SelectableTexts, Output
<1>5. Shape'
  BY <1>2 DEF PipelineInv, Shape, SameSource
<1>6. TaskInv' /\ Later
  BY DEF PipelineInv, TaskInv, Records, Later
<1>7. RowsInv'
  BY <1>6, RowsKept DEF PipelineInv
<1>8. RegistryInv'
  <2>1. DoneUpTo(pos - 1)' <=> DoneUpTo(pos - 1)
    BY DEF DoneUpTo, Done
  <2> QED
    BY <1>2, <2>1 DEF PipelineInv, RegistryInv
<1>9. SourceInv'
  <2>1. /\ SourceOf(mem, pos, SourceNow) /\ pos > 2 /\ pos > 6 /\ pos > 10 /\ pos > 12
    BY DEF PipelineInv, SourceInv
  <2>2. GoodText(mem.reg["transcript"])'
    BY <1>2, <1>4, <2>1 DEF SourceOf, GoodText
  <2> QED
    BY <1>2, <1>4, <2>1, <2>2 DEF SourceInv, SourceOf, SameSource
<1>10. ChainInv'
  <2>1. ChainOf(Chain, mem.reg, pos, CutFrames)
    BY DEF PipelineInv, ChainInv
  <2>2. ItemsOf(c) = ItemsOf(Chain) /\ LookOf(c) = LookOf(Chain)
    BY <1>1 DEF ItemsOf, LookOf
  <2>3. ChainOf(c, mem.reg, pos, CutFrames)
    BY <1>1, <2>1, <2>2 DEF ChainOf, Cut, Checked, Aligned, Anchored, Grounded, Canonical
  <2> QED
    BY <1>2, <1>3, <1>4, <2>3
       DEF ChainInv, ChainOf, Cut, Checked, Aligned, Anchored, Grounded, Canonical
<1>11. OccurrenceInv'
  <2>1. OccurrencesOf(Chain, mem.reg, pos, SealedPackets, SealedLife)
    BY DEF PipelineInv, OccurrenceInv
  <2>2. /\ Sealed(c, mem.reg, pos, SealedPackets) /\ Paired(c, pos) /\ Provisional(c, pos)
        /\ Judged(c, mem.reg, pos, SealedLife)
    BY <1>1, <2>1 DEF OccurrencesOf, Sealed, Paired, Provisional, Judged
  <2>3. \A o : WellSealed(o)' <=> WellSealed(o)
    BY UntouchedKept
  <2>4. Sealed(Chain, mem.reg, pos, SealedPackets)'
    BY <1>2, <1>3, <1>4, <2>2, <2>3 DEF Sealed
  <2>5. ReadFirst(Chain, pos)'
    BY DEF ReadFirst
  <2> QED
    BY <1>2, <1>3, <1>4, <2>2, <2>4, <2>5 DEF OccurrenceInv, OccurrencesOf, Paired, Provisional, Judged
<1> QED
  BY <1>5, <1>6, <1>7, <1>8, <1>9, <1>10, <1>11 DEF PipelineInv

\* A stage that writes outside the context: what is left to say is what it publishes.
LEMMA EffectStage ==
  ASSUME PipelineInv, NEW s, pos \in 35..38, NEW effect, WithEffect(s, effect),
         store' = effect /\ UNCHANGED <<world, task, receipts>> =>
           DOMAIN store' = StoreFields /\ SnapshotInv' /\ ReadInv' /\ IndexInv'
             /\ (pos > 36 => Published')
  PROVE  PipelineInv'
<1> DEFINE c == [Chain EXCEPT !.acted = FALSE]
<1>1. CASE /\ ~ Chain.acted
           /\ store' = effect
           /\ mem' = Keep([Chain EXCEPT !.acted = TRUE])
           /\ UNCHANGED <<world, task, pos, ckpt, receipts, faults>>
  BY <1>1, ActedKeeps
<1>2. CASE Chain.acted /\ At(s) /\ Plain(s, c)
  <2>1. /\ DOMAIN c = ChainFields /\ SameClaims(c) /\ ~ c.acted
    BY DEF PipelineInv, Shape, Chain, ChainFields, SameClaims, SameChecks, SamePlans, SameOccurrences
  <2> HIDE DEF c
  <2>2. SameSource(Keep(c)) /\ Keep(c).claims = c /\ Keep(c).reg = mem.reg
    BY <2>1, SameSourceKeep DEF PipelineInv
  <2>3. Commit(s, Keep(c), NoOutput) /\ DOMAIN NoOutput = {}
    BY <1>2 DEF Plain, NoOutput
  <2>4. pos \in {18, 19, 20, 24, 25, 27, 31, 32, 34, 35, 36, 37, 38}
    OBVIOUS
  <2>5. DOMAIN NoOutput \cap JudgedSlots = {}
    BY <2>3
  <2> QED
    BY <1>2, <2>1, <2>2, <2>3, <2>4, <2>5, PassingStage
<1> QED
  BY <1>1, <1>2 DEF WithEffect

\* Stage 35.
LEMMA ClaimPersistenceKeeps == ASSUME PipelineInv, ClaimPersistence PROVE PipelineInv'
<1> DEFINE s == "claim_persistence"
           effect == [store EXCEPT !.claims = @ \cup ToSet(Chain.claims)]
<1>1. At(s) /\ WithEffect(s, effect)
  BY DEF ClaimPersistence, WithEffect
<1>2. pos = 35
  BY <1>1, AtRank DEF Rank
<1>3. /\ DOMAIN effect = StoreFields /\ effect.snapshots = store.snapshots
      /\ effect.read = store.read /\ effect.index = store.index
  BY DEF PipelineInv, Shape, StoreFields
<1> HIDE DEF effect, s
<1>4. ASSUME store' = effect, UNCHANGED <<world, task, receipts>>
      PROVE  SnapshotInv' /\ ReadInv' /\ IndexInv'
  BY <1>3, <1>4, UntouchedKept
<1>5. pos \in 35..38 /\ ~(pos > 36)
  BY <1>2
<1> QED
  BY <1>1, <1>3, <1>4, <1>5, EffectStage

\* What a snapshot made now says agrees with the receipts, and the replay accepts it.
LEMMA SnapshotOfNow ==
  ASSUME PipelineInv, pos = 36
  PROVE  /\ DoneUpTo(35) /\ mem.reg = SlotsAfter(receipts, 35)
         /\ Packets(ToSet(Chain.occs)) = SealedPackets
         /\ ClaimLife(Chain.claims, Chain.occs) = SealedLife
         /\ \A o \in ToSet(Chain.occs) : WellSealed(o)
         /\ Verifies(mem.reg, ToSet(Chain.occs)) \/ Shared(ToSet(Chain.occs))
<1>1. DoneUpTo(35) /\ mem.reg = SlotsAfter(receipts, 35)
  <2>1. DoneUpTo(pos - 1) /\ mem.reg = SlotsAfter(receipts, pos - 1)
    BY DEF PipelineInv, RegistryInv
  <2> QED
    BY <2>1
<1>2. Sealed(Chain, mem.reg, pos, SealedPackets) /\ Judged(Chain, mem.reg, pos, SealedLife)
  BY DEF PipelineInv, OccurrenceInv, OccurrencesOf
<1>3. Closed(mem.reg, ToSet(Chain.occs)) => Verifies(mem.reg, ToSet(Chain.occs))
  BY <1>2 DEF Judged, Closed, Verifies
<1> QED
  BY <1>1, <1>2, <1>3 DEF Sealed, Judged

\* Stage 36: a snapshot that is there already has the slots of this attempt.
LEMMA ContentSnapshotKeeps == ASSUME PipelineInv, ContentSnapshot PROVE PipelineInv'
<1> DEFINE s == "content_snapshot"
           new == [slots |-> mem.reg, occs |-> ToSet(Chain.occs),
                   life |-> ClaimLife(Chain.claims, Chain.occs)]
           snapshots == IF \E sn \in store.snapshots : sn.slots = mem.reg THEN store.snapshots
                        ELSE store.snapshots \cup {new}
           ledger == Extended(LedgerEvents(Chain.claims, Chain.occs), store.ledger)
           effect == [store EXCEPT !.snapshots = snapshots, !.ledger = ledger]
<1>1. At(s) /\ WithEffect(s, effect)
  BY DEF ContentSnapshot, WithEffect
<1>2. pos = 36
  BY <1>1, AtRank DEF Rank
<1>3. /\ DOMAIN effect = StoreFields /\ effect.snapshots = snapshots
      /\ effect.read = store.read /\ effect.index = store.index
  <2> HIDE DEF snapshots, ledger
  <2> QED
    BY DEF PipelineInv, Shape, StoreFields
<1>4. /\ new.slots = mem.reg /\ new.occs = ToSet(Chain.occs)
      /\ new.life = ClaimLife(Chain.claims, Chain.occs)
  OBVIOUS
<1>5. /\ DoneUpTo(35) /\ mem.reg = SlotsAfter(receipts, 35)
      /\ Packets(new.occs) = SealedPackets /\ new.life = SealedLife
      /\ \A o \in new.occs : WellSealed(o)
      /\ Verifies(new.slots, new.occs) \/ Shared(new.occs)
  BY <1>2, <1>4, SnapshotOfNow
<1>6. snapshots = store.snapshots \/ (store.snapshots = {} /\ snapshots = {new})
  <2>1. \A sn \in store.snapshots : sn.slots = mem.reg
    BY <1>5 DEF PipelineInv, SnapshotInv
  <2> QED
    BY <2>1
<1> HIDE DEF effect, s, snapshots, new
<1>7. ASSUME store' = effect, UNCHANGED <<world, task, receipts>>
      PROVE  SnapshotInv' /\ ReadInv' /\ IndexInv'
  <2>1. ReadInv' /\ IndexInv'
    BY <1>3, <1>7, UntouchedKept
  <2>2. CASE snapshots = store.snapshots
    BY <1>3, <1>7, <2>2, UntouchedKept DEF PipelineInv
  <2>3. CASE snapshots = {new}
    <3>1. store'.snapshots = {new}
      BY <1>3, <1>7, <2>3
    <3>2. SealedPackets' = SealedPackets /\ SealedLife' = SealedLife
      BY <1>7 DEF SealedPackets, SealedLife, Output
    <3>3. DoneUpTo(35)'
      BY <1>5, <1>7 DEF DoneUpTo, Done
    <3>4. \A o \in new.occs : WellSealed(o)'
      BY <1>5, <1>7, UntouchedKept
    <3>5. new.slots = SlotsAfter(receipts', 35)
      BY <1>4, <1>5, <1>7
    <3>6. \A sn, other \in store'.snapshots : sn = other
      BY <3>1
    <3>7. ASSUME NEW sn \in store'.snapshots
          PROVE  /\ DoneUpTo(35)' /\ sn.slots = SlotsAfter(receipts', 35)
                 /\ Packets(sn.occs) = SealedPackets' /\ sn.life = SealedLife'
                 /\ \A o \in sn.occs : WellSealed(o)'
                 /\ Verifies(sn.slots, sn.occs) \/ Shared(sn.occs)
      <4>1. sn = new
        BY <3>1
      <4> QED
        BY <1>5, <3>2, <3>3, <3>4, <3>5, <4>1
    <3> QED
      BY <2>1, <3>6, <3>7 DEF SnapshotInv
  <2> QED
    BY <1>6, <2>1, <2>2, <2>3
<1>8. pos \in 35..38 /\ ~(pos > 36)
  BY <1>2
<1> QED
  BY <1>1, <1>3, <1>7, <1>8, EffectStage

\* The units of an attempt that is about to publish them show what is sealed.
LEMMA UnitsOfNow ==
  ASSUME PipelineInv, pos \in 34..38
  PROVE  /\ {PacketOf(u.occ) : u \in ToSet(Chain.units)} = SealedPackets
         /\ \A u \in ToSet(Chain.units) : WellShown(u)
<1>1. /\ Sealed(Chain, mem.reg, pos, SealedPackets) /\ Paired(Chain, pos)
      /\ Judged(Chain, mem.reg, pos, SealedLife)
      /\ pos > 29 /\ pos > 30 /\ pos > 33
  BY DEF PipelineInv, OccurrenceInv, OccurrencesOf
<1>2. /\ DOMAIN Chain.occs = DOMAIN Chain.claims /\ DOMAIN Chain.units = DOMAIN Chain.claims
      /\ Packets(ToSet(Chain.occs)) = SealedPackets
      /\ \A i \in DOMAIN Chain.claims :
           /\ Chain.occs[i].claim = Chain.claims[i] /\ Chain.occs[i] \in ToSet(Chain.occs)
           /\ Chain.units[i].claim = Chain.claims[i] /\ Chain.units[i].occ = Chain.occs[i]
           /\ WellSealed(Chain.occs[i]) /\ ProjectedBy(Chain.units[i], SealedLife)
           /\ Chain.units[i] \in ToSet(Chain.units)
  BY <1>1 DEF Sealed, Paired, Judged, ToSet
<1>3. /\ \A o \in ToSet(Chain.occs) : \E i \in DOMAIN Chain.claims : o = Chain.occs[i]
      /\ \A u \in ToSet(Chain.units) : \E i \in DOMAIN Chain.claims : u = Chain.units[i]
  BY <1>2 DEF ToSet
<1>4. \A u \in ToSet(Chain.units) : WellShown(u)
  BY <1>2, <1>3 DEF WellShown, WellProjected
<1>5. {PacketOf(u.occ) : u \in ToSet(Chain.units)} = {PacketOf(o) : o \in ToSet(Chain.occs)}
  <2>1. ASSUME NEW u \in ToSet(Chain.units)
        PROVE  u.occ \in ToSet(Chain.occs)
    BY <1>2, <1>3
  <2>2. ASSUME NEW o \in ToSet(Chain.occs)
        PROVE  \E u \in ToSet(Chain.units) : u.occ = o
    BY <1>2, <1>3
  <2> QED
    BY <2>1, <2>2
<1> QED
  BY <1>2, <1>4, <1>5 DEF Packets

\* The stage before the read model's leaves the transcript as the snapshot has it.
LEMMA TextOfSnapshot ==
  ASSUME PipelineInv, pos = 37
  PROVE  mem.reg["transcript"] = SlotsAfter(receipts, 35)["transcript"]
<1> DEFINE before == SlotsAfter(receipts, 35)
           out == receipts[Stages[36]].out
<1>1. mem.reg = SlotsAfter(receipts, 36) /\ DoneUpTo(36)
  <2>1. mem.reg = SlotsAfter(receipts, pos - 1) /\ DoneUpTo(pos - 1) /\ pos - 1 = 36
    BY DEF PipelineInv, RegistryInv
  <2> QED
    BY <2>1
<1>2. SlotsAfter(receipts, 36) = Extended(before, out)
  <2>1. SlotsAfter(receipts, 35 + 1)
          = Extended(SlotsAfter(receipts, 35), receipts[Stages[35 + 1]].out)
    BY SlotsAfterNext
  <2> QED
    BY <2>1
<1>3. "transcript" \notin DOMAIN out
  <2>1. Stages[36] \in StageNames /\ Stages[36] \notin TranscriptStages
    BY NamesAre
  <2> QED
    BY <2>1 DEF PipelineInv, RowsInv
<1>4. "transcript" \in DOMAIN before
  <2>1. DoneUpTo(35)
    BY <1>1 DEF DoneUpTo
  <2> QED
    BY <2>1, TextAfter DEF PipelineInv
<1> HIDE DEF before, out
<1>5. Extended(before, out)["transcript"] = before["transcript"]
  BY <1>3, <1>4 DEF Extended
<1> QED
  BY <1>1, <1>2, <1>5 DEF before

\* Stage 37: the read model is replaced by the units of this attempt.
LEMMA PersistKeeps == ASSUME PipelineInv, Persist PROVE PipelineInv'
<1> DEFINE s == "persist"
           read == [units |-> Chain.units, text |-> mem.reg["transcript"].text,
                    gate |-> mem.report, chapters |-> mem.chapters, meta |-> mem.video]
           effect == [store EXCEPT !.read = read]
<1>1. At(s) /\ WithEffect(s, effect)
  BY DEF Persist, WithEffect
<1>2. pos = 37
  BY <1>1, AtRank DEF Rank
<1>3. /\ DOMAIN effect = StoreFields /\ effect.snapshots = store.snapshots
      /\ effect.read = read /\ effect.index = store.index
  <2> HIDE DEF read
  <2> QED
    BY DEF PipelineInv, Shape, StoreFields
<1>4. /\ read.gate = "PASS" /\ read.text \in SelectableTexts
      /\ read.text = SlotsAfter(receipts, 35)["transcript"].text
      /\ read.meta = Output("download", "source")
  <2>1. /\ mem.report = "PASS" /\ GoodText(mem.reg["transcript"])
        /\ mem.video = Output("download", "source")
    BY <1>2 DEF PipelineInv, SourceInv, SourceOf, SourceNow
  <2>2. mem.reg["transcript"] = SlotsAfter(receipts, 35)["transcript"]
    BY <1>2, TextOfSnapshot
  <2> QED
    BY <2>1, <2>2 DEF GoodText
<1>5. read.units = Chain.units
  OBVIOUS
<1>6. /\ {PacketOf(u.occ) : u \in ToSet(read.units)} = SealedPackets
      /\ \A u \in ToSet(read.units) : WellShown(u)
  BY <1>2, <1>5, UnitsOfNow
<1>7. DoneUpTo(36)
  <2>1. DoneUpTo(pos - 1) /\ pos - 1 = 36
    BY <1>2 DEF PipelineInv, RegistryInv
  <2> QED
    BY <2>1
<1> HIDE DEF effect, read, s
<1>8. read # NothingPublished.read
  <2>1. NothingPublished.read.gate = "none"
    BY DEF NothingPublished, None
  <2> QED
    BY <1>4, <2>1
<1>9. ASSUME store' = effect, UNCHANGED <<world, task, receipts>>
      PROVE  SnapshotInv' /\ ReadInv' /\ IndexInv' /\ Published'
  <2>1. store'.read = read /\ store'.snapshots = store.snapshots /\ store'.index = store.index
    BY <1>3, <1>9
  <2>2. Published'
    BY <1>8, <2>1 DEF Published
  <2>3. SnapshotInv' /\ IndexInv'
    BY <1>9, <2>1, <2>2, UntouchedKept
  <2>4. /\ SealedPackets' = SealedPackets /\ SelectableTexts' = SelectableTexts
        /\ Output("download", "source")' = Output("download", "source")
    BY <1>9 DEF SealedPackets, SelectableTexts, Output
  <2>5. DoneUpTo(36)'
    BY <1>7, <1>9 DEF DoneUpTo, Done
  <2>6. \A u \in ToSet(read.units) : WellShown(u)'
    BY <1>6, <1>9, UntouchedKept
  <2>7. ReadInv'
    <3>1. SlotsAfter(receipts, 35)' = SlotsAfter(receipts, 35)
      BY <1>9
    <3> QED
      BY <1>4, <1>6, <2>1, <2>4, <2>5, <2>6, <3>1 DEF ReadInv
  <2> QED
    BY <2>2, <2>3, <2>7
<1>10. pos \in 35..38
  BY <1>2
<1> QED
  BY <1>1, <1>3, <1>9, <1>10, EffectStage

\* Stage 38: the index follows the read model.
LEMMA IndexKeeps == ASSUME PipelineInv, Index PROVE PipelineInv'
<1> DEFINE s == "index"
           effect == [store EXCEPT !.index = ToSet(Chain.units)]
<1>1. At(s) /\ WithEffect(s, effect)
  BY DEF Index, WithEffect
<1>2. pos = 38
  BY <1>1, AtRank DEF Rank
<1>3. /\ DOMAIN effect = StoreFields /\ effect.snapshots = store.snapshots
      /\ effect.read = store.read /\ effect.index = ToSet(Chain.units)
  BY DEF PipelineInv, Shape, StoreFields
<1>4. Published
  BY <1>2 DEF PipelineInv, OccurrenceInv, OccurrencesOf, ReadFirst
<1>5. \A u \in ToSet(Chain.units) : WellShown(u) /\ PacketOf(u.occ) \in SealedPackets
  BY <1>2, UnitsOfNow
<1> HIDE DEF effect, s
<1>6. ASSUME store' = effect, UNCHANGED <<world, task, receipts>>
      PROVE  SnapshotInv' /\ ReadInv' /\ IndexInv' /\ Published'
  <2>1. SnapshotInv' /\ ReadInv' /\ Published'
    BY <1>3, <1>4, <1>6, UntouchedKept
  <2>2. SealedPackets' = SealedPackets
    BY <1>6 DEF SealedPackets, Output
  <2>3. \A u \in ToSet(Chain.units) : WellShown(u)'
    BY <1>5, <1>6, UntouchedKept
  <2>4. store'.index = ToSet(Chain.units)
    BY <1>3, <1>6
  <2>5. IndexInv'
    BY <1>5, <2>1, <2>2, <2>3, <2>4 DEF IndexInv
  <2> QED
    BY <2>1, <2>5
<1>7. pos \in 35..38
  BY <1>2
<1> QED
  BY <1>1, <1>3, <1>6, <1>7, EffectStage

\* Every step of a stage keeps the invariant.
LEMMA StageKeeps == ASSUME PipelineInv, RunStage PROVE PipelineInv'
<1>1. CASE \/ Resolve \/ Download \/ TranscriptCandidate \/ Audio \/ ASR
           \/ TranscriptSelection \/ TranscriptQuality
  BY <1>1, ResolveKeeps, DownloadKeeps, TranscriptCandidateKeeps, AudioKeeps, ASRKeeps,
     TranscriptSelectionKeeps, TranscriptQualityKeeps
<1>2. CASE Diarization \/ TranscriptPostprocess
  BY <1>2, ReregisterKeeps DEF Diarization, TranscriptPostprocess
<1>3. CASE \/ BuildVideo \/ Chapter \/ SemanticSegmentation \/ SemanticContext
           \/ ChapterThesisIdentification \/ AtomicClaimExtraction \/ AtomicClaimValidation
  BY <1>3, BuildVideoKeeps, ChapterKeeps, SemanticSegmentationKeeps, SemanticContextKeeps,
     ChapterThesisIdentificationKeeps, AtomicClaimExtractionKeeps, AtomicClaimValidationKeeps
<1>4. CASE \/ KnowledgeFrame \/ FrameFixture \/ OCR \/ Vision \/ TranscriptVisualCrosscheck
           \/ SecurityEntityAlignment \/ ClaimVisualBinding \/ MultimodalContext
  BY <1>4, KnowledgeFrameKeeps, FrameFixtureKeeps, OCRKeeps, VisionKeeps,
     TranscriptVisualCrosscheckKeeps, SecurityEntityAlignmentKeeps, ClaimVisualBindingKeeps,
     MultimodalContextKeeps
<1>5. CASE \/ TemporalWindow \/ EvidenceGrounding \/ TemporalNormalization
           \/ ClaimCanonicalization \/ ClaimOccurrencePersistence \/ KnowledgeExtraction
  BY <1>5, TemporalWindowKeeps, EvidenceGroundingKeeps, TemporalNormalizationKeeps,
     ClaimCanonicalizationKeeps, ClaimOccurrencePersistenceKeeps, KnowledgeExtractionKeeps
<1>6. CASE \/ Verification \/ FinancialEnrichment \/ LifecycleProjection \/ Summary
           \/ ClaimPersistence \/ ContentSnapshot \/ Persist \/ Index
  BY <1>6, VerificationKeeps, FinancialEnrichmentKeeps, LifecycleProjectionKeeps, SummaryKeeps,
     ClaimPersistenceKeeps, ContentSnapshotKeeps, PersistKeeps, IndexKeeps
<1> QED
  BY <1>1, <1>2, <1>3, <1>4, <1>5, <1>6 DEF RunStage

\* The strengthening that makes the published results inductive: what every stage
\* leaves in the slots, the memory, the receipts and the store agrees, through
\* commits, refused receipts, failures, deaths and resumes (StageRunner, the stages
\* of application/stages.py and _restore_resume_context).
THEOREM PipelineInvariant == Spec => []PipelineInv
<1>1. Init => PipelineInv
  BY InitHolds
<1>2. PipelineInv /\ [Next]_vars => PipelineInv'
  BY StageKeeps, ClaimKeeps, FinishKeeps, DieKeeps, OutsideFailureKeeps, NothingKeeps DEF Next
<1> QED
  BY <1>1, <1>2, PTL DEF Spec

\* The state keeps its shape: the queue's row within its budget, the attempt at a
\* stage of the graph, candidates and drafts of the kinds the stages exchange.
THEOREM PipelineTypes == Spec => []TypeOK
<1>1. PipelineInv => TypeOK
  <2> SUFFICES ASSUME PipelineInv PROVE TypeOK
    OBVIOUS
  <2>1. Shape /\ TaskInv /\ SourceInv /\ ChainInv
    BY DEF PipelineInv
  <2>2. mem.cands \subseteq Candidate
    <3>1. world \in World
      BY <2>1, PipelineAssumption DEF Shape
    <3>2. world.tracks \subseteq Candidate /\ world.asr \in Candidate
      BY <3>1 DEF World
    <3> QED
      BY <2>1, <3>2 DEF SourceInv, SourceOf
  <2>3. ToSet(Chain.drafts) \subseteq Draft
    BY <2>1 DEF ChainInv, ChainOf, ToSet
  <2>4. pos \in 0..(Len(Stages) + 1)
    BY <2>1, StageTable DEF Shape
  <2> QED
    BY <2>1, <2>2, <2>3, <2>4 DEF TypeOK, Shape, TaskInv
<1> QED
  BY <1>1, PipelineInvariant, PTL

\* What the picture contradicts is never published as supported, whatever the
\* models answer and wherever attempts end: the cross-check, the binding, the review
\* codes, the sealed packets and the lifecycle projection agree.
THEOREM ConflictsStayUnpublished == Spec => []ConflictIsNeverPublished
<1>1. PipelineInv => ConflictIsNeverPublished
  <2> SUFFICES ASSUME PipelineInv PROVE ConflictIsNeverPublished
    OBVIOUS
  <2>1. SnapshotInv /\ ReadInv
    BY DEF PipelineInv
  <2>2. ASSUME Published, NEW i \in DOMAIN store.read.units,
               Contradicted(store.read.units[i].occ.span)
        PROVE  /\ store.read.units[i].support = "SOURCE_LOCATED"
               /\ store.read.units[i].life = "EXTRACTED"
               /\ \A sn \in store.snapshots : sn.life[store.read.units[i].claim] = "EXTRACTED"
    <3> DEFINE u == store.read.units[i]
    <3>1. WellShown(u)
      BY <2>1, <2>2 DEF ReadInv, ToSet
    <3>2. u.occ.review
      BY <2>2, <3>1 DEF WellShown, WellSealed
    <3>3. ProjectedBy(u, SealedLife)
      BY <3>1 DEF WellShown, WellProjected
    <3>4. \A sn \in store.snapshots : sn.life = SealedLife
      BY <2>1 DEF SnapshotInv
    <3> HIDE DEF u
    <3>5. u.support = "SOURCE_LOCATED" /\ u.life = "EXTRACTED" /\ SealedLife[u.claim] = "EXTRACTED"
      BY <3>2, <3>3 DEF ProjectedBy, Life
    <3> QED
      BY <3>4, <3>5 DEF u
  <2>3. \A sn \in store.snapshots : \A o \in sn.occs :
          /\ o.packet = "HUMAN_REVIEW_REQUIRED" <=> o.review
          /\ o.packet = "AVAILABLE" => o.anchors # {}
    BY <2>1 DEF SnapshotInv, WellSealed
  <2> QED
    BY <2>2, <2>3 DEF ConflictIsNeverPublished
<1> QED
  BY <1>1, PipelineInvariant, PTL

\* The replay's integrity check accepts every snapshot the stages publish, unless two
\* statements cite one span (application/replay/integrity.py against
\* application/stages.py).
THEOREM SnapshotsCanBeReplayed == Spec => []ReplayAccepts
<1>1. PipelineInv => ReplayAccepts
  BY DEF PipelineInv, SnapshotInv, ReplayAccepts, Shared
<1> QED
  BY <1>1, PipelineInvariant, PTL

\* Units with the same packet show the same.
LEMMA ShownAlike ==
  ASSUME NEW u, NEW v, WellShown(u), WellShown(v), PacketOf(u.occ) = PacketOf(v.occ)
  PROVE  <<u.claim, PacketOf(u.occ), u.support, u.life>>
           = <<v.claim, PacketOf(v.occ), v.support, v.life>>
<1>1. u.occ.seen = v.occ.seen /\ OccurrenceId(u.occ) = OccurrenceId(v.occ)
  BY DEF PacketOf
<1>2. u.occ.claim = v.occ.claim
  BY <1>1 DEF OccurrenceId
<1>3. u.claim = v.claim
  BY <1>2 DEF WellShown
<1>4. u.occ.review <=> v.occ.review
  BY <1>1 DEF WellShown, WellSealed
<1>5. u.support = v.support /\ u.life = v.life
  BY <1>4 DEF WellShown, WellProjected, ProjectedBy, Life
<1> QED
  BY <1>3, <1>5

\* A task publishes one snapshot; the read model shows its packets and its text, which
\* the selection chose (in a first attempt, among all the candidates the source has) and
\* which passed the gate; the index shows what the read model shows; and the active
\* slots are those of the receipts.
THEOREM OneSnapshotIsShown == Spec => []ReadModelIsTheSnapshot
<1>1. PipelineInv => ReadModelIsTheSnapshot
  <2> SUFFICES ASSUME PipelineInv PROVE ReadModelIsTheSnapshot
    OBVIOUS
  <2>1. SnapshotInv /\ ReadInv /\ IndexInv /\ RegistryInv /\ Shape
    BY DEF PipelineInv
  <2>2. Cardinality(store.snapshots) <= 1
    <3>1. CASE store.snapshots = {}
      <4>1. Cardinality({}) = 0
        BY FS_EmptySet
      <4> QED
        BY <3>1, <4>1
    <3>2. CASE store.snapshots # {}
      <4>1. PICK sn \in store.snapshots : TRUE
        BY <3>2
      <4>2. store.snapshots = {sn}
        BY <2>1, <4>1 DEF SnapshotInv
      <4>3. Cardinality({sn}) = 1
        BY FS_Singleton
      <4> QED
        BY <4>2, <4>3
    <3> QED
      BY <3>1, <3>2
  <2>3. ASSUME Published
        PROVE  /\ \A sn \in store.snapshots :
                    {PacketOf(u.occ) : u \in ToSet(store.read.units)} = {PacketOf(o) : o \in sn.occs}
               /\ store.read.meta = receipts["download"].out["source"]
               /\ Shown(store.index) \subseteq Shown(ToSet(store.read.units))
    <3> DEFINE units == ToSet(store.read.units)
    <3>1. /\ store.read.meta = receipts["download"].out["source"]
          /\ {PacketOf(u.occ) : u \in units} = SealedPackets
          /\ \A u \in units : WellShown(u)
      BY <2>1, <2>3 DEF ReadInv, Output
    <3>2. \A sn \in store.snapshots : {PacketOf(o) : o \in sn.occs} = SealedPackets
      BY <2>1 DEF SnapshotInv, Packets
    <3> HIDE DEF units
    <3>3. ASSUME NEW u \in store.index
          PROVE  \E v \in units : <<u.claim, PacketOf(u.occ), u.support, u.life>>
                                    = <<v.claim, PacketOf(v.occ), v.support, v.life>>
      <4>1. WellShown(u) /\ PacketOf(u.occ) \in SealedPackets
        BY <2>1, <3>3 DEF IndexInv
      <4>2. PICK v \in units : PacketOf(u.occ) = PacketOf(v.occ)
        BY <3>1, <4>1
      <4> QED
        BY <3>1, <4>1, <4>2, ShownAlike
    <3>4. Shown(store.index) \subseteq Shown(units)
      BY <3>3 DEF Shown
    <3> QED
      BY <3>1, <3>2, <3>4 DEF units
  <2>4. TextWasSelected
    BY <2>1 DEF ReadInv, SnapshotInv, TextWasSelected
  <2>5. RegistryIsDurable
    <3>1. Position("transcript_selection") = 6
      <4>1. DOMAIN Stages = 1..38 /\ Stages[6] = "transcript_selection"
        BY StageTable
      <4>2. \A i \in 1..38 : Stages[i] = "transcript_selection" => i = 6
        BY Ranked DEF Rank
      <4> QED
        BY <4>1, <4>2 DEF Position
    <3>2. ASSUME pos > 6, NEW slot \in SlotsOf(mem.reg)
          PROVE  /\ Fillers(receipts, pos - 1, slot) # {}
                 /\ mem.reg[slot] = SlotsAfter(receipts, pos - 1)[slot]
      <4>1. mem.reg = SlotsAfter(receipts, pos - 1)
        BY <2>1, <3>2 DEF RegistryInv
      <4>2. pos - 1 \in Nat
        BY <2>1, <3>2 DEF Shape
      <4> QED
        BY <3>2, <4>1, <4>2, SlotsAfterDomain DEF SlotsOf
    <3> QED
      BY <3>1, <3>2 DEF RegistryIsDurable
  <2> QED
    BY <2>2, <2>3, <2>4, <2>5 DEF ReadModelIsTheSnapshot
<1> QED
  BY <1>1, PipelineInvariant, PTL
==============================================================================
