------------------------------ MODULE ClaimRules ------------------------------
(***************************************************************************)
(* From drafts to published claims: which drafts are accepted, which       *)
(* windows and frames are looked at for them, what the cross-check of      *)
(* narration and picture admits, and what an occurrence, a claim, a        *)
(* knowledge unit and a ledger event say in the end (the claim stages of   *)
(* application/stages.py and the domain rules they call).                  *)
(*                                                                         *)
(* A draft names the canonical claim its statement becomes, the transcript *)
(* span it cites (each span lies in a semantic segment of its own),        *)
(* whether it is a chapter thesis, whether it reports a displayed page     *)
(* with attribution, and the stage that finds fault with it, if any.       *)
(***************************************************************************)
EXTENDS Naturals, FiniteSets, Sequences, SequencesExt

CONSTANTS
    Claims,          \* canonical claims
    Spans            \* transcript spans a claim may cite

Flaws == { "none", "atomic_claim_extraction", "atomic_claim_validation",
           "knowledge_frame", "evidence_grounding", "temporal_normalization" }

Draft == [claim : Claims, span : Spans, thesis : BOOLEAN,
          attributed : BOOLEAN, flaw : Flaws]

\* What a cross-check says of a frame and the narration of a window.
Relations == {"SUPPORTS", "CONTRADICTS", "SECONDARY", "UNKNOWN"}

\* One frame per span for its atomic claims, one for its thesis phases.
Frame == [span : Spans, thesis : BOOLEAN]

\* The fault a stage finds with a draft, whatever it is, fails the stage; which
\* drafts have one is part of the model's answer.
Refuses(stage, drafts) == \E i \in DOMAIN drafts : drafts[i].flaw = stage

\* The validator keeps the drafts it finds no fault with, in order; a
\* transcript whose quality is not PASS leaves none.
Accepted(drafts, report) ==
    LET kept == {i \in DOMAIN drafts :
                    report = "PASS" /\ drafts[i].flaw # "atomic_claim_validation"}
    IN  [n \in 1..Cardinality(kept) |->
            drafts[CHOOSE i \in kept : Cardinality({j \in kept : j <= i}) = n]]

-----------------------------------------------------------------------------
\* One window per statement and span; without drafts, one per segment.
Windows(drafts) ==
    IF drafts = << >>
      THEN {[claim |-> "none", span |-> s, thesis |-> FALSE] : s \in Spans}
      ELSE {[claim |-> d.claim, span |-> d.span, thesis |-> d.thesis] : d \in ToSet(drafts)}

\* A draft owns every window of its span, whoever's statement it was made for.
Owned(windows, d) == {w \in windows : w.span = d.span}

FrameOf(w) == [span |-> w.span, thesis |-> w.thesis]
Frames(windows) == {FrameOf(w) : w \in windows}

\* One check for each frame and each window it was taken for.
Checks(windows, frames, sees) ==
    {[frame |-> FrameOf(w), window |-> w, relation |-> sees[FrameOf(w)]] :
        w \in {x \in windows : FrameOf(x) \in frames}}

OwnChecks(c, d) == {k \in c.checks : k.window \in Owned(c.windows, d)}
RelationsOf(c, d, f) == {k.relation : k \in {x \in OwnChecks(c, d) : x.frame = f}}

\* _admitted_scoped_visual_relation: a frame enters a draft's evidence when
\* all the checks in its scope support or contradict, or all say "displayed
\* page" and the draft attributes it.
Admits(c, d, f) ==
    LET R == RelationsOf(c, d, f) IN
    /\ R # {}
    /\ R \subseteq {"SUPPORTS", "CONTRADICTS"} \/ (R = {"SECONDARY"} /\ d.attributed)

\* Claim visual binding: the admitted frames with something legible in them.
Anchors(c, d, legible) == {f \in c.frames : Admits(c, d, f) /\ f \in legible}

\* Faulty variant: a human is asked only when every check contradicts.
NeedsReviewUnanimous(c, d) ==
    /\ OwnChecks(c, d) # {}
    /\ \A k \in OwnChecks(c, d) : k.relation = "CONTRADICTS"

\* The codes that ask for a human: a contradiction in an owned window.
NeedsReview(c, d) == \E k \in OwnChecks(c, d) : k.relation = "CONTRADICTS"

\* The packet sealed with an occurrence, window by window.
WindowStatus(c, d, w, legible) ==
    LET R == {k.relation : k \in {x \in c.checks : x.window = w}}
        supports == "SUPPORTS" \in R \/ ("SECONDARY" \in R /\ d.attributed)
    IN  CASE FrameOf(w) \notin c.frames -> "GAP"
          [] FrameOf(w) \in c.frames /\ "CONTRADICTS" \in R -> "HUMAN_REVIEW_REQUIRED"
          [] FrameOf(w) \in c.frames /\ "CONTRADICTS" \notin R ->
               IF supports /\ FrameOf(w) \in legible THEN "AVAILABLE" ELSE "GAP"

Packet(c, d, legible) ==
    LET S == {WindowStatus(c, d, w, legible) : w \in Owned(c.windows, d)} IN
    CASE "HUMAN_REVIEW_REQUIRED" \in S -> "HUMAN_REVIEW_REQUIRED"
      [] S = {"AVAILABLE"} -> "AVAILABLE"
      [] OTHER -> "GAP"

-----------------------------------------------------------------------------
\* Faulty variant: the grounded evidence is not advanced with the drafts.
OccurrencesOfFirst(c, legible) ==
    [i \in DOMAIN c.drafts |->
        [claim |-> c.drafts[i].claim, span |-> c.drafts[i].span,
         attributed |-> c.drafts[i].attributed, anchors |-> c.anchors[1],
         seen |-> OwnChecks(c, c.drafts[i]), review |-> NeedsReview(c, c.drafts[i]),
         packet |-> Packet(c, c.drafts[i], legible)]]

\* Occurrences pair claims, drafts and grounded evidence position by position;
\* the packet of each names the frames and relations of its windows (seen).
Occurrences(c, legible) ==
    [i \in DOMAIN c.drafts |->
        [claim |-> c.drafts[i].claim, span |-> c.drafts[i].span,
         attributed |-> c.drafts[i].attributed, anchors |-> c.anchors[i],
         seen |-> OwnChecks(c, c.drafts[i]), review |-> NeedsReview(c, c.drafts[i]),
         packet |-> Packet(c, c.drafts[i], legible)]]

OfClaim(occs, cl) == SelectSeq(occs, LAMBDA o : o.claim = cl)

\* Knowledge units: the n-th claim record of a claim takes its n-th occurrence.
Nth(s, i) == Cardinality({j \in 1..i : s[j] = s[i]})

\* Faulty variant: every unit of a claim takes the claim's first occurrence.
KnowledgeUnitsOfFirst(claims, occs) ==
    [i \in DOMAIN claims |->
        [claim |-> claims[i], occ |-> OfClaim(occs, claims[i])[1],
         support |-> "SOURCE_SUPPORTED", life |-> "ACTIVE"]]

\* The position of the n-th occurrence of a claim.
NthOf(occs, cl, n) ==
    CHOOSE k \in DOMAIN occs :
        occs[k].claim = cl /\ Cardinality({j \in 1..k : occs[j].claim = cl}) = n

KnowledgeUnits(claims, occs) ==
    [i \in DOMAIN claims |->
        [claim |-> claims[i], occ |-> occs[NthOf(occs, claims[i], Nth(claims, i))],
         support |-> "SOURCE_SUPPORTED", life |-> "ACTIVE"]]

UnderReview(occs) == {o \in ToSet(occs) : o.review}
ClaimsUnderReview(occs) == {o.claim : o \in UnderReview(occs)}

Life(underReview) == IF underReview THEN "EXTRACTED" ELSE "ACTIVE"

ClaimLife(claims, occs) ==
    [cl \in ToSet(claims) |-> Life(cl \in ClaimsUnderReview(occs))]

\* Lifecycle projection rewrites the units of occurrences under review.
Projected(units) ==
    [i \in DOMAIN units |->
        IF units[i].occ.review
          THEN [units[i] EXCEPT !.support = "SOURCE_LOCATED", !.life = "EXTRACTED"]
          ELSE [units[i] EXCEPT !.life = "ACTIVE"]]

\* The claim's first ledger event takes its evidence from the occurrence that
\* comes last under the claim's key.
LedgerEvents(claims, occs) ==
    [cl \in ToSet(claims) |->
        LET o == Last(OfClaim(occs, cl))
        IN  [review |-> o.review,
             support |-> IF o.review THEN "SOURCE_LOCATED" ELSE "SOURCE_SUPPORTED",
             life |-> ClaimLife(claims, occs)[cl]]]

-----------------------------------------------------------------------------
\* What the claim stages have put in the attempt's memory.
NoClaims ==
    [ contexts |-> FALSE, theses |-> << >>, drafts |-> << >>, windows |-> {},
      frames |-> {}, checks |-> {}, anchors |-> << >>, bound |-> FALSE,
      claims |-> << >>, occs |-> << >>, clock |-> 0, units |-> << >>,
      acted |-> FALSE ]
=============================================================================
