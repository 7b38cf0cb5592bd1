----------------------------- MODULE Segmentation -----------------------------
(***************************************************************************)
(* The semantic_segmentation stage: SemanticSegmenter.segment as wired in  *)
(* api/dependencies.py (refinement, topic audit and brief labels on, a     *)
(* concrete first topic required) and the rows its repository keeps.       *)
(*                                                                         *)
(* A transcript is its rows 0 .. Rows-1, each with what it costs in a      *)
(* prompt.  A segmentation is a function from the rows where segments      *)
(* begin to their labels: a boundary after row i is the start i+1.  What a *)
(* model answers is open.  In the place of a label's words stand the rows  *)
(* the answer gave to the topic: where it begins and, when the answer saw  *)
(* the whole segment, where it ends.                                       *)
(***************************************************************************)
EXTENDS Integers, FiniteSets

CONSTANTS
    Rows,            \* number of transcript rows
    Cost,            \* tokens of each row in a prompt
    SafeBudget,      \* row tokens of a transcript that is sent whole
    BlockBudget,     \* row tokens of a block: block_tokens less the instructions
    RefineBudget,    \* the same, less the refinement's longer instructions
    AuditBudget,     \* the same, less the topic audit's still longer ones
    AuditView,       \* 1400 tokens less the topic audit's instructions
    RefineMin,       \* refinement_min_tokens
    AuditMin,        \* 256 tokens: below, only composite labels are audited
    Overlap,         \* segment_overlap
    Confidences,     \* confidences a model may give, as integers
    MaxCuts,         \* bound: boundaries proposed or kept at any time
    MaxAttempts,     \* bound: attempts of the stage
    MaxLeft          \* bound: rows a dying attempt leaves behind

AuditRows == 4       \* a shorter segment is not audited
BriefRows == 6       \* a longer segment's label is not verified

ASSUME RowsAssumption == Rows \in Nat \ {0} /\ Cost \in [0..Rows-1 -> Nat \ {0}]
ASSUME OverlapAssumption == Overlap \in Nat
ASSUME BudgetAssumption ==
    {SafeBudget, BlockBudget, RefineBudget, AuditBudget, AuditView} \subseteq Nat \ {0}

VARIABLES
    pass,            \* which pass the attempt is in
    work,            \* the segments it has yet to show the model, by their starts
    shown,           \* where the window begins that the first of them is at
    pending,         \* proposals that wait for the adjudication
    found,           \* boundaries of the segment whose windows are under way
    fresh,           \* boundaries of the pass
    relabel,         \* labels the pass gives to segments that were there
    starts,          \* the segmentation so far
    parted,          \* auxiliary: starts of segments shown window by window
    tries,           \* invalid answers to the request under way
    saved,           \* segments of the artifact written so far, by their starts
    rows,            \* the table semantic_segments: segment id -> payload
    attempts,        \* attempts that have ended without a result
    why              \* what ended the last one

vars == <<pass, work, shown, pending, found, fresh, relabel, starts, parted,
          tries, saved, rows, attempts, why>>

Nothing == [x \in {} |-> 0]                 \* the empty function
Added(f, k, v) == [x \in DOMAIN f \cup {k} |-> IF x \in DOMAIN f THEN f[x] ELSE v]

Looks == {"coarse", "refine", "audit"}
Working == Looks \cup {"brief", "save"}
PassAfter(p) == CASE p = "coarse" -> "refine" [] p = "refine" -> "audit"
                  [] p = "audit" -> "brief" [] p = "brief" -> "save"

-----------------------------------------------------------------------------
\* Segments of a segmentation: from each start to the row before the next.

Unnamed == [by |-> "nobody", from |-> 0, upto |-> 0]
Label(by, from, upto) == [by |-> by, from |-> from, upto |-> upto]

LastRow(st, s) ==
    CHOOSE e \in s..Rows-1 :
        /\ (s+1)..e \cap DOMAIN st = {}
        /\ (e = Rows - 1 \/ e + 1 \in DOMAIN st)
Span(st, s) == [lo |-> s, hi |-> LastRow(st, s) + 1]
Spans(st) == {Span(st, s) : s \in DOMAIN st}
First(ss) == CHOOSE s \in ss : \A t \in ss : s <= t

CostBefore[i \in 0..Rows] == IF i = 0 THEN 0 ELSE CostBefore[i-1] + Cost[i-1]
SpanCost(lo, hi) == CostBefore[hi] - CostBefore[lo]
LargestRow(lo, hi) == CHOOSE c \in {Cost[i] : i \in lo..hi-1} :
                        \A i \in lo..hi-1 : Cost[i] <= c

-----------------------------------------------------------------------------
\* _blocks: windows that fit the budget, each beginning a little before the
\* last one's end, and by less than a third of it.

Less(a, b) == IF a < b THEN a ELSE b
More(a, b) == IF a > b THEN a ELSE b

BlockEnd(lo, hi, budget) ==
    CHOOSE e \in lo+1..hi :
        /\ (e = lo + 1 \/ SpanCost(lo, e) <= budget)
        /\ (e = hi \/ ~ (SpanCost(lo, e + 1) <= budget))

\* Faulty variant: the whole overlap, as far as the block has rows.
StepBackWhole(lo, end) == Less(Overlap, end - lo)

StepBack(lo, end) == Less(Overlap, (end - lo) \div 3)

WholeBudget(p, lo, hi) ==
    CASE p = "coarse" -> SafeBudget
      [] p = "refine" -> RefineBudget
      [] p = "audit" -> Less(AuditBudget, More(AuditView, LargestRow(lo, hi)))
PartBudget(p, lo, hi) == IF p = "coarse" THEN BlockBudget ELSE WholeBudget(p, lo, hi)

Fits(p, lo, hi) == SpanCost(lo, hi) <= WholeBudget(p, lo, hi)
TooWide(p, lo, hi) ==
    ~ Fits(p, lo, hi) /\ \E i \in lo..hi-1 : Cost[i] > PartBudget(p, lo, hi)

\* The window of a segment that begins at row s.
WindowEnd(p, sp, s) ==
    IF Fits(p, sp.lo, sp.hi) THEN sp.hi ELSE BlockEnd(s, sp.hi, PartBudget(p, sp.lo, sp.hi))

\* Segments that are audited when their label reads like several subjects.
ByLabel(st) == {s \in DOMAIN st : LET sp == Span(st, s) IN
    sp.hi - sp.lo >= AuditRows /\ SpanCost(sp.lo, sp.hi) < AuditMin}

\* Which segments a pass looks into; composite holds those whose label does.
LooksInto(p, sp, composite) ==
    LET n == sp.hi - sp.lo
        c == SpanCost(sp.lo, sp.hi) IN
    CASE p = "coarse" -> TRUE
      [] p = "refine" -> n >= 2 /\ c >= RefineMin
      [] p = "audit" -> n >= AuditRows /\ (c >= AuditMin \/ sp.lo \in composite)
      [] p = "brief" -> n <= BriefRows

-----------------------------------------------------------------------------
\* _reconcile: proposals of overlapping windows, brought to one per cluster.

Ats(props) == {q.at : q \in props}
Support(props, i) == Cardinality({q \in props : q.at = i})
Confidence(props, i) == CHOOSE c \in {q.conf : q \in props} :
    /\ \E q \in props : q.at = i /\ q.conf = c
    /\ \A q \in props : q.at = i => q.conf <= c

\* Two coordinates are in one cluster when no gap between them is wider.
Clustered(props, gap, i, j) ==
    \A k \in Ats(props) : (Less(i, j) <= k /\ k < More(i, j)) =>
        \E m \in Ats(props) : k < m /\ m <= k + gap

KeptOfCluster(props, cluster) ==
    LET repeated == {i \in cluster : Support(props, i) > 1}
        best == {i \in cluster : \A j \in cluster :
                    Confidence(props, j) <= Confidence(props, i)} IN
    CASE Cardinality(cluster) = 1 -> {cluster}
      [] repeated # {} -> {repeated}
      [] OTHER -> {{i} : i \in best}        \* the labels' words break the tie

\* The sets of coordinates the reconciliation may keep.
Reconciled(props, gap) ==
    LET cluster(i) == {j \in Ats(props) : Clustered(props, gap, i, j)} IN
    {kept \in SUBSET Ats(props) : \A i \in Ats(props) :
        kept \cap cluster(i) \in KeptOfCluster(props, cluster(i))}

Gap == Less(2, Overlap)

\* Faulty variant: the proposals of all windows are kept as they are.
SettledUnreconciled(w, props) == {props}

\* The lists of boundaries a segment's windows may come to.
Settled(w, props) ==
    IF w.alone THEN {props}
    ELSE {{[at |-> i, conf |-> 0, upto |-> 0, of |-> w.lo] : i \in kept} :
            kept \in Reconciled(props, Gap)}

-----------------------------------------------------------------------------
\* validate_boundaries, on the sorted boundaries a pass ends with.
Valid(st, new) ==
    /\ \A q, r \in new : q.at = r.at => q = r
    /\ \A i \in Ats(new) : i \in 0..Rows-2 /\ i + 1 \notin DOMAIN st

\* The boundaries of the pass join, and the pass's labels take their places.
Merged(st, new, labels) ==
    [s \in DOMAIN st \cup {i + 1 : i \in Ats(new)} |->
        IF s \in DOMAIN labels THEN labels[s]
        ELSE IF s \in DOMAIN st THEN st[s]
        ELSE Label("look", s, (CHOOSE q \in new : q.at + 1 = s).upto)]

-----------------------------------------------------------------------------
Init ==
    /\ pass = "idle" /\ attempts = 0 /\ why = "none"
    /\ rows = Nothing
    /\ work = {} /\ shown = 0 /\ pending = {} /\ found = {} /\ fresh = {}
    /\ relabel = Nothing /\ starts = Nothing /\ parted = {} /\ tries = 0 /\ saved = {}

Forget ==
    /\ work' = {} /\ shown' = 0 /\ pending' = {} /\ found' = {} /\ fresh' = {}
    /\ relabel' = Nothing /\ starts' = Nothing /\ parted' = {} /\ tries' = 0 /\ saved' = {}

\* The stage raises, or its process is gone: a retry begins from nothing but
\* the rows that were written.
EndAttempt(reason) ==
    /\ pass' = "idle" /\ why' = reason /\ attempts' = attempts + 1
    /\ Forget /\ UNCHANGED rows

\* What a pass has to show of a segmentation.
Agenda(p, st, composite) == {s \in DOMAIN st : LooksInto(p, Span(st, s), composite)}

Unshowable(p, st, composite) ==
    p \in Looks /\ \E s \in Agenda(p, st, composite) :
        LET sp == Span(st, s) IN TooWide(p, sp.lo, sp.hi)

\* validate_full_coverage, before the artifact is built.
FullyCovers(st) ==
    /\ 0 \in DOMAIN st
    /\ \A sp \in Spans(st) :
        /\ sp.lo < sp.hi
        /\ sp.lo = 0 \/ \E other \in Spans(st) : other.hi = sp.lo
        /\ sp.hi = Rows \/ \E other \in Spans(st) : other.lo = sp.hi

Enter(p, st, inParts) ==
    \E composite \in SUBSET IF p = "audit" THEN ByLabel(st) ELSE {} :
        IF Unshowable(p, st, composite) THEN EndAttempt("budget")
        ELSE IF p = "save" /\ ~ FullyCovers(st) THEN EndAttempt("merge")
        ELSE /\ pass' = p /\ starts' = st /\ parted' = inParts
             /\ \E w \in {IF p = "save" THEN {} ELSE Agenda(p, st, composite)} :
                    work' = w /\ shown' = IF w = {} THEN 0 ELSE First(w)
             /\ pending' = {} /\ found' = {} /\ fresh' = {}
             /\ relabel' = Nothing /\ tries' = 0 /\ saved' = {}
             /\ UNCHANGED <<rows, attempts, why>>

-----------------------------------------------------------------------------
\* The attempt begins: with the model, or, for a fixture, without it.
Begin ==
    /\ pass = "idle" /\ attempts < MaxAttempts
    /\ \E p \in {"coarse", "save"} : Enter(p, [s \in {0} |-> Unnamed], {})

NoModel ==
    /\ pass = "idle" /\ attempts < MaxAttempts
    /\ EndAttempt("model")

Asked == pass \in Looks \cup {"brief"} /\ work # {}

\* _call_with_repair, and the like: one invalid answer is repaired, the second
\* ends the attempt, and so does an answer under another model's name.
Invalid ==
    /\ Asked
    /\ IF tries = 1 THEN EndAttempt("model")
       ELSE /\ tries' = tries + 1
            /\ UNCHANGED <<pass, work, shown, pending, found, fresh, relabel,
                           starts, parted, saved, rows, attempts, why>>

WrongModel == Asked /\ EndAttempt("model")

\* The row after the topic an answer lets begin at row s: its next cut.
TopicEnd(w, at, s) ==
    CHOOSE e \in s+1..w.to : /\ \A i \in s..e-2 : i \notin at
                            /\ (e = w.to \/ e - 1 \in at)

\* The window under way.
Window ==
    LET sp == Span(starts, First(work)) IN
    [lo |-> sp.lo, hi |-> sp.hi, from |-> shown, to |-> WindowEnd(pass, sp, shown),
     alone |-> Fits(pass, sp.lo, sp.hi)]

GoOn ==
    /\ work' = work \ {First(work)}
    /\ shown' = IF work' = {} THEN 0 ELSE First(work')

\* Faulty variant: the topic of any of the segment's windows.
RelabelsFromAny(w, proposed, accepted) == proposed = {} \/ accepted # {}

\* Whether the topic an answer begins with becomes the segment's label: not
\* when all of the answer's splits were rejected.
Relabels(w, proposed, accepted) ==
    w.from = w.lo /\ (proposed = {} \/ accepted # {})

\* What a window's accepted boundaries and first label lead to.
Take(w, proposed, accepted) ==
    LET props == found \cup accepted
        topic == Label("look", w.from, IF w.alone THEN TopicEnd(w, Ats(proposed), w.from) ELSE 0) IN
    /\ IF w.to = w.hi
       THEN /\ GoOn /\ found' = {}
            /\ \E cuts \in Settled(w, props) : fresh' = fresh \cup cuts
       ELSE /\ shown' = w.to - StepBack(w.from, w.to) /\ found' = props
            /\ UNCHANGED <<work, fresh>>
    /\ relabel' = IF Relabels(w, proposed, accepted)
                  THEN Added(relabel, w.lo, topic) ELSE relabel
    /\ parted' = IF w.alone THEN parted ELSE parted \cup {w.lo}
    /\ pending' = {} /\ tries' = 0
    /\ UNCHANGED <<pass, starts, saved, rows, attempts, why>>

\* Coordinates an answer may name: inside the window, never its last row.
Inside(w) == w.from..w.to - 2

\* A window is shown and the answer parses.
Answer ==
    /\ Asked /\ pass \in Looks /\ pending = {}
    /\ LET w == Window IN \E at \in SUBSET Inside(w) :
        /\ Cardinality(at) + Cardinality(fresh \cup found) + Cardinality(DOMAIN starts)
                <= MaxCuts + 1
        /\ \E conf \in [at -> IF w.alone THEN {0} ELSE Confidences] :
            LET cuts == {[at |-> i, conf |-> conf[i], of |-> w.from,
                          upto |-> IF w.alone THEN TopicEnd(w, at, i + 1) ELSE 0] : i \in at} IN
            IF pass = "coarse" \/ at = {} THEN Take(w, cuts, cuts)
            ELSE /\ pending' = cuts /\ tries' = 0
                 /\ UNCHANGED <<pass, work, shown, found, fresh, relabel, starts,
                                parted, saved, rows, attempts, why>>

\* _adjudicate_internal_boundaries: any subset of what was proposed.
Adjudicate ==
    /\ Asked /\ pending # {}
    /\ \E accepted \in SUBSET pending : Take(Window, pending, accepted)

\* The pass is over: its boundaries and labels join the segmentation, which
\* the next pass materializes.
ClosePass ==
    /\ pass \in Looks /\ work = {}
    /\ IF Valid(starts, fresh)
       THEN \E st \in {Merged(starts, fresh, relabel)} : Enter(PassAfter(pass), st, parted)
       ELSE EndAttempt("merge")

\* _verify_brief_topic_label: the label stands, or another takes its place.
VerifyLabel ==
    /\ Asked /\ pass = "brief"
    /\ LET sp == Span(starts, First(work)) IN
       starts' \in {starts, [starts EXCEPT ![sp.lo] = Label("brief", sp.lo, sp.hi)]}
    /\ GoOn /\ tries' = 0
    /\ UNCHANGED <<pass, pending, found, fresh, relabel, parted, saved,
                   rows, attempts, why>>

CloseBrief ==
    /\ pass = "brief" /\ work = {}
    /\ Enter("save", starts, parted)

-----------------------------------------------------------------------------
\* SemanticSegmentRepository.save: each segment in a transaction of its own,
\* under an id made of the transcript and the segment's first and last row.
RowId(sp) == <<sp.lo, sp.hi>>
Payload(st, s) == [index |-> Cardinality({t \in DOMAIN st : t < s}), label |-> st[s]]

\* Faulty variant: a row that is there is taken for the one to be written.
RefusedNever(id, values) == FALSE

Refused(id, values) == id \in DOMAIN rows /\ rows[id] # values

SaveRow ==
    /\ pass = "save" /\ saved # DOMAIN starts
    /\ LET s == First(DOMAIN starts \ saved)
           id == RowId(Span(starts, s))
           values == Payload(starts, s) IN
       IF Refused(id, values) THEN EndAttempt("store")
       ELSE /\ rows' = Added(rows, id, values)
            /\ saved' = saved \cup {s}
            /\ UNCHANGED <<pass, work, shown, pending, found, fresh, relabel,
                           starts, parted, tries, attempts, why>>

\* The stage returns and its checkpoint, receipt and artifact are recorded.
Record ==
    /\ pass = "save" /\ saved = DOMAIN starts
    /\ pass' = "done"
    /\ UNCHANGED <<work, shown, pending, found, fresh, relabel, starts, parted,
                   tries, saved, rows, attempts, why>>

Die ==
    /\ pass \in Working /\ Cardinality(DOMAIN rows) <= MaxLeft
    /\ EndAttempt("died")

Step == Invalid \/ WrongModel \/ Answer \/ Adjudicate \/ ClosePass \/ VerifyLabel
            \/ CloseBrief \/ SaveRow \/ Record

Next == Begin \/ NoModel \/ Step \/ Die

Spec == Init /\ [][Next]_vars /\ WF_vars(Step)

-----------------------------------------------------------------------------
TypeOK ==
    /\ pass \in Working \cup {"idle", "done"} /\ why \in {"none", "model", "budget", "merge", "store", "died"}
    /\ DOMAIN starts \subseteq 0..Rows-1 /\ tries \in 0..1

\* The passes fit together: whatever the model answers, the boundaries the
\* coarse pass, the refinement and the topic audit each bring, reconciled per
\* segment, merge into one list that validate_boundaries accepts and segments
\* that cover the transcript.  An attempt fails for its model, a row no window
\* holds, or the rows another attempt stored, and never for its own merging.
NeverRefusesItself == TypeOK /\ why # "merge"

\* A label is of its segment: the answer that gave it let the topic begin at
\* the segment's first row, and no later split has left the label to a part of
\* what it names.  The exception is a segment shown window by window, whose
\* first window may keep the old label while a later one splits it.
LabelsSpeakOfTheirSegment ==
    \A s \in DOMAIN starts : starts[s] # Unnamed =>
        /\ starts[s].from = s
        /\ s \notin parted => starts[s].upto <= LastRow(starts, s) + 1

\* What the stage returned is what the table holds, row for row, though dead
\* attempts with other answers have left rows in it.
StoredAsReturned ==
    pass = "done" => \A s \in DOMAIN starts :
        LET id == RowId(Span(starts, s)) IN
        id \in DOMAIN rows /\ rows[id] = Payload(starts, s)

\* Every attempt comes to an end, if the model answers: the windows advance,
\* an answer is repaired once, and each pass is made once.
AttemptEnds == pass \in Working ~> pass \in {"idle", "done"}
==============================================================================
