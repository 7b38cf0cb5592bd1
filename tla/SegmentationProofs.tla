-------------------------- MODULE SegmentationProofs --------------------------
(***************************************************************************)
(* What the segmentation stage makes of a transcript, for every transcript, *)
(* budget, overlap and number of attempts: its passes fit together, its     *)
(* labels are of their segments, and what it returns is what the table      *)
(* holds.                                                                  *)
(***************************************************************************)
EXTENDS Segmentation, WellFoundedInduction, TLAPS

\* A segmentation of the transcript: its first segment begins at the first row.
Shape(st) == DOMAIN st \subseteq 0..Rows-1 /\ 0 \in DOMAIN st

\* Rows s .. upto-1 are of the segment row s is in.
Ahead(st, s, upto) ==
    /\ upto \in Nat /\ upto <= Rows
    /\ \A t \in DOMAIN st : s < t => upto <= t

\* LabelsSpeakOfTheirSegment, of any segmentation.
Honest(st, inParts) ==
    \A s \in DOMAIN st : st[s] # Unnamed =>
        /\ st[s].from = s
        /\ s \notin inParts => Ahead(st, s, st[s].upto)

\* Topics end where the next boundary begins another, or before.
Successive(props) == \A q, r \in props : q.at < r.at => q.upto <= r.at + 1
Unique(props) == \A q, r \in props : q.at = r.at => q = r

\* Boundaries inside segments of st.
Inner(st, props) ==
    \A q \in props :
        /\ q.at \in 0..Rows-2 /\ q.at + 1 \notin DOMAIN st
        /\ Ahead(st, q.at, q.upto)

Outside(st, s, props) == \A q \in props : q.at < s \/ q.at > LastRow(st, s)

\* What a pass has brought so far: boundaries that merge, none of them in a
\* segment it has not yet shown.
Bringing ==
    /\ Inner(starts, fresh) /\ Unique(fresh) /\ Successive(fresh)
    /\ \A s \in work : Outside(starts, s, fresh)

\* The segment whose windows are under way.
UnderWay ==
    /\ work = {} => found = {} /\ pending = {}
    /\ work # {} =>
        /\ Window.from \in Window.lo..Window.hi - 1
        /\ Window.alone => found = {} /\ Window.from = Window.lo
        /\ \A q \in found \cup pending : q.at \in Window.lo..Window.hi - 2
        /\ \A q \in pending : q.upto \in 0..Window.hi
        /\ Unique(pending) /\ Successive(pending)

\* A label the pass gives is of the segment that is left when its boundaries
\* join; a segment whose label it leaves alone is left whole.
Fitting(st, labels, inParts, new) ==
    /\ DOMAIN labels \subseteq DOMAIN st
    /\ \A s \in DOMAIN labels :
        /\ labels[s].from = s
        /\ s \notin inParts =>
            /\ Ahead(st, s, labels[s].upto)
            /\ \A q \in new : s <= q.at => labels[s].upto <= q.at + 1
    /\ \A s \in DOMAIN st \ (DOMAIN labels \cup inParts) : Outside(st, s, new)

Relabelling ==
    /\ Fitting(starts, relabel, parted, fresh)
    /\ \A s \in work \cap DOMAIN relabel : s \in parted

PassInv ==
    /\ TypeOK /\ why # "merge"
    /\ pass = "idle" => starts = Nothing
    /\ pass # "idle" => Shape(starts) /\ Honest(starts, parted)
    /\ pass \in Looks \cup {"brief"} => work \subseteq DOMAIN starts
    /\ pass \notin Looks => pending = {}
    /\ pass \in Looks => Bringing /\ UnderWay /\ Relabelling

\* The part of a segmentation written so far is in the table; what other
\* attempts left there is either the same row or has ended this one.
Stored(st, table, written) ==
    \A s \in written :
        /\ RowId(Span(st, s)) \in DOMAIN table
        /\ table[RowId(Span(st, s))] = Payload(st, s)

Progress ==
    /\ pass \in {"save", "done"} => Stored(starts, rows, saved)
    /\ pass = "done" => saved = DOMAIN starts

-----------------------------------------------------------------------------
\* A set of naturals that is not empty has a least element.
LEMMA LeastOfNaturals ==
  ASSUME NEW S, S \subseteq Nat, S # {}
  PROVE  \E m \in S : \A n \in S : m <= n
<1> DEFINE R == OpToRel(<, Nat)
<1>1. PICK m \in S : \A n \in S : <<n, m>> \notin R
  <2>1. IsWellFoundedOn(R, Nat)
    BY NatLessThanWellFounded
  <2> HIDE DEF R
  <2> QED
    BY <2>1, WFMin, Zenon
<1>2. ASSUME NEW n \in S PROVE m <= n
  <2>1. ~(n < m)
    BY <1>1 DEF OpToRel
  <2> QED
    BY <2>1
<1> QED
  BY <1>2

-----------------------------------------------------------------------------
\* Of rows that are numbers there is a first.
LEMMA FirstIsLeast ==
    ASSUME NEW ss, ss \subseteq Nat, ss # {}
    PROVE  First(ss) \in ss /\ \A t \in ss : First(ss) <= t
BY LeastOfNaturals DEF First

\* A segment ends before the next start, or with the transcript.
LEMMA LastRowIs ==
    ASSUME NEW st, Shape(st), NEW s \in DOMAIN st
    PROVE  /\ LastRow(st, s) \in s..Rows-1
           /\ \A t \in DOMAIN st : s < t => LastRow(st, s) < t
           /\ LastRow(st, s) = Rows - 1 \/ LastRow(st, s) + 1 \in DOMAIN st
<1> DEFINE After == {t \in DOMAIN st : s < t} \cup {Rows}
           Ends(e) == /\ (s+1)..e \cap DOMAIN st = {}
                      /\ (e = Rows - 1 \/ e + 1 \in DOMAIN st)
<1>1. Rows \in Nat /\ DOMAIN st \subseteq 0..Rows-1
  BY RowsAssumption DEF Shape
<1>2. PICK m \in After : \A t \in After : m <= t
  <2>1. After \subseteq Nat /\ After # {}
    BY <1>1
  <2> HIDE DEF After
  <2> QED BY <2>1, LeastOfNaturals
<1>3. \E e \in s..Rows-1 : Ends(e)
  <2>1. m - 1 \in s..Rows-1
    BY <1>1, <1>2
  <2>2. Ends(m - 1)
    BY <1>1, <1>2
  <2> QED BY <2>1, <2>2
<1>4. LastRow(st, s) \in s..Rows-1 /\ Ends(LastRow(st, s))
  <2>1. LastRow(st, s) = CHOOSE e \in s..Rows-1 : Ends(e)
    BY DEF LastRow
  <2> HIDE DEF Ends
  <2> QED BY <1>3, <2>1
<1>5. ASSUME NEW t \in DOMAIN st, s < t PROVE LastRow(st, s) < t
  BY <1>1, <1>4, <1>5
<1> QED BY <1>4, <1>5

\* Rows up to the end of its segment are ahead of a start.
LEMMA AheadIsWithin ==
    ASSUME NEW st, Shape(st), NEW s \in DOMAIN st, NEW upto \in Nat
    PROVE  Ahead(st, s, upto) <=> upto <= LastRow(st, s) + 1
<1>1. Rows \in Nat /\ DOMAIN st \subseteq 0..Rows-1
  BY RowsAssumption DEF Shape
<1> QED BY <1>1, LastRowIs DEF Ahead

\* The spans of a segmentation.
LEMMA SpanIs ==
    ASSUME NEW st, Shape(st), NEW s \in DOMAIN st
    PROVE  /\ Span(st, s).lo = s /\ Span(st, s).hi = LastRow(st, s) + 1
           /\ s \in Nat /\ Span(st, s).hi \in s+1..Rows
<1>1. Rows \in Nat /\ DOMAIN st \subseteq 0..Rows-1
  BY RowsAssumption DEF Shape
<1> QED BY <1>1, LastRowIs DEF Span

\* materialize_semantic_segments leaves no gap: validate_full_coverage passes.
LEMMA SpansCover ==
    ASSUME NEW st, Shape(st) PROVE FullyCovers(st)
<1>1. Rows \in Nat \ {0} /\ DOMAIN st \subseteq 0..Rows-1 /\ 0 \in DOMAIN st
  BY RowsAssumption DEF Shape
<1>2. SUFFICES ASSUME NEW s \in DOMAIN st
      PROVE  /\ Span(st, s).lo < Span(st, s).hi
             /\ s = 0 \/ \E t \in DOMAIN st : LastRow(st, t) + 1 = s
             /\ LastRow(st, s) = Rows - 1 \/ LastRow(st, s) + 1 \in DOMAIN st
  <2>1. \A t \in DOMAIN st : Span(st, t).lo = t /\ Span(st, t).hi = LastRow(st, t) + 1
    BY SpanIs
  <2>2. \A t \in DOMAIN st : LastRow(st, t) \in Int
    BY <1>1, LastRowIs
  <2>3. ASSUME NEW sp \in Spans(st)
        PROVE  /\ sp.lo < sp.hi
               /\ sp.lo = 0 \/ \E other \in Spans(st) : other.hi = sp.lo
               /\ sp.hi = Rows \/ \E other \in Spans(st) : other.lo = sp.hi
    <3>1. PICK s \in DOMAIN st : sp = Span(st, s)
      BY DEF Spans
    <3>2. \A t \in DOMAIN st : Span(st, t) \in Spans(st)
      BY DEF Spans
    <3>3. sp.lo = 0 \/ \E other \in Spans(st) : other.hi = sp.lo
      BY <1>2, <2>1, <3>1, <3>2
    <3>4. LastRow(st, s) = Rows - 1 => sp.hi = Rows
      BY <1>1, <2>1, <2>2, <3>1
    <3>5. sp.hi = Rows \/ \E other \in Spans(st) : other.lo = sp.hi
      BY <1>2, <2>1, <3>1, <3>2, <3>4
    <3> QED BY <1>2, <3>1, <3>3, <3>5
  <2> QED BY <1>1, <2>3 DEF FullyCovers
<1>3. ASSUME s # 0 PROVE \E t \in DOMAIN st : LastRow(st, t) + 1 = s
  <2> DEFINE Behind == {s - t : t \in {u \in DOMAIN st : u < s}}
  <2>1. PICK d \in Behind : \A e \in Behind : d <= e
    <3>1. Behind \subseteq Nat
      BY <1>1
    <3>2. s - 0 \in Behind
      BY <1>1, <1>3
    <3> HIDE DEF Behind
    <3> QED BY <3>1, <3>2, LeastOfNaturals
  <2>2. PICK t \in DOMAIN st : t < s /\ d = s - t
    BY <2>1
  <2>3. \A u \in DOMAIN st : u < s => u <= t
    <3>1. ASSUME NEW u \in DOMAIN st, u < s PROVE u <= t
      <4>1. s - u \in Behind
        BY <3>1
      <4>2. s - t <= s - u
        BY <2>1, <2>2, <4>1
      <4> QED BY <1>1, <4>2
    <3> QED BY <3>1
  <2>4. LastRow(st, t) \in t..Rows-1 /\ LastRow(st, t) < s
        /\ (LastRow(st, t) = Rows - 1 \/ LastRow(st, t) + 1 \in DOMAIN st)
    BY <2>2, LastRowIs
  <2> QED BY <1>1, <2>2, <2>3, <2>4
<1> QED BY <1>1, <1>3, SpanIs, LastRowIs

\* A window ends behind its first row and within its segment, and a segment that
\* fits is one window.
LEMMA WindowEndIs ==
    ASSUME NEW p, NEW sp, sp.lo \in Nat, sp.hi \in Nat, NEW s \in sp.lo..sp.hi - 1
    PROVE  /\ WindowEnd(p, sp, s) \in s+1..sp.hi
           /\ Fits(p, sp.lo, sp.hi) => WindowEnd(p, sp, s) = sp.hi
<1>1. ASSUME NEW budget PROVE BlockEnd(s, sp.hi, budget) \in s+1..sp.hi
  <2> DEFINE Fit(e) == SpanCost(s, e) <= budget
             Full == {e \in s+1..sp.hi : e = sp.hi \/ ~ Fit(e + 1)}
  <2>1. BlockEnd(s, sp.hi, budget) =
          CHOOSE e \in s+1..sp.hi : (e = s + 1 \/ Fit(e)) /\ (e = sp.hi \/ ~ Fit(e + 1))
    BY DEF BlockEnd
  <2> HIDE DEF Fit
  <2>2. PICK e \in Full : \A f \in Full : e <= f
    <3>1. Full \subseteq Nat /\ sp.hi \in Full
      OBVIOUS
    <3> HIDE DEF Full
    <3> QED BY <3>1, LeastOfNaturals
  <2>3. e = s + 1 \/ Fit(e)
    <3>1. ASSUME e # s + 1, ~ Fit(e) PROVE FALSE
      <4>1. e - 1 \in s+1..sp.hi /\ (e - 1) + 1 = e
        BY <3>1, <2>2
      <4>2. e - 1 \in Full
        BY <3>1, <4>1
      <4> QED BY <2>2, <4>1, <4>2
    <3> QED BY <3>1
  <2> QED BY <2>1, <2>2, <2>3
<1> QED BY <1>1 DEF WindowEnd

\* A topic ends before the next cut of the answer, or with its window.
LEMMA TopicEndIs ==
    ASSUME NEW w, NEW at, NEW s \in Nat, w.to \in Nat, s < w.to, at \subseteq Nat
    PROVE  /\ TopicEnd(w, at, s) \in s+1..w.to
           /\ \A i \in at : s <= i => TopicEnd(w, at, s) <= i + 1
<1> DEFINE Cut(e) == e = w.to \/ e - 1 \in at
           Cuts == {e \in s+1..w.to : Cut(e)}
<1>1. PICK e \in Cuts : \A f \in Cuts : e <= f
  <2>1. Cuts \subseteq Nat /\ w.to \in Cuts
    OBVIOUS
  <2> HIDE DEF Cuts
  <2> QED BY <2>1, LeastOfNaturals
<1>2. ASSUME NEW i \in s..e-2 PROVE i \notin at
  <2>1. i + 1 \in s+1..w.to /\ (i + 1) - 1 = i
    BY <1>1, <1>2
  <2>2. i \in at => i + 1 \in Cuts
    BY <2>1
  <2> QED BY <1>1, <1>2, <2>2
<1>3. \E f \in s+1..w.to : (\A i \in s..f-2 : i \notin at) /\ (f = w.to \/ f - 1 \in at)
  BY <1>1, <1>2
<1>4. /\ TopicEnd(w, at, s) \in s+1..w.to
      /\ \A i \in s..TopicEnd(w, at, s)-2 : i \notin at
  BY <1>3 DEF TopicEnd
<1>5. ASSUME NEW i \in at, s <= i, TopicEnd(w, at, s) > i + 1 PROVE FALSE
  <2>1. i \in s..TopicEnd(w, at, s)-2
    BY <1>4, <1>5
  <2> QED BY <1>4, <2>1
<1> QED BY <1>4, <1>5

-----------------------------------------------------------------------------
\* What a segment's windows come to: of a segment shown whole, what was accepted;
\* of another, one boundary at each coordinate that is kept.
LEMMA SettledIs ==
    ASSUME NEW w, NEW props, NEW cuts \in Settled(w, props)
    PROVE  /\ w.alone => cuts = props
           /\ ~ w.alone => /\ Unique(cuts)
                           /\ \A q \in cuts : q.upto = 0 /\ \E r \in props : q.at = r.at
<1>1. CASE w.alone
  BY <1>1 DEF Settled
<1>2. CASE ~ w.alone
  <2>1. PICK kept \in Reconciled(props, Gap) :
          cuts = {[at |-> i, conf |-> 0, upto |-> 0, of |-> w.lo] : i \in kept}
    BY <1>2 DEF Settled
  <2>2. kept \subseteq Ats(props)
    BY <2>1 DEF Reconciled
  <2>3. \A q \in cuts : q.at \in kept /\ q.upto = 0
                        /\ q = [at |-> q.at, conf |-> 0, upto |-> 0, of |-> w.lo]
    BY <2>1
  <2>4. Unique(cuts)
    BY <2>3 DEF Unique
  <2> QED BY <1>2, <2>2, <2>3, <2>4 DEF Ats
<1> QED BY <1>1, <1>2

\* Boundaries inside segments, one at a coordinate, pass validate_boundaries.
LEMMA InnerIsValid ==
    ASSUME NEW st, NEW new, Inner(st, new), Unique(new)
    PROVE  Valid(st, new)
BY DEF Valid, Inner, Unique, Ats

\* The labels a pass gives still speak of their segments, and those it leaves
\* alone too, once its boundaries have joined.
LEMMA MergedIsHonest ==
    ASSUME NEW st, NEW new, NEW labels, NEW inParts, Shape(st), Honest(st, inParts),
           Inner(st, new), Unique(new), Successive(new), Fitting(st, labels, inParts, new)
    PROVE  Shape(Merged(st, new, labels)) /\ Honest(Merged(st, new, labels), inParts)
<1> DEFINE m == Merged(st, new, labels)
<1>1. Rows \in Nat \ {0} /\ DOMAIN st \subseteq 0..Rows-1 /\ 0 \in DOMAIN st
  BY RowsAssumption DEF Shape
<1>2. /\ DOMAIN m = DOMAIN st \cup {q.at + 1 : q \in new}
      /\ \A s \in DOMAIN m :
           m[s] = IF s \in DOMAIN labels THEN labels[s]
                  ELSE IF s \in DOMAIN st THEN st[s]
                  ELSE Label("look", s, (CHOOSE q \in new : q.at + 1 = s).upto)
  <2>1. {i + 1 : i \in Ats(new)} = {q.at + 1 : q \in new}
    BY DEF Ats
  <2> QED BY <2>1 DEF Merged
<1>3. \A q \in new : q.at \in 0..Rows-2 /\ q.at + 1 \notin DOMAIN st /\ Ahead(st, q.at, q.upto)
  BY DEF Inner
<1> HIDE DEF m
<1>4. Shape(m)
  BY <1>1, <1>2, <1>3 DEF Shape
<1>5. ASSUME NEW s \in DOMAIN m, NEW upto, Ahead(st, s, upto),
             \A q \in new : s <= q.at => upto <= q.at + 1
      PROVE  Ahead(m, s, upto)
  <2>1. ASSUME NEW t \in DOMAIN m, s < t PROVE upto <= t
    <3>1. CASE t \in DOMAIN st
      BY <1>5, <2>1, <3>1 DEF Ahead
    <3>2. CASE t \notin DOMAIN st
      <4>1. PICK q \in new : t = q.at + 1
        BY <1>2, <3>2
      <4>2. s \in Int
        BY <1>4 DEF Shape
      <4> QED BY <1>3, <1>5, <2>1, <4>1, <4>2
    <3> QED BY <3>1, <3>2
  <2> QED BY <1>5, <2>1 DEF Ahead
<1>6. ASSUME NEW s \in DOMAIN m, m[s] # Unnamed
      PROVE  m[s].from = s /\ (s \notin inParts => Ahead(m, s, m[s].upto))
  <2>1. CASE s \in DOMAIN labels
    <3>1. m[s] = labels[s]
      BY <1>2, <2>1
    <3> QED BY <1>5, <2>1, <3>1 DEF Fitting
  <2>2. CASE s \notin DOMAIN labels /\ s \in DOMAIN st
    <3>1. m[s] = st[s] /\ st[s].from = s
      BY <1>2, <1>6, <2>2 DEF Honest
    <3>2. ASSUME s \notin inParts PROVE Ahead(m, s, m[s].upto)
      <4>1. Ahead(st, s, st[s].upto)
        BY <1>6, <2>2, <3>1, <3>2 DEF Honest
      <4>2. st[s].upto <= LastRow(st, s) + 1 /\ st[s].upto \in Nat
        BY <2>2, <4>1, AheadIsWithin DEF Ahead
      <4>3. ASSUME NEW q \in new, s <= q.at PROVE st[s].upto <= q.at + 1
        <5>1. q.at < s \/ q.at > LastRow(st, s)
          BY <2>2, <3>2 DEF Fitting, Outside
        <5>2. LastRow(st, s) \in Int /\ s \in Int /\ q.at \in Int
          BY <1>1, <1>3, <2>2, LastRowIs
        <5> QED BY <4>2, <4>3, <5>1, <5>2
      <4> QED BY <1>5, <3>1, <4>1, <4>3
    <3> QED BY <3>1, <3>2
  <2>3. CASE s \notin DOMAIN labels /\ s \notin DOMAIN st
    <3>1. PICK q \in new : q.at + 1 = s
      BY <1>2, <2>3
    <3>2. \A r \in new : r.at + 1 = s => r = q
      BY <1>3, <3>1 DEF Unique
    <3>3. (CHOOSE r \in new : r.at + 1 = s) = q
      BY <3>1, <3>2
    <3>4. m[s].from = s /\ m[s].upto = q.upto
      <4>1. m[s] = Label("look", s, (CHOOSE r \in new : r.at + 1 = s).upto)
        BY <1>2, <2>3, Zenon
      <4>2. m[s] = Label("look", s, q.upto)
        BY <3>3, <4>1, Zenon
      <4> QED BY <4>2 DEF Label
    <3>5. Ahead(st, s, q.upto)
      BY <1>1, <1>3, <3>1 DEF Ahead
    <3>6. \A r \in new : s <= r.at => q.upto <= r.at + 1
      BY <1>3, <3>1 DEF Successive
    <3> QED BY <1>5, <3>4, <3>5, <3>6
  <2> QED BY <2>1, <2>2, <2>3
<1> QED BY <1>4, <1>6 DEF Honest, m

-----------------------------------------------------------------------------
\* An attempt that ends for another reason than its own merging.
LEMMA EndsAnswered ==
    ASSUME NEW reason \in {"model", "budget", "store", "died"}, EndAttempt(reason)
    PROVE  PassInv'
<1>1. pass' = "idle" /\ why' = reason /\ starts' = Nothing /\ tries' = 0 /\ pending' = {}
  BY DEF EndAttempt, Forget
<1>2. DOMAIN Nothing = {}
  BY DEF Nothing
<1> QED BY <1>1, <1>2 DEF PassInv, TypeOK, Looks, Working

\* A pass turns to the first segment it has to show, at that segment's first row.
LEMMA TurnsToFirst ==
    ASSUME Shape(starts'), work' \subseteq DOMAIN starts', found' = {}, pending' = {},
           shown' = IF work' = {} THEN 0 ELSE First(work')
    PROVE  UnderWay'
<1>1. CASE work' = {}
  BY <1>1 DEF UnderWay
<1>2. CASE work' # {}
  <2> DEFINE s == First(work')
  <2>1. work' \subseteq Nat
    BY RowsAssumption DEF Shape
  <2>2. s \in work'
    BY <1>2, <2>1, FirstIsLeast
  <2>3. s \in DOMAIN starts' /\ shown' = s
    BY <1>2, <2>2
  <2>4. /\ Span(starts', s).lo = s /\ s \in Nat
        /\ Span(starts', s).hi \in s+1..Rows
    <3> HIDE DEF s
    <3> QED BY <2>3, SpanIs
  <2>5. /\ Window.lo' = Span(starts', s).lo /\ Window.hi' = Span(starts', s).hi
        /\ Window.from' = shown'
    BY DEF Window
  <2>6. Rows \in Nat
    BY RowsAssumption
  <2> HIDE DEF s
  <2> QED BY <1>2, <2>3, <2>4, <2>5, <2>6 DEF UnderWay, Unique, Successive
<1> QED BY <1>1, <1>2

\* A pass begins with a segmentation that is one.
LEMMA Enters ==
    ASSUME NEW p \in Working, NEW st, NEW inParts, Shape(st), Honest(st, inParts),
           TypeOK, why # "merge", Enter(p, st, inParts)
    PROVE  PassInv'
<1>1. PICK composite \in SUBSET IF p = "audit" THEN ByLabel(st) ELSE {} :
        \/ EndAttempt("budget")
        \/ p = "save" /\ ~ FullyCovers(st) /\ EndAttempt("merge")
        \/ /\ pass' = p /\ starts' = st /\ parted' = inParts
           /\ \E w \in {IF p = "save" THEN {} ELSE Agenda(p, st, composite)} :
                work' = w /\ shown' = IF w = {} THEN 0 ELSE First(w)
           /\ pending' = {} /\ found' = {} /\ fresh' = {}
           /\ relabel' = Nothing /\ tries' = 0 /\ why' = why
  BY DEF Enter
<1>2. CASE EndAttempt("budget")
  BY <1>2, EndsAnswered
<1>3. CASE ~ FullyCovers(st)
  BY <1>3, SpansCover
<1>4. CASE /\ pass' = p /\ starts' = st /\ parted' = inParts
           /\ \E w \in {IF p = "save" THEN {} ELSE Agenda(p, st, composite)} :
                work' = w /\ shown' = IF w = {} THEN 0 ELSE First(w)
           /\ pending' = {} /\ found' = {} /\ fresh' = {}
           /\ relabel' = Nothing /\ tries' = 0 /\ why' = why
  <2>1. work' \subseteq DOMAIN starts' /\ shown' = IF work' = {} THEN 0 ELSE First(work')
    BY <1>4 DEF Agenda
  <2>2. UnderWay'
    BY <1>4, <2>1, TurnsToFirst
  <2>3. Bringing'
    BY <1>4 DEF Bringing, Inner, Unique, Successive, Outside
  <2>4. DOMAIN relabel' = {}
    BY <1>4 DEF Nothing
  <2>5. Relabelling'
    BY <1>4, <2>4 DEF Relabelling, Fitting, Outside
  <2>6. TypeOK'
    BY <1>4 DEF TypeOK, Shape
  <2>7. pass' # "idle"
    BY <1>4 DEF Working, Looks
  <2> QED BY <1>4, <2>1, <2>2, <2>3, <2>5, <2>6, <2>7 DEF PassInv
<1> QED BY <1>1, <1>2, <1>3, <1>4

-----------------------------------------------------------------------------
\* The window under way, of the first segment there is to show.
LEMMA WindowIs ==
    ASSUME PassInv, Asked, pass \in Looks
    PROVE  LET s == First(work) IN
           /\ s \in work /\ s \in DOMAIN starts /\ s \in Nat
           /\ Window.lo = s /\ Window.hi = LastRow(starts, s) + 1
           /\ Window.hi \in s+1..Rows /\ Rows \in Nat
           /\ Window.from = shown /\ Window.from \in s..Window.hi - 1
           /\ Window.to \in Window.from + 1..Window.hi
           /\ Window.alone => /\ found = {} /\ Window.from = s
                              /\ Window.to = Window.hi
<1> DEFINE s == First(work)
           sp == Span(starts, s)
<1>1. pass # "idle" /\ work # {} /\ work \subseteq DOMAIN starts /\ Shape(starts) /\ UnderWay
  BY DEF PassInv, Asked, Looks
<1>2. work \subseteq Nat /\ Rows \in Nat
  BY <1>1, RowsAssumption DEF Shape
<1>3. s \in work
  BY <1>1, <1>2, FirstIsLeast
<1>4. s \in DOMAIN starts /\ s \in Nat
  BY <1>1, <1>2, <1>3
<1>5. sp.lo = s /\ sp.hi = LastRow(starts, s) + 1 /\ sp.hi \in s+1..Rows
  <2> HIDE DEF s
  <2> QED BY <1>1, <1>4, SpanIs
<1>6. /\ Window.lo = sp.lo /\ Window.hi = sp.hi /\ Window.from = shown
      /\ Window.to = WindowEnd(pass, sp, shown)
      /\ Window.alone = Fits(pass, sp.lo, sp.hi)
  BY DEF Window
<1>7. Window.from \in s..Window.hi - 1 /\ (Window.alone => found = {} /\ Window.from = s)
  BY <1>1, <1>5, <1>6 DEF UnderWay
<1>8. Window.to \in Window.from + 1..Window.hi /\ (Window.alone => Window.to = Window.hi)
  <2>1. shown \in sp.lo..sp.hi - 1 /\ sp.lo \in Nat /\ sp.hi \in Nat
    BY <1>2, <1>4, <1>5, <1>6, <1>7
  <2> HIDE DEF sp
  <2>2. /\ WindowEnd(pass, sp, shown) \in shown+1..sp.hi
        /\ Fits(pass, sp.lo, sp.hi) => WindowEnd(pass, sp, shown) = sp.hi
    BY <2>1, WindowEndIs
  <2> QED BY <1>6, <2>2
<1> HIDE DEF sp
<1> QED BY <1>2, <1>3, <1>4, <1>5, <1>6, <1>7, <1>8 DEF s

\* A window's answer is taken: its boundaries are kept for the reconciliation, or
\* join those of the pass, and its first topic becomes the segment's label.
LEMMA Takes ==
    ASSUME PassInv, Asked, pass \in Looks, NEW proposed, NEW accepted \in SUBSET proposed,
           \A q \in proposed : q.at \in Window.lo..Window.hi - 2 /\ q.upto \in 0..Window.hi,
           Unique(proposed), Successive(proposed), Take(Window, proposed, accepted)
    PROVE  PassInv'
<1> DEFINE w == Window
           s == First(work)
           hi == w.hi
           props == found \cup accepted
           topic == Label("look", w.from,
                          IF w.alone THEN TopicEnd(w, Ats(proposed), w.from) ELSE 0)
<1>1. /\ s \in work /\ s \in DOMAIN starts /\ s \in Nat
      /\ w.lo = s /\ hi = LastRow(starts, s) + 1
      /\ hi \in s+1..Rows /\ Rows \in Nat
      /\ w.from = shown /\ w.from \in s..hi - 1
      /\ w.to \in w.from + 1..hi
      /\ w.alone => found = {} /\ w.from = s /\ w.to = hi
  BY WindowIs
<1>2. /\ pass # "idle" /\ Shape(starts) /\ Honest(starts, parted) /\ work \subseteq DOMAIN starts
      /\ Bringing /\ UnderWay /\ Relabelling /\ TypeOK /\ why # "merge" /\ work # {}
  BY DEF PassInv, Asked, Looks
<1>3. \A q \in props : q.at \in s..hi - 2
  BY <1>1, <1>2 DEF UnderWay
<1>4. /\ IF w.to = hi
         THEN /\ GoOn /\ found' = {}
              /\ \E cuts \in Settled(w, props) : fresh' = fresh \cup cuts
         ELSE /\ shown' = w.to - StepBack(w.from, w.to) /\ found' = props
              /\ UNCHANGED <<work, fresh>>
      /\ relabel' = IF Relabels(w, proposed, accepted) THEN Added(relabel, s, topic) ELSE relabel
      /\ parted' = IF w.alone THEN parted ELSE parted \cup {s}
      /\ pending' = {} /\ tries' = 0
      /\ UNCHANGED <<pass, starts, saved, rows, attempts, why>>
  BY <1>1 DEF Take
<1> HIDE DEF w, s, hi, topic
<1>5. PICK cuts :
        /\ fresh' = fresh \cup cuts
        /\ \A q \in cuts : q.at \in s..hi - 2 /\ q.upto \in 0..hi
        /\ Unique(cuts) /\ Successive(cuts)
        /\ w.alone => cuts = accepted
        /\ w.to # hi => cuts = {}
  <2>1. CASE w.to # hi
    <3>1. fresh' = fresh \cup {}
      BY <1>4, <2>1
    <3> QED BY <1>1, <2>1, <3>1 DEF Unique, Successive
  <2>2. CASE w.to = hi
    <3>1. PICK cuts \in Settled(w, props) : fresh' = fresh \cup cuts
      BY <1>4, <2>2
    <3>2. CASE w.alone
      <4>1. cuts = accepted
        <5>1. cuts = props
          BY <3>2, SettledIs
        <5> QED BY <1>1, <3>2, <5>1
      <4>2. \A q \in accepted : q \in proposed
        OBVIOUS
      <4>3. \A q \in cuts : q.at \in s..hi - 2 /\ q.upto \in 0..hi
        BY <1>1, <4>1, <4>2 DEF w, hi
      <4>4. Unique(cuts) /\ Successive(cuts)
        BY <4>1, <4>2 DEF Unique, Successive
      <4> QED BY <2>2, <3>1, <4>1, <4>3, <4>4
    <3>3. CASE ~ w.alone
      <4>1. Unique(cuts) /\ \A q \in cuts : q.upto = 0 /\ \E r \in props : q.at = r.at
        BY <3>3, SettledIs
      <4>2. \A q \in cuts : q.at \in s..hi - 2 /\ q.upto \in 0..hi
        BY <1>1, <1>3, <4>1
      <4>3. Successive(cuts)
        BY <1>1, <4>1, <4>2 DEF Successive
      <4> QED BY <2>2, <3>1, <3>3, <4>1, <4>2, <4>3
    <3> QED BY <3>2, <3>3
  <2> QED BY <2>1, <2>2
<1>6. work' = IF w.to = hi THEN work \ {s} ELSE work
  BY <1>4 DEF GoOn, s
\* Where the segment lies beside the others.
<1>7. \A t \in DOMAIN starts : /\ t \in Nat
                               /\ t < s => LastRow(starts, t) \in Nat /\ LastRow(starts, t) < s
                               /\ s < t => hi <= t
  <2>1. \A t \in DOMAIN starts : t \in 0..Rows-1
    BY <1>2 DEF Shape
  <2>2. \A t \in DOMAIN starts : t < s => LastRow(starts, t) \in t..Rows-1 /\ LastRow(starts, t) < s
    BY <1>1, <1>2, LastRowIs
  <2>3. \A t \in DOMAIN starts : s < t => LastRow(starts, s) < t
    BY <1>1, <1>2, LastRowIs
  <2>4. LastRow(starts, s) \in Int
    BY <1>1, <1>2, LastRowIs
  <2> QED BY <1>1, <2>1, <2>2, <2>3, <2>4
<1>8. \A q \in fresh : /\ q.at \in 0..Rows-2 /\ q.at + 1 \notin DOMAIN starts
                       /\ Ahead(starts, q.at, q.upto)
                       /\ q.at < s \/ q.at >= hi
  <2>1. \A q \in fresh : /\ q.at \in 0..Rows-2 /\ q.at + 1 \notin DOMAIN starts
                         /\ Ahead(starts, q.at, q.upto)
    BY <1>2 DEF Bringing, Inner
  <2>2. Outside(starts, s, fresh)
    BY <1>1, <1>2 DEF Bringing
  <2>3. LastRow(starts, s) \in Int
    BY <1>1, <1>2, LastRowIs
  <2> QED BY <1>1, <2>1, <2>2, <2>3 DEF Outside
<1>9. Bringing'
  <2>1. Inner(starts, cuts)
    <3> SUFFICES ASSUME NEW q \in cuts
                 PROVE  /\ q.at \in 0..Rows-2 /\ q.at + 1 \notin DOMAIN starts
                        /\ Ahead(starts, q.at, q.upto)
      BY DEF Inner
    <3>1. q.at \in s..hi - 2 /\ q.upto \in 0..hi
      BY <1>5
    <3>2. \A t \in DOMAIN starts : q.at < t => hi <= t
      BY <1>1, <1>7, <3>1
    <3>3. q.at + 1 \notin DOMAIN starts
      BY <1>1, <3>1, <3>2
    <3> QED BY <1>1, <1>7, <3>1, <3>2, <3>3 DEF Ahead
  <2>2. Inner(starts, fresh \cup cuts)
    BY <1>8, <2>1 DEF Inner
  <2>3. Unique(fresh \cup cuts)
    BY <1>1, <1>2, <1>5, <1>8 DEF Bringing, Unique
  <2>4. Successive(fresh \cup cuts)
    <3> SUFFICES ASSUME NEW q \in fresh \cup cuts, NEW r \in fresh \cup cuts, q.at < r.at
                 PROVE  q.upto <= r.at + 1
      BY DEF Successive
    <3>1. CASE q \in fresh /\ r \in fresh
      BY <1>2, <3>1 DEF Bringing, Successive
    <3>2. CASE q \in cuts /\ r \in cuts
      BY <1>5, <3>2 DEF Successive
    <3>3. CASE q \in fresh /\ r \in cuts
      <4>1. q.at < s
        BY <1>1, <1>5, <1>8, <3>3
      <4>2. q.upto \in Nat /\ q.upto <= s
        BY <1>1, <1>8, <3>3, <4>1 DEF Ahead
      <4> QED BY <1>1, <1>5, <3>3, <4>2
    <3>4. CASE q \in cuts /\ r \in fresh
      BY <1>1, <1>5, <1>8, <3>4
    <3> QED BY <3>1, <3>2, <3>3, <3>4
  <2>5. ASSUME NEW t \in work' PROVE Outside(starts, t, fresh \cup cuts)
    <3>1. t \in work /\ t \in DOMAIN starts
      BY <1>2, <1>6, <2>5
    <3>2. Outside(starts, t, fresh)
      BY <1>2, <3>1 DEF Bringing
    <3>3. ASSUME NEW q \in cuts PROVE q.at < t \/ q.at > LastRow(starts, t)
      <4>1. w.to = hi /\ t # s
        BY <1>5, <1>6, <2>5
      <4> QED BY <1>1, <1>5, <1>7, <3>1, <4>1
    <3> QED BY <3>2, <3>3 DEF Outside
  <2> QED BY <1>4, <1>5, <2>2, <2>3, <2>4, <2>5 DEF Bringing
<1>10. UnderWay'
  <2>1. CASE w.to = hi
    BY <1>2, <1>4, <1>6, <2>1, TurnsToFirst DEF GoOn
  <2>2. CASE w.to # hi
    <3>1. work' = work /\ starts' = starts /\ pass' = pass /\ found' = props /\ pending' = {}
      BY <1>4, <2>2
    <3>2. shown' \in s..hi - 1
      <4>1. shown' = w.to - StepBack(w.from, w.to)
        BY <1>4, <2>2
      <4>2. StepBack(w.from, w.to) \in 0..w.to - w.from
        BY <1>1, OverlapAssumption DEF StepBack, Less
      <4> QED BY <1>1, <2>2, <4>1, <4>2
    <3>3. /\ Window.lo' = w.lo /\ Window.hi' = hi /\ Window.alone' = w.alone
          /\ Window.from' = shown'
      BY <3>1 DEF Window, w, hi
    <3>4. ~ w.alone
      BY <1>1, <2>2
    <3>5. \A q \in props : q.at \in Window.lo'..Window.hi' - 2
      BY <1>1, <1>3, <3>3
    <3> QED BY <1>1, <1>2, <3>1, <3>2, <3>3, <3>4, <3>5 DEF UnderWay, Unique, Successive
  <2> QED BY <2>1, <2>2
<1>11. /\ DOMAIN relabel' \subseteq DOMAIN relabel \cup {s}
       /\ DOMAIN relabel \subseteq DOMAIN relabel'
       /\ \A t \in DOMAIN relabel : relabel'[t] = relabel[t]
       /\ s \in DOMAIN relabel' /\ s \notin DOMAIN relabel =>
            relabel'[s] = topic /\ Relabels(w, proposed, accepted)
       /\ Relabels(w, proposed, accepted) => s \in DOMAIN relabel'
  BY <1>4 DEF Added
<1>12. Relabelling'
  <2>1. parted' = (IF w.alone THEN parted ELSE parted \cup {s}) /\ starts' = starts
    BY <1>4
  <2>2. DOMAIN relabel' \subseteq DOMAIN starts
    BY <1>1, <1>2, <1>11 DEF Relabelling, Fitting
  <2>3. ASSUME NEW t \in DOMAIN relabel', t # s
        PROVE  /\ relabel'[t].from = t
               /\ t \notin parted' =>
                    /\ Ahead(starts, t, relabel'[t].upto)
                    /\ \A q \in fresh \cup cuts : t <= q.at => relabel'[t].upto <= q.at + 1
    <3>1. t \in DOMAIN relabel /\ relabel'[t] = relabel[t] /\ t \in DOMAIN starts
      BY <1>11, <2>2, <2>3
    <3>2. /\ relabel[t].from = t
          /\ t \notin parted => /\ Ahead(starts, t, relabel[t].upto)
                                /\ \A q \in fresh : t <= q.at => relabel[t].upto <= q.at + 1
      BY <1>2, <3>1 DEF Relabelling, Fitting
    <3>3. ASSUME t \notin parted', NEW q \in cuts, t <= q.at PROVE relabel[t].upto <= q.at + 1
      <4>1. Ahead(starts, t, relabel[t].upto)
        BY <2>1, <3>2, <3>3
      <4>2. t < s
        BY <1>1, <1>5, <1>7, <2>3, <3>1, <3>3
      <4>3. relabel[t].upto <= s /\ relabel[t].upto \in Nat
        BY <1>1, <4>1, <4>2 DEF Ahead
      <4> QED BY <1>1, <1>5, <3>3, <4>3
    <3> QED BY <2>1, <3>1, <3>2, <3>3
  <2>4. ASSUME s \in DOMAIN relabel'
        PROVE  /\ relabel'[s].from = s
               /\ s \notin parted' =>
                    /\ Ahead(starts, s, relabel'[s].upto)
                    /\ \A q \in fresh \cup cuts : s <= q.at => relabel'[s].upto <= q.at + 1
    <3>1. CASE s \in DOMAIN relabel
      <4>1. relabel[s].from = s /\ s \in parted
        BY <1>1, <1>2, <3>1 DEF Relabelling, Fitting
      <4> QED BY <1>11, <2>1, <3>1, <4>1
    <3>2. CASE s \notin DOMAIN relabel
      <4>1. relabel'[s] = topic /\ w.from = s
        BY <1>1, <1>11, <2>4, <3>2 DEF Relabels
      <4>2. topic.from = w.from /\ topic.upto = IF w.alone THEN TopicEnd(w, Ats(proposed), w.from) ELSE 0
        BY DEF topic, Label
      <4>3. ASSUME s \notin parted'
            PROVE  /\ Ahead(starts, s, topic.upto)
                   /\ \A q \in fresh \cup cuts : s <= q.at => topic.upto <= q.at + 1
        <5>1. w.alone
          BY <2>1, <4>3
        <5>2. w.to = hi /\ cuts = accepted /\ topic.upto = TopicEnd(w, Ats(proposed), s)
          BY <1>1, <1>5, <4>1, <4>2, <5>1
        <5>3. Ats(proposed) \subseteq Nat /\ \A q \in accepted : q.at \in Ats(proposed)
          BY <1>1 DEF Ats, w, hi
        <5>4. /\ TopicEnd(w, Ats(proposed), s) \in s+1..w.to
              /\ \A i \in Ats(proposed) : s <= i => TopicEnd(w, Ats(proposed), s) <= i + 1
          <6>1. s \in Nat /\ w.to \in Nat /\ s < w.to
            BY <1>1, <5>2
          <6> QED BY <5>3, <6>1, TopicEndIs
        <5>5. topic.upto \in s+1..hi
          BY <5>2, <5>4
        <5>6. Ahead(starts, s, topic.upto)
          <6>1. topic.upto \in Nat /\ topic.upto <= LastRow(starts, s) + 1
            BY <1>1, <5>5
          <6> QED BY <1>1, <1>2, <6>1, AheadIsWithin
        <5>7. \A q \in fresh \cup cuts : s <= q.at => topic.upto <= q.at + 1
          BY <1>1, <1>8, <5>2, <5>3, <5>4, <5>5
        <5> QED BY <5>6, <5>7
      <4> QED BY <4>1, <4>2, <4>3
    <3> QED BY <3>1, <3>2
  <2>5. ASSUME NEW t \in DOMAIN starts \ (DOMAIN relabel' \cup parted')
        PROVE  Outside(starts, t, fresh \cup cuts)
    <3>1. t \notin DOMAIN relabel /\ t \notin parted
      BY <1>11, <2>1, <2>5
    <3>2. Outside(starts, t, fresh)
      BY <1>2, <3>1, <2>5 DEF Relabelling, Fitting
    <3>3. ASSUME NEW q \in cuts PROVE q.at < t \/ q.at > LastRow(starts, t)
      <4>1. CASE t = s
        <5>1. w.alone
          BY <2>1, <2>5, <4>1
        <5>2. ~ Relabels(w, proposed, accepted) /\ cuts = accepted /\ w.from = s
          BY <1>1, <1>5, <1>11, <2>5, <4>1, <5>1
        <5>3. accepted = {}
          BY <1>1, <5>2 DEF Relabels
        <5> QED BY <3>3, <5>2, <5>3
      <4>2. CASE t # s
        BY <1>1, <1>5, <1>7, <4>2
      <4> QED BY <4>1, <4>2
    <3> QED BY <3>2, <3>3 DEF Outside
  <2>6. ASSUME NEW t \in work', t \in DOMAIN relabel' PROVE t \in parted'
    <3>1. CASE t = s
      <4>1. ~ w.alone
        BY <1>1, <1>6, <2>6, <3>1
      <4> QED BY <2>1, <3>1, <4>1
    <3>2. CASE t # s
      <4>1. t \in work /\ t \in DOMAIN relabel
        BY <1>6, <1>11, <2>6, <3>2
      <4> QED BY <1>2, <2>1, <4>1 DEF Relabelling
    <3> QED BY <3>1, <3>2
  <2>7. Fitting(starts, relabel', parted', fresh \cup cuts)
    BY <2>2, <2>3, <2>4, <2>5 DEF Fitting
  <2> QED BY <1>5, <2>1, <2>6, <2>7 DEF Relabelling
<1>13. Honest(starts, parted')
  BY <1>2, <1>4 DEF Honest
<1>14. TypeOK' /\ why' # "merge" /\ work' \subseteq DOMAIN starts'
  BY <1>2, <1>4, <1>6 DEF TypeOK
<1> QED BY <1>2, <1>4, <1>9, <1>10, <1>12, <1>13, <1>14 DEF PassInv

\* What an answer proposes: boundaries inside the window, each with the rows of its
\* topic.
LEMMA Answers ==
    ASSUME PassInv, Answer PROVE PassInv'
<1> DEFINE w == Window
           Cuts(at, conf) == {[at |-> i, conf |-> conf[i], of |-> w.from,
                               upto |-> IF w.alone THEN TopicEnd(w, at, i + 1) ELSE 0] : i \in at}
<1>1. Asked /\ pass \in Looks /\ pass # "idle"
  BY DEF Answer, Looks
<1>2. PICK at \in SUBSET Inside(w) : \E conf \in [at -> IF w.alone THEN {0} ELSE Confidences] :
        IF pass = "coarse" \/ at = {} THEN Take(w, Cuts(at, conf), Cuts(at, conf))
        ELSE /\ pending' = Cuts(at, conf) /\ tries' = 0
             /\ UNCHANGED <<pass, work, shown, found, fresh, relabel, starts,
                            parted, saved, rows, attempts, why>>
  BY DEF Answer
<1>3. PICK conf :
        IF pass = "coarse" \/ at = {} THEN Take(w, Cuts(at, conf), Cuts(at, conf))
        ELSE /\ pending' = Cuts(at, conf) /\ tries' = 0
             /\ UNCHANGED <<pass, work, shown, found, fresh, relabel, starts,
                            parted, saved, rows, attempts, why>>
  BY <1>2
<1> DEFINE cuts == Cuts(at, conf)
<1>4. /\ w.lo \in Nat /\ w.hi \in Nat /\ w.from \in w.lo..w.hi - 1
      /\ w.to \in w.from + 1..w.hi
  <2>1. First(work) \in Nat /\ Window.lo = First(work)
        /\ Window.hi \in First(work)+1..Rows /\ Rows \in Nat
        /\ Window.from \in First(work)..Window.hi - 1
        /\ Window.to \in Window.from + 1..Window.hi
    BY <1>1, WindowIs
  <2> QED BY <2>1
<1>5. at \subseteq w.from..w.to - 2 /\ at \subseteq Nat
  BY <1>4 DEF Inside
<1>6. \A q \in cuts : /\ q.at \in at
                      /\ q = [at |-> q.at, conf |-> conf[q.at], of |-> w.from,
                              upto |-> IF w.alone THEN TopicEnd(w, at, q.at + 1) ELSE 0]
                      /\ q.upto = TopicEnd(w, at, q.at + 1) \/ q.upto = 0
  OBVIOUS
<1> HIDE DEF cuts, w
<1>7. ASSUME NEW i \in at
      PROVE  /\ TopicEnd(w, at, i + 1) \in 0..w.hi
             /\ \A j \in at : i < j => TopicEnd(w, at, i + 1) <= j + 1
  <2>1. i + 1 \in Nat /\ i + 1 < w.to /\ w.to \in Nat
    BY <1>4, <1>5
  <2>2. /\ TopicEnd(w, at, i + 1) \in (i+1)+1..w.to
        /\ \A j \in at : i + 1 <= j => TopicEnd(w, at, i + 1) <= j + 1
    BY <1>5, <2>1, TopicEndIs
  <2> QED BY <1>4, <1>5, <2>1, <2>2
<1>8. \A q \in cuts : q.at \in w.lo..w.hi - 2 /\ q.upto \in 0..w.hi
  <2> SUFFICES ASSUME NEW q \in cuts PROVE q.at \in w.lo..w.hi - 2 /\ q.upto \in 0..w.hi
    OBVIOUS
  <2>1. q.at \in at /\ (q.upto = TopicEnd(w, at, q.at + 1) \/ q.upto = 0)
    BY <1>6
  <2>2. TopicEnd(w, at, q.at + 1) \in 0..w.hi
    BY <1>7, <2>1
  <2>3. q.at \in w.from..w.to - 2
    BY <1>5, <2>1
  <2>4. q.at \in w.lo..w.hi - 2
    BY <1>4, <2>3
  <2>5. q.upto \in 0..w.hi
    BY <1>4, <2>1, <2>2
  <2> QED BY <2>4, <2>5
<1>9. Unique(cuts)
  BY <1>6 DEF Unique
<1>10. Successive(cuts)
  <2> SUFFICES ASSUME NEW q \in cuts, NEW r \in cuts, q.at < r.at PROVE q.upto <= r.at + 1
    BY DEF Successive
  <2>1. q.at \in at /\ r.at \in at /\ (q.upto = TopicEnd(w, at, q.at + 1) \/ q.upto = 0)
    BY <1>6
  <2>2. TopicEnd(w, at, q.at + 1) <= r.at + 1
    BY <1>7, <2>1
  <2>3. r.at \in Nat
    BY <1>5, <2>1
  <2> QED BY <2>1, <2>2, <2>3
<1>11. CASE pass = "coarse" \/ at = {}
  <2>1. Take(w, cuts, cuts)
    BY <1>3, <1>11 DEF cuts
  <2>2. cuts \in SUBSET cuts
    OBVIOUS
  <2> QED BY <1>1, <1>8, <1>9, <1>10, <2>1, <2>2, Takes DEF w
<1>12. CASE ~ (pass = "coarse" \/ at = {})
  <2>1. /\ pending' = cuts /\ tries' = 0
        /\ UNCHANGED <<pass, work, shown, found, fresh, relabel, starts, parted, why>>
    BY <1>3, <1>12 DEF cuts
  <2>2. Window' = Window
    BY <2>1 DEF Window
  <2>3. UnderWay
    BY <1>1 DEF PassInv
  <2>4. UnderWay'
    <3>1. work # {}
      BY <1>1 DEF Asked
    <3> QED BY <1>8, <1>9, <1>10, <2>1, <2>2, <2>3, <3>1 DEF UnderWay, w
  <2>5. Bringing' /\ Relabelling'
    BY <1>1, <2>1 DEF PassInv, Bringing, Relabelling
  <2> QED BY <1>1, <2>1, <2>4, <2>5 DEF PassInv, TypeOK
<1> QED BY <1>11, <1>12

LEMMA PassesFitTogether == Spec => []PassInv
<1>1. Init => PassInv
  BY DEF Init, PassInv, TypeOK, Nothing, Looks, Working
<1>2. PassInv /\ [Next]_vars => PassInv'
  <2> SUFFICES ASSUME PassInv, [Next]_vars PROVE PassInv'
    OBVIOUS
  <2>0. TypeOK /\ why # "merge" /\ Looks \cup {"brief"} \subseteq Working
        /\ "idle" \notin Working
    BY DEF PassInv, Working, Looks
  <2>1. CASE Begin
    <3>1. PICK p \in {"coarse", "save"} : Enter(p, [s \in {0} |-> Unnamed], {})
      BY <2>1 DEF Begin
    <3>2. Shape([s \in {0} |-> Unnamed]) /\ Honest([s \in {0} |-> Unnamed], {})
      BY RowsAssumption DEF Shape, Honest
    <3>3. p \in Working
      BY DEF Working, Looks
    <3> QED BY <2>0, <3>1, <3>2, <3>3, Enters
  <2>2. CASE NoModel \/ WrongModel \/ Die
    BY <2>2, EndsAnswered DEF NoModel, WrongModel, Die
  <2>3. CASE Invalid
    <3>1. CASE tries = 1
      BY <2>3, <3>1, EndsAnswered DEF Invalid
    <3>2. CASE tries # 1
      <4>1. tries' \in 0..1
        BY <2>0, <2>3, <3>2 DEF Invalid, TypeOK
      <4>2. UNCHANGED <<pass, work, shown, pending, found, fresh, relabel, starts, parted, why>>
        BY <2>3, <3>2 DEF Invalid
      <4>3. Window' = Window
        BY <4>2 DEF Window
      <4> QED BY <4>1, <4>2, <4>3 DEF PassInv, TypeOK, Bringing, UnderWay, Relabelling
    <3> QED BY <3>1, <3>2
  <2>4. CASE Answer
    BY <2>4, Answers
  <2>5. CASE Adjudicate
    <3>1. Asked /\ pending # {}
      BY <2>5 DEF Adjudicate
    <3>2. PICK accepted \in SUBSET pending : Take(Window, pending, accepted)
      BY <2>5 DEF Adjudicate
    <3>3. pass \in Looks
      BY <3>1 DEF PassInv
    <3>4. UnderWay /\ work # {}
      BY <3>1, <3>3 DEF PassInv, Asked
    <3>5. /\ \A q \in pending : q.at \in Window.lo..Window.hi - 2 /\ q.upto \in 0..Window.hi
          /\ Unique(pending) /\ Successive(pending)
      BY <3>4 DEF UnderWay
    <3> QED BY <3>1, <3>2, <3>3, <3>5, Takes
  <2>6. CASE ClosePass
    <3>1. PassAfter(pass) \in Working /\ pass \in Looks /\ pass # "idle"
      BY <2>6 DEF ClosePass, PassAfter, Looks, Working
    <3>2. /\ Shape(starts) /\ Honest(starts, parted)
          /\ Inner(starts, fresh) /\ Unique(fresh) /\ Successive(fresh)
          /\ Fitting(starts, relabel, parted, fresh)
      BY <3>1 DEF PassInv, Bringing, Relabelling
    <3>3. Valid(starts, fresh)
      BY <3>2, InnerIsValid
    <3>4. Enter(PassAfter(pass), Merged(starts, fresh, relabel), parted)
      BY <2>6, <3>3 DEF ClosePass
    <3> QED BY <2>0, <3>1, <3>2, <3>4, MergedIsHonest, Enters
  <2>7. CASE VerifyLabel
    <3>1. /\ pass = "brief" /\ work # {} /\ pass' = pass /\ parted' = parted
          /\ pending' = pending
          /\ work' = work \ {First(work)} /\ tries' = 0 /\ why' = why
      BY <2>7 DEF VerifyLabel, Asked, GoOn
    <3>2. Shape(starts) /\ Honest(starts, parted) /\ work \subseteq DOMAIN starts
      BY <3>1 DEF PassInv
    <3> DEFINE s == First(work)
               sp == Span(starts, s)
    <3>3. s \in DOMAIN starts
      <4>1. work \subseteq Nat
        BY <3>2, RowsAssumption DEF Shape
      <4> QED BY <3>1, <3>2, <4>1, FirstIsLeast
    <3>4. sp.lo = s /\ sp.hi = LastRow(starts, s) + 1 /\ sp.hi \in Nat
      <4> HIDE DEF s
      <4>1. sp.lo = s /\ sp.hi = LastRow(starts, s) + 1 /\ sp.hi \in s+1..Rows /\ s \in Nat
        BY <3>2, <3>3, SpanIs
      <4> QED BY <4>1, RowsAssumption
    <3>5. Ahead(starts, s, sp.hi)
      <4> HIDE DEF s
      <4>1. sp.hi <= LastRow(starts, s) + 1
        BY <3>4
      <4> QED BY <3>2, <3>3, <3>4, <4>1, AheadIsWithin
    <3>6. starts' = starts \/ starts' = [starts EXCEPT ![s] = Label("brief", s, sp.hi)]
      BY <2>7, <3>4 DEF VerifyLabel
    <3> HIDE DEF s, sp
    <3>7. /\ DOMAIN starts' = DOMAIN starts
          /\ \A t \in DOMAIN starts : \/ starts'[t] = starts[t]
                                      \/ t = s /\ starts'[t] = Label("brief", s, sp.hi)
      BY <3>6
    <3>8. Honest(starts', parted)
      <4> SUFFICES ASSUME NEW t \in DOMAIN starts, starts'[t] # Unnamed
                   PROVE  /\ starts'[t].from = t
                          /\ t \notin parted => Ahead(starts', t, starts'[t].upto)
        BY <3>7 DEF Honest
      <4>1. \A u : Ahead(starts, t, u) => Ahead(starts', t, u)
        BY <3>7 DEF Ahead
      <4>2. CASE starts'[t] = starts[t]
        BY <3>2, <4>1, <4>2 DEF Honest
      <4>3. CASE t = s /\ starts'[t] = Label("brief", s, sp.hi)
        BY <3>5, <4>1, <4>3 DEF Label
      <4> QED BY <3>7, <4>2, <4>3
    <3> QED BY <2>0, <3>1, <3>2, <3>7, <3>8 DEF PassInv, TypeOK, Shape, Looks
  <2>8. CASE CloseBrief
    <3>1. Shape(starts) /\ Honest(starts, parted) /\ Enter("save", starts, parted)
      BY <2>8 DEF CloseBrief, PassInv
    <3> QED BY <2>0, <3>1, Enters DEF Working
  <2>9. CASE SaveRow
    <3>1. \/ EndAttempt("store")
          \/ pass = "save" /\ UNCHANGED <<pass, pending, starts, parted, tries, why>>
      BY <2>9 DEF SaveRow
    <3>2. CASE pass = "save" /\ UNCHANGED <<pass, pending, starts, parted, tries, why>>
      BY <3>2 DEF PassInv, TypeOK, Looks
    <3> QED BY <3>1, <3>2, EndsAnswered
  <2>10. CASE Record
    BY <2>10 DEF Record, PassInv, TypeOK, Looks
  <2>11. CASE UNCHANGED vars
    <3>1. Window' = Window
      BY <2>11 DEF Window, vars
    <3> QED BY <2>11, <3>1 DEF vars, PassInv, TypeOK, Bringing, UnderWay, Relabelling
  <2> QED BY <2>1, <2>2, <2>3, <2>4, <2>5, <2>6, <2>7, <2>8, <2>9, <2>10, <2>11
          DEF Next, Step
<1> QED BY <1>1, <1>2, PTL DEF Spec

-----------------------------------------------------------------------------
\* Nothing is stored of an attempt that has just begun or ended.
LEMMA EndsEmpty ==
    ASSUME NEW reason, EndAttempt(reason) PROVE Progress'
BY DEF EndAttempt, Forget, Progress

\* A pass begins with nothing saved.
LEMMA EntersEmpty ==
    ASSUME NEW p, NEW st, NEW inParts, p # "done", Enter(p, st, inParts)
    PROVE  Progress'
<1>1. PICK composite \in SUBSET IF p = "audit" THEN ByLabel(st) ELSE {} :
        \/ EndAttempt("budget")
        \/ EndAttempt("merge")
        \/ pass' = p /\ saved' = {}
  BY DEF Enter
<1>2. CASE pass' = p /\ saved' = {}
  BY <1>2 DEF Progress, Stored
<1> QED BY <1>1, <1>2, EndsEmpty

\* The stage's transaction for the next row.
LEMMA SavesOneMore ==
    ASSUME Progress, SaveRow PROVE Progress'
<1> DEFINE s == First(DOMAIN starts \ saved)
           id == RowId(Span(starts, s))
           values == Payload(starts, s)
<1>1. CASE Refused(id, values)
  BY <1>1, EndsEmpty DEF SaveRow
<1>2. CASE ~ Refused(id, values)
  <2>1. /\ pass = "save" /\ pass' = pass /\ saved' = saved \cup {s}
        /\ starts' = starts /\ rows' = Added(rows, id, values)
    BY <1>2 DEF SaveRow
  <2>2. Stored(starts, rows, saved)
    BY <2>1 DEF Progress
  <2>3. /\ DOMAIN rows' = DOMAIN rows \cup {id}
        /\ \A x \in DOMAIN rows : rows'[x] = rows[x]
        /\ id \notin DOMAIN rows => rows'[id] = values
    <3> HIDE DEF id, values
    <3>1. rows' = Added(rows, id, values)
      BY <2>1
    <3> QED BY <3>1 DEF Added
  <2>4. ASSUME NEW t \in saved \cup {s}
        PROVE  /\ RowId(Span(starts, t)) \in DOMAIN rows'
               /\ rows'[RowId(Span(starts, t))] = Payload(starts, t)
    <3>1. CASE t \in saved
      BY <3>1, <2>3, <2>2 DEF Stored
    <3>2. CASE t = s
      <4>1. id \in DOMAIN rows => rows[id] = values
        BY <1>2 DEF Refused
      <4> QED BY <3>2, <4>1, <2>3
    <3> QED BY <3>1, <3>2
  <2> QED BY <2>1, <2>2, <2>4 DEF Progress, Stored
<1> QED BY <1>1, <1>2

LEMMA ProgressHolds == Spec => []Progress
<1>1. Init => Progress
  BY DEF Init, Progress
<1>2. Progress /\ [Next]_vars => Progress'
  <2> SUFFICES ASSUME Progress, [Next]_vars PROVE Progress'
    OBVIOUS
  <2>1. CASE Begin
    BY <2>1, EntersEmpty DEF Begin
  <2>2. CASE NoModel \/ WrongModel \/ Die
    BY <2>2, EndsEmpty DEF NoModel, WrongModel, Die
  <2>3. CASE Invalid
    <3>1. CASE tries = 1
      BY <2>3, <3>1, EndsEmpty DEF Invalid
    <3>2. CASE tries # 1
      BY <2>3, <3>2 DEF Invalid, Asked, Looks, Progress
    <3> QED BY <3>1, <3>2
  <2>4. CASE Answer
    <3>1. pass \in Looks /\ pass' = pass /\ saved' = saved
      BY <2>4 DEF Answer, Take
    <3> QED BY <3>1 DEF Looks, Progress
  <2>5. CASE Adjudicate
    <3>1. Asked /\ pass' = pass /\ saved' = saved
      BY <2>5 DEF Adjudicate, Take
    <3> QED BY <3>1 DEF Asked, Looks, Progress
  <2>6. CASE ClosePass
    <3>1. PassAfter(pass) # "done"
      BY <2>6 DEF ClosePass, PassAfter, Looks
    <3>2. CASE Valid(starts, fresh)
      BY <2>6, <3>1, <3>2, EntersEmpty DEF ClosePass
    <3>3. CASE ~ Valid(starts, fresh)
      BY <2>6, <3>3, EndsEmpty DEF ClosePass
    <3> QED BY <3>2, <3>3
  <2>7. CASE VerifyLabel
    BY <2>7 DEF VerifyLabel, Progress
  <2>8. CASE CloseBrief
    BY <2>8, EntersEmpty DEF CloseBrief
  <2>9. CASE SaveRow
    BY <2>9, SavesOneMore
  <2>10. CASE Record
    BY <2>10 DEF Record, Progress
  <2>11. CASE UNCHANGED vars
    BY <2>11 DEF vars, Progress
  <2> QED BY <2>1, <2>2, <2>3, <2>4, <2>5, <2>6, <2>7, <2>8, <2>9, <2>10, <2>11
          DEF Next, Step
<1> QED BY <1>1, <1>2, PTL DEF Spec

-----------------------------------------------------------------------------
\* What the stage returned is in the table row for row, whatever other attempts
\* left there (SemanticSegmentRepository.save and the stage's return).
THEOREM ReturnedIsStored == Spec => []StoredAsReturned
<1>1. Progress => StoredAsReturned
  BY DEF Progress, Stored, StoredAsReturned
<1> QED BY <1>1, ProgressHolds, PTL

\* The passes of the segmenter never bring boundaries that validate_boundaries or
\* validate_full_coverage refuses (SemanticSegmenter.segment).
THEOREM PassesNeverRefuse == Spec => []NeverRefusesItself
<1>1. PassInv => NeverRefusesItself
  BY DEF PassInv, NeverRefusesItself
<1> QED BY <1>1, PassesFitTogether, PTL

\* A label is of its segment, whatever the model answered and however often the
\* segment was split (refined_labels, audit_labels, _verify_brief_topic_label).
THEOREM LabelsAreTrue == Spec => []LabelsSpeakOfTheirSegment
<1>1. PassInv => LabelsSpeakOfTheirSegment
  <2> SUFFICES ASSUME PassInv, NEW s \in DOMAIN starts, starts[s] # Unnamed
               PROVE  /\ starts[s].from = s
                      /\ s \notin parted => starts[s].upto <= LastRow(starts, s) + 1
    BY DEF LabelsSpeakOfTheirSegment
  <2>1. Shape(starts) /\ Honest(starts, parted)
    BY DEF PassInv, Nothing
  <2> QED BY <2>1, AheadIsWithin DEF Honest, Ahead
<1> QED BY <1>1, PassesFitTogether, PTL
==============================================================================
