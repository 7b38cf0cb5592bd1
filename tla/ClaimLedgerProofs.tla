--------------------------- MODULE ClaimLedgerProofs ---------------------------
(***************************************************************************)
(* What the transactions that extend the claims' histories leave, for all     *)
(* claims, writers and bounds: one chain of events per claim, publications    *)
(* that are there as a whole, no circular wait for the claims' locks, and     *)
(* histories that only grow at their end.                                     *)
(*                                                                         *)
(* OneHistory speaks of committed rows only and is not inductive: a commit    *)
(* adds rows that were checked against the chain of an earlier moment.  What  *)
(* carries it is the lock append_in_session takes on the rows of a claim:     *)
(* between a transaction's first event of a claim and its end nobody else     *)
(* appends to the claim, so that the chain the transaction sees (Chain) is    *)
(* the chain its commit leaves.                                              *)
(***************************************************************************)
EXTENDS ClaimLedger, KnowledgeProjection, Sequences, FiniteSetTheorems, WellFoundedInduction, TLAPS

Fields == {"pc", "held", "tail", "todo", "done", "new"}

\* A chain is whole if its rows are the links of one list of events: h, of n events.
Link(h, k) == [ev |-> h[k], prev |-> IF k = 1 THEN Root ELSE h[k - 1]]

Links(h, n, chain) ==
  /\ n \in Nat
  /\ h = [k \in 1 .. n |-> h[k]]
  /\ \A i, j \in 1 .. n : h[i] = h[j] => i = j
  /\ \A k \in 1 .. n : h[k] # Root
  /\ chain = {Link(h, k) : k \in 1 .. n}

Whole(chain) == \E h, n : Links(h, n, chain)

\* A transaction that has appended nothing.
Fresh(w) == tx[w].done = {} /\ tx[w].new = {}

Shapes ==
  /\ DOMAIN tx = Writers
  /\ \A w \in Writers : DOMAIN tx[w] = Fields

NotYetAppending == \A w \in Writers : tx[w].pc # "appending" => Fresh(w)

OwnRowsLocked == \A w \in Writers : \A r \in tx[w].new : r.ev.claim \in Touched(w)

OneAppenderPerClaim == \A w, v \in Writers : w # v => Touched(w) \cap Touched(v) = {}

ChainsWhole == \A w \in Writers : \A c \in Claims : Whole(Chain(w, c))
RowsWhole == \A c \in Claims : Whole(rows[c])

IInv ==
  /\ Shapes
  /\ NotYetAppending
  /\ OwnRowsLocked
  /\ OneAppenderPerClaim
  /\ ChainsWhole
  /\ RowsWhole

\* What a transaction has in hand: an ingest or a closing the events of its own
\* pass, a review what the lifecycle ledger already has.
Hands(w) == tx[w].todo \cup tx[w].done \cup {r.ev : r \in tx[w].new}
OwnEvents(w) == IF w \in Reviews THEN lifecycle ELSE Pending(w)

OnlyOwnEvents == \A w \in Writers : Hands(w) \subseteq OwnEvents(w)

\* No event of an ingest is lost between the read and the commit: each is still to
\* be appended or in the chain the transaction sees.
AllAccounted ==
  \A w \in Ingests : tx[w].pc = "appending" =>
    \A e \in Pending(w) : e \in tx[w].todo \/ Stored(w, e)

PhasesOfKind ==
  \A w \in Writers :
    /\ tx[w].pc = "locking" => w \notin Reviews
    /\ tx[w].pc = "mirroring" => w \in Reviews

\* An ingest keeps its time, so that its events are the same in every pass.
Stamped ==
  /\ clock \in Nat \ {0} /\ DOMAIN stamp = Writers
  /\ \A w \in Ingests : tx[w].pc # "idle" \/ w \in published => stamp[w] # 0

LifecycleOnly == \A e \in lifecycle : e.type = "LIFECYCLE"

PublishedAreIngests == published \subseteq Ingests

UnitInv ==
  /\ OnlyOwnEvents
  /\ PublishedAreIngests
  /\ AllAccounted
  /\ PhasesOfKind
  /\ Stamped
  /\ LifecycleOnly
  /\ PublishedAsOneUnit

\* The coordination locks of a transaction are the first of its claims, all of them
\* once it appends, and nobody else's.
HeldOfOwn ==
  \A w \in Writers :
    /\ tx[w].held \subseteq ClaimsOf[w]
    /\ tx[w].pc \in {"idle", "mirroring"} \/ w \in Reviews => tx[w].held = {}
    /\ tx[w].pc = "appending" /\ w \notin Reviews => tx[w].held = ClaimsOf[w]

OneHolderPerClaim ==
  \A w, v \in Writers : w # v => tx[w].held \cap tx[v].held = {}

HeldInOrder ==
  \A w \in Writers : tx[w].pc = "locking" =>
    \A c \in tx[w].held, d \in ToLock(w) : c < d

\* A review has one event: with its row locked it waits for nothing.
OneEventOfAReview ==
  \A w \in Reviews :
    /\ \A e, o \in tx[w].todo : e = o
    /\ tx[w].done # {} => tx[w].todo = {}

LockInv ==
  /\ HeldOfOwn
  /\ OneHolderPerClaim
  /\ HeldInOrder
  /\ OneEventOfAReview

-----------------------------------------------------------------------------
\* A fresh transaction has locked nothing and sees what is committed.
LEMMA FreshTouchesNothing ==
  ASSUME NEW w, Fresh(w)
  PROVE  Touched(w) = {} /\ \A c \in Claims : Chain(w, c) = rows[c]
  BY DEF Fresh, Touched, Chain

\* The empty chain is whole.
LEMMA EmptyIsWhole == Whole({})
<1> DEFINE h == [k \in 1 .. 0 |-> Root]
<1>1. Links(h, 0, {})
  BY DEF Links
<1> QED
  BY <1>1 DEF Whole

LEMMA LinkFields ==
  ASSUME NEW h, NEW k
  PROVE  /\ Link(h, k).ev = h[k]
         /\ k = 1 => Link(h, k).prev = Root
         /\ k # 1 => Link(h, k).prev = h[k - 1]
  BY DEF Link

\* A whole chain is one history.
LEMMA WholeIsOneHistory ==
  ASSUME NEW chain, Whole(chain)
  PROVE  NoFork(chain) /\ NoRepeat(chain) /\ Grounded(chain)
<1>1. PICK h, n : Links(h, n, chain)
  BY DEF Whole
<1>2. /\ n \in Nat
      /\ \A i, j \in 1 .. n : h[i] = h[j] => i = j
      /\ \A k \in 1 .. n : h[k] # Root
      /\ chain = {Link(h, k) : k \in 1 .. n}
  BY <1>1 DEF Links
<1>3. ASSUME NEW r \in chain, NEW q \in chain
      PROVE  (r.prev = q.prev => r = q) /\ (r.ev = q.ev => r = q)
  <2>1. PICK i \in 1 .. n : r = Link(h, i)
    BY <1>2
  <2>2. PICK j \in 1 .. n : q = Link(h, j)
    BY <1>2
  <2>3. r.ev = q.ev => i = j
    BY <1>2, <2>1, <2>2, LinkFields
  <2>4. r.prev = q.prev => i = j
    <3>1. CASE i = 1 \/ j = 1
      BY <1>2, <2>1, <2>2, <3>1, LinkFields
    <3>2. CASE i # 1 /\ j # 1
      <4>1. i - 1 \in 1 .. n /\ j - 1 \in 1 .. n
        BY <1>2, <3>2
      <4> QED
        BY <1>2, <2>1, <2>2, <3>2, <4>1, LinkFields
    <3> QED
      BY <3>1, <3>2
  <2> QED
    BY <2>1, <2>2, <2>3, <2>4
<1>4. ASSUME NEW r \in chain
      PROVE  r.prev = Root \/ \E q \in chain : q.ev = r.prev
  <2>1. PICK k \in 1 .. n : r = Link(h, k)
    BY <1>2
  <2>2. CASE k # 1
    <3>1. k - 1 \in 1 .. n
      BY <1>2, <2>2
    <3> QED
      BY <1>2, <2>1, <2>2, <3>1, LinkFields
  <2> QED
    BY <2>1, <2>2, LinkFields
<1> QED
  BY <1>3, <1>4 DEF NoFork, NoRepeat, Grounded

\* Linking an event that is not in a chain at its tail keeps the chain whole.
LEMMA LinkAtTail ==
  ASSUME NEW chain, NEW e, NEW hash, Whole(chain), IsTail(chain, hash),
         ~\E r \in chain : r.ev = e, e # Root
  PROVE  Whole(chain \cup {[ev |-> e, prev |-> hash]})
<1> DEFINE row == [ev |-> e, prev |-> hash]
<1>1. PICK h, n : Links(h, n, chain)
  BY DEF Whole
<1>2. /\ n \in Nat
      /\ DOMAIN h = 1 .. n
      /\ \A i, j \in 1 .. n : h[i] = h[j] => i = j
      /\ \A k \in 1 .. n : h[k] # Root
      /\ chain = {Link(h, k) : k \in 1 .. n}
  BY <1>1 DEF Links
<1> DEFINE g == [k \in 1 .. n + 1 |-> IF k = n + 1 THEN e ELSE h[k]]
<1>13. g = [k \in 1 .. n + 1 |-> g[k]]
  OBVIOUS
<1>3. g[n + 1] = e /\ \A k \in 1 .. n : g[k] = h[k]
  BY <1>2
<1>4. ASSUME NEW k \in 1 .. n PROVE h[k] # e
  <2>1. Link(h, k) \in chain
    BY <1>2
  <2>2. Link(h, k).ev # e
    BY <2>1
  <2> QED
    BY <2>2 DEF Link
<1>5. hash = IF n = 0 THEN Root ELSE h[n]
  <2>1. CASE n = 0
    <3>1. chain = {}
      BY <1>2, <2>1
    <3> QED
      BY <2>1, <3>1 DEF IsTail
  <2>2. CASE n # 0
    <3>1. Link(h, n) \in chain
      BY <1>2, <2>2
    <3>2. PICK r \in chain : r.ev = hash
      BY <3>1 DEF IsTail
    <3>3. PICK k \in 1 .. n : r = Link(h, k)
      BY <1>2
    <3>4. CASE k # n
      <4>1. k + 1 \in 1 .. n /\ k + 1 # 1 /\ (k + 1) - 1 = k
        BY <1>2, <3>4
      <4>2. Link(h, k + 1) \in chain /\ Link(h, k + 1).prev = h[k]
        BY <1>2, <4>1, LinkFields
      <4> QED
        BY <3>2, <3>3, <4>2, LinkFields DEF IsTail
    <3> QED
      BY <2>2, <3>2, <3>3, <3>4, LinkFields
  <2> QED
    BY <2>1, <2>2
<1> HIDE DEF g
<1>6. Link(g, n + 1) = row
  <2>1. CASE n = 0
    BY <1>3, <1>5, <2>1 DEF Link
  <2>2. CASE n # 0
    <3>1. g[(n + 1) - 1] = h[n] /\ n + 1 # 1
      BY <1>2, <1>3, <2>2
    <3> QED
      BY <1>3, <1>5, <2>2, <3>1 DEF Link
  <2> QED
    BY <2>1, <2>2
<1>7. ASSUME NEW k \in 1 .. n PROVE Link(g, k) = Link(h, k)
  <2>1. k # 1 => k - 1 \in 1 .. n
    BY <1>2
  <2> QED
    BY <1>3, <2>1 DEF Link
<1>8. 1 .. n + 1 = (1 .. n) \cup {n + 1}
  BY <1>2
<1>9. chain \cup {row} = {Link(g, k) : k \in 1 .. n + 1}
  BY <1>2, <1>6, <1>7, <1>8
<1>10. \A i, j \in 1 .. n + 1 : g[i] = g[j] => i = j
  BY <1>2, <1>3, <1>4, <1>8
<1>11. \A k \in 1 .. n + 1 : g[k] # Root
  BY <1>2, <1>3, <1>8
<1>12. Links(g, n + 1, chain \cup {row})
  <2>1. n + 1 \in Nat
    BY <1>2
  <2> HIDE DEF row
  <2> QED
    BY <1>9, <1>10, <1>11, <1>13, <2>1, Zenon DEF Links
<1> QED
  BY <1>12 DEF Whole

\* No writer records the event that begins every chain.
LEMMA RootIsNoEvent ==
  ASSUME UnitInv, NEW w \in Writers, NEW e \in Hands(w)
  PROVE  e # Root
<1>1. Root.type = "ROOT"
  BY DEF Root, Event
<1>2. e \in OwnEvents(w)
  BY DEF UnitInv, OnlyOwnEvents
<1>3. CASE w \in Reviews
  BY <1>1, <1>2, <1>3 DEF OwnEvents, UnitInv, LifecycleOnly
<1>4. CASE w \notin Reviews
  <2>1. e \in Pending(w)
    BY <1>2, <1>4 DEF OwnEvents
  <2>2. e.type \in {"LIFECYCLE", "INITIAL", "REFRESH"}
    BY <2>1 DEF Pending, Projected, Active, Initial, Refresh, Event
  <2> QED
    BY <1>1, <2>2
<1> QED
  BY <1>3, <1>4

\* A step that commits nothing and leaves its writer with a fresh transaction
\* keeps the invariant: every such step but Lock, Append and Commit.
LEMMA FreshStep ==
  ASSUME IInv, NEW w \in Writers, NEW next,
         Step(w, next), rows' = rows,
         DOMAIN next = Fields, next.done = {}, next.new = {}
  PROVE  IInv'
<1>1. /\ DOMAIN tx' = Writers
      /\ tx'[w] = next
      /\ \A v \in Writers \ {w} : tx'[v] = tx[v]
  BY DEF IInv, Shapes, Step
<1>2. Shapes'
  BY <1>1 DEF IInv, Shapes
<1>3. NotYetAppending'
  BY <1>1 DEF IInv, NotYetAppending, Fresh
<1>4. Touched(w)' = {}
  BY <1>1 DEF Touched
<1>5. \A v \in Writers \ {w} : Touched(v)' = Touched(v)
  BY <1>1 DEF Touched
<1>6. OwnRowsLocked'
  BY <1>1, <1>5 DEF IInv, OwnRowsLocked
<1>7. OneAppenderPerClaim'
  BY <1>4, <1>5 DEF IInv, OneAppenderPerClaim
<1>8. RowsWhole'
  BY DEF IInv, RowsWhole
<1>9. ChainsWhole'
  <2> SUFFICES ASSUME NEW v \in Writers, NEW c \in Claims
               PROVE  Whole(Chain(v, c)')
    BY DEF ChainsWhole
  <2>1. CASE v = w
    <3>1. Chain(v, c)' = rows[c]
      BY <1>1, <2>1 DEF Chain
    <3> QED
      BY <3>1 DEF IInv, RowsWhole
  <2>2. CASE v # w
    <3>1. Chain(v, c)' = Chain(v, c)
      BY <1>1, <2>2 DEF Chain
    <3> QED
      BY <3>1 DEF IInv, ChainsWhole
  <2> QED
    BY <2>1, <2>2
<1> QED
  BY <1>2, <1>3, <1>6, <1>7, <1>8, <1>9 DEF IInv

-----------------------------------------------------------------------------
LEMMA InitEstablishes == Init => IInv
<1> SUFFICES ASSUME Init PROVE IInv
  OBVIOUS
<1>1. \A w \in Writers : tx[w] = NoTx /\ Fresh(w)
  BY DEF Init, NoTx, Fresh
<1>2. \A w \in Writers : Touched(w) = {} /\ \A c \in Claims : Chain(w, c) = {}
  BY <1>1, FreshTouchesNothing DEF Init
<1>3. Shapes
  BY <1>1 DEF Init, Shapes, NoTx, Fields
<1>4. NotYetAppending /\ OwnRowsLocked
  BY <1>1 DEF NotYetAppending, OwnRowsLocked, Fresh
<1>5. OneAppenderPerClaim
  BY <1>2 DEF OneAppenderPerClaim
<1>6. ChainsWhole
  BY <1>2, EmptyIsWhole DEF ChainsWhole
<1>7. RowsWhole
  BY EmptyIsWhole DEF Init, RowsWhole
<1> QED
  BY <1>3, <1>4, <1>5, <1>6, <1>7 DEF IInv

\* Every action but AppendInSession and Commit is a fresh step.
LEMMA OtherSteps ==
  ASSUME IInv, NEW w \in Writers,
         Begin(w) \/ Review(w) \/ Lock(w) \/ Read(w) \/ Refuse(w) \/ Mirror(w) \/ Abort(w)
  PROVE  IInv'
<1> USE DEF Fields
<1>1. DOMAIN NoTx = Fields /\ NoTx.done = {} /\ NoTx.new = {}
  BY DEF NoTx
<1>2. DOMAIN tx[w] = Fields /\ (tx[w].pc # "appending" => tx[w].done = {} /\ tx[w].new = {})
  BY DEF IInv, Shapes, NotYetAppending, Fresh
<1>3. CASE Begin(w)
  <2> DEFINE next == [NoTx EXCEPT !.pc = "locking"]
  <2>1. DOMAIN next = Fields /\ next.done = {} /\ next.new = {}
    BY DEF NoTx
  <2>2. Step(w, next) /\ rows' = rows
    BY <1>3 DEF Begin
  <2> QED
    BY <2>1, <2>2, FreshStep
<1>4. CASE Review(w)
  <2>1. PICK e : Step(w, [NoTx EXCEPT !.pc = "mirroring", !.todo = {e}])
    BY <1>4 DEF Review
  <2> DEFINE next == [NoTx EXCEPT !.pc = "mirroring", !.todo = {e}]
  <2>2. DOMAIN next = Fields /\ next.done = {} /\ next.new = {}
    BY DEF NoTx
  <2>3. rows' = rows
    BY <1>4 DEF Review
  <2> QED
    BY <2>1, <2>2, <2>3, FreshStep
<1>5. CASE Lock(w)
  <2> DEFINE next == [tx[w] EXCEPT !.held = @ \cup {NextLock(w)}]
  <2>1. DOMAIN next = Fields /\ next.done = {} /\ next.new = {}
    BY <1>2, <1>5 DEF Lock
  <2>2. Step(w, next) /\ rows' = rows
    BY <1>5 DEF Lock
  <2> QED
    BY <2>1, <2>2, FreshStep
<1>6. CASE Read(w)
  <2>1. PICK todo, tail :
          Step(w, [tx[w] EXCEPT !.pc = "appending", !.todo = todo, !.tail = tail])
    BY <1>6 DEF Read
  <2> DEFINE next == [tx[w] EXCEPT !.pc = "appending", !.todo = todo, !.tail = tail]
  <2>2. DOMAIN next = Fields /\ next.done = {} /\ next.new = {}
    BY <1>2, <1>6 DEF Read
  <2>3. rows' = rows
    BY <1>6 DEF Read
  <2> QED
    BY <2>1, <2>2, <2>3, FreshStep
<1>7. CASE Mirror(w)
  <2>1. rows' = rows
    BY <1>7 DEF Mirror
  <2>2. CASE Step(w, NoTx)
    BY <1>1, <2>1, <2>2, FreshStep
  <2>3. CASE ~Step(w, NoTx)
    <3>1. PICK tail : Step(w, [tx[w] EXCEPT !.pc = "appending", !.tail = tail])
      BY <1>7, <2>3 DEF Mirror
    <3> DEFINE next == [tx[w] EXCEPT !.pc = "appending", !.tail = tail]
    <3>2. DOMAIN next = Fields /\ next.done = {} /\ next.new = {}
      BY <1>2, <1>7 DEF Mirror
    <3> QED
      BY <2>1, <3>1, <3>2, FreshStep
  <2> QED
    BY <2>2, <2>3
<1>8. CASE Refuse(w) \/ Abort(w)
  <2>1. Step(w, NoTx) /\ rows' = rows
    BY <1>8 DEF Refuse, Abort
  <2> QED
    BY <1>1, <2>1, FreshStep
<1> QED
  BY <1>3, <1>4, <1>5, <1>6, <1>7, <1>8

\* The claim in hand is locked by nobody else, and its event is stored or linked
\* at the tail.
LEMMA AppendStep ==
  ASSUME IInv, UnitInv, NEW w \in Writers, AppendInSession(w)
  PROVE  IInv'
<1>0. PICK e \in InHand(w) :
        /\ Free(w, e.claim)
        /\ Stored(w, e) \/ Follows(w, e)
        /\ Step(w, [tx[w] EXCEPT
             !.todo = @ \ {e}, !.done = @ \cup {e},
             !.tail[e.claim] = e,
             !.new = IF Stored(w, e) THEN @ ELSE @ \cup {[ev |-> e, prev |-> tx[w].tail[e.claim]]}])
  BY DEF AppendInSession
<1> DEFINE row == [ev |-> e, prev |-> tx[w].tail[e.claim]]
           new == IF Stored(w, e) THEN tx[w].new ELSE tx[w].new \cup {row}
<1> USE DEF Fields
<1>1. DOMAIN tx = Writers /\ DOMAIN tx[w] = Fields
  BY DEF IInv, Shapes
<1>2. /\ DOMAIN tx' = Writers
      /\ DOMAIN tx'[w] = Fields
      /\ tx'[w].done = tx[w].done \cup {e}
      /\ tx'[w].pc = tx[w].pc
      /\ tx'[w].new = new
      /\ \A v \in Writers \ {w} : tx'[v] = tx[v]
  BY <1>0, <1>1 DEF Step
<1>3. rows' = rows /\ Appending(w) /\ Free(w, e.claim)
      /\ (Stored(w, e) \/ IsTail(Chain(w, e.claim), tx[w].tail[e.claim]))
  BY <1>0 DEF AppendInSession, Follows
<1>4. Touched(w)' = Touched(w) \cup {e.claim}
  BY <1>2 DEF Touched
<1>5. \A v \in Writers \ {w} : Touched(v)' = Touched(v)
  BY <1>2 DEF Touched
<1>6. Shapes'
  BY <1>1, <1>2 DEF IInv, Shapes
<1>7. NotYetAppending'
  BY <1>2, <1>3 DEF IInv, NotYetAppending, Fresh, Appending
<1>8. OwnRowsLocked'
  <2> SUFFICES ASSUME NEW v \in Writers, NEW r \in tx'[v].new
               PROVE  r.ev.claim \in Touched(v)'
    BY DEF OwnRowsLocked
  <2>1. CASE v = w /\ r \in tx[w].new
    BY <1>4, <2>1 DEF IInv, OwnRowsLocked
  <2>2. CASE v = w /\ r = row
    BY <1>4, <2>2
  <2>3. CASE v # w
    BY <1>2, <1>5, <2>3 DEF IInv, OwnRowsLocked
  <2> QED
    BY <1>2, <2>1, <2>2, <2>3
<1>9. OneAppenderPerClaim'
  BY <1>3, <1>4, <1>5 DEF IInv, OneAppenderPerClaim, Free
<1>10. RowsWhole'
  BY <1>3 DEF IInv, RowsWhole
<1>11. ChainsWhole'
  <2> SUFFICES ASSUME NEW v \in Writers, NEW c \in Claims
               PROVE  Whole(Chain(v, c)')
    BY DEF ChainsWhole
  <2>1. Whole(Chain(v, c))
    BY DEF IInv, ChainsWhole
  <2>2. CASE v # w \/ Stored(w, e) \/ c # e.claim
    <3>1. Chain(v, c)' = Chain(v, c)
      BY <1>2, <1>3, <2>2 DEF Chain
    <3> QED
      BY <2>1, <3>1
  <2>3. CASE v = w /\ ~Stored(w, e) /\ c = e.claim
    <3>1. Chain(v, c)' = Chain(w, c) \cup {row}
      BY <1>2, <1>3, <2>3 DEF Chain
    <3>2. Whole(Chain(w, c) \cup {row})
      <4>1. e # Root
        BY <1>3, RootIsNoEvent DEF Hands, InHand
      <4> QED
        BY <1>3, <2>1, <2>3, <4>1, LinkAtTail DEF Stored
    <3> QED
      BY <3>1, <3>2
  <2> QED
    BY <2>2, <2>3
<1> QED
  BY <1>6, <1>7, <1>8, <1>9, <1>10, <1>11 DEF IInv

\* What a commit adds to a claim, no other transaction has locked.
LEMMA CommitStep ==
  ASSUME IInv, NEW w \in Writers, Commit(w)
  PROVE  IInv'
<1> USE DEF Fields
<1>1. rows' = [c \in Claims |-> Chain(w, c)] /\ Step(w, NoTx)
  BY DEF Commit
<1>2. /\ DOMAIN tx' = Writers
      /\ tx'[w] = NoTx
      /\ \A v \in Writers \ {w} : tx'[v] = tx[v]
  BY <1>1 DEF IInv, Shapes, Step
<1>3. DOMAIN NoTx = Fields /\ NoTx.pc = "idle" /\ NoTx.done = {} /\ NoTx.new = {}
  BY DEF NoTx
<1>4. Touched(w)' = {}
  BY <1>2, <1>3 DEF Touched
<1>5. \A v \in Writers \ {w} : Touched(v)' = Touched(v)
  BY <1>2 DEF Touched
<1>6. Shapes'
  BY <1>2, <1>3 DEF IInv, Shapes
<1>7. NotYetAppending'
  BY <1>2, <1>3 DEF IInv, NotYetAppending, Fresh
<1>8. OwnRowsLocked'
  BY <1>2, <1>3, <1>5 DEF IInv, OwnRowsLocked
<1>9. OneAppenderPerClaim'
  BY <1>4, <1>5 DEF IInv, OneAppenderPerClaim
<1>10. \A c \in Claims : rows'[c] = Chain(w, c) /\ Whole(Chain(w, c))
  BY <1>1 DEF IInv, ChainsWhole
<1>11. RowsWhole'
  BY <1>10 DEF RowsWhole
<1>12. ChainsWhole'
  <2> SUFFICES ASSUME NEW v \in Writers, NEW c \in Claims
               PROVE  Whole(Chain(v, c)')
    BY DEF ChainsWhole
  <2>1. CASE v = w
    <3>1. Chain(v, c)' = Chain(w, c)
      BY <1>2, <1>3, <1>10, <2>1 DEF Chain
    <3> QED
      BY <1>10, <3>1
  <2>2. CASE v # w /\ c \in Touched(v)
    <3>1. \A r \in tx[w].new : r.ev.claim # c
      BY <2>2 DEF IInv, OwnRowsLocked, OneAppenderPerClaim
    <3>2. rows'[c] = rows[c]
      BY <1>10, <3>1 DEF Chain
    <3>3. Chain(v, c)' = Chain(v, c)
      BY <1>2, <2>2, <3>2 DEF Chain
    <3> QED
      BY <3>3 DEF IInv, ChainsWhole
  <2>3. CASE v # w /\ c \notin Touched(v)
    <3>1. \A r \in tx[v].new : r.ev.claim # c
      BY <2>3 DEF IInv, OwnRowsLocked
    <3>2. Chain(v, c)' = Chain(w, c)
      BY <1>2, <1>10, <2>3, <3>1 DEF Chain
    <3> QED
      BY <1>10, <3>2
  <2> QED
    BY <2>1, <2>2, <2>3
<1> QED
  BY <1>6, <1>7, <1>8, <1>9, <1>11, <1>12 DEF IInv

-----------------------------------------------------------------------------
LEMMA StepPreserves == IInv /\ UnitInv /\ [Next]_vars => IInv'
<1> SUFFICES ASSUME IInv, UnitInv, [Next]_vars PROVE IInv'
  OBVIOUS
<1>1. CASE UNCHANGED vars
  <2>1. tx' = tx /\ rows' = rows
    BY <1>1 DEF vars
  <2>2. \A w : Fresh(w)' = Fresh(w) /\ Touched(w)' = Touched(w)
    BY <2>1 DEF Fresh, Touched
  <2>3. \A w, c : Chain(w, c)' = Chain(w, c)
    BY <2>1 DEF Chain
  <2>4. Shapes' /\ NotYetAppending'
    BY <2>1, <2>2 DEF IInv, Shapes, NotYetAppending
  <2>5. OwnRowsLocked' /\ OneAppenderPerClaim'
    BY <2>1, <2>2 DEF IInv, OwnRowsLocked, OneAppenderPerClaim
  <2>6. ChainsWhole' /\ RowsWhole'
    BY <2>1, <2>3 DEF IInv, ChainsWhole, RowsWhole
  <2> QED
    BY <2>4, <2>5, <2>6 DEF IInv
<1>2. ASSUME NEW w \in Writers,
             Begin(w) \/ Review(w) \/ Lock(w) \/ Read(w) \/ Refuse(w) \/ Mirror(w) \/ Abort(w)
      PROVE  IInv'
  BY <1>2, OtherSteps
<1>3. ASSUME NEW w \in Writers, AppendInSession(w) PROVE IInv'
  BY <1>3, AppendStep
<1>4. ASSUME NEW w \in Writers, Commit(w) PROVE IInv'
  BY <1>4, CommitStep
<1> QED
  BY <1>1, <1>2, <1>3, <1>4 DEF Next, Proceed

-----------------------------------------------------------------------------
\* The events of a pass depend on its time only.
LEMMA SamePending ==
  ASSUME NEW v, stamp'[v] = stamp[v]
  PROVE  Pending(v)' = Pending(v) /\ Projected(v)' = Projected(v)
<1>1. LifecycleTime(v)' = LifecycleTime(v)
  BY DEF LifecycleTime
<1>2. \A c : Active(v, c)' = Active(v, c)
  BY <1>1 DEF Active
<1>3. \A c : Initial(v, c)' = Initial(v, c) /\ Refresh(v, c)' = Refresh(v, c)
  BY DEF Initial, Refresh
<1> QED
  BY <1>2, <1>3 DEF Pending, Projected

\* They are of the writer's claims, and of the kind its pass records.
LEMMA PendingIsOwn ==
  ASSUME NEW w \in Writers, NEW e \in Pending(w)
  PROVE  /\ e.claim \in ClaimsOf[w] /\ e.claim \in Claims
         /\ e.type = "INITIAL" => w \in Ingests /\ e.of = w
         /\ e.type = "LIFECYCLE" => w \in Ingests /\ e \in Projected(w)
<1>1. ClaimsOf[w] \subseteq Claims
  BY ClaimsOfAssumption
<1>2. CASE w \in Ingests /\ e \in Projected(w)
  BY <1>1, <1>2 DEF Projected, Active, Event
<1>3. CASE w \in Ingests /\ e \notin Projected(w)
  <2>1. PICK c \in ClaimsOf[w] : e = Initial(w, c)
    BY <1>3 DEF Pending
  <2> QED
    BY <1>1, <1>3, <2>1 DEF Initial, Event
<1>4. CASE w \notin Ingests
  <2>1. PICK c \in ClaimsOf[w] : e = Refresh(w, c)
    BY <1>4 DEF Pending
  <2> QED
    BY <1>1, <2>1 DEF Refresh, Event
<1> QED
  BY <1>2, <1>3, <1>4

\* A step of a writer changes its transaction and no other.
LEMMA Stepped ==
  ASSUME Shapes, NEW w \in Writers, NEW next, Step(w, next)
  PROVE  /\ DOMAIN tx' = Writers
         /\ tx'[w] = next
         /\ \A v \in Writers \ {w} : tx'[v] = tx[v]
  BY DEF Shapes, Step

\* A step that commits no rows keeps the unit, if what its writer has in hand after
\* it is still its own and, of an ingest that appends, still all of its pass.
LEMMA UnitStep ==
  ASSUME IInv, UnitInv, NEW w \in Writers, NEW next, Step(w, next),
         rows' = rows, published' = published,
         lifecycle \subseteq lifecycle', LifecycleOnly',
         clock' \in Nat \ {0}, DOMAIN stamp' = Writers,
         \A v \in Writers : v # w \/ (v \in Ingests /\ stamp[v] # 0) => stamp'[v] = stamp[v],
         w \in Ingests /\ next.pc # "idle" => stamp'[w] # 0,
         next.pc = "locking" => w \notin Reviews,
         next.pc = "mirroring" => w \in Reviews,
         next.todo \cup next.done \cup {r.ev : r \in next.new} \subseteq OwnEvents(w)',
         w \in Ingests /\ next.pc = "appending" =>
           \A e \in Pending(w)' :
             e \in next.todo \/ \E r \in rows[e.claim] \cup {x \in next.new : x.ev.claim = e.claim} : r.ev = e
  PROVE  UnitInv'
<1>1. /\ tx'[w] = next
      /\ \A v \in Writers \ {w} : tx'[v] = tx[v]
  BY Stepped DEF IInv
<1>2. \A v \in Writers \ {w} : Pending(v)' = Pending(v)
  BY SamePending
<1>3. OnlyOwnEvents'
  <2> SUFFICES ASSUME NEW v \in Writers
               PROVE  Hands(v)' \subseteq OwnEvents(v)'
    BY DEF OnlyOwnEvents
  <2>1. CASE v = w
    BY <1>1, <2>1 DEF Hands
  <2>2. CASE v # w
    <3>1. Hands(v)' = Hands(v)
      BY <1>1, <2>2 DEF Hands
    <3>2. OwnEvents(v) \subseteq OwnEvents(v)'
      BY <1>2, <2>2 DEF OwnEvents
    <3> QED
      BY <3>1, <3>2 DEF UnitInv, OnlyOwnEvents
  <2> QED
    BY <2>1, <2>2
<1>4. AllAccounted'
  <2> SUFFICES ASSUME NEW v \in Ingests, tx'[v].pc = "appending", NEW e \in Pending(v)'
               PROVE  e \in tx'[v].todo \/ Stored(v, e)'
    BY DEF AllAccounted
  <2>1. v \in Writers
    BY DEF Writers
  <2>2. CASE v = w
    BY <1>1, <2>2 DEF Stored, Chain
  <2>3. CASE v # w
    <3>1. e \in Pending(v) /\ tx[v].pc = "appending" /\ tx'[v] = tx[v]
      BY <1>1, <1>2, <2>1, <2>3
    <3> QED
      BY <3>1 DEF UnitInv, AllAccounted, Stored, Chain
  <2> QED
    BY <2>2, <2>3
<1>5. PhasesOfKind'
  BY <1>1 DEF UnitInv, PhasesOfKind
<1>6. Stamped'
  <2> SUFFICES ASSUME NEW v \in Ingests, tx'[v].pc # "idle" \/ v \in published
               PROVE  stamp'[v] # 0
    BY DEF Stamped
  <2>1. v \in Writers
    BY DEF Writers
  <2> QED
    BY <1>1, <2>1 DEF UnitInv, Stamped
<1>7. PublishedAsOneUnit'
  <2>1. ASSUME NEW v \in published', NEW e \in Pending(v)' PROVE Recorded(e)'
    <3>1. v \in Ingests => Pending(v)' = Pending(v)
      BY <2>1, SamePending DEF UnitInv, Stamped, Writers
    <3>2. v \in Ingests
      BY <2>1 DEF UnitInv, PublishedAreIngests
    <3> QED
      BY <2>1, <3>1, <3>2 DEF UnitInv, PublishedAsOneUnit, Recorded
  <2>2. ASSUME NEW c \in Claims, NEW r \in rows'[c]
        PROVE  /\ r.ev.type = "INITIAL" => r.ev.of \in published'
               /\ r.ev.type = "LIFECYCLE" => r.ev \in lifecycle'
    BY <2>2 DEF UnitInv, PublishedAsOneUnit
  <2> QED
    BY <2>1, <2>2 DEF PublishedAsOneUnit
<1>8. PublishedAreIngests'
  BY DEF UnitInv, PublishedAreIngests
<1> QED
  BY <1>3, <1>4, <1>5, <1>6, <1>7, <1>8 DEF UnitInv

\* Every action but Commit keeps the unit.
LEMMA OtherUnitSteps ==
  ASSUME IInv, UnitInv, NEW w \in Writers,
         \/ Begin(w) \/ Review(w) \/ Lock(w) \/ Read(w)
         \/ AppendInSession(w) \/ Refuse(w) \/ Mirror(w) \/ Abort(w)
  PROVE  UnitInv'
<1> USE DEF Fields
<1>1. /\ NoTx.pc = "idle" /\ NoTx.held = {} /\ NoTx.todo = {} /\ NoTx.done = {} /\ NoTx.new = {}
      /\ DOMAIN NoTx = Fields
  BY DEF NoTx
<1>2. /\ DOMAIN tx[w] = Fields
      /\ tx[w].pc # "appending" => tx[w].done = {} /\ tx[w].new = {}
  BY DEF IInv, Shapes, NotYetAppending, Fresh
<1>3. /\ clock \in Nat \ {0} /\ DOMAIN stamp = Writers
      /\ w \in Ingests /\ tx[w].pc # "idle" => stamp[w] # 0
  BY DEF UnitInv, Stamped
<1>4. Hands(w) \subseteq OwnEvents(w)
  BY DEF UnitInv, OnlyOwnEvents
<1>5. CASE Begin(w)
  <2> DEFINE next == [NoTx EXCEPT !.pc = "locking"]
             time == IF w \in Ingests /\ stamp[w] # 0 THEN stamp[w] ELSE clock
  <2>1. /\ next.pc = "locking" /\ next.todo = {} /\ next.done = {} /\ next.new = {}
    BY DEF NoTx
  <2>2. /\ Step(w, next) /\ rows' = rows /\ published' = published /\ lifecycle' = lifecycle
        /\ stamp' = [stamp EXCEPT ![w] = time] /\ clock' = clock + 1
    BY <1>5 DEF Begin
  <2>3. w \notin Reviews
    BY <1>5, KindsAssumption DEF Begin
  <2>4. /\ DOMAIN stamp' = Writers /\ stamp'[w] = time
        /\ \A v \in Writers \ {w} : stamp'[v] = stamp[v]
    BY <1>3, <2>2
  <2>5. time # 0 /\ (w \in Ingests /\ stamp[w] # 0 => time = stamp[w])
    BY <1>3
  <2> HIDE DEF next, time
  <2>6. LifecycleOnly'
    BY <2>2 DEF UnitInv, LifecycleOnly
  <2>7. \A v \in Writers : v # w \/ (v \in Ingests /\ stamp[v] # 0) => stamp'[v] = stamp[v]
    BY <2>4, <2>5
  <2>8. next.todo \cup next.done \cup {r.ev : r \in next.new} = {}
    BY <2>1
  <2>9. clock' \in Nat \ {0}
    BY <1>3, <2>2
  <2> QED
    BY <2>1, <2>2, <2>3, <2>4, <2>5, <2>6, <2>7, <2>8, <2>9, UnitStep
<1>6. CASE Review(w)
  <2>0. PICK c \in ClaimsOf[w] : \E e \in Reviewed(c) :
          /\ lifecycle' = lifecycle \cup {e}
          /\ Step(w, [NoTx EXCEPT !.pc = "mirroring", !.todo = {e}])
    BY <1>6 DEF Review
  <2>1. PICK e \in Reviewed(c) :
          /\ lifecycle' = lifecycle \cup {e}
          /\ Step(w, [NoTx EXCEPT !.pc = "mirroring", !.todo = {e}])
    BY <2>0
  <2> DEFINE next == [NoTx EXCEPT !.pc = "mirroring", !.todo = {e}]
  <2>2. /\ next.pc = "mirroring" /\ next.todo = {e} /\ next.done = {} /\ next.new = {}
    BY DEF NoTx
  <2>3. e.type = "LIFECYCLE"
    <3> DEFINE earlier == {x \in lifecycle : x.claim = c /\ x.of = "OUTCOME_REVIEW"}
    <3>1. CASE e \in earlier
      BY <3>1 DEF UnitInv, LifecycleOnly
    <3>2. CASE e = Event(c, "LIFECYCLE", "OUTCOME_REVIEW", clock, TargetEnd[c])
      BY <3>2 DEF Event
    <3> QED
      BY <2>1, <3>1, <3>2 DEF Reviewed
  <2>4. /\ w \in Reviews /\ w \notin Ingests /\ rows' = rows /\ published' = published
        /\ stamp' = [stamp EXCEPT ![w] = clock] /\ clock' = clock + 1
    BY <1>6, KindsAssumption DEF Review
  <2>5. LifecycleOnly'
    BY <2>1, <2>3 DEF UnitInv, LifecycleOnly
  <2>6. DOMAIN stamp' = Writers /\ \A v \in Writers \ {w} : stamp'[v] = stamp[v]
    BY <1>3, <2>4
  <2>7. next.todo \cup next.done \cup {r.ev : r \in next.new} \subseteq OwnEvents(w)'
    BY <2>1, <2>2, <2>4 DEF OwnEvents
  <2>8. \A v \in Writers : v # w \/ (v \in Ingests /\ stamp[v] # 0) => stamp'[v] = stamp[v]
    BY <2>4, <2>6
  <2>9. clock' \in Nat \ {0} /\ lifecycle \subseteq lifecycle' /\ Step(w, next)
    BY <1>3, <2>1, <2>4
  <2> HIDE DEF next
  <2> QED
    BY <2>2, <2>4, <2>5, <2>6, <2>7, <2>8, <2>9, UnitStep
<1>7. ASSUME NEW next, Step(w, next),
             UNCHANGED <<clock, rows, lifecycle, published, stamp>>,
             next.pc # "idle" => tx[w].pc # "idle",
             next.pc = "locking" => w \notin Reviews,
             next.pc # "mirroring",
             next.todo \cup next.done \cup {r.ev : r \in next.new} \subseteq OwnEvents(w),
             w \in Ingests /\ next.pc = "appending" =>
               \A e \in Pending(w) :
                 e \in next.todo \/ \E r \in rows[e.claim] \cup {x \in next.new : x.ev.claim = e.claim} : r.ev = e
      PROVE  UnitInv'
  <2>1. LifecycleOnly'
    BY <1>7 DEF UnitInv, LifecycleOnly
  <2>2. Pending(w)' = Pending(w)
    BY <1>7, SamePending
  <2>3. OwnEvents(w)' = OwnEvents(w)
    BY <1>7, <2>2 DEF OwnEvents
  <2> QED
    BY <1>3, <1>7, <2>1, <2>2, <2>3, UnitStep
<1>8. CASE Lock(w)
  <2> DEFINE next == [tx[w] EXCEPT !.held = @ \cup {NextLock(w)}]
  <2>1. /\ next.pc = tx[w].pc /\ next.todo = tx[w].todo /\ next.done = tx[w].done
        /\ next.new = tx[w].new
    BY <1>2
  <2>2. Step(w, next) /\ UNCHANGED <<clock, rows, lifecycle, published, stamp>> /\ tx[w].pc = "locking"
    BY <1>8 DEF Lock
  <2>3. w \notin Reviews
    BY <2>2 DEF UnitInv, PhasesOfKind
  <2> HIDE DEF next
  <2> QED
    BY <1>4, <1>7, <2>1, <2>2, <2>3 DEF Hands
<1>9. CASE Read(w)
  <2> DEFINE todo == {e \in Pending(w) : w \in Ingests => ~Known(e)}
             tail == [c \in ClaimsOf[w] |-> TailOf(c)]
             next == [tx[w] EXCEPT !.pc = "appending", !.todo = todo, !.tail = tail]
  <2>1. Step(w, next) /\ UNCHANGED <<clock, rows, lifecycle, published, stamp>> /\ tx[w].pc = "locking"
    BY <1>9 DEF Read
  <2>2. w \notin Reviews
    BY <2>1 DEF UnitInv, PhasesOfKind
  <2>3. /\ next.pc = "appending" /\ next.todo = todo /\ next.done = {} /\ next.new = {}
    BY <1>2, <2>1
  <2>4. \A e \in Pending(w) : w \in Ingests => e \in todo \/ \E r \in rows[e.claim] : r.ev = e
    BY DEF Known, Recorded
  <2>5. todo \subseteq OwnEvents(w)
    BY <2>2 DEF OwnEvents
  <2> HIDE DEF next, todo
  <2> QED
    BY <1>7, <2>1, <2>2, <2>3, <2>4, <2>5
<1>10. CASE AppendInSession(w)
  <2>1. PICK e \in InHand(w) :
          Step(w, [tx[w] EXCEPT
               !.todo = @ \ {e}, !.done = @ \cup {e},
               !.tail[e.claim] = e,
               !.new = IF Stored(w, e) THEN @ ELSE @ \cup {[ev |-> e, prev |-> tx[w].tail[e.claim]]}])
    BY <1>10 DEF AppendInSession
  <2> DEFINE row == [ev |-> e, prev |-> tx[w].tail[e.claim]]
             new == IF Stored(w, e) THEN tx[w].new ELSE tx[w].new \cup {row}
             next == [tx[w] EXCEPT
               !.todo = @ \ {e}, !.done = @ \cup {e},
               !.tail[e.claim] = e,
               !.new = IF Stored(w, e) THEN @ ELSE @ \cup {row}]
  <2>2. /\ next.pc = tx[w].pc /\ next.todo = tx[w].todo \ {e} /\ next.done = tx[w].done \cup {e}
        /\ next.new = new
    BY <1>2
  <2>3. /\ UNCHANGED <<clock, rows, lifecycle, published, stamp>> /\ tx[w].pc = "appending"
        /\ e \in tx[w].todo /\ Step(w, next)
    BY <1>10, <2>1 DEF AppendInSession, Appending, InHand
  <2>4. row.ev = e
    OBVIOUS
  <2>5. next.todo \cup next.done \cup {r.ev : r \in next.new} \subseteq Hands(w)
    BY <2>2, <2>3, <2>4 DEF Hands
  <2>6. ASSUME w \in Ingests, NEW o \in Pending(w)
        PROVE  o \in next.todo \/ \E r \in rows[o.claim] \cup {x \in next.new : x.ev.claim = o.claim} : r.ev = o
    <3>1. o \in tx[w].todo \/ Stored(w, o)
      BY <2>3, <2>6 DEF UnitInv, AllAccounted
    <3>2. CASE Stored(w, o)
      BY <2>2, <3>2 DEF Stored, Chain
    <3>3. CASE o = e /\ ~Stored(w, e)
      <4>1. row \in next.new
        BY <2>2, <3>3
      <4> HIDE DEF next, row
      <4> QED
        BY <2>4, <3>3, <4>1
    <3> QED
      BY <2>2, <3>1, <3>2, <3>3
  <2> HIDE DEF next
  <2> QED
    BY <1>4, <1>7, <2>2, <2>3, <2>5, <2>6
<1>11. CASE Step(w, NoTx) /\ UNCHANGED <<clock, rows, lifecycle, published, stamp>>
  BY <1>1, <1>7, <1>11
<1>12. CASE Refuse(w) \/ Abort(w)
  BY <1>11, <1>12 DEF Refuse, Abort
<1>13. CASE Mirror(w)
  <2>1. UNCHANGED <<clock, rows, lifecycle, published, stamp>> /\ tx[w].pc = "mirroring"
    BY <1>13 DEF Mirror
  <2>2. CASE ~Step(w, NoTx)
    <3>1. PICK tail : Step(w, [tx[w] EXCEPT !.pc = "appending", !.tail = tail])
      BY <1>13, <2>2 DEF Mirror
    <3> DEFINE next == [tx[w] EXCEPT !.pc = "appending", !.tail = tail]
    <3>2. /\ next.pc = "appending" /\ next.todo = tx[w].todo /\ next.done = tx[w].done
          /\ next.new = tx[w].new
      BY <1>2
    <3>3. w \notin Ingests
      BY <2>1, KindsAssumption DEF UnitInv, PhasesOfKind
    <3> HIDE DEF next
    <3>4. Step(w, next)
      BY <3>1 DEF next
    <3> QED
      BY <1>4, <1>7, <2>1, <3>2, <3>3, <3>4 DEF Hands
  <2> QED
    BY <1>11, <2>1, <2>2
<1> QED
  BY <1>5, <1>6, <1>8, <1>9, <1>10, <1>12, <1>13

\* A commit makes authoritative what its rows name, in the same transaction.
LEMMA CommitUnit ==
  ASSUME IInv, UnitInv, NEW w \in Writers, Commit(w)
  PROVE  UnitInv'
<1>1. /\ tx[w].pc = "appending" /\ tx[w].todo = {}
      /\ rows' = [c \in Claims |-> Chain(w, c)]
      /\ Step(w, NoTx) /\ stamp' = stamp /\ clock' = clock
      /\ w \in Ingests => published' = published \cup {w} /\ lifecycle' = lifecycle \cup Projected(w)
      /\ w \notin Ingests => published' = published /\ lifecycle' = lifecycle
  BY DEF Commit
<1>2. /\ tx'[w] = NoTx
      /\ \A v \in Writers \ {w} : tx'[v] = tx[v]
  BY <1>1, Stepped DEF IInv
<1>3. NoTx.pc = "idle" /\ NoTx.todo = {} /\ NoTx.done = {} /\ NoTx.new = {}
  BY DEF NoTx
<1>4. \A v : Pending(v)' = Pending(v)
  BY <1>1, SamePending
<1>5. \A c \in Claims : rows'[c] = Chain(w, c) /\ rows[c] \subseteq rows'[c]
  BY <1>1 DEF Chain
<1>6. published \subseteq published' /\ lifecycle \subseteq lifecycle'
  BY <1>1
<1>7. OnlyOwnEvents'
  <2> SUFFICES ASSUME NEW v \in Writers
               PROVE  Hands(v)' \subseteq OwnEvents(v)'
    BY DEF OnlyOwnEvents
  <2>1. CASE v = w
    <3>1. Hands(v)' = {}
      BY <1>2, <1>3, <2>1 DEF Hands
    <3> QED
      BY <3>1
  <2>2. CASE v # w
    <3>1. Hands(v)' = Hands(v)
      BY <1>2, <2>2 DEF Hands
    <3>2. OwnEvents(v) \subseteq OwnEvents(v)'
      BY <1>4, <1>6 DEF OwnEvents
    <3> QED
      BY <3>1, <3>2 DEF UnitInv, OnlyOwnEvents
  <2> QED
    BY <2>1, <2>2
<1>8. AllAccounted'
  <2> SUFFICES ASSUME NEW v \in Ingests, tx'[v].pc = "appending", NEW e \in Pending(v)
               PROVE  e \in tx'[v].todo \/ Stored(v, e)'
    BY <1>4 DEF AllAccounted
  <2>1. v \in Writers /\ v # w /\ tx'[v] = tx[v]
    BY <1>2, <1>3 DEF Writers
  <2>2. e.claim \in Claims
    BY <2>1, PendingIsOwn
  <2>3. rows[e.claim] \subseteq rows'[e.claim]
    BY <1>5, <2>2
  <2>4. Stored(v, e) => Stored(v, e)'
    BY <2>1, <2>3 DEF Stored, Chain
  <2> QED
    BY <2>1, <2>4 DEF UnitInv, AllAccounted
<1>9. PhasesOfKind'
  BY <1>2, <1>3 DEF UnitInv, PhasesOfKind
<1>10. Stamped'
  <2>1. w \in Ingests => stamp[w] # 0
    BY <1>1 DEF UnitInv, Stamped
  <2>2. Ingests \subseteq Writers
    BY DEF Writers
  <2> QED
    BY <1>1, <1>2, <1>3, <2>1, <2>2 DEF UnitInv, Stamped
<1>11. LifecycleOnly' /\ PublishedAreIngests'
  <2>1. \A e \in Projected(w) : e.type = "LIFECYCLE"
    BY DEF Projected, Active, Event
  <2> QED
    BY <1>1, <2>1 DEF UnitInv, LifecycleOnly, PublishedAreIngests
<1>12. PublishedAsOneUnit'
  <2>1. ASSUME NEW v \in published', NEW e \in Pending(v)
        PROVE  Recorded(e)'
    <3>1. v \in Writers /\ v \in Ingests
      BY <1>1 DEF UnitInv, PublishedAreIngests, Writers
    <3>2. e.claim \in Claims
      BY <3>1, PendingIsOwn
    <3>3. CASE v \in published
      <4>1. Recorded(e)
        BY <3>3 DEF UnitInv, PublishedAsOneUnit
      <4> QED
        BY <1>5, <3>2, <4>1 DEF Recorded
    <3>4. CASE v = w
      <4>1. Stored(w, e)
        BY <1>1, <3>1, <3>4 DEF UnitInv, AllAccounted
      <4> QED
        BY <1>5, <3>2, <4>1 DEF Stored, Recorded
    <3> QED
      BY <1>1, <3>3, <3>4
  <2>2. ASSUME NEW c \in Claims, NEW r \in rows'[c]
        PROVE  /\ r.ev.type = "INITIAL" => r.ev.of \in published'
               /\ r.ev.type = "LIFECYCLE" => r.ev \in lifecycle'
    <3>1. CASE r \in rows[c]
      BY <1>6, <3>1 DEF UnitInv, PublishedAsOneUnit
    <3>2. CASE r \in tx[w].new
      <4>1. r.ev \in OwnEvents(w)
        BY <3>2 DEF UnitInv, OnlyOwnEvents, Hands
      <4>2. CASE w \in Reviews
        BY <1>6, <4>1, <4>2 DEF OwnEvents, UnitInv, LifecycleOnly
      <4>3. CASE w \notin Reviews
        <5>1. r.ev \in Pending(w)
          BY <4>1, <4>3 DEF OwnEvents
        <5> QED
          BY <1>1, <5>1, PendingIsOwn
      <4> QED
        BY <4>2, <4>3
    <3> QED
      BY <1>5, <2>2, <3>1, <3>2 DEF Chain
  <2> QED
    BY <1>4, <2>1, <2>2 DEF PublishedAsOneUnit
<1> QED
  BY <1>7, <1>8, <1>9, <1>10, <1>11, <1>12 DEF UnitInv

LEMMA InitUnit == Init => UnitInv
<1> SUFFICES ASSUME Init PROVE UnitInv
  OBVIOUS
<1>1. \A w \in Writers : tx[w] = NoTx
  BY DEF Init
<1>2. NoTx.pc = "idle" /\ NoTx.todo = {} /\ NoTx.done = {} /\ NoTx.new = {}
  BY DEF NoTx
<1>3. \A w \in Writers : Hands(w) = {}
  BY <1>1, <1>2 DEF Hands
<1>4. OnlyOwnEvents /\ PhasesOfKind
  BY <1>1, <1>2, <1>3 DEF OnlyOwnEvents, PhasesOfKind
<1>5. AllAccounted
  BY <1>1, <1>2 DEF AllAccounted, Writers
<1>6. Stamped
  BY <1>1, <1>2 DEF Init, Stamped, Writers
<1> QED
  BY <1>4, <1>5, <1>6 DEF Init, UnitInv, PublishedAreIngests, LifecycleOnly, PublishedAsOneUnit

LEMMA UnitPreserved == IInv /\ UnitInv /\ [Next]_vars => UnitInv'
<1> SUFFICES ASSUME IInv, UnitInv, [Next]_vars PROVE UnitInv'
  OBVIOUS
<1>1. CASE UNCHANGED vars
  <2>1. tx' = tx /\ rows' = rows /\ stamp' = stamp /\ clock' = clock /\ lifecycle' = lifecycle
        /\ published' = published
    BY <1>1 DEF vars
  <2>2. \A v : Pending(v)' = Pending(v)
    BY <2>1, SamePending
  <2>3. \A v, e : Stored(v, e)' = Stored(v, e)
    BY <2>1 DEF Stored, Chain
  <2>4. \A v : Hands(v)' = Hands(v) /\ OwnEvents(v)' = OwnEvents(v)
    BY <2>1, <2>2 DEF Hands, OwnEvents
  <2>5. OnlyOwnEvents' /\ AllAccounted'
    BY <2>1, <2>2, <2>3, <2>4 DEF UnitInv, OnlyOwnEvents, AllAccounted
  <2>6. PublishedAsOneUnit'
    BY <2>1, <2>2 DEF UnitInv, PublishedAsOneUnit, Recorded
  <2> QED
    BY <2>1, <2>5, <2>6 DEF UnitInv, PhasesOfKind, Stamped, LifecycleOnly, PublishedAreIngests
<1>2. ASSUME NEW w \in Writers,
             \/ Begin(w) \/ Review(w) \/ Lock(w) \/ Read(w)
             \/ AppendInSession(w) \/ Refuse(w) \/ Mirror(w) \/ Abort(w)
      PROVE  UnitInv'
  BY <1>2, OtherUnitSteps
<1>3. ASSUME NEW w \in Writers, Commit(w) PROVE UnitInv'
  BY <1>3, CommitUnit
<1> QED
  BY <1>1, <1>2, <1>3 DEF Next, Proceed

LEMMA LedgerInvariants == Spec => [](IInv /\ UnitInv)
<1>1. Init => IInv /\ UnitInv
  BY InitEstablishes, InitUnit
<1>2. IInv /\ UnitInv /\ [Next]_vars => IInv' /\ UnitInv'
  BY StepPreserves, UnitPreserved
<1> QED
  BY <1>1, <1>2, PTL DEF Spec

\* Whatever publications, closings and reviews interleave, fail and repeat, the
\* events of a claim form one chain: nothing forks it, nothing is in it twice,
\* nothing hangs loose (append_in_session; validate_event_chain).
THEOREM ClaimsHaveOneHistory == Spec => []OneHistory
<1>1. IInv => OneHistory
  BY WholeIsOneHistory DEF IInv, RowsWhole, OneHistory
<1> QED
  BY <1>1, LedgerInvariants, PTL

\* A publication is READY exactly when its events are in the histories of all its
\* claims, and no history names a snapshot or a lifecycle event that is not
\* authoritative, though publications fail and are repeated while others record the
\* same claims (save_bundle, 592-596; SnapshotRecordingStage).
THEOREM PublicationsAreUnits == Spec => []PublishedAsOneUnit
<1>1. UnitInv => PublishedAsOneUnit
  BY DEF UnitInv
<1> QED
  BY <1>1, LedgerInvariants, PTL

-----------------------------------------------------------------------------
\* A set of naturals that is not empty has a least element.
LEMMA LeastOfNaturals ==
  ASSUME NEW S, S \subseteq Nat, S # {}
  PROVE  \E m \in S : \A n \in S : m <= n
<1> DEFINE R == OpToRel(<, Nat)
<1>1. PICK m \in S : \A n \in S : <<n, m>> \notin R
  <2>1. IsWellFoundedOn(R, Nat)
    BY NatLessThanWellFounded
  <2> HIDE DEF R
  <2> QED
    BY <2>1, WFMin, Zenon
<1>2. ASSUME NEW n \in S PROVE m <= n
  <2>1. ~(n < m)
    BY <1>1 DEF OpToRel
  <2> QED
    BY <2>1
<1> QED
  BY <1>2

\* A finite set of naturals has a bound: of those that had none, the smallest would
\* have one when an element is left out.
LEMMA FiniteIsBounded ==
  ASSUME NEW S, S \subseteq Nat, IsFiniteSet(S)
  PROVE  \E b \in Nat : \A n \in S : n <= b
<1> DEFINE Bounded(T) == \E b \in Nat : \A n \in T : n <= b
           R == StrictSubsetOrdering(Nat)
           Unbounded == {T \in FiniteSubsetsOf(Nat) : ~Bounded(T)}
<1>1. SUFFICES ASSUME Unbounded # {} PROVE FALSE
  BY DEF FiniteSubsetsOf
<1>2. IsWellFoundedOn(R, FiniteSubsetsOf(Nat))
  BY FS_StrictSubsetOrderingWellFounded
<1>3. PICK T \in Unbounded : \A U \in Unbounded : <<U, T>> \notin R
  <2> HIDE DEF R
  <2>1. Unbounded \subseteq FiniteSubsetsOf(Nat)
    OBVIOUS
  <2> HIDE DEF Unbounded
  <2> QED
    BY <1>1, <1>2, <2>1, WFMin, Zenon
<1>4. T \subseteq Nat /\ IsFiniteSet(T) /\ ~Bounded(T)
  BY DEF FiniteSubsetsOf
<1>5. PICK x \in T : TRUE
  <2>1. Bounded({})
    OBVIOUS
  <2> QED
    BY <1>4, <2>1
<1>6. T \ {x} \in FiniteSubsetsOf(Nat) /\ <<T \ {x}, T>> \in R
  <2>1. IsFiniteSet(T \ {x})
    BY <1>4, FS_RemoveElement
  <2>2. <<T \ {x}, T>> \in (SUBSET Nat) \X (SUBSET Nat) /\ T \ {x} # T
    BY <1>4, <1>5
  <2>3. T \ {x} \subseteq T
    OBVIOUS
  <2> QED
    BY <1>4, <2>1, <2>2, <2>3 DEF FiniteSubsetsOf, StrictSubsetOrdering
<1>7. PICK b \in Nat : \A n \in T \ {x} : n <= b
  <2>1. T \ {x} \notin Unbounded
    BY <1>3, <1>6
  <2> QED
    BY <1>6, <2>1
<1>8. \A n \in T : n <= b + x
  BY <1>4, <1>5, <1>7
<1> QED
  BY <1>4, <1>5, <1>8

\* A finite set of naturals that is not empty has a greatest element: its least bound.
LEMMA GreatestOfNaturals ==
  ASSUME NEW S, S \subseteq Nat, S # {}, IsFiniteSet(S)
  PROVE  \E m \in S : \A n \in S : n <= m
<1> DEFINE Bounds == {b \in Nat : \A n \in S : n <= b}
<1>1. Bounds # {}
  BY FiniteIsBounded
<1>2. PICK m \in Bounds : \A b \in Bounds : m <= b
  BY <1>1, LeastOfNaturals
<1>3. ASSUME m \notin S PROVE FALSE
  <2>1. PICK n \in S : TRUE
    OBVIOUS
  <2>2. m - 1 \in Bounds
    BY <1>2, <1>3, <2>1
  <2> QED
    BY <1>2, <2>2
<1> QED
  BY <1>2, <1>3

-----------------------------------------------------------------------------
\* The next lock is the least of those a transaction has yet to take.
LEMMA NextIsLeast ==
  ASSUME NEW w \in Writers, ToLock(w) # {}
  PROVE  /\ NextLock(w) \in ToLock(w)
         /\ \A other \in ToLock(w) : NextLock(w) <= other
<1>1. ToLock(w) \subseteq Nat
  BY ClaimsAssumption, ClaimsOfAssumption DEF ToLock
<1>2. \E c \in ToLock(w) : \A other \in ToLock(w) : c <= other
  BY <1>1, LeastOfNaturals
<1> QED
  BY <1>2 DEF NextLock

\* A step keeps the discipline of the locks, if its writer does.
LEMMA LockStep ==
  ASSUME Shapes, LockInv, NEW w \in Writers, NEW next, Step(w, next),
         next.held \subseteq ClaimsOf[w],
         next.pc \in {"idle", "mirroring"} \/ w \in Reviews => next.held = {},
         next.pc = "appending" /\ w \notin Reviews => next.held = ClaimsOf[w],
         \A v \in Writers \ {w} : next.held \cap tx[v].held = {},
         next.pc = "locking" => \A c \in next.held, d \in ClaimsOf[w] \ next.held : c < d,
         w \in Reviews => /\ \A e, o \in next.todo : e = o
                          /\ next.done # {} => next.todo = {}
  PROVE  LockInv'
<1>1. /\ tx'[w] = next
      /\ \A v \in Writers \ {w} : tx'[v] = tx[v]
  BY Stepped
<1>2. HeldOfOwn'
  BY <1>1 DEF LockInv, HeldOfOwn
<1>3. OneHolderPerClaim'
  <2> SUFFICES ASSUME NEW x \in Writers, NEW y \in Writers, x # y
               PROVE  tx'[x].held \cap tx'[y].held = {}
    BY DEF OneHolderPerClaim
  <2>1. CASE x = w
    BY <1>1, <2>1
  <2>2. CASE y = w
    BY <1>1, <2>2
  <2>3. CASE x # w /\ y # w
    BY <1>1, <2>3 DEF LockInv, OneHolderPerClaim
  <2> QED
    BY <2>1, <2>2, <2>3
<1>4. HeldInOrder'
  <2> SUFFICES ASSUME NEW v \in Writers, tx'[v].pc = "locking",
                      NEW c \in tx'[v].held, NEW d \in ToLock(v)'
               PROVE  c < d
    BY DEF HeldInOrder
  <2>1. CASE v = w
    BY <1>1, <2>1 DEF ToLock
  <2>2. CASE v # w
    BY <1>1, <2>2 DEF ToLock, LockInv, HeldInOrder
  <2> QED
    BY <2>1, <2>2
<1>5. OneEventOfAReview'
  <2>1. Reviews \subseteq Writers
    BY DEF Writers
  <2> QED
    BY <1>1, <2>1 DEF LockInv, OneEventOfAReview
<1> QED
  BY <1>2, <1>3, <1>4, <1>5 DEF LockInv

LEMMA LocksKept ==
  ASSUME IInv, UnitInv, LockInv, NEW w \in Writers,
         Begin(w) \/ Review(w) \/ Proceed(w) \/ Abort(w)
  PROVE  LockInv'
<1> USE DEF Fields
<1>1. /\ NoTx.pc = "idle" /\ NoTx.held = {} /\ NoTx.todo = {} /\ NoTx.done = {}
      /\ DOMAIN NoTx = Fields
  BY DEF NoTx
<1>2. Shapes /\ DOMAIN tx[w] = Fields
  BY DEF IInv, Shapes
<1>3. /\ tx[w].held \subseteq ClaimsOf[w]
      /\ tx[w].pc \in {"idle", "mirroring"} \/ w \in Reviews => tx[w].held = {}
      /\ tx[w].pc = "appending" /\ w \notin Reviews => tx[w].held = ClaimsOf[w]
      /\ \A v \in Writers \ {w} : tx[w].held \cap tx[v].held = {}
      /\ w \in Reviews => /\ \A e, o \in tx[w].todo : e = o
                          /\ tx[w].done # {} => tx[w].todo = {}
  BY DEF LockInv, HeldOfOwn, OneHolderPerClaim, OneEventOfAReview
<1>4. tx[w].pc = "locking" => w \notin Reviews /\ tx[w].done = {}
  BY DEF UnitInv, PhasesOfKind, IInv, NotYetAppending, Fresh
<1>5. CASE Step(w, NoTx)
  BY <1>1, <1>2, <1>5, LockStep
<1>6. CASE Begin(w)
  <2> DEFINE next == [NoTx EXCEPT !.pc = "locking"]
  <2>1. next.pc = "locking" /\ next.held = {} /\ next.todo = {} /\ next.done = {}
    BY DEF NoTx
  <2>2. Step(w, next)
    BY <1>6 DEF Begin
  <2> HIDE DEF next
  <2> QED
    BY <1>2, <2>1, <2>2, LockStep
<1>7. CASE Review(w)
  <2>1. PICK e : Step(w, [NoTx EXCEPT !.pc = "mirroring", !.todo = {e}])
    BY <1>7 DEF Review
  <2> DEFINE next == [NoTx EXCEPT !.pc = "mirroring", !.todo = {e}]
  <2>2. next.pc = "mirroring" /\ next.held = {} /\ next.todo = {e} /\ next.done = {}
    BY DEF NoTx
  <2> HIDE DEF next
  <2>3. Step(w, next)
    BY <2>1 DEF next
  <2> QED
    BY <1>2, <2>2, <2>3, LockStep
<1>8. CASE Lock(w)
  <2> DEFINE c == NextLock(w)
             next == [tx[w] EXCEPT !.held = @ \cup {c}]
  <2>1. /\ tx[w].pc = "locking" /\ ToLock(w) # {} /\ Step(w, next)
        /\ \A other \in Writers \ {w} : c \notin tx[other].held
    BY <1>8 DEF Lock
  <2>2. /\ next.pc = "locking" /\ next.held = tx[w].held \cup {c} /\ next.todo = tx[w].todo
        /\ next.done = tx[w].done
    BY <1>2, <2>1
  <2>3. c \in ToLock(w) /\ \A other \in ToLock(w) : c <= other
    BY <2>1, NextIsLeast
  <2>4. ToLock(w) \subseteq Nat
    BY ClaimsAssumption, ClaimsOfAssumption DEF ToLock
  <2>5. \A h \in tx[w].held, d \in ToLock(w) : h < d
    BY <2>1 DEF LockInv, HeldInOrder
  <2> HIDE DEF next, c
  <2>6. next.held \subseteq ClaimsOf[w]
    BY <1>3, <2>2, <2>3 DEF ToLock
  <2>7. ASSUME NEW h \in next.held, NEW d \in ClaimsOf[w] \ next.held
        PROVE  h < d
    <3>1. d \in ToLock(w) /\ d # c
      BY <2>2, <2>7 DEF ToLock
    <3>2. CASE h = c
      BY <2>3, <2>4, <3>1, <3>2
    <3>3. CASE h \in tx[w].held
      BY <2>5, <3>1, <3>3
    <3> QED
      BY <2>2, <2>7, <3>2, <3>3
  <2>8. \A v \in Writers \ {w} : next.held \cap tx[v].held = {}
    BY <1>3, <2>1, <2>2
  <2> QED
    BY <1>2, <1>4, <2>1, <2>2, <2>6, <2>7, <2>8, LockStep
<1>9. CASE Read(w)
  <2>1. PICK todo, tail : Step(w, [tx[w] EXCEPT !.pc = "appending", !.todo = todo, !.tail = tail])
    BY <1>9 DEF Read
  <2> DEFINE next == [tx[w] EXCEPT !.pc = "appending", !.todo = todo, !.tail = tail]
  <2>2. next.pc = "appending" /\ next.held = tx[w].held
    BY <1>2
  <2>3. tx[w].held = ClaimsOf[w] /\ w \notin Reviews
    BY <1>3, <1>4, <1>9 DEF Read, ToLock
  <2> HIDE DEF next
  <2>4. Step(w, next)
    BY <2>1 DEF next
  <2> QED
    BY <1>2, <1>3, <2>2, <2>3, <2>4, LockStep
<1>10. CASE AppendInSession(w)
  <2>0. PICK e \in InHand(w) : \E tail, new :
          Step(w, [tx[w] EXCEPT !.todo = @ \ {e}, !.done = @ \cup {e}, !.tail[e.claim] = tail, !.new = new])
    BY <1>10 DEF AppendInSession
  <2>1. PICK tail, new :
          Step(w, [tx[w] EXCEPT !.todo = @ \ {e}, !.done = @ \cup {e}, !.tail[e.claim] = tail, !.new = new])
    BY <2>0
  <2> DEFINE next == [tx[w] EXCEPT !.todo = @ \ {e}, !.done = @ \cup {e}, !.tail[e.claim] = tail, !.new = new]
  <2>2. next.pc = tx[w].pc /\ next.held = tx[w].held /\ next.todo = tx[w].todo \ {e}
    BY <1>2
  <2>3. tx[w].pc = "appending" /\ e \in tx[w].todo
    BY <1>10 DEF AppendInSession, Appending, InHand
  <2> HIDE DEF next
  <2>4. Step(w, next)
    BY <2>1 DEF next
  <2>5. w \in Reviews => next.todo = {}
    BY <1>3, <2>2, <2>3
  <2> QED
    BY <1>2, <1>3, <2>2, <2>3, <2>4, <2>5, LockStep
<1>11. CASE Mirror(w)
  <2>1. tx[w].pc = "mirroring" /\ w \in Reviews
    BY <1>11 DEF Mirror, UnitInv, PhasesOfKind
  <2>2. CASE ~Step(w, NoTx)
    <3>1. PICK tail : Step(w, [tx[w] EXCEPT !.pc = "appending", !.tail = tail])
      BY <1>11, <2>2 DEF Mirror
    <3> DEFINE next == [tx[w] EXCEPT !.pc = "appending", !.tail = tail]
    <3>2. next.pc = "appending" /\ next.held = tx[w].held /\ next.todo = tx[w].todo /\ next.done = tx[w].done
      BY <1>2
    <3> HIDE DEF next
    <3>3. Step(w, next)
      BY <3>1 DEF next
    <3> QED
      BY <1>2, <1>3, <2>1, <3>2, <3>3, LockStep
  <2> QED
    BY <1>5, <2>2
<1> QED
  BY <1>5, <1>6, <1>7, <1>8, <1>9, <1>10, <1>11 DEF Proceed, Refuse, Commit, Abort

LEMMA InitLocks == Init => LockInv
<1> SUFFICES ASSUME Init PROVE LockInv
  OBVIOUS
<1>1. \A w \in Writers : tx[w] = NoTx
  BY DEF Init
<1>2. NoTx.pc = "idle" /\ NoTx.held = {} /\ NoTx.todo = {} /\ NoTx.done = {}
  BY DEF NoTx
<1>3. HeldOfOwn /\ OneHolderPerClaim /\ HeldInOrder
  BY <1>1, <1>2 DEF HeldOfOwn, OneHolderPerClaim, HeldInOrder
<1>4. OneEventOfAReview
  BY <1>1, <1>2 DEF OneEventOfAReview, Writers
<1> QED
  BY <1>3, <1>4 DEF LockInv

\* The claims whose rows an ingest or a closing locks are claims it holds.
LEMMA TouchesWhatItHolds ==
  ASSUME LockInv, UnitInv, NEW w \in Writers, w \notin Reviews, tx[w].pc = "appending"
  PROVE  \A e \in tx[w].todo \cup tx[w].done : e.claim \in tx[w].held
<1>1. tx[w].held = ClaimsOf[w]
  BY DEF LockInv, HeldOfOwn
<1>2. \A e \in tx[w].todo \cup tx[w].done : e \in Pending(w)
  BY DEF UnitInv, OnlyOwnEvents, Hands, OwnEvents
<1> QED
  BY <1>1, <1>2, PendingIsOwn

\* Whoever is waited for while it waits itself, for rows, is no review, and waits for
\* nobody who waits: with its locks it has its claims for itself.
LEMMA NobodyAppends ==
  ASSUME IInv, UnitInv, LockInv, NEW circle \in SUBSET Writers,
         \A w \in circle : \E v \in circle : WaitsFor(w, v)
  PROVE  \A w \in circle : ~Appending(w)
<1>1. ASSUME NEW w \in circle, Appending(w)
      PROVE  \E u \in circle : /\ u # w /\ Appending(u) /\ u \notin Reviews
                               /\ \E e \in tx[w].todo : e.claim \in Touched(u)
  <2>1. PICK u \in circle : WaitsFor(w, u)
    OBVIOUS
  <2>2. PICK e \in InHand(w) : e.claim \in Touched(u)
    BY <1>1, <2>1 DEF WaitsFor, Appending
  <2>3. u # w /\ tx[u].done # {} /\ e \in tx[w].todo
    BY <2>1, <2>2 DEF WaitsFor, Touched, InHand
  <2>4. tx[u].pc = "appending"
    BY <2>3 DEF IInv, NotYetAppending, Fresh
  <2>5. Appending(u)
    <3>1. PICK v \in circle : WaitsFor(u, v)
      OBVIOUS
    <3> QED
      BY <2>4, <3>1 DEF WaitsFor
  <2>6. u \notin Reviews
    BY <2>3, <2>5 DEF LockInv, OneEventOfAReview, Appending
  <2> QED
    BY <2>2, <2>3, <2>5, <2>6
<1>2. ASSUME NEW w \in circle, Appending(w) PROVE FALSE
  <2>1. PICK u \in circle : Appending(u) /\ u \notin Reviews
    BY <1>1, <1>2
  <2>2. PICK v \in circle : /\ v # u /\ Appending(v) /\ v \notin Reviews
                            /\ \E e \in tx[u].todo : e.claim \in Touched(v)
    BY <1>1, <2>1
  <2>3. PICK e \in tx[u].todo : e.claim \in Touched(v)
    BY <2>2
  <2>4. e.claim \in tx[u].held
    BY <2>1, TouchesWhatItHolds DEF Appending
  <2>5. PICK o \in tx[v].done : e.claim = o.claim
    BY <2>3 DEF Touched
  <2>6. e.claim \in tx[v].held
    BY <2>2, <2>5, TouchesWhatItHolds DEF Appending
  <2> QED
    BY <2>2, <2>4, <2>6 DEF LockInv, OneHolderPerClaim
<1> QED
  BY <1>2

\* Whoever waits for a lock waits for one who has yet to take a greater one.
LEMMA WaitsAscend ==
  ASSUME LockInv, NEW w \in Writers, NEW v \in Writers, WaitsFor(w, v),
         ~Appending(w), tx[v].pc = "locking", ToLock(v) # {}
  PROVE  NextLock(w) < NextLock(v)
<1>1. NextLock(w) \in tx[v].held
  BY DEF WaitsFor
<1>2. NextLock(v) \in ToLock(v)
  BY NextIsLeast
<1> QED
  BY <1>1, <1>2 DEF LockInv, HeldInOrder

\* The one of a circle whose next lock is the greatest would wait for a greater one.
LEMMA NoCircle ==
  ASSUME IInv, UnitInv, LockInv
  PROVE  NoCircularWait
<1> SUFFICES ASSUME NEW circle \in (SUBSET Writers) \ {{}},
                    ~\E w \in circle : \A v \in circle : ~WaitsFor(w, v)
             PROVE  FALSE
  BY DEF NoCircularWait
<1>0. /\ circle \in SUBSET Writers /\ circle # {}
      /\ \A w \in circle : \E v \in circle : WaitsFor(w, v)
  OBVIOUS
<1>1. \A w \in circle : ~Appending(w)
  BY <1>0, NobodyAppends
<1>2. \A w \in circle : tx[w].pc = "locking" /\ ToLock(w) # {}
  BY <1>0, <1>1 DEF WaitsFor
<1> DEFINE wanted == {NextLock(w) : w \in circle}
<1>3. wanted \subseteq Claims /\ wanted # {}
  BY <1>0, <1>2, NextIsLeast, ClaimsOfAssumption DEF ToLock
<1>4. ASSUME NEW m \in wanted, \A n \in wanted : n <= m
      PROVE  \E n \in wanted : m < n
  <2>1. PICK w \in circle : m = NextLock(w)
    BY <1>4
  <2>2. PICK v \in circle : WaitsFor(w, v)
    BY <1>0
  <2>3. m < NextLock(v)
    BY <1>0, <1>1, <1>2, <2>1, <2>2, WaitsAscend
  <2> QED
    BY <2>3
<1> HIDE DEF wanted
<1>5. wanted \subseteq Nat /\ IsFiniteSet(wanted)
  <2>1. Claims \subseteq Nat /\ IsFiniteSet(Claims)
    BY ClaimsAssumption
  <2> QED
    BY <1>3, <2>1, FS_Subset
<1>6. PICK m \in wanted : \A n \in wanted : n <= m
  BY <1>3, <1>5, GreatestOfNaturals
<1>7. PICK n \in wanted : m < n
  BY <1>4, <1>6
<1>8. n <= m /\ n \in Nat /\ m \in Nat
  BY <1>5, <1>6, <1>7
<1> QED
  BY <1>7, <1>8

\* No transactions that extend the histories wait for one another in a circle, however
\* many claims they share: of a claim two of them want, each first takes the lock, and
\* the locks are taken in the claims' order (planning_uow).  That the events are
\* sorted by claim is not needed for it.
THEOREM NobodyWaitsInACircle == Spec => []NoCircularWait
<1>1. Init => LockInv
  BY InitLocks
<1>2. IInv /\ UnitInv /\ LockInv /\ [Next]_vars => LockInv'
  <2> SUFFICES ASSUME IInv, UnitInv, LockInv, [Next]_vars PROVE LockInv'
    OBVIOUS
  <2>1. CASE UNCHANGED vars
    <3>1. tx' = tx
      BY <2>1 DEF vars
    <3>2. \A w : ToLock(w)' = ToLock(w)
      BY <3>1 DEF ToLock
    <3> QED
      BY <3>1, <3>2 DEF LockInv, HeldOfOwn, OneHolderPerClaim, HeldInOrder, OneEventOfAReview
  <2>2. ASSUME NEW w \in Writers, Begin(w) \/ Review(w) \/ Proceed(w) \/ Abort(w)
        PROVE  LockInv'
    BY <2>2, LocksKept
  <2> QED
    BY <2>1, <2>2 DEF Next
<1>3. IInv /\ UnitInv /\ LockInv => NoCircularWait
  BY NoCircle
<1> QED
  BY <1>1, <1>2, <1>3, LedgerInvariants, PTL DEF Spec

-----------------------------------------------------------------------------
\* What follows an event in a chain, by the list whose links its rows are.
LEMMA SuccessorInList ==
  ASSUME NEW chain, NEW h, NEW n, Links(h, n, chain), NEW k \in 1 .. n
  PROVE  /\ k = 1 => After(chain, Root) = {h[k]}
         /\ k # 1 => After(chain, h[k - 1]) = {h[k]}
<1> DEFINE before == IF k = 1 THEN Root ELSE h[k - 1]
<1>1. /\ n \in Nat
      /\ \A i, j \in 1 .. n : h[i] = h[j] => i = j
      /\ \A i \in 1 .. n : h[i] # Root
      /\ chain = {Link(h, i) : i \in 1 .. n}
  BY DEF Links
<1>2. Link(h, k).ev = h[k] /\ Link(h, k).prev = before /\ Link(h, k) \in chain
  BY <1>1, LinkFields
<1>3. ASSUME NEW r \in chain, r.prev = before
      PROVE  r.ev = h[k]
  <2>1. NoFork(chain)
    BY WholeIsOneHistory DEF Whole
  <2> QED
    BY <1>2, <1>3, <2>1 DEF NoFork
<1> HIDE DEF before
<1>4. After(chain, before) = {h[k]}
  BY <1>2, <1>3 DEF After
<1> QED
  BY <1>4 DEF before

\* Following the links from the root gives that list.
LEMMA HistoryIsTheList ==
  ASSUME NEW chain, NEW h, NEW n, Links(h, n, chain)
  PROVE  HistoryOf(chain) = h
<1> DEFINE Nth(f, k) == CHOOSE e \in IF k = 1 THEN After(chain, Root)
                                     ELSE UNION {After(chain, last) : last \in {f[k - 1]}} : TRUE
           size == Cardinality(chain)
           nth == CHOOSE f : f = [k \in 1 .. size |-> Nth(f, k)]
<1>1. HistoryOf(chain) = [k \in 1 .. size |-> nth[k]]
  BY DEF HistoryOf
<1>2. n \in Nat /\ h = [k \in 1 .. n |-> h[k]]
  BY DEF Links
<1>3. size = n
  <2> DEFINE f == [k \in 1 .. n |-> Link(h, k)]
  <2>1. chain = {f[k] : k \in 1 .. n}
    BY DEF Links
  <2>2. \A i, j \in 1 .. n : f[i] = f[j] => i = j
    BY LinkFields DEF Links
  <2>3. f \in Bijection(1 .. n, chain)
    BY <2>1, <2>2 DEF Bijection, Injection, Surjection, IsInjective
  <2>4. IsFiniteSet(1 .. n) /\ Cardinality(1 .. n) = n
    BY <1>2, FS_Interval
  <2> HIDE DEF f
  <2> QED
    BY <2>3, <2>4, FS_Bijection DEF ExistsBijection
<1>4. ASSUME NEW f, NEW k \in 1 .. n, k # 1 => f[k - 1] = h[k - 1]
      PROVE  Nth(f, k) = h[k]
  <2>1. /\ k = 1 => After(chain, Root) = {h[k]}
        /\ k # 1 => After(chain, h[k - 1]) = {h[k]}
    BY SuccessorInList
  <2>2. (IF k = 1 THEN After(chain, Root) ELSE UNION {After(chain, last) : last \in {f[k - 1]}}) = {h[k]}
    <3>1. CASE k = 1
      BY <2>1, <3>1
    <3>2. CASE k # 1
      <4>1. UNION {After(chain, last) : last \in {f[k - 1]}} = After(chain, f[k - 1])
        OBVIOUS
      <4> QED
        BY <1>4, <2>1, <3>2, <4>1
    <3> QED
      BY <3>1, <3>2
  <2> QED
    BY <2>2
<1> HIDE DEF Nth, size
<1>5. nth = [k \in 1 .. n |-> Nth(nth, k)]
  <2>1. h = [k \in 1 .. n |-> Nth(h, k)]
    <3>1. \A k \in 1 .. n : Nth(h, k) = h[k]
      BY <1>4
    <3> QED
      BY <1>2, <3>1, Zenon
  <2>2. \E f : f = [k \in 1 .. size |-> Nth(f, k)]
    BY <1>3, <2>1
  <2> QED
    BY <1>3, <2>2, Zenon
<1> HIDE DEF nth
<1>6. ASSUME NEW k \in 1 .. n, nth[k] # h[k] PROVE FALSE
  <2> DEFINE wrong == {i \in 1 .. n : nth[i] # h[i]}
  <2>1. PICK i \in wrong : \A j \in wrong : i <= j
    <3>1. wrong \subseteq Nat /\ wrong # {}
      BY <1>6
    <3> HIDE DEF wrong
    <3> QED
      BY <3>1, LeastOfNaturals
  <2>2. i # 1 => nth[i - 1] = h[i - 1]
    <3>1. i # 1 => i - 1 \in 1 .. n /\ ~(i <= i - 1)
      BY <1>2, <2>1
    <3> QED
      BY <2>1, <3>1
  <2>3. Nth(nth, i) = h[i]
    BY <1>4, <2>1, <2>2
  <2>4. nth[i] = Nth(nth, i)
    BY <1>5, <2>1, Zenon
  <2> QED
    BY <2>1, <2>3, <2>4
<1>7. [k \in 1 .. size |-> nth[k]] = h
  BY <1>2, <1>3, <1>6, Zenon
<1> QED
  BY <1>1, <1>7

\* A whole chain with more rows has the shorter one's list at its beginning: the two
\* lists could only part where one event has two successors.
LEMMA GrowsAtItsEnd ==
  ASSUME NEW chain, NEW h, NEW n, Links(h, n, chain),
         NEW longer, NEW g, NEW m, Links(g, m, longer), chain \subseteq longer
  PROVE  n <= m /\ \A k \in 1 .. n : g[k] = h[k]
<1>1. /\ n \in Nat
      /\ \A i, j \in 1 .. n : h[i] = h[j] => i = j
      /\ \A i \in 1 .. n : h[i] # Root
      /\ chain = {Link(h, i) : i \in 1 .. n}
  BY DEF Links
<1>2. /\ m \in Nat
      /\ \A i, j \in 1 .. m : g[i] = g[j] => i = j
      /\ \A i \in 1 .. m : g[i] # Root
      /\ longer = {Link(g, i) : i \in 1 .. m}
  BY DEF Links
<1>3. ASSUME NEW k \in 1 .. n, k # 1 => k - 1 \in 1 .. m /\ g[k - 1] = h[k - 1]
      PROVE  k \in 1 .. m /\ g[k] = h[k]
  <2>1. PICK j \in 1 .. m : Link(h, k) = Link(g, j)
    BY <1>1, <1>2
  <2>2. h[k] = g[j]
    BY <2>1, LinkFields
  <2>3. CASE k = 1
    <3>1. j = 1
      <4>1. j # 1 => j - 1 \in 1 .. m /\ g[j - 1] = Root
        BY <1>2, <2>1, <2>3, LinkFields
      <4> QED
        BY <1>2, <4>1
    <3> QED
      BY <2>2, <2>3, <3>1
  <2>4. CASE k # 1
    <3>1. k - 1 \in 1 .. n
      BY <1>1, <2>4
    <3>2. j # 1
      BY <1>1, <2>1, <2>4, <3>1, LinkFields
    <3>3. j - 1 \in 1 .. m /\ g[j - 1] = g[k - 1]
      BY <1>2, <1>3, <2>1, <2>4, <3>2, LinkFields
    <3>4. j - 1 = k - 1
      BY <1>2, <1>3, <2>4, <3>3
    <3> QED
      BY <1>1, <1>2, <2>2, <3>4
  <2> QED
    BY <2>3, <2>4
<1> DEFINE parted == {k \in 1 .. n : ~(k \in 1 .. m /\ g[k] = h[k])}
<1>4. parted = {}
  <2>1. SUFFICES ASSUME parted # {} PROVE FALSE
    OBVIOUS
  <2>2. PICK k \in parted : \A j \in parted : k <= j
    <3>1. parted \subseteq Nat
      OBVIOUS
    <3> HIDE DEF parted
    <3> QED
      BY <2>1, <3>1, LeastOfNaturals
  <2>3. k # 1 => k - 1 \in 1 .. n /\ k - 1 \notin parted
    <3>1. k # 1 => k - 1 \in 1 .. n /\ ~(k <= k - 1)
      BY <1>1, <2>2
    <3> QED
      BY <2>2, <3>1
  <2> QED
    BY <1>3, <2>2, <2>3
<1>5. n # 0 => n \in 1 .. m
  BY <1>1, <1>4
<1> QED
  BY <1>1, <1>2, <1>4, <1>5

LEMMA SubSeqFromStart ==
  ASSUME NEW s, NEW n \in Nat
  PROVE  SubSeq(s, 1, n) = [k \in 1 .. n |-> s[k]]
  OBVIOUS

\* In the words of ClaimHistory.
LEMMA ExtendsTheHistory ==
  ASSUME NEW chain, NEW longer, Whole(chain), Whole(longer), chain \subseteq longer
  PROVE  /\ History!IsPrefix(HistoryOf(chain), HistoryOf(longer))
         /\ History!Distinct(HistoryOf(longer))
<1>1. PICK h, n : Links(h, n, chain)
  BY DEF Whole
<1>2. PICK g, m : Links(g, m, longer)
  BY DEF Whole
<1>3. HistoryOf(chain) = h /\ HistoryOf(longer) = g
  BY <1>1, <1>2, HistoryIsTheList
<1>4. n <= m /\ \A k \in 1 .. n : g[k] = h[k]
  BY <1>1, <1>2, GrowsAtItsEnd
<1>5. /\ n \in Nat /\ m \in Nat
      /\ h = [k \in 1 .. n |-> h[k]] /\ g = [k \in 1 .. m |-> g[k]]
      /\ \A i, j \in 1 .. m : g[i] = g[j] => i = j
  BY <1>1, <1>2 DEF Links
<1>6. Len(h) = n /\ Len(g) = m
  BY <1>5
<1>7. SubSeq(h, 1, n) = SubSeq(g, 1, n)
  <2>1. /\ SubSeq(h, 1, n) = [k \in 1 .. n |-> h[k]]
        /\ SubSeq(g, 1, n) = [k \in 1 .. n |-> g[k]]
    BY <1>5, SubSeqFromStart
  <2> QED
    BY <1>4, <2>1, Zenon
<1>8. History!IsPrefix(h, g)
  BY <1>4, <1>6, <1>7 DEF History!IsPrefix
<1>9. History!Distinct(g)
  BY <1>5 DEF History!Distinct
<1> QED
  BY <1>3, <1>8, <1>9

LEMMA EmptyHistory == HistoryOf({}) = <<>>
<1> DEFINE h == [k \in 1 .. 0 |-> Root]
<1>1. Links(h, 0, {})
  BY DEF Links
<1>2. HistoryOf({}) = h
  BY <1>1, HistoryIsTheList
<1> QED
  BY <1>2

\* The histories are what ClaimHistory promises their readers: all that ever happens to
\* one is that events it does not hold yet are put at its end (append_in_session;
\* list_for_claim).
THEOREM HistoriesOnlyGrow == Spec => ImplementsClaimHistory
<1>1. Init => History!Init
  BY EmptyHistory DEF Init, History!Init
<1>2. IInv /\ UnitInv /\ [Next]_vars => [History!Extend]_([c \in Claims |-> HistoryOf(rows[c])])
  <2> SUFFICES ASSUME IInv, UnitInv, [Next]_vars
               PROVE  [History!Extend]_([c \in Claims |-> HistoryOf(rows[c])])
    OBVIOUS
  <2>1. CASE rows' = rows
    BY <2>1
  <2>2. ASSUME NEW w \in Writers, Commit(w)
        PROVE  History!Extend
    <3>1. \A c \in Claims : rows[c] \subseteq rows'[c]
      BY <2>2 DEF Commit, Chain
    <3>2. RowsWhole /\ RowsWhole'
      BY StepPreserves DEF IInv
    <3>3. \A c \in Claims : /\ History!IsPrefix(HistoryOf(rows[c]), HistoryOf(rows'[c]))
                            /\ History!Distinct(HistoryOf(rows'[c]))
      BY <3>1, <3>2, ExtendsTheHistory DEF RowsWhole
    <3> QED
      BY <3>3 DEF History!Extend
  <2>3. CASE \E w \in Writers : ~Commit(w) /\ (Begin(w) \/ Review(w) \/ Proceed(w) \/ Abort(w))
    <3>1. rows' = rows
      BY <2>3 DEF Begin, Review, Proceed, Lock, Read, AppendInSession, Refuse, Mirror, Abort
    <3> QED
      BY <2>1, <3>1
  <2>4. CASE UNCHANGED vars
    BY <2>1, <2>4 DEF vars
  <2> QED
    BY <2>2, <2>3, <2>4 DEF Next
<1> QED
  BY <1>1, <1>2, LedgerInvariants, PTL DEF Spec, ImplementsClaimHistory, History!Spec

-----------------------------------------------------------------------------
(***************************************************************************)
(* The projection of what is published into the index                      *)
(* (KnowledgeProjection), for every set of tasks and dispatchers, every     *)
(* assignment of worker ids, lease, budget of attempts and back-off.       *)
(***************************************************************************)

TaskRows == [status : {"PENDING", "RUNNING", "SUCCEEDED", "FAILED"}, token : Nat]
Intents == [state : EffectStates, owner : Workers, left : 0 .. LeaseTicks,
            wait : 0 .. RetryCap, attempts : Nat, token : Nat]
Turns == [pc : {"idle", "working", "locked", "sent", "failed"},
          current : Tasks \cup {NoTask}, batch : [Tasks -> Nat]]

InDelivery(d) == disp[d].pc \in {"locked", "sent"}

\* One dispatcher at a time holds the lock of a row, ...
OneLocker ==
  \A d, e \in Dispatchers :
    InDelivery(d) /\ InDelivery(e) /\ disp[d].current = disp[e].current => d = e

\* ... under the lock the claim stays the owner of the intent, ...
LockersOwn == \A d \in Dispatchers : InDelivery(d) => OwnsIntent(d, disp[d].current)

\* ... whose call has taken effect when it comes to commit, ...
SentIsIndexed == \A d \in Dispatchers : disp[d].pc = "sent" => disp[d].current \in indexed

\* ... and who has turned to an intent has turned to a task's.
TurnedToTasks ==
  \A d \in Dispatchers : disp[d].pc \in {"locked", "sent", "failed"} => disp[d].current \in Tasks

\* A claimed intent has counted an attempt.
ClaimsAreCounted == \A t \in Tasks : effect[t].state = "DISPATCHING" => effect[t].attempts # 0

\* The inductive invariant: a receipt is committed under the lock that was held
\* when the ownership was checked and the call was made.
ProjectionInv ==
  /\ TypeOK /\ OneLocker /\ LockersOwn /\ SentIsIndexed /\ TurnedToTasks
  /\ ClaimsAreCounted /\ CompletedMeansIndexed

-----------------------------------------------------------------------------
LEMMA Types ==
  TypeOK <=> /\ task \in [Tasks -> TaskRows] /\ effect \in [Tasks -> Intents]
             /\ indexed \subseteq Tasks /\ disp \in [Dispatchers -> Turns]
BY DEF TypeOK, TaskRows, Intents, Turns

LEMMA Constants ==
  /\ NoEffect \in Intents /\ Resting \in Turns /\ NoTask \notin Tasks
  /\ NoWorker \in Workers /\ \A d \in Dispatchers : WorkerOf[d] \in Workers
  /\ EffectStates = {"NONE", "PENDING", "DISPATCHING", "COMPLETED", "DEAD_LETTER"}
  /\ LeaseTicks \in Nat /\ RetryCap \in Nat /\ RetryBase \in Nat
BY ProjectionAssumption DEF NoEffect, Resting, Intents, Turns, Workers, EffectStates

\* The delay before another attempt is no longer than the cap.
LEMMA DelayBounded ==
  ASSUME NEW attempts \in Nat, attempts # 0
  PROVE  Delay(attempts) \in 0 .. RetryCap
<1> DEFINE k == Least(attempts - 1, 8)
<1>1. k \in 0 .. 8
  BY DEF Least
<1>2. 2 ^ k \in Nat
  <2> HIDE DEF k
  <2>1. k = 0 \/ k = 1 \/ k = 2 \/ k = 3 \/ k = 4 \/ k = 5 \/ k = 6 \/ k = 7 \/ k = 8
    BY <1>1
  <2>2. /\ 2 ^ 0 \in Nat /\ 2 ^ 1 \in Nat /\ 2 ^ 2 \in Nat /\ 2 ^ 3 \in Nat /\ 2 ^ 4 \in Nat
        /\ 2 ^ 5 \in Nat /\ 2 ^ 6 \in Nat /\ 2 ^ 7 \in Nat /\ 2 ^ 8 \in Nat
    OBVIOUS
  <2> QED
    BY <2>1, <2>2, Zenon
<1> DEFINE delay == RetryBase * 2 ^ k
<1>3. delay \in Nat
  <2> DEFINE power == 2 ^ k
  <2>1. power \in Nat
    BY <1>2
  <2> HIDE DEF power
  <2>2. RetryBase * power \in Nat
    BY <2>1, Constants
  <2> QED
    BY <2>2 DEF power
<1>4. Delay(attempts) = Least(RetryCap, delay)
  BY DEF Delay
<1> HIDE DEF delay
<1> QED
  BY <1>3, <1>4, Constants DEF Least

\* The intents a step may write.
Settles(e) == [e EXCEPT !.state = "COMPLETED", !.owner = NoWorker, !.left = 0]
Elapsed(e) == [e EXCEPT !.left = IF @ > 0 THEN @ - 1 ELSE 0, !.wait = IF @ > 0 THEN @ - 1 ELSE 0]

LEMMA StateReplaced ==
  ASSUME NEW e \in Intents, NEW state \in EffectStates, NEW owner \in Workers,
         NEW left \in 0 .. LeaseTicks, NEW wait \in 0 .. RetryCap
  PROVE  /\ [e EXCEPT !.state = state, !.owner = owner, !.left = left] \in Intents
         /\ [e EXCEPT !.state = state, !.owner = owner, !.left = left, !.wait = wait] \in Intents
BY Zenon DEF Intents

LEMMA IntendedTyped ==
  ASSUME NEW e \in Intents, NEW token \in Nat
  PROVE  /\ Intended(e, token) \in Intents
         /\ Intended(e, token).state = IF e.state = "NONE" THEN "PENDING" ELSE e.state
         /\ Intended(e, token).attempts = IF e.state = "NONE" THEN 0 ELSE e.attempts
BY Constants DEF Intended, Intents, NoEffect

LEMMA LeasedTyped ==
  ASSUME NEW e \in Intents, NEW w \in Workers
  PROVE  Leased(e, w) \in Intents /\ Leased(e, w).token \in Nat
BY Constants DEF Leased, Intents

LEMMA SettlesTyped ==
  ASSUME NEW e \in Intents
  PROVE  Settles(e) \in Intents /\ Settles(e).state = "COMPLETED"
<1> DEFINE zero == 0
           state == "COMPLETED"
<1>1. zero \in 0 .. LeaseTicks /\ state \in EffectStates /\ NoWorker \in Workers
  BY Constants
<1>2. zero \in 0 .. RetryCap
  BY Constants
<1> HIDE DEF zero, state
<1>3. [e EXCEPT !.state = state, !.owner = NoWorker, !.left = zero] \in Intents
  BY <1>1, <1>2, StateReplaced
<1>4. [e EXCEPT !.state = state, !.owner = NoWorker, !.left = zero].state = state
  BY DEF Intents
<1> QED
  BY <1>3, <1>4, Zenon DEF Settles, state, zero

LEMMA RescheduledTyped ==
  ASSUME NEW e \in Intents, e.attempts # 0
  PROVE  Rescheduled(e) \in Intents /\ Rescheduled(e).state \in {"PENDING", "DEAD_LETTER"}
<1> DEFINE zero == 0
           dead == "DEAD_LETTER"
           pending == "PENDING"
           wait == Delay(e.attempts)
<1>1. /\ zero \in 0 .. LeaseTicks /\ {dead, pending} \subseteq EffectStates
      /\ NoWorker \in Workers
  BY Constants
<1>2. wait \in 0 .. RetryCap
  BY DelayBounded DEF Intents
<1> HIDE DEF zero, dead, pending, wait
<1>3. /\ [e EXCEPT !.state = dead, !.owner = NoWorker, !.left = zero] \in Intents
      /\ [e EXCEPT !.state = pending, !.owner = NoWorker, !.left = zero, !.wait = wait] \in Intents
  BY <1>1, <1>2, StateReplaced
<1>4. /\ [e EXCEPT !.state = dead, !.owner = NoWorker, !.left = zero].state = dead
      /\ [e EXCEPT !.state = pending, !.owner = NoWorker, !.left = zero, !.wait = wait].state = pending
  BY DEF Intents
<1>5. \/ Rescheduled(e) = [e EXCEPT !.state = dead, !.owner = NoWorker, !.left = zero]
      \/ Rescheduled(e) = [e EXCEPT !.state = pending, !.owner = NoWorker, !.left = zero, !.wait = wait]
  BY Zenon DEF Rescheduled, dead, pending, wait, zero
<1> QED
  BY <1>3, <1>4, <1>5, Zenon DEF dead, pending

LEMMA ElapsedTyped ==
  ASSUME NEW e \in Intents
  PROVE  /\ Elapsed(e) \in Intents /\ Elapsed(e).state = e.state /\ Elapsed(e).owner = e.owner
         /\ Elapsed(e).token = e.token /\ Elapsed(e).attempts = e.attempts
<1> DEFINE left == IF e.left > 0 THEN e.left - 1 ELSE 0
           wait == IF e.wait > 0 THEN e.wait - 1 ELSE 0
<1>1. left \in 0 .. LeaseTicks /\ wait \in 0 .. RetryCap
  BY Constants DEF Intents
<1>2. Elapsed(e) = [e EXCEPT !.left = left, !.wait = wait]
  BY DEF Elapsed
<1> HIDE DEF left, wait
<1> QED
  BY <1>1, <1>2 DEF Intents

-----------------------------------------------------------------------------
\* Dropping a claim leaves the dispatcher outside of any delivery.
LEMMA DroppedTyped ==
  ASSUME NEW d \in Dispatchers, NEW t \in Tasks, disp \in [Dispatchers -> Turns]
  PROVE  Dropped(d, t) \in Turns /\ Dropped(d, t).pc \in {"idle", "working"}
BY Constants DEF Dropped, Turns, Resting

LEMMA TypeInit == ProjectionInit => TypeOK
BY Constants, Types DEF ProjectionInit, TaskRows

LEMMA TypeStep ==
  ASSUME TypeOK, TurnedToTasks, ClaimsAreCounted, [ProjectionNext]_projectionVars
  PROVE  TypeOK'
<1>0. /\ task \in [Tasks -> TaskRows] /\ effect \in [Tasks -> Intents]
      /\ indexed \subseteq Tasks /\ disp \in [Dispatchers -> Turns]
  BY Types
<1> SUFFICES /\ task' \in [Tasks -> TaskRows] /\ effect' \in [Tasks -> Intents]
             /\ indexed' \subseteq Tasks /\ disp' \in [Dispatchers -> Turns]
  BY DEF TypeOK, TaskRows, Intents, Turns
<1>1. CASE Tick
  <2>1. effect' = [t \in Tasks |-> Elapsed(effect[t])]
    BY <1>1 DEF Tick, Elapsed
  <2>2. effect' \in [Tasks -> Intents]
    BY <1>0, <2>1, ElapsedTyped
  <2> QED
    BY <1>0, <1>1, <2>2 DEF Tick
<1>2. ASSUME NEW t \in Tasks, ClaimTask(t) \/ CompleteTask(t) \/ FailTask(t)
      PROVE  task' \in [Tasks -> TaskRows] /\ UNCHANGED <<effect, indexed, disp>>
  BY <1>0, <1>2 DEF ClaimTask, CompleteTask, FailTask, TaskRows
<1>3. ASSUME NEW t \in Tasks, PrepareExternal(t)
      PROVE  effect' \in [Tasks -> Intents] /\ UNCHANGED <<task, indexed, disp>>
  <2>1. task[t].token \in Nat
    BY <1>0 DEF TaskRows
  <2> QED
    BY <1>0, <1>3, <2>1, IntendedTyped DEF PrepareExternal
<1>4. ASSUME NEW d \in Dispatchers, ClaimDue(d)
      PROVE  effect' \in [Tasks -> Intents] /\ disp' \in [Dispatchers -> Turns] /\ UNCHANGED <<task, indexed>>
  <2> DEFINE due == {t \in Tasks : Due(effect[t]) /\ ~Locked(t) /\ effect[t].attempts < AttemptBound}
             batch == [t \in Tasks |-> IF t \in due THEN effect'[t].token ELSE 0]
  <2>1. effect' \in [Tasks -> Intents]
    BY <1>0, <1>4, Constants, LeasedTyped DEF ClaimDue
  <2>2. batch \in [Tasks -> Nat]
    BY <2>1 DEF Intents
  <2>3. disp' = [disp EXCEPT ![d].pc = "working", ![d].batch = batch]
    BY <1>4 DEF ClaimDue
  <2> HIDE DEF batch, due
  <2>4. [disp[d] EXCEPT !.pc = "working", !.batch = batch] \in Turns
    BY <1>0, <2>2 DEF Turns
  <2>5. disp' = [disp EXCEPT ![d] = [disp[d] EXCEPT !.pc = "working", !.batch = batch]]
    BY <1>0, <2>3
  <2>6. disp' \in [Dispatchers -> Turns]
    BY <1>0, <2>4, <2>5
  <2> QED
    BY <1>4, <2>1, <2>6 DEF ClaimDue
<1>5. ASSUME NEW d \in Dispatchers, NEW t \in Tasks, LoadFails(d, t) \/ Enter(d, t)
      PROVE  disp' \in [Dispatchers -> Turns] /\ UNCHANGED <<task, effect, indexed>>
  <2>1. PICK pc \in {"failed", "locked"} : disp' = [disp EXCEPT ![d].pc = pc, ![d].current = t]
    BY <1>5 DEF LoadFails, Enter
  <2>2. [disp[d] EXCEPT !.pc = pc, !.current = t] \in Turns
    BY <1>0 DEF Turns
  <2>3. disp' = [disp EXCEPT ![d] = [disp[d] EXCEPT !.pc = pc, !.current = t]]
    BY <1>0, <2>1
  <2> QED
    BY <1>0, <1>5, <2>2, <2>3 DEF LoadFails, Enter
<1>6. ASSUME NEW d \in Dispatchers, NEW t \in Tasks, Index(d, t) \/ IndexFails(d, t)
      PROVE  disp' \in [Dispatchers -> Turns] /\ indexed' \subseteq Tasks /\ UNCHANGED <<task, effect>>
  <2>1. PICK pc \in {"sent", "failed"} : disp' = [disp EXCEPT ![d].pc = pc]
    BY <1>6 DEF Index, IndexFails
  <2>2. [disp[d] EXCEPT !.pc = pc] \in Turns
    BY <1>0 DEF Turns
  <2>3. disp' \in [Dispatchers -> Turns]
    BY <1>0, <2>1, <2>2
  <2> QED
    BY <1>0, <1>6, <2>3 DEF Index, IndexFails
<1>7. ASSUME NEW d \in Dispatchers, NEW t \in Tasks, disp' = [disp EXCEPT ![d] = Dropped(d, t)]
      PROVE  disp' \in [Dispatchers -> Turns]
  BY <1>0, <1>7, DroppedTyped
<1>8. ASSUME NEW d \in Dispatchers, NEW t \in Tasks, Settle(d, t)
      PROVE  effect' \in [Tasks -> Intents] /\ disp' \in [Dispatchers -> Turns] /\ UNCHANGED <<task, indexed>>
  <2>1. effect' = [effect EXCEPT ![t] = Settles(effect[t])]
    BY <1>0, <1>8 DEF Settle, Settles
  <2>2. effect' \in [Tasks -> Intents]
    BY <1>0, <2>1, SettlesTyped
  <2>3. disp' = [disp EXCEPT ![d] = Dropped(d, t)] /\ UNCHANGED <<task, indexed>>
    BY <1>8 DEF Settle
  <2> QED
    BY <1>7, <2>2, <2>3
<1>9. ASSUME NEW d \in Dispatchers, NEW t \in Tasks, Retry(d, t)
      PROVE  effect' \in [Tasks -> Intents] /\ disp' \in [Dispatchers -> Turns] /\ UNCHANGED <<task, indexed>>
  <2>1. effect[t].attempts # 0
    BY <1>9 DEF Retry, Owns, Owned, ClaimsAreCounted
  <2> QED
    BY <1>0, <1>7, <1>9, <2>1, RescheduledTyped DEF Retry
<1>10. ASSUME NEW d \in Dispatchers, NEW t \in Tasks, ClaimLost(d, t)
       PROVE  disp' \in [Dispatchers -> Turns] /\ UNCHANGED <<task, effect, indexed>>
  BY <1>7, <1>10 DEF ClaimLost
<1>11. ASSUME NEW d \in Dispatchers, Crash(d)
       PROVE  disp' \in [Dispatchers -> Turns] /\ UNCHANGED <<task, effect, indexed>>
  BY <1>0, <1>11, Constants DEF Crash
<1>12. CASE UNCHANGED projectionVars
  BY <1>0, <1>12 DEF projectionVars
<1> QED
  BY <1>0, <1>1, <1>2, <1>3, <1>4, <1>5, <1>6, <1>8, <1>9, <1>10, <1>11, <1>12 DEF ProjectionNext

-----------------------------------------------------------------------------
\* d owns the intent t when the step is done.
OwnsAfter(d, t) ==
  /\ effect'[t].state = "DISPATCHING" /\ effect'[t].owner = WorkerOf[d]
  /\ effect'[t].token = disp'[d].batch[t]

\* As long as a dispatcher keeps its lock, it keeps its intent.
LEMMA RowUnderLock ==
  ASSUME ProjectionInv, [ProjectionNext]_projectionVars, NEW d \in Dispatchers, InDelivery(d), InDelivery(d)'
  PROVE  OwnsAfter(d, disp[d].current) /\ disp'[d].current = disp[d].current
<1> DEFINE t == disp[d].current
<1>0. /\ effect \in [Tasks -> Intents] /\ disp \in [Dispatchers -> Turns]
      /\ t \in Tasks /\ Locked(t) /\ OwnsIntent(d, t)
  BY Types DEF ProjectionInv, InDelivery, TurnedToTasks, LockersOwn, Locked
<1>1. ASSUME effect'[t].state = effect[t].state, effect'[t].owner = effect[t].owner,
             effect'[t].token = effect[t].token, disp'[d].batch = disp[d].batch
      PROVE  OwnsAfter(d, t)
  BY <1>0, <1>1 DEF OwnsIntent, OwnsAfter
<1>2. CASE Tick
  <2>1. effect'[t] = Elapsed(effect[t]) /\ disp' = disp
    BY <1>0, <1>2 DEF Tick, Elapsed
  <2> QED
    BY <1>0, <1>1, <2>1, ElapsedTyped
<1>3. ASSUME NEW u \in Tasks, ClaimTask(u) \/ CompleteTask(u) \/ FailTask(u)
      PROVE  OwnsAfter(d, t) /\ disp'[d].current = t
  BY <1>1, <1>3 DEF ClaimTask, CompleteTask, FailTask
<1>4. ASSUME NEW u \in Tasks, PrepareExternal(u)
      PROVE  OwnsAfter(d, t) /\ disp'[d].current = t
  <2>1. u # t
    BY <1>0, <1>4 DEF PrepareExternal
  <2> QED
    BY <1>0, <1>1, <1>4, <2>1 DEF PrepareExternal
<1>5. ASSUME NEW e \in Dispatchers, ClaimDue(e)
      PROVE  OwnsAfter(d, t) /\ disp'[d].current = t
  <2>1. effect'[t] = effect[t]
    BY <1>0, <1>5 DEF ClaimDue
  <2>2. disp'[d] = disp[d]
    BY <1>0, <1>5 DEF ClaimDue, InDelivery
  <2> QED
    BY <1>1, <2>1, <2>2
<1>6. ASSUME NEW e \in Dispatchers, NEW u \in Tasks,
             LoadFails(e, u) \/ Enter(e, u) \/ Index(e, u) \/ IndexFails(e, u)
      PROVE  OwnsAfter(d, t) /\ disp'[d].current = t
  <2>1. effect' = effect /\ disp'[d].batch = disp[d].batch
    BY <1>0, <1>6 DEF LoadFails, Enter, Index, IndexFails, Turns
  <2>2. disp'[d].current = t
    BY <1>0, <1>6 DEF LoadFails, Enter, Index, IndexFails, Turns, Turn, InDelivery
  <2> QED
    BY <1>1, <2>1, <2>2
<1>7. ASSUME NEW e \in Dispatchers, NEW u \in Tasks, Settle(e, u)
      PROVE  OwnsAfter(d, t) /\ disp'[d].current = t
  <2>1. e # d
    BY <1>0, <1>7, DroppedTyped DEF Settle, InDelivery
  <2>2. u # t
    BY <1>7, <2>1 DEF Settle, InDelivery, ProjectionInv, OneLocker
  <2> QED
    BY <1>0, <1>1, <1>7, <2>1, <2>2 DEF Settle
<1>8. ASSUME NEW e \in Dispatchers, NEW u \in Tasks, Retry(e, u)
      PROVE  OwnsAfter(d, t) /\ disp'[d].current = t
  <2>1. e # d /\ u # t
    BY <1>0, <1>8, DroppedTyped DEF Retry, InDelivery
  <2> QED
    BY <1>0, <1>1, <1>8, <2>1 DEF Retry
<1>9. ASSUME NEW e \in Dispatchers, NEW u \in Tasks, ClaimLost(e, u)
      PROVE  OwnsAfter(d, t) /\ disp'[d].current = t
  <2>1. e # d
    BY <1>0, <1>9, DroppedTyped DEF ClaimLost, InDelivery
  <2> QED
    BY <1>0, <1>1, <1>9, <2>1 DEF ClaimLost
<1>10. ASSUME NEW e \in Dispatchers, Crash(e)
       PROVE  OwnsAfter(d, t) /\ disp'[d].current = t
  <2>1. e # d
    BY <1>0, <1>10 DEF Crash, InDelivery, Resting
  <2> QED
    BY <1>0, <1>1, <1>10, <2>1 DEF Crash
<1>11. CASE UNCHANGED projectionVars
  BY <1>1, <1>11 DEF projectionVars
<1> QED
  BY <1>0, <1>1, <1>2, <1>3, <1>4, <1>5, <1>6, <1>7, <1>8, <1>9, <1>10, <1>11 DEF ProjectionNext, Tick

\* A dispatcher that begins to hold a lock owns the intent and is alone.
LEMMA LockTaken ==
  ASSUME ProjectionInv, [ProjectionNext]_projectionVars, NEW d \in Dispatchers, ~InDelivery(d), InDelivery(d)'
  PROVE  \E t \in Tasks : Enter(d, t)
<1>0. disp \in [Dispatchers -> Turns]
  BY Types DEF ProjectionInv
<1>1. disp'[d].pc # disp[d].pc /\ disp'[d].pc \in {"locked", "sent"}
  BY DEF InDelivery
<1>2. ~Tick /\ ~UNCHANGED projectionVars
  BY <1>1 DEF Tick, projectionVars
<1>3. ASSUME NEW t \in Tasks
      PROVE  ~(ClaimTask(t) \/ PrepareExternal(t) \/ CompleteTask(t) \/ FailTask(t))
  BY <1>1 DEF ClaimTask, PrepareExternal, CompleteTask, FailTask
<1>4. PICK e \in Dispatchers :
        \/ ClaimDue(e) \/ Crash(e)
        \/ \E t \in Tasks :
             \/ LoadFails(e, t) \/ Enter(e, t) \/ Index(e, t) \/ IndexFails(e, t)
             \/ Settle(e, t) \/ Retry(e, t) \/ ClaimLost(e, t)
  BY <1>2, <1>3 DEF ProjectionNext
<1>5. ~ClaimDue(e) /\ ~Crash(e)
  BY <1>0, <1>1 DEF ClaimDue, Crash, Resting, Turns
<1>6. ASSUME NEW t \in Tasks
      PROVE  ~LoadFails(e, t) /\ ~Index(e, t) /\ ~IndexFails(e, t)
  BY <1>0, <1>1 DEF LoadFails, Index, IndexFails, InDelivery, Turns
<1>7. ASSUME NEW t \in Tasks
      PROVE  ~Settle(e, t) /\ ~Retry(e, t) /\ ~ClaimLost(e, t)
  BY <1>0, <1>1, DroppedTyped DEF Settle, Retry, ClaimLost
<1>8. PICK t \in Tasks : Enter(e, t)
  BY <1>4, <1>5, <1>6, <1>7
<1>9. e = d
  BY <1>0, <1>1, <1>8 DEF Enter
<1> QED
  BY <1>8, <1>9

LEMMA EnterFacts ==
  ASSUME disp \in [Dispatchers -> Turns], NEW d \in Dispatchers, NEW t \in Tasks, Enter(d, t)
  PROVE  /\ disp'[d].current = t /\ disp'[d].pc = "locked" /\ OwnsAfter(d, t) /\ ~Locked(t)
         /\ \A e \in Dispatchers \ {d} : disp'[e] = disp[e]
BY DEF Enter, Owns, Owned, OwnsAfter, Turns

LEMMA LocksStep ==
  ASSUME ProjectionInv, [ProjectionNext]_projectionVars
  PROVE  OneLocker' /\ LockersOwn'
<1>0. disp \in [Dispatchers -> Turns] /\ OneLocker
  BY Types DEF ProjectionInv
<1>1. LockersOwn'
  <2> SUFFICES ASSUME NEW d \in Dispatchers, InDelivery(d)'
               PROVE  OwnsAfter(d, disp'[d].current)
    BY DEF LockersOwn, OwnsIntent, OwnsAfter
  <2>1. CASE InDelivery(d)
    BY <2>1, RowUnderLock
  <2>2. CASE ~InDelivery(d)
    BY <1>0, <2>2, LockTaken, EnterFacts
  <2> QED
    BY <2>1, <2>2
<1>2. OneLocker'
  <2> SUFFICES ASSUME NEW d \in Dispatchers, NEW e \in Dispatchers, d # e,
                      InDelivery(d)', InDelivery(e)', disp'[d].current = disp'[e].current
               PROVE  FALSE
    BY DEF OneLocker
  <2>1. ASSUME NEW a \in Dispatchers, NEW b \in Dispatchers, a # b,
               InDelivery(a)', InDelivery(b)', disp'[a].current = disp'[b].current, ~InDelivery(a)
        PROVE  FALSE
    <3>1. PICK t \in Tasks : Enter(a, t)
      BY <2>1, LockTaken
    <3>2. disp'[a].current = t /\ ~Locked(t) /\ disp'[b] = disp[b]
      BY <1>0, <2>1, <3>1, EnterFacts
    <3> QED
      BY <2>1, <3>2 DEF Locked, InDelivery
  <2>2. CASE InDelivery(d) /\ InDelivery(e)
    BY <1>0, <2>2, RowUnderLock DEF OneLocker
  <2> QED
    BY <2>1, <2>2
<1> QED
  BY <1>1, <1>2

-----------------------------------------------------------------------------
\* The index only grows, and a lock is followed by a call, a call by a commit.
LEMMA DeliveryStep ==
  ASSUME ProjectionInv, [ProjectionNext]_projectionVars, NEW d \in Dispatchers
  PROVE  /\ indexed \subseteq indexed'
         /\ disp'[d].pc = "sent" => disp'[d].current \in indexed'
         /\ disp'[d].pc \in {"locked", "sent", "failed"} => disp'[d].current \in Tasks
<1>0. /\ disp \in [Dispatchers -> Turns]
      /\ disp[d].pc = "sent" => disp[d].current \in indexed
      /\ disp[d].pc \in {"locked", "sent", "failed"} => disp[d].current \in Tasks
  BY Types DEF ProjectionInv, SentIsIndexed, TurnedToTasks
<1> DEFINE Goal == /\ indexed \subseteq indexed'
                   /\ disp'[d].pc = "sent" => disp'[d].current \in indexed'
                   /\ disp'[d].pc \in {"locked", "sent", "failed"} => disp'[d].current \in Tasks
<1>1. ASSUME UNCHANGED <<indexed, disp>>
      PROVE  Goal
  BY <1>0, <1>1
<1>2. ASSUME NEW e \in Dispatchers, ClaimDue(e) \/ Crash(e)
      PROVE  Goal
  <2>1. /\ disp'[d].pc \in {"idle", "working"} \/ disp'[d] = disp[d]
        /\ indexed' = indexed
    <3>1. CASE ClaimDue(e)
      <4>1. PICK batch : disp' = [disp EXCEPT ![e].pc = "working", ![e].batch = batch]
        BY <3>1 DEF ClaimDue
      <4> QED
        BY <1>0, <3>1, <4>1 DEF ClaimDue, Turns
    <3>2. CASE Crash(e)
      BY <1>0, <3>2 DEF Crash, Resting
    <3> QED
      BY <1>2, <3>1, <3>2
  <2> QED
    BY <1>0, <2>1
<1>3. ASSUME NEW e \in Dispatchers, NEW t \in Tasks, LoadFails(e, t) \/ Enter(e, t)
      PROVE  Goal
  BY <1>0, <1>3 DEF LoadFails, Enter, Turns
<1>4. ASSUME NEW e \in Dispatchers, NEW t \in Tasks, Index(e, t) \/ IndexFails(e, t)
      PROVE  Goal
  BY <1>0, <1>4 DEF Index, IndexFails, Turns
<1>5. ASSUME NEW e \in Dispatchers, NEW t \in Tasks, Settle(e, t) \/ Retry(e, t) \/ ClaimLost(e, t)
      PROVE  Goal
  BY <1>0, <1>5, DroppedTyped DEF Settle, Retry, ClaimLost
<1> QED
  BY <1>1, <1>2, <1>3, <1>4, <1>5
  DEF ProjectionNext, projectionVars, Tick, ClaimTask, PrepareExternal, CompleteTask, FailTask

\* Who may end the dispatching of an intent, and who may complete it.
LEMMA IntentStep ==
  ASSUME ProjectionInv, [ProjectionNext]_projectionVars, NEW t \in Tasks
  PROVE  /\ effect'[t].state = "DISPATCHING" => effect'[t].attempts # 0
         /\ effect'[t].state = "COMPLETED" => t \in indexed'
         /\ effect[t].state = "DISPATCHING" /\ effect'[t].state # "DISPATCHING"
              => \E d \in Dispatchers : OwnsIntent(d, t) /\ disp'[d] # disp[d]
<1>0. /\ effect \in [Tasks -> Intents] /\ disp \in [Dispatchers -> Turns] /\ effect[t] \in Intents
      /\ effect[t].state = "DISPATCHING" => effect[t].attempts # 0
      /\ effect[t].state = "COMPLETED" => t \in indexed
      /\ task \in [Tasks -> TaskRows]
  BY Types DEF ProjectionInv, ClaimsAreCounted, CompletedMeansIndexed
<1> DEFINE Goal == /\ effect'[t].state = "DISPATCHING" => effect'[t].attempts # 0
                   /\ effect'[t].state = "COMPLETED" => t \in indexed'
                   /\ effect[t].state = "DISPATCHING" /\ effect'[t].state # "DISPATCHING"
                        => \E d \in Dispatchers : OwnsIntent(d, t) /\ disp'[d] # disp[d]
<1>1. ASSUME effect'[t].state = effect[t].state, effect'[t].attempts = effect[t].attempts,
             indexed \subseteq indexed'
      PROVE  Goal
  BY <1>0, <1>1
<1>2. CASE Tick
  <2>1. effect'[t] = Elapsed(effect[t]) /\ indexed' = indexed
    BY <1>2 DEF Tick, Elapsed
  <2> QED
    BY <1>0, <1>1, <2>1, ElapsedTyped
<1>3. ASSUME effect' = effect, indexed \subseteq indexed'
      PROVE  Goal
  BY <1>1, <1>3
<1>4. ASSUME NEW u \in Tasks, PrepareExternal(u)
      PROVE  Goal
  <2>1. task[u].token \in Nat
    BY <1>0 DEF TaskRows
  <2>2. effect'[t] = IF t = u THEN Intended(effect[t], task[t].token) ELSE effect[t]
    BY <1>0, <1>4 DEF PrepareExternal
  <2>3. indexed' = indexed
    BY <1>4 DEF PrepareExternal
  <2> QED
    BY <1>0, <1>1, <2>1, <2>2, <2>3, IntendedTyped
<1>5. ASSUME NEW e \in Dispatchers, ClaimDue(e)
      PROVE  Goal
  <2>1. /\ effect'[t] = effect[t] \/ effect'[t] = Leased(effect[t], WorkerOf[e])
        /\ indexed' = indexed
    BY <1>5 DEF ClaimDue
  <2>2. effect[t].attempts + 1 # 0 /\ effect[t].attempts \in Nat
    BY <1>0 DEF Intents
  <2> QED
    BY <1>1, <2>1, <2>2 DEF Leased
<1>6. ASSUME NEW e \in Dispatchers, NEW u \in Tasks, Settle(e, u)
      PROVE  Goal
  <2>1. effect'[t] = IF t = u THEN Settles(effect[t]) ELSE effect[t]
    BY <1>0, <1>6 DEF Settle, Settles
  <2>2. u \in indexed /\ OwnsIntent(e, u) /\ indexed' = indexed
    BY <1>6 DEF Settle, ProjectionInv, SentIsIndexed, LockersOwn, InDelivery
  <2>3. disp'[e] # disp[e]
    BY <1>0, <1>6, DroppedTyped DEF Settle
  <2> QED
    BY <1>0, <1>1, <2>1, <2>2, <2>3, SettlesTyped
<1>7. ASSUME NEW e \in Dispatchers, NEW u \in Tasks, Retry(e, u)
      PROVE  Goal
  <2>1. effect'[t] = IF t = u THEN Rescheduled(effect[t]) ELSE effect[t]
    BY <1>0, <1>7 DEF Retry
  <2>2. OwnsIntent(e, u) /\ indexed' = indexed
    BY <1>7 DEF Retry, Owns, Owned, OwnsIntent
  <2>3. disp'[e] # disp[e]
    BY <1>0, <1>7, DroppedTyped DEF Retry
  <2>4. effect[u].state = "DISPATCHING"
    BY <2>2 DEF OwnsIntent
  <2> QED
    BY <1>0, <1>1, <2>1, <2>2, <2>3, <2>4, RescheduledTyped
<1> QED
  BY <1>2, <1>3, <1>4, <1>5, <1>6, <1>7, DeliveryStep
  DEF ProjectionNext, projectionVars, ClaimTask, CompleteTask, FailTask, Crash, LoadFails, Enter, Index, IndexFails, ClaimLost

-----------------------------------------------------------------------------
LEMMA ProjectionInvInit == ProjectionInit => ProjectionInv
<1> SUFFICES ASSUME ProjectionInit
             PROVE  ProjectionInv
  OBVIOUS
<1>1. TypeOK
  BY TypeInit
<1>2. \A d \in Dispatchers : disp[d].pc = "idle"
  BY DEF ProjectionInit, Resting
<1>3. \A t \in Tasks : effect[t].state = "NONE"
  BY DEF ProjectionInit, NoEffect
<1> QED
  BY <1>1, <1>2, <1>3
  DEF ProjectionInv, OneLocker, LockersOwn, SentIsIndexed, TurnedToTasks, InDelivery,
      ClaimsAreCounted, CompletedMeansIndexed

LEMMA ProjectionInvStep == ProjectionInv /\ [ProjectionNext]_projectionVars => ProjectionInv'
<1> SUFFICES ASSUME ProjectionInv, [ProjectionNext]_projectionVars
             PROVE  ProjectionInv'
  OBVIOUS
<1>1. TypeOK'
  BY TypeStep DEF ProjectionInv
<1>2. OneLocker' /\ LockersOwn'
  BY LocksStep
<1>3. \A d \in Dispatchers :
        /\ disp'[d].pc = "sent" => disp'[d].current \in indexed'
        /\ disp'[d].pc \in {"locked", "sent", "failed"} => disp'[d].current \in Tasks
  BY DeliveryStep
<1>4. \A t \in Tasks :
        /\ effect'[t].state = "DISPATCHING" => effect'[t].attempts # 0
        /\ effect'[t].state = "COMPLETED" => t \in indexed'
  BY IntentStep
<1> QED
  BY <1>1, <1>2, <1>3, <1>4
  DEF ProjectionInv, SentIsIndexed, TurnedToTasks, ClaimsAreCounted, CompletedMeansIndexed

\* The invariant holds of every state that attempts and dispatchers reach.
THEOREM ProjectionInvariant == ProjectionSpec => []ProjectionInv
BY ProjectionInvInit, ProjectionInvStep, PTL DEF ProjectionSpec

\* Every task, intent and batch keeps its shape (content_task_effect in models.py).
THEOREM TypeCorrect == ProjectionSpec => []TypeOK
<1>1. ProjectionInv => TypeOK
  BY DEF ProjectionInv
<1> QED
  BY <1>1, ProjectionInvariant, PTL

\* An intent is COMPLETED only if its knowledge went into the index, whatever
\* dispatchers died, lost their lease or were taken over (_dispatch_claim).
THEOREM ReceiptsAreBacked == ProjectionSpec => []CompletedMeansIndexed
<1>1. ProjectionInv => CompletedMeansIndexed
  BY DEF ProjectionInv
<1> QED
  BY <1>1, ProjectionInvariant, PTL

\* The index is called, and an intent completed or given back, only by the claim
\* whose token the row carries (_owned under the row lock in _dispatch_claim and
\* _retry).
THEOREM OwnersAct == ProjectionSpec => OnlyOwnerActs
<1>1. ProjectionInv /\ [ProjectionNext]_projectionVars =>
        \A t \in Tasks :
          /\ \A d \in Dispatchers :
               disp[d].pc = "locked" /\ disp[d].current = t /\ disp'[d].pc \in {"sent", "failed"}
                 => OwnsIntent(d, t)
          /\ effect[t].state = "DISPATCHING" /\ effect'[t].state # "DISPATCHING"
               => \E d \in Dispatchers : OwnsIntent(d, t) /\ disp'[d] # disp[d]
  BY IntentStep DEF ProjectionInv, LockersOwn, InDelivery
<1> QED
  BY <1>1, ProjectionInvariant, PTL DEF ProjectionSpec, OnlyOwnerActs
=============================================================================
