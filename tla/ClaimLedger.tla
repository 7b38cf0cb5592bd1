------------------------------ MODULE ClaimLedger ------------------------------
(***************************************************************************)
(* The formal state stream of the claims (claim_state_event): one append-   *)
(* only chain per claim, each row naming the hash of its predecessor.       *)
(* Three writers extend it, each in a transaction of its own:               *)
(*                                                                         *)
(*   an ingest  publishes its snapshot, its lifecycle events and, for each   *)
(*              of its claims, an INITIAL and a LIFECYCLE event, all or none *)
(*              (SnapshotRecordingStage, PublicationUnitOfWork, save_bundle);*)
(*   a closing  appends one REFRESH with a verification result (complete);   *)
(*   a review   moves a forecast whose target has passed to OUTCOME_REVIEW   *)
(*              in the lifecycle ledger, and afterwards mirrors that event   *)
(*              (ForecastOutcomeReview.review_claim).                        *)
(*                                                                         *)
(* Nobody reads the tail it links to in the transaction that appends: it is  *)
(* read in another session, and append_in_session compares.  Ingests and     *)
(* closings also hold the coordination lock of each of their claims, reviews  *)
(* hold none.                                                                *)
(*                                                                         *)
(* An event's hash covers its predecessor's, so a row is an event and the    *)
(* event before it.  A live ingest stamps both events with its snapshot time; *)
(* a replay projects the lifecycle at the boundary of the transcript, an     *)
(* instant before every clock (Boundary).                                    *)
(*                                                                         *)
(* Left out: payloads, signals and the outbox rows of the same transaction   *)
(* (SignalOutbox), source heads (SourceHeads), a claim with two providers,    *)
(* complete_review (no snapshot this code makes has a lifecycle closure that  *)
(* selects OUTCOME_REVIEW, which it demands of its parent).                  *)
(***************************************************************************)
EXTENDS Naturals, FiniteSets

CONSTANTS
  Claims,        \* claim ids, in their order
  Live, Replays, \* ingests: of a source, and of the artifacts of a snapshot
  Closings,      \* verification jobs being completed
  Reviews,       \* calls of review_claim
  ClaimsOf,      \* writer -> its claims
  TargetEnd,     \* claim -> the instant the forecast's target ends
  FirstOf,       \* ingest -> which of two events of one instant has the smaller hash
  ReplayOf,      \* replay -> the ingest whose snapshot it replays
  Tries          \* bound: writer -> the transactions it begins

Ingests == Live \cup Replays
Writers == Ingests \cup Closings \cup Reviews

ASSUME ClaimsAssumption == Claims \subseteq Nat /\ IsFiniteSet(Claims)
ASSUME KindsAssumption == Reviews \cap (Ingests \cup Closings) = {}
ASSUME ClaimsOfAssumption == ClaimsOf \in [Writers -> SUBSET Claims]

VARIABLES
  clock,
  rows,       \* claim_state_event, committed
  lifecycle,  \* lifecycle_event_ledger, committed
  published,  \* the ingests whose publication is READY
  stamp,      \* snapshot_committed_at of an ingest, the clock of another writer's pass
  tries,
  tx          \* what each writer has under way

vars == <<clock, rows, lifecycle, published, stamp, tries, tx>>

Boundary == 0

Event(c, type, of, at, effective) ==
  [claim |-> c, type |-> type, of |-> of, at |-> at, effective |-> effective]

\* What the first event of a chain follows.
Root == Event(0, "ROOT", "ROOT", Boundary, Boundary)

\* tail: the events its next ones follow; todo and done: the events it has yet to
\* append and those it has; new: the rows they became.
NoTx == [pc |-> "idle", held |-> {}, tail |-> [c \in {} |-> Root],
         todo |-> {}, done |-> {}, new |-> {}]

Init ==
  /\ clock = 1
  /\ rows = [c \in Claims |-> {}]
  /\ lifecycle = {}
  /\ published = {}
  /\ stamp = [w \in Writers |-> 0]
  /\ tries = [w \in Writers |-> 0]
  /\ tx = [w \in Writers |-> NoTx]

Step(w, next) == tx' = [tx EXCEPT ![w] = next]

-----------------------------------------------------------------------------
\* LifecycleProjectionStage: replays and fixtures are projected at the boundary.
LifecycleTime(w) == IF w \in Replays THEN Boundary ELSE stamp[w]

Active(w, c) == Event(c, "LIFECYCLE", "ACTIVE", LifecycleTime(w), LifecycleTime(w))
Initial(w, c) == Event(c, "INITIAL", w, stamp[w], Boundary)
Refresh(w, c) == Event(c, "REFRESH", w, stamp[w], Boundary)

Projected(w) == {Active(w, c) : c \in ClaimsOf[w]}

Pending(w) ==
  IF w \in Ingests THEN Projected(w) \cup {Initial(w, c) : c \in ClaimsOf[w]}
  ELSE {Refresh(w, c) : c \in ClaimsOf[w]}

Recorded(e) == \E r \in rows[e.claim] : r.ev = e

\* Projected before: as the root of its chain (the id of an event without a
\* predecessor), or, of an INITIAL, at any place.
Known(e) ==
  \/ [ev |-> e, prev |-> Root] \in rows[e.claim]
  \/ e.type = "INITIAL" /\ Recorded(e)

\* By claim and time; the hashes decide between the two events of one instant.
Before(w, e, o) ==
  \/ e.claim < o.claim
  \/ e.claim = o.claim /\ e.at < o.at
  \/ e.claim = o.claim /\ e.at = o.at /\ e.type = FirstOf[w]

\* Where validate_event_chain ends: the row no other row follows.
IsTail(chain, hash) ==
  IF chain = {} THEN hash = Root
  ELSE /\ \E r \in chain : r.ev = hash
       /\ \A r \in chain : r.prev # hash

TailOf(c) == CHOOSE hash \in {Root} \cup {r.ev : r \in rows[c]} : IsTail(rows[c], hash)

-----------------------------------------------------------------------------
\* A pass begins.  An ingest keeps the snapshot time it was first given; a
\* publication creates the jobs of its claims, and a closed job is not leased.
Begin(w) ==
  /\ w \in Ingests \cup Closings
  /\ tx[w].pc = "idle" /\ tries[w] < Tries[w]
  /\ w \in Replays => ReplayOf[w] \in published
  /\ w \in Closings => \A c \in ClaimsOf[w] :
       /\ \E i \in published : c \in ClaimsOf[i]
       /\ \A r \in rows[c] : r.ev.of # w
  /\ tries' = [tries EXCEPT ![w] = @ + 1]
  /\ stamp' = [stamp EXCEPT ![w] = IF w \in Ingests /\ @ # 0 THEN @ ELSE clock]
  /\ clock' = clock + 1
  /\ Step(w, [NoTx EXCEPT !.pc = "locking"])
  /\ UNCHANGED <<rows, lifecycle, published>>

ToLock(w) == ClaimsOf[w] \ tx[w].held

\* Mutant: a replay takes them the other way round.
NextLockAsGiven(w) ==
  CHOOSE c \in ToLock(w) : \A other \in ToLock(w) : IF w \in Replays THEN other <= c ELSE c <= other

\* planning_uow takes the locks of its keys in their order.
NextLock(w) == CHOOSE c \in ToLock(w) : \A other \in ToLock(w) : c <= other

Lock(w) ==
  /\ tx[w].pc = "locking" /\ ToLock(w) # {}
  /\ \A other \in Writers \ {w} : NextLock(w) \notin tx[other].held
  /\ Step(w, [tx[w] EXCEPT !.held = @ \cup {NextLock(w)}])
  /\ UNCHANGED <<clock, rows, lifecycle, published, stamp, tries>>

\* The chains are read, in a session of their own.
Read(w) ==
  LET tail == [c \in ClaimsOf[w] |-> TailOf(c)] IN
  /\ tx[w].pc = "locking" /\ ToLock(w) = {}
  /\ Step(w, [tx[w] EXCEPT
       !.pc = "appending",
       !.todo = {e \in Pending(w) : w \in Ingests => ~Known(e)},
       !.tail = tail])
  /\ UNCHANGED <<clock, rows, lifecycle, published, stamp, tries>>

-----------------------------------------------------------------------------
\* append_in_session locks the claim's rows until the transaction ends.
Touched(w) == {e.claim : e \in tx[w].done}

Chain(w, c) == rows[c] \cup {r \in tx[w].new : r.ev.claim = c}

Appending(w) == tx[w].pc = "appending" /\ tx[w].todo # {}
InHand(w) == {e \in tx[w].todo : \A o \in tx[w].todo \ {e} : Before(w, e, o)}
Free(w, c) == \A other \in Writers \ {w} : c \notin Touched(other)

\* Mutant: only the id, which includes the predecessor, is looked up.
StoredById(w, e) == [ev |-> e, prev |-> tx[w].tail[e.claim]] \in Chain(w, e.claim)

Stored(w, e) == \E r \in Chain(w, e.claim) : r.ev = e

\* Mutant: the predecessor need only be there.
FollowsAny(w, e) ==
  tx[w].tail[e.claim] \in {Root} \cup {r.ev : r \in Chain(w, e.claim)}

Follows(w, e) == IsTail(Chain(w, e.claim), tx[w].tail[e.claim])

\* Linked at the tail; or the stored event of the same logical identity is
\* returned.  Either way the next event of the claim is linked to it.
AppendInSession(w) ==
  /\ Appending(w)
  /\ \E e \in InHand(w) :
       /\ Free(w, e.claim)
       /\ Stored(w, e) \/ Follows(w, e)
       /\ Step(w, [tx[w] EXCEPT
            !.todo = @ \ {e}, !.done = @ \cup {e},
            !.tail[e.claim] = e,
            !.new = IF Stored(w, e) THEN @ ELSE @ \cup {[ev |-> e, prev |-> tx[w].tail[e.claim]]}])
  /\ UNCHANGED <<clock, rows, lifecycle, published, stamp, tries>>

\* The predecessor is not the tail any more: the whole transaction is undone.
Refuse(w) ==
  /\ Appending(w)
  /\ \E e \in InHand(w) : Free(w, e.claim) /\ ~Stored(w, e) /\ ~Follows(w, e)
  /\ Step(w, NoTx)
  /\ UNCHANGED <<clock, rows, lifecycle, published, stamp, tries>>

Commit(w) ==
  /\ tx[w].pc = "appending" /\ tx[w].todo = {}
  /\ rows' = [c \in Claims |-> Chain(w, c)]
  /\ IF w \in Ingests
     THEN published' = published \cup {w} /\ lifecycle' = lifecycle \cup Projected(w)
     ELSE UNCHANGED <<published, lifecycle>>
  /\ Step(w, NoTx)
  /\ UNCHANGED <<clock, stamp, tries>>

\* Mutant: each event is appended in a transaction of its own.
AbortAppended(w) ==
  /\ tx[w].pc \in {"appending", "mirroring"}
  /\ rows' = [c \in Claims |-> Chain(w, c)]
  /\ Step(w, NoTx)
  /\ UNCHANGED <<clock, lifecycle, published, stamp, tries>>

\* The process dies, or something else of the transaction fails.  Before it has
\* read the chains a transaction has nothing to lose.
Abort(w) ==
  /\ tx[w].pc \in {"appending", "mirroring"}
  /\ Step(w, NoTx)
  /\ UNCHANGED <<clock, rows, lifecycle, published, stamp, tries>>

-----------------------------------------------------------------------------
\* select_as_of now: the latest effective event.
Selected(c, now) ==
  {e \in lifecycle :
     /\ e.claim = c /\ e.effective <= now
     /\ \A other \in lifecycle :
          other.claim = c /\ other.effective <= now =>
            \/ other.effective < e.effective
            \/ other.effective = e.effective /\ other.at <= e.at}

\* The event of an earlier pass, whose identity leaves out its time, or a new one.
Reviewed(c) ==
  LET earlier == {e \in lifecycle : e.claim = c /\ e.of = "OUTCOME_REVIEW"} IN
  IF earlier # {} THEN earlier
  ELSE {Event(c, "LIFECYCLE", "OUTCOME_REVIEW", clock, TargetEnd[c])}

\* review_claim: the lifecycle event is committed first.
Review(w) ==
  /\ w \in Reviews /\ tx[w].pc = "idle" /\ tries[w] < Tries[w]
  /\ \E c \in ClaimsOf[w] : \E current \in Selected(c, clock) : \E e \in Reviewed(c) :
       /\ TargetEnd[c] < clock /\ current.of = "ACTIVE"
       /\ lifecycle' = lifecycle \cup {e}
       /\ Step(w, [NoTx EXCEPT !.pc = "mirroring", !.todo = {e}])
  /\ tries' = [tries EXCEPT ![w] = @ + 1]
  /\ stamp' = [stamp EXCEPT ![w] = clock]
  /\ clock' = clock + 1
  /\ UNCHANGED <<rows, published>>

\* _append_claim_state reads the history, and returns if it has the event.
Mirror(w) ==
  /\ tx[w].pc = "mirroring"
  /\ \E e \in tx[w].todo :
       IF Recorded(e) THEN Step(w, NoTx)
       ELSE Step(w, [tx[w] EXCEPT
              !.pc = "appending", !.tail = [c \in {e.claim} |-> TailOf(c)]])
  /\ UNCHANGED <<clock, rows, lifecycle, published, stamp, tries>>

Proceed(w) == Lock(w) \/ Read(w) \/ AppendInSession(w) \/ Refuse(w) \/ Commit(w) \/ Mirror(w)

Next == \E w \in Writers : Begin(w) \/ Review(w) \/ Proceed(w) \/ Abort(w)

Spec == Init /\ [][Next]_vars

-----------------------------------------------------------------------------
\* No two events of a claim follow the same one, none is recorded twice, and each
\* follows one that is there, whatever publications, closings and reviews of the
\* claim interleave, fail and are repeated (append_in_session, 56-76;
\* validate_event_chain: "multiple successors", "broken").
NoFork(chain) == \A r, q \in chain : r.prev = q.prev => r = q
NoRepeat(chain) == \A r, q \in chain : r.ev = q.ev => r = q
Grounded(chain) == \A r \in chain : r.prev = Root \/ \E q \in chain : q.ev = r.prev

OneHistory ==
  \A c \in Claims : NoFork(rows[c]) /\ NoRepeat(rows[c]) /\ Grounded(rows[c])

\* A publication is one unit: its snapshot is READY exactly when its events are
\* in the histories of all its claims, and a history names no snapshot and no
\* lifecycle event that is not authoritative ("an occurrence or lifecycle row
\* without the snapshot is not an authoritative state", save_bundle, 592-596).
PublishedAsOneUnit ==
  /\ \A w \in published : \A e \in Pending(w) : Recorded(e)
  /\ \A c \in Claims : \A r \in rows[c] :
       /\ r.ev.type = "INITIAL" => r.ev.of \in published
       /\ r.ev.type = "LIFECYCLE" => r.ev \in lifecycle

WaitsFor(w, v) ==
  /\ w # v
  /\ \/ tx[w].pc = "locking" /\ ToLock(w) # {} /\ NextLock(w) \in tx[v].held
     \/ Appending(w) /\ \E e \in InHand(w) : e.claim \in Touched(v)

\* No transactions wait for one another in a circle (planning_uow takes its locks
\* in order, the events are sorted by claim, and of a review or a closing the
\* rows of one claim are locked).
NoCircularWait ==
  \A circle \in (SUBSET Writers) \ {{}} : \E w \in circle : \A v \in circle : ~WaitsFor(w, v)

\* The history of a claim: the events of its chain in the order of their links.
After(chain, e) == {r.ev : r \in {q \in chain : q.prev = e}}

HistoryOf(chain) ==
  LET size == Cardinality(chain)
      nth[k \in 1 .. size] ==
        CHOOSE e \in IF k = 1 THEN After(chain, Root)
                     ELSE UNION {After(chain, last) : last \in {nth[k - 1]}} : TRUE
  IN [k \in 1 .. size |-> nth[k]]

\* What the readers of the stream rely on (ClaimHistory): a history only ever
\* grows at its end, by events it did not have, so that what a query as of an
\* instant has shown stays in it.
History == INSTANCE ClaimHistory WITH history <- [c \in Claims |-> HistoryOf(rows[c])]
ImplementsClaimHistory == History!Spec
=============================================================================
