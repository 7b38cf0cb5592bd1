------------------------------ MODULE FormalReads ------------------------------
(***************************************************************************)
(* The formal readers beside the writers: clients that have knowledge        *)
(* bundles built from a snapshot as of three instants, under an idempotency   *)
(* key, while ingests, replays and verification refreshes extend the claims'  *)
(* histories (KnowledgeBundleService, PostgresKnowledgeBundleAuthority,       *)
(* PostgresKnowledgeBundleRepository); and what a formal signal query of the  *)
(* same instants answers (formal_factor_signals).                            *)
(*                                                                         *)
(* A writer fixes the time its rows and events bear when it begins, and       *)
(* publishes them in one transaction later (SourceHeads, ClaimLedger); a      *)
(* history grows at its end only (ClaimHistory).  A bundle is built from      *)
(* several reads, each of what is committed by then: the snapshot with its    *)
(* occurrences, then for one occurrence after the other its claim's history. *)
(*                                                                         *)
(* Left out: requests without a key, which store a bundle under the name of   *)
(* its content and no more; the text, evidence and verification status of an  *)
(* item; refusals that depend on one item's text.                            *)
(***************************************************************************)
EXTENDS ClaimProjection, FiniteSetsExt

CONSTANTS
  Ingests, Replays, Refreshes,
  Draft,         \* ingest -> the occurrences it finds, in order:
                 \* [claim, occurrence, review, primary, support]
  Contradicted,  \* claims in a contradiction group; it is part of a claim's
                 \* identity (content_payload)
  ReplayOf,      \* replay -> the ingest it replays
  RefreshOf,     \* refresh -> the claim whose result it brings
  Clients, Keys,
  Requests,      \* what clients ask for
  MaxCalls       \* bound: the requests of all clients

Sources == Ingests \cup Replays
Writers == Sources \cup Refreshes

VARIABLES
  clock,
  stamp,         \* the time a writer began with; 0 before
  snapshots,     \* snapshot -> the ingest whose members it has, its creation
  chain,         \* claim -> its events, oldest first
  occurrences,   \* occurrence rows: claim, review, primary evidence, time
  bundles,
  bindings,      \* key -> the request it is bound to and the bundle
  call,          \* what each client's request is at
  calls,
  given          \* what clients were answered: key, request, bundle

vars == <<clock, stamp, snapshots, chain, occurrences, bundles, bindings, call, calls, given>>
ledger == <<clock, stamp, snapshots, chain, occurrences>>
store == <<bundles, bindings, given>>

Boundary == 0

Drafts(w) == IF w \in Replays THEN Draft[ReplayOf[w]] ELSE Draft[w]
DraftsOf(w, c) == {n \in DOMAIN Drafts(w) : Drafts(w)[n].claim = c}
ClaimsIn(w) == {d.claim : d \in ToSet(Drafts(w))}
Claims == UNION {ClaimsIn(w) : w \in Ingests}

ASSUME InstantsAssumption == \A q \in Requests : {q.known, q.available} \subseteq Nat
ASSUME WritersAssumption ==
  /\ ReplayOf \in [Replays -> Ingests] /\ RefreshOf \in [Refreshes -> Claims]
  /\ Refreshes \cap Sources = {} /\ Ingests \cap Replays = {}

\* An occurrence's id names its claim, its source and its place (occurrence_id_of).
ASSUME DraftsAssumption ==
  \A w \in Ingests :
    /\ Draft[w] \in Seq(ToSet(Draft[w]))
    /\ \A d \in ToSet(Draft[w]) : d.occurrence \in Nat /\ d.support \in Nat
    /\ \A v \in Ingests : \A d \in ToSet(Draft[w]), e \in ToSet(Draft[v]) :
         d.occurrence = e.occurrence => d.claim = e.claim

NoCall == [pc |-> "idle"]

Init ==
  /\ clock = 1
  /\ stamp = [w \in Writers |-> 0]
  /\ snapshots = <<>>
  /\ chain = [c \in Claims |-> <<>>]
  /\ occurrences = <<>>
  /\ bundles = {}
  /\ bindings = <<>>
  /\ call = [cl \in Clients |-> NoCall]
  /\ calls = 0
  /\ given = {}

-----------------------------------------------------------------------------
\* The claim's payload names the last of its occurrences in this ingest.
Standing(w, c) == Drafts(w)[Latest(DraftsOf(w, c))]

UnderReview(w, c) == \E n \in DraftsOf(w, c) : Drafts(w)[n].review

\* _claim_state_payload: what awaits a review is located, not supported.
SupportOf(d) == IF d.review /\ d.support > 1 THEN 1 ELSE d.support

Initial(w, c) ==
  [type |-> "INITIAL", known |-> stamp[w], available |-> stamp[w], effective |-> Boundary,
   says |-> [snapshot |-> w, occurrence |-> Standing(w, c).occurrence,
             support |-> SupportOf(Standing(w, c)), status |-> "VERIFICATION_PENDING"]]

\* LifecycleProjectionStage; a replay's clock is the transcript's boundary.
LifecycleTime(w) == IF w \in Replays THEN Boundary ELSE stamp[w]

Lifecycle(w, c) ==
  [type |-> "LIFECYCLE", known |-> LifecycleTime(w), available |-> LifecycleTime(w),
   effective |-> LifecycleTime(w),
   says |-> [status |-> IF UnderReview(w, c) THEN "EXTRACTED" ELSE "ACTIVE"]]

Refresh(w) ==
  [type |-> "REFRESH", known |-> stamp[w], available |-> stamp[w], effective |-> Boundary,
   says |-> [status |-> "VERIFIED"]]

Holds(s, c) == c \in ClaimsIn(snapshots[s].of)

Begin(w) ==
  /\ stamp[w] = 0
  /\ w \in Replays => ReplayOf[w] \in DOMAIN snapshots
  /\ w \in Refreshes => \E s \in DOMAIN snapshots : Holds(s, RefreshOf[w])
  /\ stamp' = [stamp EXCEPT ![w] = clock]
  /\ clock' = clock + 1
  /\ UNCHANGED <<snapshots, chain, occurrences, bundles, bindings, call, calls, given>>

\* A table with new rows, beside those it has.
Extended(table, rows) ==
  [x \in DOMAIN table \cup DOMAIN rows |-> IF x \in DOMAIN table THEN table[x] ELSE rows[x]]

\* An occurrence that is there keeps its row, time and review included.  (The
\* hashes order the two events of one instant; no reader can tell.)
Publish(w) ==
  /\ w \in Sources /\ stamp[w] # 0 /\ w \notin DOMAIN snapshots
  /\ snapshots' = Extended(snapshots, [s \in {w} |-> [of |-> w, created |-> stamp[w]]])
  /\ chain' = [c \in Claims |->
       IF c \in ClaimsIn(w) THEN chain[c] \o <<Initial(w, c), Lifecycle(w, c)>> ELSE chain[c]]
  /\ occurrences' = Extended(occurrences,
       [o \in {d.occurrence : d \in ToSet(Drafts(w))} |->
         LET d == CHOOSE x \in ToSet(Drafts(w)) : x.occurrence = o
         IN  [claim |-> d.claim, review |-> d.review, primary |-> d.primary, at |-> stamp[w]]])
  /\ UNCHANGED <<clock, stamp, bundles, bindings, call, calls, given>>

\* complete: a child snapshot with its parent's members, and one more event.
PublishRefresh(w) ==
  /\ w \in Refreshes /\ stamp[w] # 0 /\ w \notin DOMAIN snapshots
  /\ \E parent \in DOMAIN snapshots :
       /\ Holds(parent, RefreshOf[w])
       /\ snapshots' = Extended(snapshots, [s \in {w} |->
            [of |-> snapshots[parent].of,
             created |-> Max({snapshots[parent].created, stamp[w]})]])
  /\ chain' = [chain EXCEPT ![RefreshOf[w]] = Append(@, Refresh(w))]
  /\ UNCHANGED <<clock, stamp, occurrences, bundles, bindings, call, calls, given>>

-----------------------------------------------------------------------------
Found(q) == q.snapshot \in DOMAIN snapshots /\ snapshots[q.snapshot].created <= q.available

\* The occurrences of the snapshot's claims that were there at the instants.
Rows(rows, q) ==
  {[claim |-> rows[o].claim, occurrence |-> o, review |-> rows[o].review,
    primary |-> rows[o].primary, contested |-> rows[o].claim \in Contradicted] :
    o \in {x \in DOMAIN rows :
             /\ Holds(q.snapshot, rows[x].claim)
             /\ rows[x].at <= q.available /\ rows[x].at <= q.known}}

Step(cl, next) == call' = [call EXCEPT ![cl] = next]

Bound(key) == key \in DOMAIN bindings

\* _resolve_idempotent: the key belongs to one request.
Matches(key, q) == Bound(key) /\ bindings[key].request = q

Answered(key, q, bundle) == given' = given \cup {[key |-> key, request |-> q, bundle |-> bundle]}

\* get_idempotent answers a request that was made before; another request
\* under the key is a conflict.
Ask(cl) ==
  /\ call[cl].pc = "idle" /\ calls < MaxCalls
  /\ calls' = calls + 1
  /\ \E key \in Keys, q \in Requests :
       \/ /\ ~Bound(key)
          /\ Step(cl, [pc |-> "reading", key |-> key, request |-> q])
          /\ UNCHANGED given
       \/ /\ Matches(key, q)
          /\ Answered(key, q, bindings[key].bundle)
          /\ UNCHANGED call
  /\ UNCHANGED <<ledger, bundles, bindings>>

\* The snapshot and its occurrences; without them the request fails.
Read(cl) ==
  LET q == call[cl].request IN
  /\ call[cl].pc = "reading"
  /\ IF Found(q)
     THEN Step(cl, [pc |-> "projecting", key |-> call[cl].key, request |-> q,
                    rows |-> Rows(occurrences, q), items |-> {}])
     ELSE Step(cl, NoCall)
  /\ UNCHANGED <<ledger, store, calls>>

\* The history of the next occurrence's claim; the rows are in one order.
ReadHistory(cl) ==
  /\ call[cl].pc = "projecting"
  /\ \E r \in call[cl].rows :
       /\ \A other \in call[cl].rows : r.occurrence <= other.occurrence
       /\ Step(cl, [call[cl] EXCEPT
            !.rows = @ \ {r},
            !.items = @ \cup ItemsOf(r, chain[r.claim], call[cl].request)])
  /\ UNCHANGED <<ledger, store, calls>>

Built(cl) == call[cl].pc = "projecting" /\ call[cl].rows = {}
Made(cl) == Bundle(call[cl].request, call[cl].items)

Fail(cl) ==
  /\ Built(cl) /\ Made(cl) = Refused
  /\ Step(cl, NoCall)
  /\ UNCHANGED <<ledger, store, calls>>

\* Mutant: no lock.
NeverLocked(key) == FALSE

\* The advisory lock of the key, held until the transaction ends.
Locked(key) == \E cl \in Clients : call[cl].pc = "inserting" /\ call[cl].key = key

\* _insert_idempotent: under the key's lock, who came first is looked up again.
Enter(cl) ==
  LET key == call[cl].key
      q == call[cl].request
  IN
  /\ Built(cl) /\ Made(cl) # Refused /\ ~Locked(key)
  /\ \/ /\ ~Bound(key)
        /\ Step(cl, [pc |-> "inserting", key |-> key, request |-> q, bundle |-> Made(cl)])
        /\ UNCHANGED given
     \/ /\ Bound(key)
        /\ Step(cl, NoCall)
        /\ IF Matches(key, q) THEN Answered(key, q, bindings[key].bundle) ELSE UNCHANGED given
  /\ UNCHANGED <<ledger, bundles, bindings, calls>>

\* The row of a key that is bound stays.
BoundTo(key, new) ==
  [k \in DOMAIN bindings \cup {key} |-> IF Bound(k) THEN bindings[k] ELSE new]

\* The bundle, unless it is stored, and the binding.
Insert(cl) ==
  LET new == [request |-> call[cl].request, bundle |-> call[cl].bundle] IN
  /\ call[cl].pc = "inserting"
  /\ bundles' = bundles \cup {new.bundle}
  /\ bindings' = BoundTo(call[cl].key, new)
  /\ Step(cl, [pc |-> "answering", key |-> call[cl].key, request |-> new.request,
               bundle |-> bindings'[call[cl].key].bundle])
  /\ UNCHANGED <<ledger, calls, given>>

Answer(cl) ==
  /\ call[cl].pc = "answering"
  /\ Answered(call[cl].key, call[cl].request, call[cl].bundle)
  /\ Step(cl, NoCall)
  /\ UNCHANGED <<ledger, bundles, bindings, calls>>

\* The service dies, or its answer is lost: the client may ask again.
Die(cl) ==
  /\ call[cl].pc # "idle"
  /\ Step(cl, NoCall)
  /\ UNCHANGED <<ledger, store, calls>>

Serve(cl) ==
  Ask(cl) \/ Read(cl) \/ ReadHistory(cl) \/ Fail(cl) \/ Enter(cl) \/ Insert(cl) \/ Answer(cl) \/ Die(cl)

Next ==
  \/ \E w \in Writers : Begin(w) \/ Publish(w) \/ PublishRefresh(w)
  \/ \E cl \in Clients : Serve(cl)

Spec == Init /\ [][Next]_vars

-----------------------------------------------------------------------------
\* What a request is answered if nobody writes meanwhile.
AnswerFrom(events, rows, q) ==
  IF Found(q) THEN Bundle(q, UNION {ItemsOf(r, events[r.claim], q) : r \in Rows(rows, q)})
  ELSE Refused

AnswerTo(q) == AnswerFrom(chain, occurrences, q)

\* formal_factor_signals: a signal for each claim of the snapshot that has one
\* as of the query; no lifecycle makes the query fail.
Signals(q) ==
  LET projections == {Project(chain[c], q) : c \in {x \in Claims : Holds(q.snapshot, x)}}
      supported == {p \in projections : "support" \in DOMAIN p /\ p.support >= q.minimum}
  IN  IF ~Found(q) \/ \E p \in supported : "lifecycle" \notin DOMAIN p THEN {}
      ELSE {[snapshot |-> q.snapshot, occurrence |-> p.occurrence] : p \in supported}

\* One answer per key: whoever asks with it, however often, whoever died
\* meanwhile, and whatever was published since, gets the same bundle, and only
\* to the request it was first used for (_insert_idempotent, get_idempotent).
OneAnswerPerKey ==
  /\ \A x, y \in given : x.key = y.key => x.request = y.request /\ x.bundle = y.bundle
  /\ \A x \in given : x.bundle \in bundles /\ x.bundle.request = x.request

\* Every stored bundle can be had by its key: a request that loses the race for
\* the key leaves none behind (knowledge_bundle_repository, 65-70: it "prevents
\* a losing different-request race from materializing an otherwise unreachable
\* immutable Bundle").
NoUnreachableBundle ==
  \A b \in bundles : \E key \in DOMAIN bindings : bindings[key].bundle = b

\* Keys and stored bundles belong together, whoever races, repeats or dies: a key
\* never answers with two bundles, and no bundle is without its key.
EachKeyItsBundle == OneAnswerPerKey /\ NoUnreachableBundle

\* A bundle shows, of each claim of its snapshot, at most the occurrence the
\* snapshot's own ingest left standing, even when it was read while other
\* ingests recorded the claim (read_bundle_source, 260-268).
Stands(w, i) == i.claim \in ClaimsIn(w) /\ i.occurrence = Standing(w, i.claim).occurrence

ShowsWhatStands ==
  \A b \in bundles : \A i \in b.items : Stands(snapshots[b.request.snapshot].of, i)

\* An occurrence nothing is known against, by its row and by its claim's: it awaits
\* no review, is contradicted by no other claim of its video, and a transcript
\* says so.
Undisputed(o) ==
  /\ ~occurrences[o].review /\ "transcript" \in occurrences[o].primary
  /\ occurrences[o].claim \notin Contradicted

\* And a v2 bundle shows only such, though the claim be active by an earlier event.
ShowsTheUndisputed ==
  \A b \in bundles : \A i \in b.items :
    b.request.contract = "v2" => Undisputed(i.occurrence)

BundleIsOfItsSnapshot == ShowsWhatStands /\ ShowsTheUndisputed

\* An answer as of three instants is settled: a publication can change it only if
\* it was begun by both the knowledge and the availability instant, or replays
\* (its lifecycle is effective from the transcript's boundary on).
Asked == {q \in Requests : q.snapshot \in DOMAIN snapshots}
Published == DOMAIN snapshots' \ DOMAIN snapshots

OnlyWhatWasKnownRewrites ==
  [][snapshots' # snapshots =>
      \A events \in {chain'}, rows \in {occurrences'}, q \in Asked :
        AnswerFrom(events, rows, q) # AnswerTo(q) =>
          \A w \in Published : w \in Replays \/ stamp[w] <= Min({q.known, q.available})]_vars

\* A snapshot whose claims nobody has recorded since is what both readers show as
\* of now: a bundle exactly its supported, active and undisputed claims (unless
\* one whose row awaits no review is held back by the ingest all the same: such a
\* request is refused), a signal query all supported, by the occurrences that
\* stand.
LastRecorded(w, c) ==
  LET recorded == {n \in DOMAIN chain[c] : chain[c][n].type = "INITIAL"}
  IN  chain[c][Latest(recorded)].says.snapshot = w

NowOf(w) == [snapshot |-> w, business |-> clock, known |-> clock, available |-> clock,
             minimum |-> 1, most |-> Cardinality(DOMAIN occurrences), contract |-> "v2"]

\* What is supported by what stands in a snapshot.
Supported(w) == {c \in ClaimsIn(w) : Standing(w, c).support >= 1}

StandingOf(w, claims) == {Standing(w, c).occurrence : c \in claims}

Active(w) == {c \in ClaimsIn(w) : ~UnderReview(w, c) /\ Undisputed(Standing(w, c).occurrence)}

\* What the ingest holds back awaits a review by the row that stands, too.
HeldBackByRow(w, c) == UnderReview(w, c) => occurrences[Standing(w, c).occurrence].review

NewestIsShown ==
  \A w \in Sources \cap DOMAIN snapshots :
    (\A c \in ClaimsIn(w) : LastRecorded(w, c) /\ HeldBackByRow(w, c)) =>
      LET answer == AnswerTo(NowOf(w))
      IN  /\ answer # Refused
          /\ {i.occurrence : i \in answer.items} = StandingOf(w, Supported(w) \cap Active(w))
          /\ {signal.occurrence : signal \in Signals(NowOf(w))} = StandingOf(w, Supported(w))

\* Bundles and signals show what their snapshot's ingest left standing: no more
\* while others record the claims, and no less once it is the newest.
AnswersShowTheirSnapshot == BundleIsOfItsSnapshot /\ NewestIsShown
=============================================================================
