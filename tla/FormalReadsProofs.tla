--------------------------- MODULE FormalReadsProofs ---------------------------
(***************************************************************************)
(* For all requests, clients, keys and writers: idempotency keys and stored   *)
(* bundles belong together, an answer as of three instants changes only by    *)
(* what was begun before them, or by a replay, and answers show what stands   *)
(* in the snapshot they are of.                                              *)
(*                                                                         *)
(* The first part is about keys.  A request looks its key up, builds its bundle in any number of reads and   *)
(* only then takes the key's lock, so nothing it has seen need hold any more. *)
(* What carries the property is the second look under the lock: the key of    *)
(* a request that is about to insert is still unbound (InsertsFirst) and its  *)
(* own (OneInserterPerKey), so that a binding, once made, is the only one.    *)
(*                                                                         *)
(* The second part is about instants.  Writers add events and rows that bear  *)
(* the time they began with (Adds); after the instants asked for they are     *)
(* not visible, and a projection is what the last visible events say.         *)
(*                                                                         *)
(* The third part is about occurrences.  The last visible event that names a  *)
(* snapshot also names the occurrence that stands in it (EventsStand), which  *)
(* is all an item takes from a history that has grown since its row was read; *)
(* and a history is made of an ingest's pairs of events and of refreshes      *)
(* (Histories), so that the newest ingest's pair is what a reader of now sees.*)
(***************************************************************************)
EXTENDS FormalReads, TLAPS, WellFoundedInduction, FiniteSetTheorems

ClientCalls == DOMAIN call = Clients

\* A binding answers its request with a stored bundle of that request.
BindingsHold ==
  \A key \in DOMAIN bindings :
    /\ bindings[key].bundle \in bundles
    /\ bindings[key].bundle.request = bindings[key].request

\* What was answered is what is bound, to this day.
Says(key, request, bundle) ==
  key \in DOMAIN bindings /\ bindings[key].request = request /\ bindings[key].bundle = bundle

GivenIsBound == \A x \in given : Says(x.key, x.request, x.bundle)

AnswerIsBound ==
  \A cl \in Clients : call[cl].pc = "answering" =>
    Says(call[cl].key, call[cl].request, call[cl].bundle)

InsertsFirst ==
  \A cl \in Clients : call[cl].pc = "inserting" =>
    ~Bound(call[cl].key) /\ call[cl].bundle.request = call[cl].request

OneInserterPerKey ==
  \A x, y \in Clients :
    call[x].pc = "inserting" /\ call[y].pc = "inserting" /\ call[x].key = call[y].key => x = y

IInv ==
  /\ ClientCalls
  /\ BindingsHold
  /\ GivenIsBound
  /\ AnswerIsBound
  /\ InsertsFirst
  /\ OneInserterPerKey
  /\ NoUnreachableBundle

-----------------------------------------------------------------------------
\* A bundle that is made is one of its request.
LEMMA BundleIsOfItsRequest ==
  ASSUME NEW q, NEW items, Bundle(q, items) # Refused
  PROVE  Bundle(q, items).request = q
  BY DEF Bundle

\* Initially nothing is stored or asked.
LEMMA InitInv == Init => IInv
<1> SUFFICES ASSUME Init
             PROVE  IInv
  OBVIOUS
<1>1. DOMAIN bindings = {} /\ given = {} /\ bundles = {}
  BY DEF Init
<1>2. DOMAIN call = Clients /\ \A cl \in Clients : call[cl].pc = "idle"
  BY DEF Init, NoCall
<1> QED
  BY <1>1, <1>2 DEF IInv, ClientCalls, BindingsHold, GivenIsBound, AnswerIsBound, InsertsFirst,
     OneInserterPerKey, NoUnreachableBundle

\* A client's step that neither binds nor inserts nor answers keeps the invariant.
LEMMA QuietStep ==
  ASSUME IInv, NEW cl \in Clients, NEW next, Step(cl, next),
         next.pc \notin {"inserting", "answering"}, UNCHANGED store
  PROVE  IInv'
<1>1. /\ DOMAIN call' = Clients /\ call'[cl] = next
      /\ \A other \in Clients : other # cl => call'[other] = call[other]
  BY DEF IInv, ClientCalls, Step
<1> QED
  BY <1>1 DEF IInv, ClientCalls, BindingsHold, GivenIsBound, AnswerIsBound, InsertsFirst,
     OneInserterPerKey, NoUnreachableBundle, store, Bound, Says

\* Answering what is bound keeps the invariant.
LEMMA AnsweredKeeps ==
  ASSUME IInv, NEW key, NEW q, NEW bundle, Answered(key, q, bundle), Says(key, q, bundle),
         UNCHANGED <<bundles, bindings>>,
         \/ UNCHANGED call
         \/ \E cl \in Clients : Step(cl, NoCall)
  PROVE  IInv'
<1>1. GivenIsBound'
  BY DEF IInv, GivenIsBound, Answered, Says
<1>2. NoCall.pc = "idle"
  BY DEF NoCall
<1>3. /\ DOMAIN call' = Clients
      /\ \A cl \in Clients : call'[cl] = call[cl] \/ call'[cl].pc = "idle"
  BY <1>2 DEF IInv, ClientCalls, Step
<1> QED
  BY <1>1, <1>3 DEF IInv, ClientCalls, BindingsHold, AnswerIsBound, InsertsFirst,
     OneInserterPerKey, NoUnreachableBundle, Bound, Says

\* Taking a free key under its lock.
LEMMA EnterKeeps ==
  ASSUME IInv, NEW cl \in Clients, Enter(cl)
  PROVE  IInv'
<1> DEFINE key == call[cl].key
           q == call[cl].request
           next == [pc |-> "inserting", key |-> key, request |-> q, bundle |-> Made(cl)]
<1>1. CASE ~Bound(key)
  <2>1. Step(cl, next) /\ UNCHANGED <<bundles, bindings, given>>
    BY <1>1 DEF Enter
  <2>2. next.bundle.request = q
    BY <1>1, BundleIsOfItsRequest DEF Enter, Made
  <2>3. /\ DOMAIN call' = Clients /\ call'[cl] = next
        /\ \A other \in Clients : other # cl => call'[other] = call[other]
    BY <2>1 DEF IInv, ClientCalls, Step
  <2>4. \A other \in Clients : call[other].pc = "inserting" => call[other].key # key
    BY DEF Enter, Locked
  <2> HIDE DEF key, q
  <2>5. next.pc = "inserting" /\ next.key = key /\ next.request = q
    OBVIOUS
  <2> HIDE DEF next
  <2>6. ClientCalls' /\ BindingsHold' /\ GivenIsBound' /\ NoUnreachableBundle'
    BY <2>1, <2>3 DEF IInv, ClientCalls, BindingsHold, GivenIsBound, NoUnreachableBundle, Says
  <2>7. AnswerIsBound'
    BY <2>1, <2>3, <2>5 DEF IInv, AnswerIsBound, Says
  <2>8. InsertsFirst'
    BY <1>1, <2>1, <2>2, <2>3, <2>5 DEF IInv, InsertsFirst, Bound
  <2>9. OneInserterPerKey'
    BY <2>3, <2>4, <2>5 DEF IInv, OneInserterPerKey
  <2> QED
    BY <2>6, <2>7, <2>8, <2>9 DEF IInv
<1>2. CASE Bound(key) /\ Matches(key, q)
  <2>1. Answered(key, q, bindings[key].bundle) /\ Step(cl, NoCall) /\ UNCHANGED <<bundles, bindings>>
    BY <1>2 DEF Enter
  <2>2. Says(key, q, bindings[key].bundle)
    BY <1>2 DEF Matches, Bound, Says
  <2> QED
    BY <2>1, <2>2, AnsweredKeeps
<1>3. CASE Bound(key) /\ ~Matches(key, q)
  <2>1. Step(cl, NoCall) /\ UNCHANGED store
    BY <1>3 DEF Enter, store
  <2> QED
    BY <2>1, QuietStep DEF NoCall
<1> QED
  BY <1>1, <1>2, <1>3

\* Storing the bundle and the binding.
LEMMA InsertKeeps ==
  ASSUME IInv, NEW cl \in Clients, Insert(cl)
  PROVE  IInv'
<1> DEFINE key == call[cl].key
           new == [request |-> call[cl].request, bundle |-> call[cl].bundle]
<1>1. ~Bound(key) /\ new.bundle.request = new.request
  BY DEF Insert, IInv, InsertsFirst
<1>2. bundles' = bundles \cup {new.bundle} /\ bindings' = BoundTo(key, new) /\ given' = given
  BY DEF Insert
<1>3. /\ DOMAIN bindings' = DOMAIN bindings \cup {key} /\ bindings'[key] = new
      /\ \A k \in DOMAIN bindings : bindings'[k] = bindings[k]
  BY <1>1, <1>2 DEF Bound, BoundTo
<1> DEFINE next == [pc |-> "answering", key |-> key, request |-> new.request,
                    bundle |-> bindings'[key].bundle]
<1>4. /\ DOMAIN call' = Clients /\ call'[cl] = next
      /\ \A other \in Clients : other # cl => call'[other] = call[other]
  BY DEF Insert, Step, IInv, ClientCalls
<1>5. \A other \in Clients : other # cl /\ call[other].pc = "inserting" => call[other].key # key
  BY DEF Insert, IInv, OneInserterPerKey
<1>6. next.pc = "answering" /\ next.key = key /\ next.request = new.request /\ next.bundle = new.bundle
  BY <1>3
<1>7. key \notin DOMAIN bindings
  BY <1>1 DEF Bound
<1> HIDE DEF key, new, next
<1>8. ClientCalls' /\ BindingsHold'
  BY <1>1, <1>2, <1>3, <1>4 DEF IInv, ClientCalls, BindingsHold
<1>9. GivenIsBound'
  BY <1>2, <1>3 DEF IInv, GivenIsBound, Says
<1>10. AnswerIsBound'
  BY <1>3, <1>4, <1>6 DEF IInv, AnswerIsBound, Says
<1>11. InsertsFirst'
  BY <1>3, <1>4, <1>5, <1>6 DEF IInv, InsertsFirst, Bound
<1>12. OneInserterPerKey'
  BY <1>4, <1>6 DEF IInv, OneInserterPerKey
<1>13. NoUnreachableBundle'
  BY <1>2, <1>3, <1>7 DEF IInv, NoUnreachableBundle
<1> QED
  BY <1>8, <1>9, <1>10, <1>11, <1>12, <1>13 DEF IInv

\* Every step of a client keeps the invariant.
LEMMA ServeKeeps ==
  ASSUME IInv, NEW cl \in Clients, Serve(cl)
  PROVE  IInv'
<1>1. CASE Ask(cl)
  <2>1. PICK key \in Keys, q \in Requests :
          \/ /\ Step(cl, [pc |-> "reading", key |-> key, request |-> q]) /\ UNCHANGED given
          \/ /\ Matches(key, q) /\ Answered(key, q, bindings[key].bundle) /\ UNCHANGED call
    BY <1>1 DEF Ask
  <2>2. CASE Step(cl, [pc |-> "reading", key |-> key, request |-> q]) /\ UNCHANGED given
    <3>1. [pc |-> "reading", key |-> key, request |-> q].pc \notin {"inserting", "answering"}
      OBVIOUS
    <3> QED
      BY <1>1, <2>2, <3>1, QuietStep DEF Ask, store
  <2>3. CASE Matches(key, q) /\ Answered(key, q, bindings[key].bundle) /\ UNCHANGED call
    <3>1. Says(key, q, bindings[key].bundle)
      BY <2>3 DEF Matches, Bound, Says
    <3> QED
      BY <1>1, <2>3, <3>1, AnsweredKeeps DEF Ask
  <2> QED
    BY <2>1, <2>2, <2>3
<1>2. CASE Read(cl)
  <2> DEFINE q == call[cl].request
             next == IF Found(q)
                     THEN [pc |-> "projecting", key |-> call[cl].key, request |-> q,
                           rows |-> Rows(occurrences, q), items |-> {}]
                     ELSE NoCall
  <2>1. Step(cl, next) /\ UNCHANGED store
    BY <1>2 DEF Read
  <2>2. next.pc \notin {"inserting", "answering"}
    BY DEF NoCall
  <2> QED
    BY <2>1, <2>2, QuietStep
<1>3. CASE ReadHistory(cl)
  <2>1. PICK r \in call[cl].rows :
          Step(cl, [call[cl] EXCEPT
               !.rows = @ \ {r},
               !.items = @ \cup ItemsOf(r, chain[r.claim], call[cl].request)])
    BY <1>3 DEF ReadHistory
  <2> DEFINE next == [call[cl] EXCEPT
               !.rows = @ \ {r},
               !.items = @ \cup ItemsOf(r, chain[r.claim], call[cl].request)]
  <2>2. next.pc = call[cl].pc \/ "pc" \notin DOMAIN call[cl]
    OBVIOUS
  <2>3. next.pc \notin {"inserting", "answering"}
    BY <1>3, <2>2 DEF ReadHistory
  <2> QED
    BY <1>3, <2>1, <2>3, QuietStep DEF ReadHistory
<1>4. CASE Fail(cl) \/ Die(cl)
  BY <1>4, QuietStep DEF Fail, Die, NoCall
<1>5. CASE Enter(cl)
  BY <1>5, EnterKeeps
<1>6. CASE Insert(cl)
  BY <1>6, InsertKeeps
<1>7. CASE Answer(cl)
  <2>1. Says(call[cl].key, call[cl].request, call[cl].bundle)
    BY <1>7 DEF Answer, IInv, AnswerIsBound
  <2> QED
    BY <1>7, <2>1, AnsweredKeeps DEF Answer
<1> QED
  BY <1>1, <1>2, <1>3, <1>4, <1>5, <1>6, <1>7 DEF Serve

\* Every step keeps the invariant: what the writers publish is not part of it.
LEMMA NextKeeps == IInv /\ [Next]_vars => IInv'
<1> SUFFICES ASSUME IInv, [Next]_vars
             PROVE  IInv'
  OBVIOUS
<1>1. CASE UNCHANGED <<bundles, bindings, call, given>>
  BY <1>1 DEF IInv, ClientCalls, BindingsHold, GivenIsBound, AnswerIsBound, InsertsFirst,
     OneInserterPerKey, NoUnreachableBundle, Bound, Says
<1>2. CASE \E w \in Writers : Begin(w) \/ Publish(w) \/ PublishRefresh(w)
  BY <1>1, <1>2 DEF Begin, Publish, PublishRefresh
<1>3. CASE \E cl \in Clients : Serve(cl)
  BY <1>3, ServeKeeps
<1> QED
  BY <1>1, <1>2, <1>3 DEF Next, vars

-----------------------------------------------------------------------------
\* One bundle per key and one key per bundle: whoever asks with a key, however
\* often and whatever was published since, gets the same bundle, and a bundle is
\* always found by its key (_insert_idempotent, get_idempotent).
THEOREM KeysAndBundles == Spec => []EachKeyItsBundle
<1>1. IInv => EachKeyItsBundle
  BY DEF IInv, BindingsHold, GivenIsBound, Says, EachKeyItsBundle, OneAnswerPerKey, NoUnreachableBundle
<1> QED
  BY <1>1, InitInv, NextKeeps, PTL DEF Spec

-----------------------------------------------------------------------------
(***************************************************************************)
(* What a publication may rewrite.                                           *)
(***************************************************************************)
IsChain(s) == \E S : s \in Seq(S)

\* Times are numbers, a snapshot is of an ingest or a replay, a claim's history
\* is a sequence.
ReadsInv ==
  /\ clock \in Nat /\ stamp \in [Writers -> Nat]
  /\ \A s \in DOMAIN snapshots : snapshots[s].of \in Sources
  /\ chain \in [Claims -> Range(chain)] /\ \A c \in Claims : IsChain(chain[c])

\* What an ingest or a replay drafts is a claim.
LEMMA SourcesMakeClaims ==
  ASSUME NEW w \in Sources
  PROVE  ClaimsIn(w) \subseteq Claims
BY WritersAssumption DEF Sources, Claims, ClaimsIn, Drafts

\* A chain with an event at its end: nothing before it changes.
LEMMA ChainGrows ==
  ASSUME NEW s, IsChain(s), NEW e
  PROVE  /\ IsChain(Append(s, e)) /\ DOMAIN s \subseteq DOMAIN Append(s, e)
         /\ \A n \in DOMAIN s : Append(s, e)[n] = s[n]
         /\ \A n \in DOMAIN Append(s, e) \ DOMAIN s : Append(s, e)[n] = e
<1>1. PICK S : s \in Seq(S)
  BY DEF IsChain
<1>2. s \in Seq(S \cup {e}) /\ Len(s) \in Nat /\ DOMAIN s = 1 .. Len(s)
  BY <1>1
<1>3. Append(s, e) \in Seq(S \cup {e})
  BY <1>2
<1>4. /\ DOMAIN Append(s, e) = 1 .. Len(s) + 1
      /\ \A n \in 1 .. Len(s) : Append(s, e)[n] = s[n]
      /\ Append(s, e)[Len(s) + 1] = e
  BY <1>2
<1>5. \A n \in 1 .. Len(s) + 1 : n \notin 1 .. Len(s) => n = Len(s) + 1
  BY <1>2
<1> QED
  BY <1>2, <1>3, <1>4, <1>5 DEF IsChain

\* With two events at its end: nothing before them changes.
LEMMA ChainGrowsByTwo ==
  ASSUME NEW s, IsChain(s), NEW e, NEW f
  PROVE  /\ IsChain(s \o <<e, f>>) /\ DOMAIN s \subseteq DOMAIN (s \o <<e, f>>)
         /\ \A n \in DOMAIN s : (s \o <<e, f>>)[n] = s[n]
         /\ \A n \in DOMAIN (s \o <<e, f>>) \ DOMAIN s : (s \o <<e, f>>)[n] \in {e, f}
<1>1. PICK S : s \in Seq(S)
  BY DEF IsChain
<1> DEFINE T == S \cup {e, f}
<1>2. s \in Seq(T) /\ e \in T /\ f \in T /\ Len(s) \in Nat /\ DOMAIN s = 1 .. Len(s)
  BY <1>1
<1>3. <<e, f>> \in Seq(T)
  BY <1>2
<1> HIDE DEF T
<1>4. s \o <<e, f>> \in Seq(T)
  BY <1>2, <1>3
<1>5. /\ DOMAIN (s \o <<e, f>>) = 1 .. Len(s) + 2
      /\ \A n \in 1 .. Len(s) : (s \o <<e, f>>)[n] = s[n]
      /\ (s \o <<e, f>>)[Len(s) + 1] = e /\ (s \o <<e, f>>)[Len(s) + 2] = f
  BY <1>2, <1>3
<1>6. \A n \in 1 .. Len(s) + 2 : n \notin 1 .. Len(s) => n = Len(s) + 1 \/ n = Len(s) + 2
  BY <1>2
<1>7. DOMAIN s \subseteq DOMAIN (s \o <<e, f>>)
  BY <1>2, <1>5
<1> QED
  BY <1>2, <1>4, <1>5, <1>6, <1>7 DEF IsChain

\* Of some places of a chain one is the last.
LEMMA LatestIs ==
  ASSUME NEW s, IsChain(s), NEW ns, ns \subseteq DOMAIN s, ns # {}
  PROVE  /\ Latest(ns) \in ns /\ \A m \in ns : m <= Latest(ns)
         /\ \A n \in ns : (\A m \in ns : m <= n) => n = Latest(ns)
<1>1. Len(s) \in Nat /\ DOMAIN s = 1 .. Len(s)
  BY DEF IsChain
<1> DEFINE behind == {Len(s) - n : n \in ns}
           Less == OpToRel(<, Nat)
<1>2. behind \subseteq Nat /\ behind # {}
  BY <1>1
<1>3. IsWellFoundedOn(Less, Nat)
  BY NatLessThanWellFounded
<1>4. PICK d \in behind : \A other \in behind : ~ (<<other, d>> \in Less)
  <2> HIDE DEF behind, Less
  <2> QED
    BY <1>2, <1>3, WFMin
<1>5. PICK n \in ns : d = Len(s) - n
  BY <1>4
<1>6. \A m \in ns : m <= n
  <2> SUFFICES ASSUME NEW m \in ns PROVE m <= n
    OBVIOUS
  <2>1. Len(s) - m \in behind /\ Len(s) - m \in Nat /\ d \in Nat
    BY <1>2
  <2>2. ~ (Len(s) - m < d)
    BY <1>4, <2>1 DEF OpToRel
  <2> QED
    BY <1>1, <1>5, <2>2
<1>7. Latest(ns) \in ns /\ \A m \in ns : m <= Latest(ns)
  BY <1>6 DEF Latest
<1>8. \A m \in ns : m \in Nat
  BY <1>1
<1> QED
  BY <1>7, <1>8

\* Events that are not visible are as if they were not there.
LEMMA UnseenIsUntold ==
  ASSUME NEW s, IsChain(s), NEW t, NEW q, DOMAIN s \subseteq DOMAIN t,
         \A n \in DOMAIN s : t[n] = s[n],
         \A n \in DOMAIN t \ DOMAIN s : ~VisibleAt(t[n], q)
  PROVE  Project(t, q) = Project(s, q)
<1>1. PICK ns : ns = Seen(s, q)
  OBVIOUS
<1>2. Seen(t, q) = ns /\ ns \subseteq DOMAIN s
  BY <1>1 DEF Seen
<1>3. \A n \in ns : t[n] = s[n]
  BY <1>2
<1>4. Lives(t, ns) = Lives(s, ns) /\ Lives(s, ns) \subseteq ns
  BY <1>3 DEF Lives
<1>5. Fields(t, ns) = Fields(s, ns)
  BY <1>3 DEF Fields
<1>6. \A field : Bearing(t, ns, field) = Bearing(s, ns, field)
  BY <1>3 DEF Bearing
<1>7. State(t, ns) = State(s, ns)
  <2>1. ASSUME NEW field \in Fields(s, ns)
        PROVE  t[Latest(Bearing(s, ns, field))].says[field] = s[Latest(Bearing(s, ns, field))].says[field]
    <3>1. Bearing(s, ns, field) # {} /\ Bearing(s, ns, field) \subseteq ns
      BY DEF Bearing, Fields
    <3>2. Latest(Bearing(s, ns, field)) \in ns
      BY <1>2, <3>1, LatestIs
    <3> QED
      BY <1>3, <3>2
  <2> QED
    BY <1>5, <1>6, <2>1 DEF State
<1>8. Lives(s, ns) # {} => t[Latest(Lives(s, ns))] = s[Latest(Lives(s, ns))]
  BY <1>2, <1>3, <1>4, LatestIs
<1> QED
  BY <1>1, <1>2, <1>4, <1>7, <1>8 DEF Project

\* What a writer adds to the tables: one snapshot, and rows and events of its time.
Adds(w) ==
  /\ w \in Writers /\ w \notin DOMAIN snapshots
  /\ DOMAIN snapshots' = DOMAIN snapshots \cup {w}
  /\ \A s \in DOMAIN snapshots : snapshots'[s] = snapshots[s]
  /\ snapshots'[w].of \in Sources
  /\ DOMAIN occurrences \subseteq DOMAIN occurrences'
  /\ \A o \in DOMAIN occurrences' :
       IF o \in DOMAIN occurrences THEN occurrences'[o] = occurrences[o]
       ELSE occurrences'[o].at = stamp[w]
  /\ chain' \in [Claims -> Range(chain')]
  /\ \A c \in Claims :
       /\ IsChain(chain'[c]) /\ DOMAIN chain[c] \subseteq DOMAIN chain'[c]
       /\ \A n \in DOMAIN chain'[c] :
            IF n \in DOMAIN chain[c] THEN chain'[c][n] = chain[c][n]
            ELSE /\ w \notin Replays => chain'[c][n].known = stamp[w]
                 /\ w \notin Replays => chain'[c][n].available = stamp[w]
  /\ UNCHANGED <<clock, stamp>>

\* An ingest or a replay adds so: both events of a claim bear the time it began with.
LEMMA PublishAdds ==
  ASSUME ReadsInv, NEW w \in Writers, Publish(w)
  PROVE  Adds(w)
<1>1. /\ w \in Sources /\ w \notin DOMAIN snapshots
      /\ snapshots' = Extended(snapshots, [s \in {w} |-> [of |-> w, created |-> stamp[w]]])
      /\ chain' = [c \in Claims |->
            IF c \in ClaimsIn(w) THEN chain[c] \o <<Initial(w, c), Lifecycle(w, c)>> ELSE chain[c]]
      /\ UNCHANGED <<clock, stamp>>
  BY DEF Publish
<1>2. /\ DOMAIN snapshots' = DOMAIN snapshots \cup {w}
      /\ \A s \in DOMAIN snapshots : snapshots'[s] = snapshots[s]
      /\ snapshots'[w].of \in Sources
  BY <1>1 DEF Extended
<1>3. /\ DOMAIN occurrences \subseteq DOMAIN occurrences'
      /\ \A o \in DOMAIN occurrences' :
           IF o \in DOMAIN occurrences THEN occurrences'[o] = occurrences[o]
           ELSE occurrences'[o].at = stamp[w]
  <2> DEFINE Row(o) == LET d == CHOOSE x \in ToSet(Drafts(w)) : x.occurrence = o
                       IN  [claim |-> d.claim, review |-> d.review, primary |-> d.primary, at |-> stamp[w]]
             found == {d.occurrence : d \in ToSet(Drafts(w))}
  <2>1. occurrences' = Extended(occurrences, [o \in found |-> Row(o)])
    BY DEF Publish
  <2>2. \A o : Row(o).at = stamp[w]
    OBVIOUS
  <2> HIDE DEF Row, found
  <2> QED
    BY <2>1, <2>2 DEF Extended
<1>4. chain' \in [Claims -> Range(chain')]
  BY <1>1 DEF Range
<1>5. ASSUME NEW c \in Claims
      PROVE  /\ IsChain(chain'[c]) /\ DOMAIN chain[c] \subseteq DOMAIN chain'[c]
             /\ \A n \in DOMAIN chain'[c] :
                  IF n \in DOMAIN chain[c] THEN chain'[c][n] = chain[c][n]
                  ELSE /\ w \notin Replays => chain'[c][n].known = stamp[w]
                       /\ w \notin Replays => chain'[c][n].available = stamp[w]
  <2>1. IsChain(chain[c])
    BY DEF ReadsInv
  <2>2. CASE c \notin ClaimsIn(w)
    BY <1>1, <2>1, <2>2
  <2>3. CASE c \in ClaimsIn(w)
    <3>1. PICK e, f : e = Initial(w, c) /\ f = Lifecycle(w, c)
      OBVIOUS
    <3>2. chain'[c] = chain[c] \o <<e, f>>
      BY <1>1, <2>3, <3>1
    <3>3. \A x \in {e, f} : w \notin Replays => x.known = stamp[w] /\ x.available = stamp[w]
      BY <3>1 DEF Initial, Lifecycle, LifecycleTime
    <3>4. /\ IsChain(chain[c] \o <<e, f>>) /\ DOMAIN chain[c] \subseteq DOMAIN (chain[c] \o <<e, f>>)
          /\ \A n \in DOMAIN chain[c] : (chain[c] \o <<e, f>>)[n] = chain[c][n]
          /\ \A n \in DOMAIN (chain[c] \o <<e, f>>) \ DOMAIN chain[c] : (chain[c] \o <<e, f>>)[n] \in {e, f}
      BY <2>1, ChainGrowsByTwo
    <3>5. /\ IsChain(chain'[c]) /\ DOMAIN chain[c] \subseteq DOMAIN chain'[c]
          /\ \A n \in DOMAIN chain[c] : chain'[c][n] = chain[c][n]
          /\ \A n \in DOMAIN chain'[c] \ DOMAIN chain[c] : chain'[c][n] \in {e, f}
      BY <3>2, <3>4
    <3> QED
      BY <3>3, <3>5
  <2> QED
    BY <2>2, <2>3
<1> QED
  BY <1>1, <1>2, <1>3, <1>4, <1>5 DEF Adds

\* A refresh too, with one event of one claim.
LEMMA RefreshAdds ==
  ASSUME ReadsInv, NEW w \in Writers, PublishRefresh(w)
  PROVE  Adds(w)
<1>1. PICK parent \in DOMAIN snapshots :
        snapshots' = Extended(snapshots, [s \in {w} |->
          [of |-> snapshots[parent].of, created |-> Max({snapshots[parent].created, stamp[w]})]])
  BY DEF PublishRefresh
<1>2. /\ w \in Refreshes /\ w \notin DOMAIN snapshots /\ RefreshOf[w] \in Claims /\ w \notin Replays
      /\ chain' = [chain EXCEPT ![RefreshOf[w]] = Append(@, Refresh(w))]
      /\ UNCHANGED <<clock, stamp, occurrences>>
  BY WritersAssumption DEF PublishRefresh, Sources
<1>3. /\ DOMAIN snapshots' = DOMAIN snapshots \cup {w}
      /\ \A s \in DOMAIN snapshots : snapshots'[s] = snapshots[s]
      /\ snapshots'[w].of \in Sources
  BY <1>1, <1>2 DEF Extended, ReadsInv
<1>4. DOMAIN chain = Claims /\ chain' \in [Claims -> Range(chain')]
  BY <1>2 DEF ReadsInv, Range
<1>5. ASSUME NEW c \in Claims
      PROVE  /\ IsChain(chain'[c]) /\ DOMAIN chain[c] \subseteq DOMAIN chain'[c]
             /\ \A n \in DOMAIN chain'[c] :
                  IF n \in DOMAIN chain[c] THEN chain'[c][n] = chain[c][n]
                  ELSE chain'[c][n].known = stamp[w] /\ chain'[c][n].available = stamp[w]
  <2>1. IsChain(chain[c])
    BY DEF ReadsInv
  <2>2. CASE c # RefreshOf[w]
    BY <1>2, <1>4, <2>1, <2>2
  <2>3. CASE c = RefreshOf[w]
    <3>1. PICK e : e = Refresh(w)
      OBVIOUS
    <3>2. chain'[c] = Append(chain[c], e)
      BY <1>2, <1>4, <2>3, <3>1
    <3>3. e.known = stamp[w] /\ e.available = stamp[w]
      BY <3>1 DEF Refresh
    <3>4. /\ IsChain(Append(chain[c], e)) /\ DOMAIN chain[c] \subseteq DOMAIN Append(chain[c], e)
          /\ \A n \in DOMAIN chain[c] : Append(chain[c], e)[n] = chain[c][n]
          /\ \A n \in DOMAIN Append(chain[c], e) \ DOMAIN chain[c] : Append(chain[c], e)[n] = e
      BY <2>1, ChainGrows
    <3>5. /\ IsChain(chain'[c]) /\ DOMAIN chain[c] \subseteq DOMAIN chain'[c]
          /\ \A n \in DOMAIN chain[c] : chain'[c][n] = chain[c][n]
          /\ \A n \in DOMAIN chain'[c] \ DOMAIN chain[c] : chain'[c][n] = e
      BY <3>2, <3>4
    <3> QED
      BY <3>3, <3>5
  <2> QED
    BY <2>2, <2>3
<1>6. /\ DOMAIN occurrences \subseteq DOMAIN occurrences'
      /\ \A o \in DOMAIN occurrences' : o \in DOMAIN occurrences /\ occurrences'[o] = occurrences[o]
  BY <1>2
<1>7. clock' = clock /\ stamp' = stamp /\ w \notin DOMAIN snapshots
  BY <1>2
<1> QED
  BY <1>3, <1>4, <1>5, <1>6, <1>7 DEF Adds

\* Rows and events that bear a time after the instants asked for change no answer.
LEMMA LaterIsUntold ==
  ASSUME ReadsInv, NEW w, Adds(w), NEW q \in Asked, w \notin Replays,
         stamp[w] > q.known \/ stamp[w] > q.available
  PROVE  \A events \in {chain'}, rows \in {occurrences'} : AnswerFrom(events, rows, q) = AnswerTo(q)
<1>1. /\ q.known \in Nat /\ q.available \in Nat /\ stamp[w] \in Nat
      /\ q.snapshot \in DOMAIN snapshots
  BY InstantsAssumption DEF Asked, Adds, ReadsInv
<1>2. Rows(occurrences', q) = Rows(occurrences, q)
  <2>1. DOMAIN occurrences \subseteq DOMAIN occurrences'
        /\ \A o \in DOMAIN occurrences : occurrences'[o] = occurrences[o]
    BY DEF Adds
  <2>2. \A o \in DOMAIN occurrences' :
          o \notin DOMAIN occurrences => ~(occurrences'[o].at <= q.available /\ occurrences'[o].at <= q.known)
    BY <1>1 DEF Adds
  <2> DEFINE Of(rows) == {x \in DOMAIN rows : Holds(q.snapshot, rows[x].claim)
                                             /\ rows[x].at <= q.available /\ rows[x].at <= q.known}
  <2>3. Of(occurrences') = Of(occurrences)
    BY <2>1, <2>2
  <2>4. \A o \in Of(occurrences) : occurrences'[o] = occurrences[o]
    BY <2>1
  <2> QED
    BY <2>3, <2>4 DEF Rows
<1>3. ASSUME NEW r \in Rows(occurrences, q)
      PROVE  ItemsOf(r, chain'[r.claim], q) = ItemsOf(r, chain[r.claim], q)
  <2>1. PICK x \in DOMAIN occurrences : r.claim = occurrences[x].claim /\ Holds(q.snapshot, occurrences[x].claim)
    BY DEF Rows
  <2>2. r.claim \in Claims
    BY <1>1, <2>1, SourcesMakeClaims DEF Holds, ReadsInv
  <2>3. \A c \in Claims :
          /\ IsChain(chain[c]) /\ DOMAIN chain[c] \subseteq DOMAIN chain'[c]
          /\ \A n \in DOMAIN chain[c] : chain'[c][n] = chain[c][n]
          /\ \A n \in DOMAIN chain'[c] \ DOMAIN chain[c] : ~VisibleAt(chain'[c][n], q)
    BY <1>1 DEF ReadsInv, Adds, VisibleAt
  <2>4. Project(chain'[r.claim], q) = Project(chain[r.claim], q)
    BY <2>2, <2>3, UnseenIsUntold
  <2> QED
    BY <2>4 DEF ItemsOf
<1> QED
  BY <1>2, <1>3 DEF AnswerFrom, AnswerTo

\* Initially there is no event.
LEMMA ReadsBegin == Init => ReadsInv
<1> SUFFICES ASSUME Init PROVE ReadsInv
  OBVIOUS
<1>1. chain = [c \in Claims |-> <<>>] /\ <<>> \in Seq({})
  BY DEF Init
<1>2. chain \in [Claims -> Range(chain)] /\ \A c \in Claims : IsChain(chain[c])
  BY <1>1 DEF Range, IsChain
<1>3. DOMAIN snapshots = {} /\ clock \in Nat /\ stamp \in [Writers -> Nat]
  BY DEF Init
<1> QED
  BY <1>2, <1>3 DEF ReadsInv

\* Only writers touch the tables, and they add to them.
LEMMA ReadsStep == ReadsInv /\ [Next]_vars => ReadsInv'
<1> SUFFICES ASSUME ReadsInv, [Next]_vars PROVE ReadsInv'
  OBVIOUS
<1>1. ASSUME NEW w \in Writers, Begin(w) PROVE ReadsInv'
  <2>1. /\ clock' \in Nat /\ stamp' \in [Writers -> Nat]
        /\ snapshots' = snapshots /\ chain' = chain
    BY <1>1 DEF Begin, ReadsInv
  <2> QED
    BY <2>1 DEF ReadsInv
<1>2. ASSUME NEW w \in Writers, Publish(w) \/ PublishRefresh(w) PROVE ReadsInv'
  <2>1. Adds(w)
    BY <1>2, PublishAdds, RefreshAdds
  <2> QED
    BY <2>1 DEF ReadsInv, Adds
<1>3. CASE UNCHANGED ledger
  BY <1>3 DEF ledger, ReadsInv
<1>4. ASSUME NEW cl \in Clients, Serve(cl) PROVE UNCHANGED ledger
  BY <1>4 DEF Serve, Ask, Read, ReadHistory, Fail, Enter, Insert, Answer, Die
<1>5. CASE UNCHANGED vars
  BY <1>3, <1>5 DEF vars, ledger
<1> QED
  BY <1>1, <1>2, <1>3, <1>4, <1>5 DEF Next

\* An answer as of three instants is settled: a publication that began after the
\* instant known or the instant available adds events the projection does not see
\* (HistoricalClaimProjector.project) and rows the bundle does not read
\* (read_bundle_source), so only an earlier one, or a replay, rewrites it.
THEOREM AnswersAreSettled == Spec => OnlyWhatWasKnownRewrites
<1> DEFINE Settled ==
      snapshots' # snapshots =>
        \A events \in {chain'}, rows \in {occurrences'}, q \in Asked :
          AnswerFrom(events, rows, q) # AnswerTo(q) =>
            \A w \in Published : w \in Replays \/ stamp[w] <= Min({q.known, q.available})
<1>1. ReadsInv /\ [Next]_vars => [Settled]_vars
  <2> SUFFICES ASSUME ReadsInv, Next, snapshots' # snapshots,
                      NEW events \in {chain'}, NEW rows \in {occurrences'}, NEW q \in Asked,
                      AnswerFrom(events, rows, q) # AnswerTo(q), NEW w \in Published, w \notin Replays
               PROVE  stamp[w] <= Min({q.known, q.available})
    OBVIOUS
  <2>1. PICK v \in Writers : Publish(v) \/ PublishRefresh(v)
    BY DEF Next, Begin, Serve, Ask, Read, ReadHistory, Fail, Enter, Insert, Answer, Die, ledger
  <2>2. Adds(v)
    BY <2>1, PublishAdds, RefreshAdds
  <2>3. v = w /\ stamp[w] \in Nat
    BY <2>2 DEF Published, Adds, ReadsInv
  <2>4. ~(stamp[w] > q.known \/ stamp[w] > q.available)
    BY <2>2, <2>3, LaterIsUntold
  <2>5. q.known \in Nat /\ q.available \in Nat
    BY InstantsAssumption DEF Asked
  <2>6. Min({q.known, q.available}) \in {q.known, q.available}
    <3>1. \E m \in {q.known, q.available} : \A n \in {q.known, q.available} : m <= n
      BY <2>5
    <3> QED
      BY <3>1 DEF Min
  <2> QED
    BY <2>3, <2>4, <2>5, <2>6
<1> QED
  BY <1>1, ReadsBegin, ReadsStep, PTL DEF Spec, OnlyWhatWasKnownRewrites

-----------------------------------------------------------------------------
(***************************************************************************)
(* What a bundle shows.                                                      *)
(***************************************************************************)
\* An event that names a snapshot names the occurrence that stands in it.
Names(says, c) ==
  /\ "snapshot" \in DOMAIN says <=> "occurrence" \in DOMAIN says
  /\ "snapshot" \in DOMAIN says =>
       /\ says["snapshot"] \in Sources \cap DOMAIN snapshots
       /\ says["occurrence"] = Standing(says["snapshot"], c).occurrence

EventsStand == \A c \in Claims : \A n \in DOMAIN chain[c] : Names(chain[c][n].says, c)

SnapshotsStand == \A s \in Sources : s \in DOMAIN snapshots => snapshots[s].of = s

\* What a client has read goes with what is stored, now and later.
Recorded(s, r) ==
  /\ s \in DOMAIN snapshots /\ r.claim \in ClaimsIn(snapshots[s].of)
  /\ r.occurrence \in DOMAIN occurrences
  /\ \E row \in {occurrences[r.occurrence]} :
       /\ r.claim = row.claim /\ r.review = row.review /\ r.primary = row.primary
       /\ r.contested <=> row.claim \in Contradicted

Shown(s, i) == Recorded(s, i) /\ Stands(snapshots[s].of, i)

Honest(b) ==
  \A i \in b.items :
    /\ Shown(b.request.snapshot, i)
    /\ b.request.contract = "v2" => ~i.review /\ ~i.contested /\ "transcript" \in i.primary

CallStands(c) ==
  /\ c.pc = "projecting" =>
       /\ \A r \in c.rows : Recorded(c.request.snapshot, r)
       /\ \A i \in c.items : Shown(c.request.snapshot, i)
  /\ c.pc = "inserting" => Honest(c.bundle)

CallsStand == \A cl \in Clients : CallStands(call[cl])

BundlesStand == \A b \in bundles : Honest(b)

StandInv ==
  /\ EventsStand
  /\ SnapshotsStand
  /\ CallsStand
  /\ BundlesStand

\* A projection that names a snapshot names the occurrence that stands in it: both
\* come from the last visible event that names one.
LEMMA ProjectionNames ==
  ASSUME ReadsInv, EventsStand, NEW c \in Claims, NEW q,
         {"snapshot", "occurrence"} \subseteq DOMAIN Project(chain[c], q)
  PROVE  LET p == Project(chain[c], q) IN
         p["snapshot"] \in Sources /\ p["occurrence"] = Standing(p["snapshot"], c).occurrence
<1>1. PICK s, ns, state : s = chain[c] /\ ns = Seen(s, q) /\ state = State(s, ns)
  OBVIOUS
<1>2. IsChain(s) /\ ns \subseteq DOMAIN s /\ \A n \in ns : Names(s[n].says, c)
  BY <1>1 DEF ReadsInv, EventsStand, Seen
<1>3. PICK p : p = Project(s, q)
  OBVIOUS
<1>4. /\ {"snapshot", "occurrence"} \subseteq DOMAIN state
      /\ p["snapshot"] = state["snapshot"] /\ p["occurrence"] = state["occurrence"]
  <2>1. CASE Lives(s, ns) = {}
    <3>1. p = state
      BY <1>1, <1>3, <2>1 DEF Project
    <3> QED
      BY <1>1, <1>3, <3>1
  <2>2. CASE Lives(s, ns) # {}
    <3>1. p = [field \in {"lifecycle"} \cup DOMAIN state |->
                IF field = "lifecycle" THEN s[Latest(Lives(s, ns))].says.status ELSE state[field]]
      BY <1>1, <1>3, <2>2 DEF Project
    <3>2. DOMAIN p = {"lifecycle"} \cup DOMAIN state
      BY <3>1
    <3>3. {"snapshot", "occurrence"} \subseteq DOMAIN p
      BY <1>1, <1>3
    <3>4. \A field \in DOMAIN state : field # "lifecycle" => p[field] = state[field]
      BY <3>1
    <3> QED
      BY <3>2, <3>3, <3>4
  <2> QED
    BY <2>1, <2>2
<1>5. PICK bearing : bearing = Bearing(s, ns, "snapshot")
  OBVIOUS
<1>6. bearing = Bearing(s, ns, "occurrence")
  BY <1>2, <1>5 DEF Bearing, Names
<1>7. state["snapshot"] = s[Latest(bearing)].says["snapshot"]
      /\ state["occurrence"] = s[Latest(bearing)].says["occurrence"]
  BY <1>1, <1>4, <1>5, <1>6 DEF State
<1>8. bearing # {} /\ bearing \subseteq ns
  <2>1. "snapshot" \in Fields(s, ns)
    BY <1>1, <1>4 DEF State
  <2> QED
    BY <1>5, <2>1 DEF Bearing, Fields
<1>9. Latest(bearing) \in bearing
  BY <1>2, <1>8, LatestIs
<1>10. "snapshot" \in DOMAIN s[Latest(bearing)].says /\ Names(s[Latest(bearing)].says, c)
  BY <1>2, <1>5, <1>8, <1>9 DEF Bearing
<1> QED
  BY <1>1, <1>3, <1>4, <1>7, <1>10 DEF Names

\* Hence an item is of the occurrence that stands in the snapshot asked for.
LEMMA ItemsStand ==
  ASSUME ReadsInv, EventsStand, SnapshotsStand, NEW q, NEW r, Recorded(q.snapshot, r),
         NEW i \in ItemsOf(r, chain[r.claim], q)
  PROVE  Shown(q.snapshot, i)
<1>1. PICK p : p = Project(chain[r.claim], q)
  OBVIOUS
<1>2. /\ i.claim = r.claim /\ i.occurrence = r.occurrence /\ i.review = r.review
      /\ i.primary = r.primary /\ i.contested = r.contested
      /\ Selects(p, q, r.occurrence)
  BY <1>1 DEF ItemsOf
<1>3. q.snapshot \in DOMAIN snapshots /\ r.claim \in Claims
  BY SourcesMakeClaims DEF Recorded, ReadsInv
<1>4. {"snapshot", "occurrence"} \subseteq DOMAIN p /\ p["snapshot"] = q.snapshot /\ p["occurrence"] = r.occurrence
  BY <1>2 DEF Selects
<1>5. p["snapshot"] \in Sources /\ p["occurrence"] = Standing(p["snapshot"], r.claim).occurrence
  BY <1>1, <1>3, <1>4, ProjectionNames
<1>6. snapshots[q.snapshot].of = q.snapshot
  BY <1>3, <1>4, <1>5 DEF SnapshotsStand
<1> QED
  BY <1>2, <1>4, <1>5, <1>6 DEF Shown, Stands, Recorded

\* And a bundle has items of its request that are eligible.
LEMMA BundleHolds ==
  ASSUME NEW q, NEW items, Bundle(q, items) # Refused
  PROVE  /\ Bundle(q, items).request = q
         /\ \A i \in Bundle(q, items).items :
              /\ i \in items
              /\ q.contract = "v2" => ~i.review /\ ~i.contested /\ "transcript" \in i.primary
<1>1. PICK eligible : eligible = {i \in items : Eligible(i, q)}
  OBVIOUS
<1>2. Bundle(q, items).request = q /\ Bundle(q, items).items = Top(eligible, q.most)
  BY <1>1 DEF Bundle
<1>3. Top(eligible, q.most) \subseteq eligible
  BY DEF Top
<1> QED
  BY <1>1, <1>2, <1>3 DEF Eligible

\* What stands goes on standing while the tables grow.
Grown ==
  /\ DOMAIN snapshots \subseteq DOMAIN snapshots'
  /\ \A s \in DOMAIN snapshots : snapshots'[s] = snapshots[s]
  /\ DOMAIN occurrences \subseteq DOMAIN occurrences'
  /\ \A o \in DOMAIN occurrences : occurrences'[o] = occurrences[o]

\* What has been read, built and stored stays true of the tables.
LEMMA ShownStays ==
  ASSUME Grown
  PROVE  /\ \A s, r : Recorded(s, r) => Recorded(s, r)'
         /\ \A s, i : Shown(s, i) => Shown(s, i)'
         /\ \A b : Honest(b) => Honest(b)'
         /\ \A c : CallStands(c) => CallStands(c)'
<1>1. \A s, r : Recorded(s, r) => Recorded(s, r)'
  BY DEF Grown, Recorded
<1>2. \A s, i : Shown(s, i) => Shown(s, i)'
  BY <1>1 DEF Grown, Shown, Recorded, Stands
<1>3. \A b : Honest(b) => Honest(b)'
  BY <1>2 DEF Honest
<1> QED
  BY <1>1, <1>2, <1>3 DEF CallStands

-----------------------------------------------------------------------------
\* The occurrence that stands is one the ingest drafted.
LEMMA StandingIsDrafted ==
  ASSUME NEW w \in Sources, NEW c \in ClaimsIn(w)
  PROVE  \E v \in Ingests : Drafts(w) = Draft[v] /\ Standing(w, c) \in ToSet(Draft[v])
<1>1. PICK v \in Ingests : Drafts(w) = Draft[v]
  BY WritersAssumption DEF Drafts, Sources
<1>2. PICK drafts : drafts = Drafts(w)
  OBVIOUS
<1>3. IsChain(drafts)
  BY <1>1, <1>2, DraftsAssumption DEF IsChain
<1>4. PICK ns : ns = DraftsOf(w, c)
  OBVIOUS
<1>5. ns \subseteq DOMAIN drafts /\ ns # {}
  BY <1>2, <1>4 DEF DraftsOf, ClaimsIn, ToSet
<1>6. Latest(ns) \in DOMAIN drafts
  BY <1>3, <1>5, LatestIs
<1> QED
  BY <1>1, <1>2, <1>4, <1>6 DEF Standing, ToSet

\* A publication leaves what stands, and what it adds stands too.
LEMMA WriterKeepsStanding ==
  ASSUME ReadsInv, StandInv, NEW w \in Writers, Publish(w) \/ PublishRefresh(w)
  PROVE  StandInv'
<1>1. Adds(w)
  BY PublishAdds, RefreshAdds
<1>2. Grown
  BY <1>1 DEF Adds, Grown
<1>3. UNCHANGED <<call, bundles>>
  BY DEF Publish, PublishRefresh
<1>4. CallsStand' /\ BundlesStand'
  BY <1>2, <1>3, ShownStays DEF StandInv, CallsStand, BundlesStand
<1>5. \A says, c : Names(says, c) => Names(says, c)'
  BY <1>2 DEF Grown, Names
<1>6. \A c \in Claims : /\ IsChain(chain[c]) /\ DOMAIN chain[c] \subseteq DOMAIN chain'[c]
                        /\ \A n \in DOMAIN chain[c] : chain'[c][n] = chain[c][n]
  BY <1>1 DEF Adds, ReadsInv
<1>7. \A c \in Claims : \A n \in DOMAIN chain[c] : \A e \in {chain'[c][n]} : Names(e.says, c)'
  BY <1>5, <1>6 DEF StandInv, EventsStand
<1>8. CASE Publish(w)
  <2>1. /\ w \in Sources /\ w \notin DOMAIN snapshots
        /\ snapshots' = Extended(snapshots, [s \in {w} |-> [of |-> w, created |-> stamp[w]]])
        /\ chain' = [c \in Claims |->
              IF c \in ClaimsIn(w) THEN chain[c] \o <<Initial(w, c), Lifecycle(w, c)>> ELSE chain[c]]
    BY <1>8 DEF Publish
  <2>2. SnapshotsStand'
    BY <2>1 DEF StandInv, SnapshotsStand, Extended
  <2>3. ASSUME NEW c \in Claims, NEW n \in DOMAIN chain'[c], n \notin DOMAIN chain[c]
        PROVE  \A x \in {chain'[c][n]} : Names(x.says, c)'
    <3>1. c \in ClaimsIn(w)
      BY <2>1, <2>3
    <3>2. PICK e, f : e = Initial(w, c) /\ f = Lifecycle(w, c)
      OBVIOUS
    <3>3. chain'[c] = chain[c] \o <<e, f>>
      BY <2>1, <3>1, <3>2
    <3>4. chain'[c][n] \in {e, f}
      BY <1>6, <2>3, <3>3, ChainGrowsByTwo
    <3>5. w \in Sources \cap DOMAIN snapshots'
      BY <1>1, <2>1 DEF Adds
    <3>6. Names(e.says, c)'
      BY <3>2, <3>5 DEF Initial, Names
    <3>7. Names(f.says, c)'
      BY <3>2 DEF Lifecycle, Names
    <3> QED
      BY <3>4, <3>6, <3>7
  <2>4. \A c \in Claims : \A n \in DOMAIN chain'[c] : \A x \in {chain'[c][n]} : Names(x.says, c)'
    BY <1>7, <2>3
  <2>7. EventsStand'
    BY <2>4 DEF EventsStand, Names
  <2> QED
    BY <1>4, <2>2, <2>7 DEF StandInv
<1>9. CASE PublishRefresh(w)
  <2>1. /\ w \in Refreshes /\ RefreshOf[w] \in Claims /\ w \notin Sources
        /\ chain' = [chain EXCEPT ![RefreshOf[w]] = Append(@, Refresh(w))]
        /\ occurrences' = occurrences
    BY <1>9, WritersAssumption DEF PublishRefresh
  <2>2. SnapshotsStand'
    BY <1>1, <2>1 DEF Adds, StandInv, SnapshotsStand
  <2>4. ASSUME NEW c \in Claims, NEW n \in DOMAIN chain'[c], n \notin DOMAIN chain[c]
        PROVE  \A x \in {chain'[c][n]} : Names(x.says, c)'
    <3>1. DOMAIN chain = Claims
      BY DEF ReadsInv
    <3>2. PICK e : e = Refresh(w)
      OBVIOUS
    <3>3. c = RefreshOf[w] /\ chain'[c] = Append(chain[c], e)
      BY <2>1, <2>4, <3>1, <3>2
    <3>4. chain'[c][n] = e
      BY <1>6, <2>4, <3>3, ChainGrows
    <3> QED
      BY <3>2, <3>4 DEF Refresh, Names
  <2>5. \A c \in Claims : \A n \in DOMAIN chain'[c] : \A x \in {chain'[c][n]} : Names(x.says, c)'
    BY <1>7, <2>4
  <2>6. EventsStand'
    BY <2>5 DEF EventsStand, Names
  <2> QED
    BY <1>4, <2>2, <2>6 DEF StandInv
<1> QED
  BY <1>8, <1>9

\* A client's step keeps what it has read, and what it stores is what it has built.
LEMMA ClientKeepsStanding ==
  ASSUME ReadsInv, StandInv, ClientCalls, NEW cl \in Clients, Serve(cl)
  PROVE  StandInv'
<1>1. UNCHANGED ledger
  BY DEF Serve, Ask, Read, ReadHistory, Fail, Enter, Insert, Answer, Die
<1>2. Grown /\ EventsStand' /\ SnapshotsStand'
  BY <1>1 DEF ledger, Grown, StandInv, EventsStand, SnapshotsStand, Names
<1>3. ASSUME NEW next, Step(cl, next), CallStands(next), UNCHANGED bundles
      PROVE  StandInv'
  <2>1. \A other \in Clients : call'[other] = call[other] \/ call'[other] = next
    BY <1>3 DEF Step, ClientCalls
  <2>2. \A other \in Clients : CallStands(call'[other])
    BY <1>3, <2>1 DEF StandInv, CallsStand
  <2>3. \A other \in Clients : \A c \in {call'[other]} : CallStands(c)'
    BY <1>2, <2>2, ShownStays
  <2>4. CallsStand'
    BY <2>3 DEF CallsStand, CallStands
  <2>5. BundlesStand'
    BY <1>2, <1>3, ShownStays DEF StandInv, BundlesStand
  <2> QED
    BY <1>2, <2>4, <2>5 DEF StandInv
<1>4. CallStands(NoCall)
  BY DEF CallStands, NoCall
<1>5. CallStands(call[cl])
  BY DEF StandInv, CallsStand
<1>6. CASE Ask(cl)
  <2>1. UNCHANGED bundles
    BY <1>6 DEF Ask
  <2>2. CASE UNCHANGED call
    BY <1>2, <2>1, <2>2, ShownStays DEF StandInv, CallsStand, BundlesStand
  <2>3. CASE \E key \in Keys, q \in Requests : Step(cl, [pc |-> "reading", key |-> key, request |-> q])
    <3>1. PICK next : Step(cl, next) /\ next.pc = "reading"
      BY <2>3
    <3> QED
      BY <1>3, <2>1, <3>1 DEF CallStands
  <2> QED
    BY <1>6, <2>2, <2>3 DEF Ask
<1>7. CASE Read(cl)
  <2>1. PICK q : q = call[cl].request
    OBVIOUS
  <2>2. CASE Found(q)
    <3>1. PICK next : next = [pc |-> "projecting", key |-> call[cl].key, request |-> q,
                              rows |-> Rows(occurrences, q), items |-> {}]
      OBVIOUS
    <3>2. Step(cl, next) /\ UNCHANGED bundles
      BY <1>7, <2>1, <2>2, <3>1 DEF Read, store
    <3>3. ASSUME NEW r \in Rows(occurrences, q) PROVE Recorded(q.snapshot, r)
      <4>1. PICK o \in DOMAIN occurrences :
              /\ Holds(q.snapshot, occurrences[o].claim)
              /\ r = [claim |-> occurrences[o].claim, occurrence |-> o,
                      review |-> occurrences[o].review, primary |-> occurrences[o].primary,
                      contested |-> occurrences[o].claim \in Contradicted]
        BY DEF Rows
      <4>2. /\ r.claim = occurrences[o].claim /\ r.occurrence = o
            /\ r.review = occurrences[o].review /\ r.primary = occurrences[o].primary
        BY <4>1
      <4>3. r.contested <=> occurrences[o].claim \in Contradicted
        BY <4>1, Zenon
      <4>4. q.snapshot \in DOMAIN snapshots /\ r.claim \in ClaimsIn(snapshots[q.snapshot].of)
        BY <2>2, <4>1, <4>2 DEF Found, Holds
      <4> QED
        BY <4>2, <4>3, <4>4 DEF Recorded
    <3>4. CallStands(next)
      BY <3>1, <3>3 DEF CallStands
    <3> QED
      BY <1>3, <3>2, <3>4
  <2>3. CASE ~Found(q)
    BY <1>3, <1>4, <1>7, <2>1, <2>3 DEF Read, store
  <2> QED
    BY <2>2, <2>3
<1>8. CASE ReadHistory(cl)
  <2>1. PICK r \in call[cl].rows : Step(cl, [call[cl] EXCEPT
            !.rows = @ \ {r},
            !.items = @ \cup ItemsOf(r, chain[r.claim], call[cl].request)])
    BY <1>8 DEF ReadHistory
  <2>2. PICK q : q = call[cl].request
    OBVIOUS
  <2>3. PICK next : next = [call[cl] EXCEPT
            !.rows = @ \ {r},
            !.items = @ \cup ItemsOf(r, chain[r.claim], q)]
    OBVIOUS
  <2>4. Step(cl, next) /\ UNCHANGED bundles
    BY <1>8, <2>1, <2>2, <2>3 DEF ReadHistory, store
  <2>5. /\ call[cl].pc = "projecting" /\ Recorded(q.snapshot, r)
        /\ \A x \in call[cl].rows : Recorded(q.snapshot, x)
        /\ \A i \in call[cl].items : Shown(q.snapshot, i)
    BY <1>5, <1>8, <2>2 DEF ReadHistory, CallStands
  <2>6. \A i \in ItemsOf(r, chain[r.claim], q) : Shown(q.snapshot, i)
    BY <2>5, ItemsStand DEF StandInv
  <2>7. CallStands(next)
    BY <2>2, <2>3, <2>5, <2>6 DEF CallStands
  <2> QED
    BY <1>3, <2>4, <2>7
<1>9. CASE Enter(cl)
  <2>1. PICK q, items : q = call[cl].request /\ items = call[cl].items
    OBVIOUS
  <2>2. UNCHANGED bundles /\ call[cl].pc = "projecting" /\ Bundle(q, items) # Refused
    BY <1>9, <2>1 DEF Enter, Built, Made
  <2>3. Honest(Bundle(q, items))
    BY <1>5, <2>1, <2>2, BundleHolds DEF CallStands, Honest
  <2>4. CallStands([pc |-> "inserting", key |-> call[cl].key, request |-> q, bundle |-> Bundle(q, items)])
    BY <2>3 DEF CallStands
  <2>5. Step(cl, NoCall) \/ Step(cl, [pc |-> "inserting", key |-> call[cl].key, request |-> q,
                                      bundle |-> Bundle(q, items)])
    BY <1>9, <2>1 DEF Enter, Made
  <2> QED
    BY <1>3, <1>4, <2>2, <2>4, <2>5
<1>10. CASE Insert(cl)
  <2>1. PICK next : Step(cl, next) /\ next.pc = "answering"
    BY <1>10 DEF Insert
  <2>2. bundles' = bundles \cup {call[cl].bundle} /\ Honest(call[cl].bundle)
    BY <1>5, <1>10 DEF Insert, CallStands
  <2>3. BundlesStand'
    BY <1>2, <2>2, ShownStays DEF StandInv, BundlesStand
  <2>4. \A other \in Clients : call'[other] = call[other] \/ call'[other] = next
    BY <2>1 DEF Step, ClientCalls
  <2>5. \A other \in Clients : \A c \in {call'[other]} : CallStands(c)
    BY <2>1, <2>4 DEF StandInv, CallsStand, CallStands
  <2>6. \A other \in Clients : \A c \in {call'[other]} : CallStands(c)'
    BY <1>2, <2>5, ShownStays
  <2>7. CallsStand'
    BY <2>6 DEF CallsStand, CallStands
  <2> QED
    BY <1>2, <2>3, <2>7 DEF StandInv
<1>11. CASE Fail(cl) \/ Answer(cl) \/ Die(cl)
  BY <1>3, <1>4, <1>11 DEF Fail, Answer, Die, store
<1> QED
  BY <1>6, <1>7, <1>8, <1>9, <1>10, <1>11 DEF Serve

\* Initially there is nothing to show.
LEMMA StandingBegins == Init => StandInv
<1> SUFFICES ASSUME Init PROVE StandInv
  OBVIOUS
<1>1. \A c \in Claims : DOMAIN chain[c] = {}
  BY DEF Init
<1>2. DOMAIN snapshots = {} /\ DOMAIN occurrences = {} /\ bundles = {}
  BY DEF Init
<1>3. \A cl \in Clients : call[cl].pc = "idle"
  BY DEF Init, NoCall
<1> QED
  BY <1>1, <1>2, <1>3 DEF StandInv, EventsStand, SnapshotsStand, CallsStand, CallStands, BundlesStand

\* Each step is a writer's or a client's.
LEMMA StandingStays == ReadsInv /\ ClientCalls /\ StandInv /\ [Next]_vars => StandInv'
<1> SUFFICES ASSUME ReadsInv, ClientCalls, StandInv, [Next]_vars PROVE StandInv'
  OBVIOUS
<1>1. CASE UNCHANGED <<snapshots, occurrences, chain, bundles, call>>
  BY <1>1, ShownStays DEF Grown, StandInv, EventsStand, Names, SnapshotsStand, CallsStand, BundlesStand
<1>2. ASSUME NEW w \in Writers, Begin(w) PROVE UNCHANGED <<snapshots, chain, occurrences, bundles, call>>
  BY <1>2 DEF Begin
<1>3. ASSUME NEW w \in Writers, Publish(w) \/ PublishRefresh(w) PROVE StandInv'
  BY <1>3, WriterKeepsStanding
<1>4. ASSUME NEW cl \in Clients, Serve(cl) PROVE StandInv'
  BY <1>4, ClientKeepsStanding
<1>5. CASE UNCHANGED vars
  BY <1>1, <1>5 DEF vars
<1> QED
  BY <1>1, <1>2, <1>3, <1>4, <1>5 DEF Next

\* Hence it holds of every behaviour.
LEMMA StandingHolds == Spec => [](ReadsInv /\ StandInv)
<1>1. IInv => ClientCalls
  BY DEF IInv
<1> QED
  BY <1>1, InitInv, NextKeeps, ReadsBegin, ReadsStep, StandingBegins, StandingStays, PTL DEF Spec

\* A bundle shows the occurrences its own snapshot left standing, whichever ingests
\* recorded the claims while it was read (read_bundle_source, HistoricalClaimProjector).
THEOREM BundlesShowWhatStands == Spec => []ShowsWhatStands
<1>1. StandInv => ShowsWhatStands
  BY DEF StandInv, BundlesStand, Honest, Shown, ShowsWhatStands
<1> QED
  BY <1>1, StandingHolds, PTL

\* And nothing is known against what a v2 bundle shows (public_strict_eligible looks
\* at the rows, which keep what the first draft said of the occurrence).
THEOREM BundlesAreOfTheirSnapshot == Spec => []BundleIsOfItsSnapshot
<1>1. StandInv => ShowsWhatStands /\ ShowsTheUndisputed
  BY DEF StandInv, BundlesStand, Honest, Shown, Recorded, ShowsWhatStands, ShowsTheUndisputed, Undisputed
<1> QED
  BY <1>1, StandingHolds, PTL DEF BundleIsOfItsSnapshot

-----------------------------------------------------------------------------
(***************************************************************************)
(* What the newest snapshot is shown as.                                     *)
(***************************************************************************)
\* Nothing bears a time to come.
Times ==
  /\ \A w \in Writers : stamp[w] \in 0 .. clock
  /\ \A s \in DOMAIN snapshots : snapshots[s].created \in 0 .. clock
  /\ \A o \in DOMAIN occurrences : occurrences[o].at \in 0 .. clock
  /\ \A c \in Claims : \A n \in DOMAIN chain[c] :
       {chain[c][n].known, chain[c][n].available, chain[c][n].effective} \subseteq 0 .. clock

\* An ingest's two events of a claim, one after the other.
Recording(w, c, e, f) ==
  /\ e.type = "INITIAL" /\ DOMAIN e.says = {"snapshot", "occurrence", "support", "status"}
  /\ e.says["snapshot"] = w /\ e.says["occurrence"] = Standing(w, c).occurrence
  /\ e.says["support"] = SupportOf(Standing(w, c))
  /\ f.type = "LIFECYCLE" /\ DOMAIN f.says = {"status"}
  /\ f.says.status = (IF UnderReview(w, c) THEN "EXTRACTED" ELSE "ACTIVE")

Refreshing(e) == e.type = "REFRESH" /\ DOMAIN e.says = {"status"}

RecordedAt(s, c, n) ==
  n + 1 \in DOMAIN s /\ \E w \in Sources : Recording(w, c, s[n], s[n + 1])

\* A history is made of such pairs and refreshes.
IsHistory(s, c) ==
  \A n \in DOMAIN s :
    \/ RecordedAt(s, c, n)
    \/ n - 1 \in DOMAIN s /\ RecordedAt(s, c, n - 1)
    \/ Refreshing(s[n])

Histories == \A c \in Claims : IsHistory(chain[c], c)

\* A published ingest has recorded its claims and has rows for its occurrences.
Recorders ==
  \A w \in Sources \cap DOMAIN snapshots :
    /\ \A c \in ClaimsIn(w) : \E n \in DOMAIN chain[c] : chain[c][n].type = "INITIAL"
    /\ \A d \in ToSet(Drafts(w)) : d.occurrence \in DOMAIN occurrences

\* A row has the claim of a draft of its occurrence.
RowsAreDrafted ==
  /\ IsFiniteSet(DOMAIN occurrences)
  /\ \A o \in DOMAIN occurrences : \E v \in Ingests : \E d \in ToSet(Draft[v]) :
       d.occurrence = o /\ d.claim = occurrences[o].claim

NewestInv == Times /\ Histories /\ Recorders /\ RowsAreDrafted

\* Initially no time but the clock's has come.
LEMMA NewestBegins == Init => NewestInv
<1> SUFFICES ASSUME Init PROVE NewestInv
  OBVIOUS
<1>1. clock = 1 /\ \A w \in Writers : stamp[w] = 0
  BY DEF Init
<1>2. DOMAIN snapshots = {} /\ DOMAIN occurrences = {} /\ \A c \in Claims : DOMAIN chain[c] = {}
  BY DEF Init
<1>3. IsFiniteSet(DOMAIN occurrences)
  BY <1>2, FS_EmptySet
<1> QED
  BY <1>1, <1>2, <1>3 DEF NewestInv, Times, Histories, IsHistory, Recorders, RowsAreDrafted

\* Two events at the end, at their places.
GrownByPair(s, t, e, f) ==
  /\ DOMAIN s \subseteq DOMAIN t /\ DOMAIN t \subseteq Nat
  /\ \A n \in DOMAIN s : t[n] = s[n]
  /\ \E n \in DOMAIN t \ DOMAIN s :
       /\ n + 1 \in DOMAIN t /\ t[n] = e /\ t[n + 1] = f
       /\ \A m \in DOMAIN t \ DOMAIN s : m = n \/ m = n + 1

\* That is what a pair of events makes of a chain.
LEMMA PairAtTheEnd ==
  ASSUME NEW s, IsChain(s), NEW e, NEW f
  PROVE  GrownByPair(s, s \o <<e, f>>, e, f)
<1>1. PICK S : s \in Seq(S)
  BY DEF IsChain
<1> DEFINE T == S \cup {e, f}
<1>2. s \in Seq(T) /\ e \in T /\ f \in T /\ Len(s) \in Nat /\ DOMAIN s = 1 .. Len(s)
  BY <1>1
<1>3. <<e, f>> \in Seq(T)
  BY <1>2
<1> HIDE DEF T
<1>4. PICK t : t = s \o <<e, f>>
  OBVIOUS
<1>5. /\ DOMAIN t = 1 .. Len(s) + 2
      /\ \A n \in 1 .. Len(s) : t[n] = s[n]
      /\ t[Len(s) + 1] = e /\ t[Len(s) + 2] = f
  BY <1>2, <1>3, <1>4
<1>6. \A n \in 1 .. Len(s) + 2 : n \notin 1 .. Len(s) => n = Len(s) + 1 \/ n = Len(s) + 2
  BY <1>2
<1>7. /\ Len(s) + 1 \in DOMAIN t \ DOMAIN s /\ Len(s) + 1 + 1 = Len(s) + 2
      /\ Len(s) + 2 \in DOMAIN t /\ DOMAIN s \subseteq DOMAIN t
      /\ DOMAIN s \subseteq Nat /\ DOMAIN t \subseteq Nat
  BY <1>2, <1>5
<1>8. GrownByPair(s, t, e, f)
  BY <1>2, <1>5, <1>6, <1>7 DEF GrownByPair
<1> QED
  BY <1>4, <1>8

\* Histories grow into histories.
LEMMA HistoryStays ==
  ASSUME NEW c, NEW s, NEW t, IsHistory(s, c), DOMAIN s \subseteq DOMAIN t,
         \A n \in DOMAIN s : t[n] = s[n]
  PROVE  \A n \in DOMAIN s :
           \/ RecordedAt(t, c, n)
           \/ n - 1 \in DOMAIN t /\ RecordedAt(t, c, n - 1)
           \/ Refreshing(t[n])
BY DEF IsHistory, RecordedAt

\* The time a snapshot is created lies between those of its parent and its result.
LEMMA MaxOfTwo ==
  ASSUME NEW a \in Nat, NEW b \in Nat
  PROVE  Max({a, b}) \in {a, b}
<1>1. \E m \in {a, b} : \A n \in {a, b} : n <= m
  OBVIOUS
<1> QED
  BY <1>1 DEF Max

\* A writer that begins takes the clock's time and moves it on.
LEMMA BeginKeepsNewest ==
  ASSUME ReadsInv, NewestInv, NEW w \in Writers, Begin(w)
  PROVE  NewestInv'
<1>1. /\ clock \in Nat /\ clock' = clock + 1 /\ stamp' = [stamp EXCEPT ![w] = clock]
      /\ UNCHANGED <<snapshots, chain, occurrences>>
  BY DEF Begin, ReadsInv
<1>2. 0 .. clock \subseteq 0 .. clock' /\ clock \in 0 .. clock'
  BY <1>1
<1>3. \A x \in Writers : stamp'[x] \in 0 .. clock'
  BY <1>1, <1>2 DEF NewestInv, Times, ReadsInv
<1>4. Times'
  BY <1>1, <1>2, <1>3 DEF NewestInv, Times
<1> QED
  BY <1>1, <1>4 DEF NewestInv, Histories, Recorders, RowsAreDrafted

\* An ingest or a replay records each of its claims by a pair of events, and its
\* occurrences by rows.
LEMMA PublishKeepsNewest ==
  ASSUME ReadsInv, NewestInv, NEW w \in Writers, Publish(w)
  PROVE  NewestInv'
<1>1. /\ w \in Sources /\ w \notin DOMAIN snapshots
      /\ snapshots' = Extended(snapshots, [s \in {w} |-> [of |-> w, created |-> stamp[w]]])
      /\ chain' = [c \in Claims |->
            IF c \in ClaimsIn(w) THEN chain[c] \o <<Initial(w, c), Lifecycle(w, c)>> ELSE chain[c]]
      /\ UNCHANGED <<clock, stamp>>
  BY DEF Publish
<1>2. /\ DOMAIN snapshots' = DOMAIN snapshots \cup {w}
      /\ \A s \in DOMAIN snapshots : snapshots'[s] = snapshots[s]
      /\ snapshots'[w].created = stamp[w]
  BY <1>1 DEF Extended
<1>3. stamp[w] \in 0 .. clock /\ 0 \in 0 .. clock
  BY DEF NewestInv, Times, ReadsInv
<1>4. PICK v \in Ingests : Drafts(w) = Draft[v]
  BY <1>1, WritersAssumption DEF Drafts, Sources
<1> DEFINE Draw(o) == CHOOSE x \in ToSet(Drafts(w)) : x.occurrence = o
           found == {d.occurrence : d \in ToSet(Drafts(w))}
           Row(o) == [claim |-> Draw(o).claim, review |-> Draw(o).review,
                      primary |-> Draw(o).primary, at |-> stamp[w]]
<1>5. occurrences' = Extended(occurrences, [o \in found |-> Row(o)])
  BY DEF Publish
<1>6. \A o \in found : Draw(o) \in ToSet(Draft[v]) /\ Draw(o).occurrence = o
  BY <1>4
<1>7. \A o : Row(o).claim = Draw(o).claim /\ Row(o).at = stamp[w]
  OBVIOUS
<1>8. IsFiniteSet(found)
  <2>1. Len(Draft[v]) \in Nat /\ DOMAIN Draft[v] = 1 .. Len(Draft[v])
    BY DraftsAssumption
  <2>2. IsFiniteSet(DOMAIN Draft[v])
    BY <2>1, FS_Interval
  <2>3. [n \in DOMAIN Draft[v] |-> Draft[v][n].occurrence] \in Surjection(DOMAIN Draft[v], found)
    BY <1>4 DEF Surjection, ToSet
  <2> QED
    BY <2>2, <2>3, FS_Surjection
<1>9. \A d \in ToSet(Drafts(w)) : d.occurrence \in found
  OBVIOUS
<1> HIDE DEF Draw, Row, found
<1>10. /\ DOMAIN occurrences' = DOMAIN occurrences \cup found
       /\ \A o \in DOMAIN occurrences : occurrences'[o] = occurrences[o]
       /\ \A o \in DOMAIN occurrences' : o \notin DOMAIN occurrences =>
            o \in found /\ occurrences'[o] = Row(o)
  BY <1>5 DEF Extended
<1>11. RowsAreDrafted'
  <2>1. IsFiniteSet(DOMAIN occurrences')
    <3>1. IsFiniteSet(DOMAIN occurrences)
      BY DEF NewestInv, RowsAreDrafted
    <3>2. IsFiniteSet(DOMAIN occurrences \cup found)
      BY <1>8, <3>1, FS_Union
    <3> QED
      BY <1>10, <3>2
  <2> QED
    BY <1>6, <1>7, <1>10, <2>1 DEF NewestInv, RowsAreDrafted
<1>12. ASSUME NEW c \in Claims
       PROVE  /\ IsHistory(chain[c], c) => \A h \in {chain'[c]} : IsHistory(h, c)
              /\ DOMAIN chain[c] \subseteq DOMAIN chain'[c]
              /\ \A n \in DOMAIN chain[c] : chain'[c][n] = chain[c][n]
              /\ c \in ClaimsIn(w) => \E n \in DOMAIN chain'[c] : chain'[c][n].type = "INITIAL"
              /\ \A n \in DOMAIN chain'[c] \ DOMAIN chain[c] :
                   {chain'[c][n].known, chain'[c][n].available, chain'[c][n].effective} \subseteq {0, stamp[w]}
  <2>1. CASE c \notin ClaimsIn(w)
    BY <1>1, <2>1
  <2>2. CASE c \in ClaimsIn(w)
    <3>1. PICK s, e, f : s = chain[c] /\ e = Initial(w, c) /\ f = Lifecycle(w, c)
      OBVIOUS
    <3>2. PICK t : t = s \o <<e, f>>
      OBVIOUS
    <3>3. chain'[c] = t
      BY <1>1, <2>2, <3>1, <3>2
    <3>4. Recording(w, c, e, f)
      BY <3>1 DEF Initial, Lifecycle, Recording
    <3>5. /\ DOMAIN s \subseteq DOMAIN t /\ DOMAIN t \subseteq Nat
          /\ \A n \in DOMAIN s : t[n] = s[n]
          /\ \E n \in DOMAIN t \ DOMAIN s :
               /\ n + 1 \in DOMAIN t /\ t[n] = e /\ t[n + 1] = f
               /\ \A m \in DOMAIN t \ DOMAIN s : m = n \/ m = n + 1
      <4>1. IsChain(s)
        BY <3>1 DEF ReadsInv
      <4>2. GrownByPair(s, t, e, f)
        BY <3>2, <4>1, PairAtTheEnd
      <4> QED
        BY <4>2 DEF GrownByPair
    <3>6. PICK k \in DOMAIN t \ DOMAIN s :
               /\ k + 1 \in DOMAIN t /\ t[k] = e /\ t[k + 1] = f
               /\ \A m \in DOMAIN t \ DOMAIN s : m = k \/ m = k + 1
      BY <3>5
    <3>7. RecordedAt(t, c, k) /\ k + 1 - 1 = k
      BY <1>1, <3>4, <3>5, <3>6 DEF RecordedAt
    <3>8. IsHistory(s, c) => IsHistory(t, c)
      <4> SUFFICES ASSUME IsHistory(s, c), NEW n \in DOMAIN t
                   PROVE  \/ RecordedAt(t, c, n)
                          \/ n - 1 \in DOMAIN t /\ RecordedAt(t, c, n - 1)
                          \/ Refreshing(t[n])
        BY DEF IsHistory
      <4>1. CASE n \in DOMAIN s
        BY <3>5, <4>1, HistoryStays
      <4>2. CASE n \notin DOMAIN s
        <5>1. n = k \/ (n = k + 1 /\ n - 1 = k)
          BY <3>5, <3>6, <4>2
        <5> QED
          BY <3>6, <3>7, <5>1
      <4> QED
        BY <4>1, <4>2
    <3>9. /\ e.known = stamp[w] /\ e.available = stamp[w] /\ e.effective = 0
          /\ {f.known, f.available, f.effective} \subseteq {0, stamp[w]} /\ e.type = "INITIAL"
      BY <3>1 DEF Initial, Lifecycle, LifecycleTime, Boundary
    <3>10. \A n \in DOMAIN t \ DOMAIN s : t[n] = e \/ t[n] = f
      BY <3>6
    <3>11. \A n \in DOMAIN t \ DOMAIN s : {t[n].known, t[n].available, t[n].effective} \subseteq {0, stamp[w]}
      BY <3>9, <3>10
    <3> QED
      BY <3>1, <3>3, <3>5, <3>6, <3>8, <3>9, <3>11
  <2> QED
    BY <2>1, <2>2
<1>13. Histories'
  <2>1. \A c \in Claims : \A h \in {chain'[c]} : IsHistory(h, c)
    BY <1>12 DEF NewestInv, Histories
  <2> QED
    BY <2>1 DEF Histories
<1>14. Times'
  <2>1. \A s \in DOMAIN snapshots' : snapshots'[s].created \in 0 .. clock
    BY <1>2, <1>3 DEF NewestInv, Times
  <2>2. \A o \in DOMAIN occurrences' : occurrences'[o].at \in 0 .. clock
    BY <1>3, <1>7, <1>10 DEF NewestInv, Times
  <2>3. ASSUME NEW c \in Claims, NEW n \in DOMAIN chain'[c]
        PROVE  {chain'[c][n].known, chain'[c][n].available, chain'[c][n].effective} \subseteq 0 .. clock
    <3>1. {0, stamp[w]} \subseteq 0 .. clock
      BY <1>3
    <3>2. CASE n \in DOMAIN chain[c]
      <4>1. chain'[c][n] = chain[c][n]
        BY <1>12, <3>2
      <4> QED
        BY <3>2, <4>1 DEF NewestInv, Times
    <3>3. CASE n \notin DOMAIN chain[c]
      <4>1. {chain'[c][n].known, chain'[c][n].available, chain'[c][n].effective} \subseteq {0, stamp[w]}
        BY <1>12, <3>3
      <4> QED
        BY <3>1, <4>1
    <3> QED
      BY <3>2, <3>3
  <2> QED
    BY <1>1, <2>1, <2>2, <2>3 DEF NewestInv, Times
<1>15. Recorders'
  <2>1. \A x \in Sources : ClaimsIn(x) \subseteq Claims
    BY SourcesMakeClaims
  <2>2. \A x \in Sources \cap DOMAIN snapshots' : \A c \in ClaimsIn(x) :
          \E n \in DOMAIN chain'[c] : chain'[c][n].type = "INITIAL"
    BY <1>2, <1>12, <2>1 DEF NewestInv, Recorders
  <2>3. \A x \in Sources \cap DOMAIN snapshots' : \A d \in ToSet(Drafts(x)) : d.occurrence \in DOMAIN occurrences'
    BY <1>2, <1>9, <1>10 DEF NewestInv, Recorders
  <2> QED
    BY <2>2, <2>3 DEF Recorders
<1> QED
  BY <1>11, <1>13, <1>14, <1>15 DEF NewestInv

\* A refresh adds one event that names no snapshot.
LEMMA RefreshKeepsNewest ==
  ASSUME ReadsInv, NewestInv, NEW w \in Writers, PublishRefresh(w)
  PROVE  NewestInv'
<1>1. PICK parent \in DOMAIN snapshots :
        snapshots' = Extended(snapshots, [s \in {w} |->
          [of |-> snapshots[parent].of, created |-> Max({snapshots[parent].created, stamp[w]})]])
  BY DEF PublishRefresh
<1>2. /\ w \in Refreshes /\ w \notin DOMAIN snapshots /\ RefreshOf[w] \in Claims /\ w \notin Sources
      /\ chain' = [chain EXCEPT ![RefreshOf[w]] = Append(@, Refresh(w))]
      /\ UNCHANGED <<clock, stamp, occurrences>> /\ DOMAIN chain = Claims /\ clock \in Nat
  BY WritersAssumption DEF PublishRefresh, ReadsInv
<1>3. stamp[w] \in 0 .. clock /\ snapshots[parent].created \in 0 .. clock
  BY DEF NewestInv, Times
<1>4. /\ DOMAIN snapshots' = DOMAIN snapshots \cup {w}
      /\ \A s \in DOMAIN snapshots : snapshots'[s] = snapshots[s]
      /\ snapshots'[w].created \in 0 .. clock
  <2>1. Max({snapshots[parent].created, stamp[w]}) \in {snapshots[parent].created, stamp[w]}
    BY <1>2, <1>3, MaxOfTwo
  <2>2. Max({snapshots[parent].created, stamp[w]}) \in 0 .. clock
    BY <1>3, <2>1
  <2>3. PICK made : made = Max({snapshots[parent].created, stamp[w]})
    OBVIOUS
  <2> QED
    BY <1>1, <1>2, <2>2, <2>3 DEF Extended
<1>5. PICK e : e = Refresh(w)
  OBVIOUS
<1>6. Refreshing(e) /\ e.known = stamp[w] /\ e.available = stamp[w] /\ e.effective = 0
  BY <1>5 DEF Refresh, Refreshing, Boundary
<1>7. ASSUME NEW c \in Claims
      PROVE  /\ \A h \in {chain'[c]} : IsHistory(h, c)
             /\ DOMAIN chain[c] \subseteq DOMAIN chain'[c]
             /\ \A n \in DOMAIN chain[c] : chain'[c][n] = chain[c][n]
             /\ \A n \in DOMAIN chain'[c] \ DOMAIN chain[c] : chain'[c][n] = e
  <2>1. IsHistory(chain[c], c) /\ IsChain(chain[c])
    BY DEF NewestInv, Histories, ReadsInv
  <2>2. CASE c # RefreshOf[w]
    BY <1>2, <2>1, <2>2
  <2>3. CASE c = RefreshOf[w]
    <3>1. PICK s, t : s = chain[c] /\ t = Append(s, e)
      OBVIOUS
    <3>2. chain'[c] = t
      BY <1>2, <1>5, <2>3, <3>1
    <3>3. /\ DOMAIN s \subseteq DOMAIN t /\ \A n \in DOMAIN s : t[n] = s[n]
          /\ \A n \in DOMAIN t \ DOMAIN s : t[n] = e
      BY <2>1, <3>1, ChainGrows
    <3>4. IsHistory(t, c)
      <4>1. \A n \in DOMAIN s :
              \/ RecordedAt(t, c, n)
              \/ n - 1 \in DOMAIN t /\ RecordedAt(t, c, n - 1)
              \/ Refreshing(t[n])
        BY <2>1, <3>1, <3>3, HistoryStays
      <4> QED
        BY <1>6, <3>3, <4>1 DEF IsHistory
    <3> QED
      BY <3>1, <3>2, <3>3, <3>4
  <2> QED
    BY <2>2, <2>3
<1>8. Histories'
  <2>1. \A c \in Claims : \A h \in {chain'[c]} : IsHistory(h, c)
    BY <1>7
  <2> QED
    BY <2>1 DEF Histories
<1>9. Times'
  <2>1. \A s \in DOMAIN snapshots' : snapshots'[s].created \in 0 .. clock
    BY <1>4 DEF NewestInv, Times
  <2>2. {e.known, e.available, e.effective} \subseteq 0 .. clock
    BY <1>2, <1>3, <1>6
  <2>3. \A c \in Claims : \A n \in DOMAIN chain'[c] :
          {chain'[c][n].known, chain'[c][n].available, chain'[c][n].effective} \subseteq 0 .. clock
    BY <1>7, <2>2 DEF NewestInv, Times
  <2> QED
    BY <1>2, <2>1, <2>3 DEF NewestInv, Times
<1>10. Recorders'
  <2>1. \A x \in Sources : ClaimsIn(x) \subseteq Claims
    BY SourcesMakeClaims
  <2>2. \A x \in Sources \cap DOMAIN snapshots' : x \in DOMAIN snapshots
    BY <1>2, <1>4
  <2> QED
    BY <1>2, <1>7, <2>1, <2>2 DEF NewestInv, Recorders
<1>11. RowsAreDrafted'
  BY <1>2 DEF NewestInv, RowsAreDrafted
<1> QED
  BY <1>8, <1>9, <1>10, <1>11 DEF NewestInv

\* Clients write none of it.
LEMMA NewestStays == ReadsInv /\ NewestInv /\ [Next]_vars => NewestInv'
<1> SUFFICES ASSUME ReadsInv, NewestInv, [Next]_vars PROVE NewestInv'
  OBVIOUS
<1>1. CASE UNCHANGED ledger
  BY <1>1 DEF ledger, NewestInv, Times, Histories, Recorders, RowsAreDrafted
<1>2. ASSUME NEW cl \in Clients, Serve(cl) PROVE UNCHANGED ledger
  <2>1. CASE Ask(cl)
    BY <2>1 DEF Ask
  <2>2. CASE Read(cl)
    BY <2>2 DEF Read
  <2>3. CASE ReadHistory(cl)
    BY <2>3, Zenon DEF ReadHistory
  <2>4. CASE Enter(cl)
    BY <2>4 DEF Enter
  <2>5. CASE Insert(cl)
    BY <2>5 DEF Insert
  <2>6. CASE Fail(cl) \/ Answer(cl) \/ Die(cl)
    BY <2>6 DEF Fail, Answer, Die
  <2> QED
    BY <1>2, <2>1, <2>2, <2>3, <2>4, <2>5, <2>6 DEF Serve
<1>3. UNCHANGED vars => UNCHANGED ledger
  BY DEF vars, ledger
<1> QED
  BY <1>1, <1>2, <1>3, BeginKeepsNewest, PublishKeepsNewest, RefreshKeepsNewest DEF Next

-----------------------------------------------------------------------------
\* What the newest recording says is what a reader of now sees of a claim.
LEMMA ProjectionIsNewest ==
  ASSUME ReadsInv, NewestInv, NEW w \in Sources \cap DOMAIN snapshots, NEW c \in ClaimsIn(w),
         LastRecorded(w, c)
  PROVE  LET p == Project(chain[c], NowOf(w)) IN
         /\ {"snapshot", "occurrence", "support", "lifecycle"} \subseteq DOMAIN p
         /\ p["snapshot"] = w /\ p["occurrence"] = Standing(w, c).occurrence
         /\ p["support"] = SupportOf(Standing(w, c))
         /\ p["lifecycle"] = (IF UnderReview(w, c) THEN "EXTRACTED" ELSE "ACTIVE")
<1>1. PICK s, q, p : s = chain[c] /\ q = NowOf(w) /\ p = Project(s, q)
  OBVIOUS
<1>2. c \in Claims /\ IsChain(s) /\ IsHistory(s, c)
  BY <1>1, SourcesMakeClaims DEF ReadsInv, NewestInv, Histories
<1>3. DOMAIN s \subseteq Nat
  <2>1. PICK S : s \in Seq(S)
    BY <1>2 DEF IsChain
  <2>2. Len(s) \in Nat /\ DOMAIN s = 1 .. Len(s)
    BY <2>1
  <2> QED
    BY <2>2
<1>4. Seen(s, q) = DOMAIN s
  <2>1. q.known = clock /\ q.available = clock /\ q.business = clock
    BY <1>1 DEF NowOf
  <2>2. clock \in Nat /\ \A n \in DOMAIN s : {s[n].known, s[n].available, s[n].effective} \subseteq 0 .. clock
    BY <1>1, <1>2 DEF ReadsInv, NewestInv, Times
  <2>3. \A n \in DOMAIN s : s[n].known <= clock /\ s[n].available <= clock /\ s[n].effective <= clock
    BY <2>2
  <2> QED
    BY <2>1, <2>3 DEF Seen, VisibleAt
<1>5. PICK made : made = {n \in DOMAIN s : s[n].type = "INITIAL"}
  OBVIOUS
<1>6. made # {} /\ s[Latest(made)].says["snapshot"] = w
  BY <1>1, <1>5 DEF NewestInv, Recorders, LastRecorded
<1>7. PICK k : k = Latest(made)
  OBVIOUS
<1>8. k \in made /\ \A m \in made : m <= k
  BY <1>2, <1>5, <1>6, <1>7, LatestIs
<1>kinds. ASSUME NEW n \in DOMAIN s
       PROVE  \/ RecordedAt(s, c, n) /\ s[n].type = "INITIAL"
              \/ n - 1 \in made /\ s[n].type = "LIFECYCLE" /\ DOMAIN s[n].says = {"status"}
              \/ s[n].type = "REFRESH" /\ DOMAIN s[n].says = {"status"}
  <2>1. CASE RecordedAt(s, c, n)
    BY <2>1 DEF RecordedAt, Recording
  <2>2. CASE n - 1 \in DOMAIN s /\ RecordedAt(s, c, n - 1)
    <3>1. PICK m : m = n - 1
      OBVIOUS
    <3>2. m + 1 = n /\ m \in DOMAIN s
      BY <1>3, <2>2, <3>1
    <3>3. PICK x \in Sources : Recording(x, c, s[m], s[n])
      BY <2>2, <3>1, <3>2 DEF RecordedAt
    <3> QED
      BY <1>5, <3>1, <3>2, <3>3 DEF Recording
  <2>3. CASE Refreshing(s[n])
    BY <2>3 DEF Refreshing
  <2> QED
    BY <1>2, <2>1, <2>2, <2>3 DEF IsHistory
<1>9. \A n \in DOMAIN s : s[n].type = "INITIAL" =>
        n + 1 \in DOMAIN s /\ \E x \in Sources : Recording(x, c, s[n], s[n + 1])
  BY <1>kinds DEF RecordedAt
<1>10. k + 1 \in DOMAIN s /\ Recording(w, c, s[k], s[k + 1])
  <2>1. PICK x \in Sources : Recording(x, c, s[k], s[k + 1])
    BY <1>5, <1>8, <1>9
  <2>2. x = w
    BY <1>6, <1>7, <2>1 DEF Recording
  <2> QED
    BY <1>5, <1>8, <1>9, <2>1, <2>2
<1>11. \A n \in DOMAIN s : s[n].type # "INITIAL" => DOMAIN s[n].says = {"status"}
  BY <1>kinds
<1>12. \A n \in DOMAIN s : s[n].type = "INITIAL" =>
         DOMAIN s[n].says = {"snapshot", "occurrence", "support", "status"}
  BY <1>9 DEF Recording
<1>13. \A n \in DOMAIN s : s[n].type = "LIFECYCLE" => n - 1 \in made
  BY <1>kinds
<1>14. PICK lives : lives = Lives(s, DOMAIN s)
  OBVIOUS
<1>15. k + 1 \in lives /\ \A n \in lives : n <= k + 1
  <2>1. \A n \in lives : n \in Nat /\ n - 1 \in made /\ n - 1 <= k
    BY <1>3, <1>8, <1>13, <1>14 DEF Lives
  <2>2. k \in Nat
    BY <1>3, <1>5, <1>8
  <2> QED
    BY <1>10, <1>14, <2>1, <2>2 DEF Lives, Recording
<1>16. Latest(lives) = k + 1 /\ lives # {}
  BY <1>2, <1>14, <1>15, LatestIs DEF Lives
<1>17. PICK state : state = State(s, DOMAIN s)
  OBVIOUS
<1>18. ASSUME NEW field \in {"snapshot", "occurrence", "support"}
       PROVE  field \in DOMAIN state /\ state[field] = s[k].says[field]
  <2>1. Bearing(s, DOMAIN s, field) = made
    BY <1>5, <1>11, <1>12 DEF Bearing
  <2>2. field \in Fields(s, DOMAIN s)
    BY <1>5, <1>8, <1>12 DEF Fields
  <2> QED
    BY <1>7, <1>17, <2>1, <2>2 DEF State
<1>19. p = [field \in {"lifecycle"} \cup DOMAIN state |->
              IF field = "lifecycle" THEN s[k + 1].says.status ELSE state[field]]
  BY <1>1, <1>4, <1>14, <1>16, <1>17 DEF Project
<1>20. {"snapshot", "occurrence", "support", "lifecycle"} \subseteq DOMAIN p
  BY <1>18, <1>19
<1>21. /\ p["snapshot"] = s[k].says["snapshot"] /\ p["occurrence"] = s[k].says["occurrence"]
       /\ p["support"] = s[k].says["support"] /\ p["lifecycle"] = s[k + 1].says.status
  BY <1>18, <1>19
<1> QED
  BY <1>1, <1>10, <1>20, <1>21 DEF Recording

\* The row of the occurrence that stands is there, and is of its claim.
LEMMA RowsAgree ==
  ASSUME NewestInv, NEW w \in Sources \cap DOMAIN snapshots, NEW c \in ClaimsIn(w)
  PROVE  /\ Standing(w, c).occurrence \in DOMAIN occurrences
         /\ occurrences[Standing(w, c).occurrence].claim = c
<1>1. PICK v \in Ingests : Drafts(w) = Draft[v] /\ Standing(w, c) \in ToSet(Draft[v])
  BY StandingIsDrafted
<1>2. Standing(w, c).claim = c
  <2>1. PICK ns : ns = DraftsOf(w, c)
    OBVIOUS
  <2>2. ns \subseteq DOMAIN Drafts(w) /\ ns # {} /\ \A n \in ns : Drafts(w)[n].claim = c
    BY <2>1 DEF DraftsOf, ClaimsIn, ToSet
  <2>3. IsChain(Drafts(w))
    BY <1>1, DraftsAssumption DEF IsChain
  <2>4. Latest(ns) \in ns
    BY <2>2, <2>3, LatestIs
  <2> QED
    BY <2>1, <2>2, <2>4 DEF Standing
<1>3. Standing(w, c).occurrence \in DOMAIN occurrences
  BY <1>1 DEF NewestInv, Recorders
<1>4. PICK x \in Ingests : \E d \in ToSet(Draft[x]) :
        /\ d.occurrence = Standing(w, c).occurrence
        /\ d.claim = occurrences[Standing(w, c).occurrence].claim
  BY <1>3 DEF NewestInv, RowsAreDrafted
<1>5. PICK d \in ToSet(Draft[x]) :
        /\ d.occurrence = Standing(w, c).occurrence
        /\ d.claim = occurrences[Standing(w, c).occurrence].claim
  BY <1>4
<1>6. d.claim = Standing(w, c).claim
  BY <1>1, <1>5, DraftsAssumption
<1> QED
  BY <1>2, <1>3, <1>5, <1>6

\* Fewer items than there are occurrences stand before an item, if items differ by
\* their occurrences.
LEMMA NoneIsCutOff ==
  ASSUME NEW items, NEW all, IsFiniteSet(all), all \subseteq Nat,
         \A i \in items : i.occurrence \in all,
         \A i, j \in items : i.occurrence = j.occurrence => i = j
  PROVE  Top(items, Cardinality(all)) = items
<1> SUFFICES ASSUME NEW i \in items
             PROVE  Cardinality({j \in items : j.occurrence < i.occurrence}) < Cardinality(all)
  BY DEF Top
<1>1. PICK before, rest : before = {j \in items : j.occurrence < i.occurrence} /\ rest = all \ {i.occurrence}
  OBVIOUS
<1>2. IsFiniteSet(rest) /\ Cardinality(rest) = Cardinality(all) - 1 /\ Cardinality(all) \in Nat
  BY <1>1, FS_RemoveElement, FS_CardinalityType
<1>3. PICK f : f = [j \in before |-> j.occurrence]
  OBVIOUS
<1>4. \A j \in before : j.occurrence \in rest
  <2> SUFFICES ASSUME NEW j \in before PROVE j.occurrence \in all /\ j.occurrence # i.occurrence
    BY <1>1
  <2>1. j.occurrence \in Nat /\ i.occurrence \in Nat /\ j.occurrence < i.occurrence
    BY <1>1
  <2> QED
    BY <1>1, <2>1
<1>5. f \in Injection(before, rest)
  BY <1>1, <1>3, <1>4 DEF Injection, IsInjective
<1>6. IsFiniteSet(before) /\ Cardinality(before) <= Cardinality(rest)
  BY <1>2, <1>5, FS_Injection
<1>7. Cardinality(before) \in Nat /\ Cardinality(rest) \in Nat
  BY <1>2, <1>6, FS_CardinalityType
<1> QED
  BY <1>1, <1>2, <1>6, <1>7

\* The snapshot's claims have been recorded by no one since, and those the ingest
\* holds back stand by a row that awaits a review.
IsNewest(w) ==
  \A c \in ClaimsIn(w) : LastRecorded(w, c) /\ HeldBackByRow(w, c)

LifeOf(w, c) == IF UnderReview(w, c) THEN "EXTRACTED" ELSE "ACTIVE"

\* The item a row makes then.
ItemFrom(w, r) ==
  [claim |-> r.claim, occurrence |-> r.occurrence, review |-> r.review, primary |-> r.primary,
   contested |-> r.contested, life |-> LifeOf(w, r.claim), support |-> SupportOf(Standing(w, r.claim))]

\* The row that stands for a claim.
RowOf(w, c) ==
  LET o == Standing(w, c).occurrence
  IN  [claim |-> c, occurrence |-> o, review |-> occurrences[o].review,
       primary |-> occurrences[o].primary, contested |-> c \in Contradicted]

NewestItem(w, c) == ItemFrom(w, RowOf(w, c))

\* The claims whose row has primary evidence.
Evidenced(w) == {c \in ClaimsIn(w) : RowOf(w, c).primary # {}}

\* Of the rows of such a claim only the one that stands makes an item.
LEMMA ItemOfRow ==
  ASSUME ReadsInv, NewestInv, NEW w \in Sources \cap DOMAIN snapshots, IsNewest(w),
         NEW r, r.claim \in ClaimsIn(w)
  PROVE  ItemsOf(r, chain[r.claim], NowOf(w)) =
           IF r.occurrence = Standing(w, r.claim).occurrence /\ r.primary # {}
           THEN {ItemFrom(w, r)}
           ELSE {}
<1>1. PICK p, q : q = NowOf(w) /\ p = Project(chain[r.claim], q)
  OBVIOUS
<1>2. /\ {"snapshot", "occurrence", "support", "lifecycle"} \subseteq DOMAIN p
      /\ p["snapshot"] = w /\ p["occurrence"] = Standing(w, r.claim).occurrence
      /\ p["support"] = SupportOf(Standing(w, r.claim))
      /\ p["lifecycle"] = LifeOf(w, r.claim)
  BY <1>1, ProjectionIsNewest DEF IsNewest, LifeOf
<1>3. q.snapshot = w /\ q.contract = "v2"
  BY <1>1 DEF NowOf
<1>4. Kept(q, LifeOf(w, r.claim)) /\ LifeOf(w, r.claim) # "MISSING"
  BY <1>3 DEF Kept, LifeOf
<1>5. Selects(p, q, r.occurrence) <=> r.occurrence = Standing(w, r.claim).occurrence
  BY <1>2, <1>3 DEF Selects
<1>6. PICK life : life = LifeOf(w, r.claim)
  OBVIOUS
<1>7. (IF "lifecycle" \in DOMAIN p THEN p.lifecycle ELSE "MISSING") = life
  BY <1>2, <1>6
<1>8. ItemsOf(r, chain[r.claim], q) =
        IF Selects(p, q, r.occurrence) /\ (life = "MISSING" \/ (Kept(q, life) /\ r.primary # {}))
        THEN {[claim |-> r.claim, occurrence |-> r.occurrence, review |-> r.review,
               primary |-> r.primary, contested |-> r.contested,
               life |-> life, support |-> p.support]}
        ELSE {}
  BY <1>1, <1>7 DEF ItemsOf
<1>9. p.support = SupportOf(Standing(w, r.claim))
  BY <1>2
<1> QED
  BY <1>1, <1>4, <1>5, <1>6, <1>8, <1>9 DEF ItemFrom

\* So the items of the snapshot are one for each claim with primary evidence.
LEMMA ItemsOfNewest ==
  ASSUME ReadsInv, SnapshotsStand, NewestInv,
         NEW w \in Sources \cap DOMAIN snapshots, IsNewest(w)
  PROVE  UNION {ItemsOf(r, chain[r.claim], NowOf(w)) : r \in Rows(occurrences, NowOf(w))} =
           {NewestItem(w, c) : c \in Evidenced(w)}
<1>1. PICK q : q = NowOf(w)
  OBVIOUS
<1>2. q.snapshot = w /\ q.known = clock /\ q.available = clock /\ snapshots[w].of = w
  BY <1>1 DEF NowOf, SnapshotsStand
<1>3. ASSUME NEW r \in Rows(occurrences, q), NEW i \in ItemsOf(r, chain[r.claim], q)
      PROVE  r.claim \in Evidenced(w) /\ i = NewestItem(w, r.claim)
  <2>1. PICK o \in DOMAIN occurrences :
          /\ occurrences[o].claim \in ClaimsIn(w)
          /\ r = [claim |-> occurrences[o].claim, occurrence |-> o, review |-> occurrences[o].review,
                  primary |-> occurrences[o].primary, contested |-> occurrences[o].claim \in Contradicted]
    BY <1>2 DEF Rows, Holds
  <2>2. r.claim \in ClaimsIn(w)
    BY <2>1
  <2>3. ItemsOf(r, chain[r.claim], q) =
           IF r.occurrence = Standing(w, r.claim).occurrence /\ r.primary # {}
           THEN {ItemFrom(w, r)} ELSE {}
    BY <1>1, <2>2, ItemOfRow
  <2>4. r.occurrence = Standing(w, r.claim).occurrence /\ r.primary # {} /\ i = ItemFrom(w, r)
    BY <1>3, <2>3
  <2>5. r = RowOf(w, r.claim)
    BY <2>1, <2>4 DEF RowOf
  <2> QED
    BY <2>2, <2>4, <2>5 DEF NewestItem, Evidenced
<1>4. ASSUME NEW c \in Evidenced(w)
      PROVE  \E r \in Rows(occurrences, q) : NewestItem(w, c) \in ItemsOf(r, chain[r.claim], q)
  <2>1. PICK o, r : o = Standing(w, c).occurrence /\ r = RowOf(w, c)
    OBVIOUS
  <2>2. c \in ClaimsIn(w) /\ o \in DOMAIN occurrences /\ occurrences[o].claim = c
    BY <2>1, RowsAgree DEF Evidenced
  <2>3. occurrences[o].at \in 0 .. clock /\ clock \in Nat
    BY <2>2 DEF NewestInv, Times, ReadsInv
  <2>4. r = [claim |-> occurrences[o].claim, occurrence |-> o, review |-> occurrences[o].review,
             primary |-> occurrences[o].primary, contested |-> occurrences[o].claim \in Contradicted]
    BY <2>1, <2>2 DEF RowOf
  <2>5. r \in Rows(occurrences, q)
    BY <1>2, <2>2, <2>3, <2>4 DEF Rows, Holds
  <2>6. r.claim = c /\ r.occurrence = Standing(w, c).occurrence /\ r.primary # {}
    <3>1. r.primary # {}
      BY <2>1 DEF Evidenced
    <3> QED
      BY <2>1, <2>2, <2>4, <3>1
  <2>7. ItemsOf(r, chain[r.claim], q) = {ItemFrom(w, r)}
    BY <1>1, <2>2, <2>6, ItemOfRow
  <2> QED
    BY <2>1, <2>5, <2>7 DEF NewestItem
<1> QED
  BY <1>1, <1>3, <1>4

\* None of them makes the request fail; the supported, active and undisputed are
\* eligible, and none of these is cut off.
LEMMA NewestIsAnswered ==
  ASSUME ReadsInv, SnapshotsStand, NewestInv,
         NEW w \in Sources \cap DOMAIN snapshots, IsNewest(w)
  PROVE  LET answer == AnswerTo(NowOf(w)) IN
         /\ answer # Refused
         /\ {i.occurrence : i \in answer.items} = StandingOf(w, Supported(w) \cap Active(w))
<1>1. PICK q, items : q = NowOf(w) /\ items = {NewestItem(w, c) : c \in Evidenced(w)}
  OBVIOUS
<1>2. /\ q.snapshot = w /\ q.available = clock /\ q.contract = "v2" /\ q.minimum = 1
      /\ q.most = Cardinality(DOMAIN occurrences)
  BY <1>1 DEF NowOf
<1>3. Found(q)
  <2>1. snapshots[w].created \in 0 .. clock /\ clock \in Nat
    BY DEF NewestInv, Times, ReadsInv
  <2> QED
    BY <1>2, <2>1 DEF Found
<1>4. AnswerTo(q) = Bundle(q, items)
  BY <1>1, <1>3, ItemsOfNewest DEF AnswerTo, AnswerFrom
<1>5. ASSUME NEW c \in ClaimsIn(w)
      PROVE  /\ NewestItem(w, c).life = LifeOf(w, c)
             /\ NewestItem(w, c).occurrence = Standing(w, c).occurrence
             /\ NewestItem(w, c).review = occurrences[Standing(w, c).occurrence].review
             /\ NewestItem(w, c).primary = occurrences[Standing(w, c).occurrence].primary
             /\ NewestItem(w, c).contested <=> c \in Contradicted
             /\ NewestItem(w, c).support >= 1 <=> Standing(w, c).support >= 1
  <2>1. PICK v \in Ingests : Standing(w, c) \in ToSet(Draft[v])
    BY StandingIsDrafted
  <2>2. Standing(w, c).support \in Nat
    BY <2>1, DraftsAssumption
  <2>3. PICK r : r = RowOf(w, c)
    OBVIOUS
  <2>4. /\ r.claim = c /\ r.occurrence = Standing(w, c).occurrence
        /\ r.review = occurrences[Standing(w, c).occurrence].review
        /\ r.primary = occurrences[Standing(w, c).occurrence].primary
        /\ r.contested = (c \in Contradicted)
    BY <2>3 DEF RowOf
  <2>5. NewestItem(w, c) = ItemFrom(w, r)
    BY <2>3 DEF NewestItem
  <2>6. SupportOf(Standing(w, c)) >= 1 <=> Standing(w, c).support >= 1
    BY <2>2 DEF SupportOf
  <2>7. PICK i : i = NewestItem(w, c)
    OBVIOUS
  <2>8. /\ i.life = LifeOf(w, c) /\ i.occurrence = r.occurrence /\ i.review = r.review
        /\ i.primary = r.primary /\ i.contested = r.contested
        /\ i.support = SupportOf(Standing(w, c))
    BY <2>4, <2>5, <2>7 DEF ItemFrom
  <2>9. i.contested <=> c \in Contradicted
    BY <2>4, <2>8, Zenon
  <2> QED
    BY <2>4, <2>6, <2>7, <2>8, <2>9
<1>6. \A i \in items : ~Unfit(i, q)
  <2> SUFFICES ASSUME NEW c \in ClaimsIn(w) PROVE ~Unfit(NewestItem(w, c), q)
    BY <1>1 DEF Evidenced
  <2> QED
    BY <1>2, <1>5 DEF Unfit, LifeOf, IsNewest, HeldBackByRow
<1>7. PICK eligible : eligible = {i \in items : Eligible(i, q)}
  OBVIOUS
<1>8. Bundle(q, items) = [request |-> q, items |-> Top(eligible, q.most),
                          excluded |-> Cardinality(items \ eligible)]
  BY <1>6, <1>7 DEF Bundle
<1>9. Bundle(q, items) # Refused /\ Bundle(q, items).items = Top(eligible, q.most)
  <2>1. "request" \in DOMAIN Bundle(q, items) /\ "request" \notin DOMAIN Refused
    BY <1>8 DEF Refused
  <2> QED
    BY <1>8, <2>1
<1>10. \A c \in ClaimsIn(w) : Eligible(NewestItem(w, c), q) <=> c \in Supported(w) \cap Active(w)
  <2> SUFFICES ASSUME NEW c \in ClaimsIn(w)
               PROVE  Eligible(NewestItem(w, c), q) <=> c \in Supported(w) \cap Active(w)
    OBVIOUS
  <2>1. occurrences[Standing(w, c).occurrence].claim = c
    BY RowsAgree
  <2> QED
    BY <1>2, <1>5, <2>1 DEF Eligible, LifeOf, Supported, Active, Undisputed
<1>11. eligible = {NewestItem(w, c) : c \in Supported(w) \cap Active(w)}
  <2>1. Active(w) \subseteq Evidenced(w)
    BY DEF Active, Undisputed, Evidenced, RowOf
  <2>2. Evidenced(w) \subseteq ClaimsIn(w)
    BY DEF Evidenced
  <2> QED
    BY <1>1, <1>7, <1>10, <2>1, <2>2
<1>12. Top(eligible, q.most) = eligible
  <2>1. \A c \in ClaimsIn(w) : /\ Standing(w, c).occurrence \in DOMAIN occurrences
                               /\ occurrences[Standing(w, c).occurrence].claim = c
    BY RowsAgree
  <2>2. \A i \in eligible : \E c \in ClaimsIn(w) : i = NewestItem(w, c)
    BY <1>1, <1>7 DEF Evidenced
  <2>3. \A i \in eligible : i.occurrence \in DOMAIN occurrences
    BY <1>5, <2>1, <2>2
  <2>4. \A i, j \in eligible : i.occurrence = j.occurrence => i = j
    BY <1>5, <2>1, <2>2
  <2>5. IsFiniteSet(DOMAIN occurrences) /\ DOMAIN occurrences \subseteq Nat
    BY DraftsAssumption DEF NewestInv, RowsAreDrafted
  <2>6. PICK all : all = DOMAIN occurrences
    OBVIOUS
  <2> QED
    BY <1>2, <2>3, <2>4, <2>5, <2>6, NoneIsCutOff
<1>13. {i.occurrence : i \in eligible} = StandingOf(w, Supported(w) \cap Active(w))
  BY <1>5, <1>11 DEF StandingOf, Supported
<1> QED
  BY <1>1, <1>4, <1>9, <1>12, <1>13

\* A signal query of now has one signal for each supported claim.
LEMMA NewestIsSignalled ==
  ASSUME ReadsInv, SnapshotsStand, NewestInv,
         NEW w \in Sources \cap DOMAIN snapshots, IsNewest(w)
  PROVE  {signal.occurrence : signal \in Signals(NowOf(w))} = StandingOf(w, Supported(w))
<1>1. PICK q : q = NowOf(w)
  OBVIOUS
<1>2. q.snapshot = w /\ q.available = clock /\ q.minimum = 1 /\ snapshots[w].of = w
  BY <1>1 DEF NowOf, SnapshotsStand
<1>3. Found(q)
  <2>1. snapshots[w].created \in 0 .. clock /\ clock \in Nat
    BY DEF NewestInv, Times, ReadsInv
  <2> QED
    BY <1>2, <2>1 DEF Found
<1>4. {x \in Claims : Holds(q.snapshot, x)} = ClaimsIn(w)
  BY <1>2, SourcesMakeClaims DEF Holds
<1>5. ASSUME NEW c \in ClaimsIn(w)
      PROVE  /\ {"support", "lifecycle"} \subseteq DOMAIN Project(chain[c], q)
             /\ Project(chain[c], q).occurrence = Standing(w, c).occurrence
             /\ Project(chain[c], q).support >= 1 <=> c \in Supported(w)
  <2>1. PICK p : p = Project(chain[c], q)
    OBVIOUS
  <2>2. /\ {"support", "lifecycle"} \subseteq DOMAIN p
        /\ p["occurrence"] = Standing(w, c).occurrence
        /\ p["support"] = SupportOf(Standing(w, c))
    BY <1>1, <2>1, ProjectionIsNewest DEF IsNewest
  <2>3. PICK v \in Ingests : Standing(w, c) \in ToSet(Draft[v])
    BY StandingIsDrafted
  <2>4. Standing(w, c).support \in Nat
    BY <2>3, DraftsAssumption
  <2>5. SupportOf(Standing(w, c)) >= 1 <=> c \in Supported(w)
    BY <2>4 DEF SupportOf, Supported
  <2> QED
    BY <2>1, <2>2, <2>5
<1>6. PICK supported :
        supported = {p \in {Project(chain[c], q) : c \in ClaimsIn(w)} :
                       "support" \in DOMAIN p /\ p.support >= q.minimum}
  OBVIOUS
<1>7. supported = {Project(chain[c], q) : c \in Supported(w)}
  BY <1>2, <1>5, <1>6 DEF Supported
<1>8. \A p \in supported : "lifecycle" \in DOMAIN p
  BY <1>5, <1>7 DEF Supported
<1>9. Signals(q) = {[snapshot |-> q.snapshot, occurrence |-> p.occurrence] : p \in supported}
  BY <1>3, <1>4, <1>6, <1>8 DEF Signals
<1>10. {signal.occurrence : signal \in Signals(q)} = {p.occurrence : p \in supported}
  <2>1. PICK signals : signals = Signals(q)
    OBVIOUS
  <2>2. \A signal \in signals : \E p \in supported : signal.occurrence = p.occurrence
    BY <1>9, <2>1
  <2>3. \A p \in supported : \E signal \in signals : signal.occurrence = p.occurrence
    <3> SUFFICES ASSUME NEW p \in supported
                 PROVE  \E signal \in signals : signal.occurrence = p.occurrence
      OBVIOUS
    <3>1. PICK signal : signal = [snapshot |-> q.snapshot, occurrence |-> p.occurrence]
      OBVIOUS
    <3>2. signal \in signals
      BY <1>9, <2>1, <3>1
    <3> QED
      BY <3>1, <3>2
  <2> QED
    BY <2>1, <2>2, <2>3
<1>11. {p.occurrence : p \in supported} = StandingOf(w, Supported(w))
  BY <1>5, <1>7 DEF StandingOf, Supported
<1> QED
  BY <1>1, <1>10, <1>11

\* Bundles and signals show what their snapshot's ingest left standing, no more
\* while others record the claims and no less once it is the newest; and bundles
\* nothing that is disputed (read_bundle_source, public_strict_eligible,
\* HistoricalClaimProjector.project, formal_factor_signals).
THEOREM AnswersAreTheirSnapshots == Spec => []AnswersShowTheirSnapshot
<1>1. ReadsInv /\ StandInv /\ NewestInv => NewestIsShown
  <2> SUFFICES ASSUME ReadsInv, StandInv, NewestInv,
                      NEW w \in Sources \cap DOMAIN snapshots, IsNewest(w)
               PROVE  LET answer == AnswerTo(NowOf(w)) IN
                      /\ answer # Refused
                      /\ {i.occurrence : i \in answer.items} =
                           StandingOf(w, Supported(w) \cap Active(w))
                      /\ {signal.occurrence : signal \in Signals(NowOf(w))} = StandingOf(w, Supported(w))
    BY DEF NewestIsShown, IsNewest
  <2> QED
    BY NewestIsAnswered, NewestIsSignalled DEF StandInv
<1>2. BundleIsOfItsSnapshot /\ NewestIsShown <=> AnswersShowTheirSnapshot
  BY DEF AnswersShowTheirSnapshot
<1> QED
  BY <1>1, <1>2, StandingHolds, BundlesAreOfTheirSnapshot, ReadsBegin, ReadsStep, NewestBegins, NewestStays, PTL DEF Spec
=============================================================================
