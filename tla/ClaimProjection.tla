--------------------------- MODULE ClaimProjection ---------------------------
(***************************************************************************)
(* What a reader of the formal state stream sees of a claim as of three      *)
(* instants (HistoricalClaimProjector), and what a knowledge bundle makes of  *)
(* it: the item of an occurrence, whether a request is answered at all, and   *)
(* which items are published (read_bundle_source, KnowledgeBundleService).    *)
(*                                                                         *)
(* The row of an occurrence is [claim, occurrence, review, primary,          *)
(* contested]: whether it awaits a review, the modalities of its PRIMARY      *)
(* evidence in the snapshot, and whether its claim is in a contradiction      *)
(* group.                                                                   *)
(*                                                                         *)
(* An event is [type, known, available, effective, says]; effective is 0     *)
(* where the event has no business time.  says is its payload, reduced to    *)
(* the fields a reader decides by.  A request q is [snapshot, business,       *)
(* known, available, minimum, most, contract]; its instants are the three     *)
(* as-of clocks, most its max_items.                                         *)
(***************************************************************************)
EXTENDS Naturals, Sequences, FiniteSets, SequencesExt

\* Mutant: what was known only later counts too.
VisibleOnceAvailable(e, q) == e.available <= q.available /\ e.effective <= q.business

VisibleAt(e, q) ==
  /\ e.known <= q.known
  /\ e.available <= q.available
  /\ e.effective <= q.business

\* The places of the chain whose events are visible.
Seen(chain, q) == {n \in DOMAIN chain : VisibleAt(chain[n], q)}

Latest(ns) == CHOOSE n \in ns : \A m \in ns : m <= n

\* Events are folded in the order of the chain: a field is what the last of them
\* that bears it says.
Bearing(chain, ns, field) == {n \in ns : field \in DOMAIN chain[n].says}
Fields(chain, ns) == UNION {DOMAIN chain[n].says : n \in ns}

\* Mutant: a field keeps the first value it was given.
FirstWins(chain, ns) ==
  [field \in Fields(chain, ns) |->
     chain[CHOOSE n \in Bearing(chain, ns, field) :
             \A m \in Bearing(chain, ns, field) : n <= m].says[field]]

State(chain, ns) ==
  [field \in Fields(chain, ns) |-> chain[Latest(Bearing(chain, ns, field))].says[field]]

Lives(chain, ns) == {n \in ns : chain[n].type = "LIFECYCLE"}

Project(chain, q) ==
  LET seen == Seen(chain, q)
      lives == Lives(chain, seen)
      state == State(chain, seen)
  IN  IF lives = {} THEN state
      ELSE [field \in {"lifecycle"} \cup DOMAIN state |->
             IF field = "lifecycle" THEN chain[Latest(lives)].says.status ELSE state[field]]

-----------------------------------------------------------------------------
\* Mutant: whichever snapshot the claim was last recorded with.
SelectsOccurrence(p, q, occ) == "occurrence" \in DOMAIN p /\ p.occurrence = occ

\* The event's payload, and not the row, says which occurrence stands for the
\* claim in this very snapshot.
Selects(p, q, occ) ==
  /\ {"snapshot", "occurrence"} \subseteq DOMAIN p
  /\ p.snapshot = q.snapshot /\ p.occurrence = occ

\* What is not active is skipped; v2 keeps what awaits a review, to count it.
Kept(q, life) == life = "ACTIVE" \/ (q.contract = "v2" /\ life = "EXTRACTED")

\* The item of an occurrence, if it has one: without PRIMARY evidence it has none.
\* A projection without a lifecycle makes the request fail ("MISSING").
ItemsOf(row, chain, q) ==
  LET p == Project(chain, q)
      life == IF "lifecycle" \in DOMAIN p THEN p.lifecycle ELSE "MISSING"
  IN  IF /\ Selects(p, q, row.occurrence)
         /\ life = "MISSING" \/ (Kept(q, life) /\ row.primary # {})
      THEN {[claim |-> row.claim, occurrence |-> row.occurrence, review |-> row.review,
             primary |-> row.primary, contested |-> row.contested,
             life |-> life, support |-> p.support]}
      ELSE {}

-----------------------------------------------------------------------------
\* _validate_item and validate_v2_item: one such item fails the whole request.
Unfit(item, q) ==
  \/ item.life = "MISSING"
  \/ q.contract = "v1" /\ item.support < q.minimum
  \/ q.contract = "v2" /\ item.life = "EXTRACTED" /\ ~item.review

\* public_strict_eligible; v1 publishes every item it has validated.
Eligible(item, q) ==
  q.contract = "v2" =>
    /\ item.life = "ACTIVE" /\ ~item.review /\ ~item.contested
    /\ item.support >= q.minimum
    /\ "transcript" \in item.primary

\* At most max_items, in the order of the sort key (here the occurrence).
Top(items, most) ==
  {i \in items : Cardinality({j \in items : j.occurrence < i.occurrence}) < most}

Refused == [error |-> "refused"]

\* A bundle is named by the hash of its content, so it is its content.
Bundle(q, items) ==
  IF \E i \in items : Unfit(i, q) THEN Refused
  ELSE LET eligible == {i \in items : Eligible(i, q)}
       IN  [request |-> q, items |-> Top(eligible, q.most),
            excluded |-> Cardinality(items \ eligible)]
=============================================================================
