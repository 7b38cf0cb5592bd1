----------------------------- MODULE ReplayRules -----------------------------
(***************************************************************************)
(* What a replay asks of a published snapshot before it trusts it          *)
(* (application/replay/integrity.py): the artifact in each slot, the rows  *)
(* of the occurrences it names and the packets sealed with them must agree *)
(* with each other and with the cross-check.  It is written far from the   *)
(* stages that make these artifacts, and reads them its own way.           *)
(*                                                                         *)
(* Artifacts are what they say, so that a reference to one is its value;   *)
(* hashes, row ids and missing rows are not modelled.                      *)
(***************************************************************************)
EXTENDS ClaimRules

\* An occurrence's id covers its claim, place and evidence.
OccurrenceId(o) == <<o.claim, o.span, o.anchors>>

\* The packet of an occurrence: its verdict and what each frame showed.
PacketOf(o) == <<OccurrenceId(o), o.packet, o.seen>>

\* A snapshot with occurrences has the slots they rest on, and these slots
\* were made of one another.
SlotsClosed(slots) ==
    /\ {"source", "transcript", "semantic_segments", "evidence", "claims"} \subseteq DOMAIN slots
    /\ slots["semantic_segments"].text = slots["transcript"]
    /\ slots["evidence"].text = slots["transcript"]
    /\ slots["occurrences"].segments = slots["semantic_segments"]
    /\ slots["occurrences"].evidence = slots["evidence"]

\* A row lies within the snapshot: its claim, its segment, its evidence.
RowInside(slots, o) ==
    /\ OccurrenceId(o) \in slots["occurrences"].rows
    /\ o.claim \in ToSet(slots["claims"])
    /\ o.span \in slots["semantic_segments"].spans
    /\ {o.span} \cup o.anchors \subseteq slots["evidence"].items

\* The relations that admit frame f for o: singleton scope in a window where
\* o's packet shows the frame, of a kind o may cite.
ExactRelations(slots, o, f) ==
    LET scoped == {k.window : k \in {x \in o.seen : x.frame = f}} IN
    {k \in slots["crosscheck"] :
        /\ k.frame = f /\ k.window \in scoped
        /\ k.relation \in {"SUPPORTS", "CONTRADICTS"}
             \/ (k.relation = "SECONDARY" /\ o.attributed)}

\* Visual evidence is owned by occurrences, and each owner has exactly one
\* relation for it.
VisualsAdmitted(slots, occs) ==
    /\ slots["evidence"].items \ Spans \subseteq UNION {o.anchors : o \in occs}
    /\ \A o \in occs : \A f \in o.anchors : Cardinality(ExactRelations(slots, o, f)) = 1

\* The sealed packets are those of the rows, and every frame in them has the
\* relation the cross-check found in that window, and one only.
PacketsSealed(slots, occs) ==
    /\ slots["visual_evidence"] = {PacketOf(o) : o \in occs}
    /\ \A o \in occs : \A k \in o.seen :
          {x \in slots["crosscheck"] : x.frame = k.frame /\ x.window = k.window} = {k}

\* Lifecycle events are of the snapshot's claims.
LifecycleInside(slots) == DOMAIN slots["lifecycle"][1] \subseteq ToSet(slots["claims"])

\* The alignment of security names was made of this transcript and cross-check.
AlignmentClosed(slots) ==
    /\ slots["alignment"].text = slots["transcript"]
    /\ slots["alignment"].checks = slots["crosscheck"]

Verifies(slots, occs) ==
    /\ occs # {} =>
        /\ SlotsClosed(slots)
        /\ \A o \in occs : RowInside(slots, o)
        /\ VisualsAdmitted(slots, occs)
    /\ PacketsSealed(slots, occs)
    /\ LifecycleInside(slots)
    /\ AlignmentClosed(slots)

\* Another statement cites the span of o.
SharedSpan(o, occs) == \E p \in occs : p.claim # o.claim /\ p.span = o.span
=============================================================================
