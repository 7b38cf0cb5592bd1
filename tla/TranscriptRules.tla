--------------------------- MODULE TranscriptRules ---------------------------
(***************************************************************************)
(* Which transcript a task works with: the quality gate of a candidate,    *)
(* the decision to run speech recognition, and the choice among subtitle   *)
(* and speech candidates (TranscriptQualityService, TranscriptCandidate-   *)
(* Stage, TranscriptSelectionService).                                     *)
(*                                                                         *)
(* A candidate is a record: who wrote it (src), whether it is in Chinese   *)
(* (zh), the parts of the time line it covers (cover), whether its cues    *)
(* are ordered, inside the media and keep every number (sound), and        *)
(* whether its cues are aligned (aligned).  The time line is the set       *)
(* Timeline; "covers 90 percent" is "covers all of it".                    *)
(***************************************************************************)
EXTENDS FiniteSets

CONSTANT Timeline                       \* the parts of the media

Sources == {"OFFICIAL_SUBTITLE", "AUTO_SUBTITLE", "ASR"}

Candidate == [src : Sources, zh : BOOLEAN, cover : SUBSET Timeline,
              sound : BOOLEAN, aligned : BOOLEAN]

\* The selected text: the candidate it is built on, and whether gaps of it
\* were filled with speech.
NoTranscript == [src |-> "NONE", filled |-> FALSE]
Transcript == [src : Sources \cup {"NONE"}, filled : BOOLEAN]

\* The reasons the quality report gives against a candidate.
Reasons(c) ==
    (IF c.cover = Timeline THEN {} ELSE {"COVERAGE_BELOW_90_PERCENT"})
      \cup (IF c.sound THEN {} ELSE {"TIMESTAMPS_OR_HARD_FACTS"})

Passes(c) == Reasons(c) = {}

Of(cands, src) == {c \in cands : c.src = src}

\* Subtitles count only in Chinese; speech always counts.
Official(cands) == {c \in Of(cands, "OFFICIAL_SUBTITLE") : c.zh}
Automatic(cands) == {c \in Of(cands, "AUTO_SUBTITLE") : c.zh}
Speech(cands) == Of(cands, "ASR")

\* Speech is recognised unless some Chinese subtitle passes the gate.
SpeechRequired(cands) ==
    ~ \E c \in Official(cands) \cup Automatic(cands) : Passes(c)

\* An official subtitle that fails for more than its coverage ends the choice.
OfficialRefused(cands) ==
    \E c \in Official(cands) : Reasons(c) \ {"COVERAGE_BELOW_90_PERCENT"} # {}

\* A subtitle with its gaps filled from aligned speech.
Filled(c, speech) ==
    [c EXCEPT !.cover = @ \cup speech.cover,
              !.sound = @ /\ (speech.cover \ c.cover = {} \/ speech.sound)]

Fillable(c, cands) ==
    \E s \in Speech(cands) : s.aligned /\ Passes(Filled(c, s))

\* The candidate taken, or NoTranscript when the selection raises: first
\* official, automatic and spoken candidates as they are, then automatic and
\* official subtitles whose gaps speech fills.  (Of two official candidates the
\* code looks at the one with the lesser id first, and raises if that is refused;
\* here the one that passes is taken.)
Select(cands) ==
    LET whole(C) == \E c \in C : Passes(c)
        fills(C) == \E c \in C : Fillable(c, cands)
        taken(src, filled) == [src |-> src, filled |-> filled]
    IN  CASE whole(Official(cands))  -> taken("OFFICIAL_SUBTITLE", FALSE)
          [] ~ whole(Official(cands)) /\ OfficialRefused(cands) -> NoTranscript
          [] OTHER ->
               CASE whole(Automatic(cands)) -> taken("AUTO_SUBTITLE", FALSE)
                 [] ~ whole(Automatic(cands)) /\ whole(Speech(cands)) -> taken("ASR", FALSE)
                 [] OTHER ->
                      CASE fills(Automatic(cands)) -> taken("AUTO_SUBTITLE", TRUE)
                        [] ~ fills(Automatic(cands)) /\ fills(Official(cands))
                               -> taken("OFFICIAL_SUBTITLE", TRUE)
                        [] OTHER -> NoTranscript
=============================================================================
