-------------------------- MODULE MCContentPipeline --------------------------
(* Two kinds of sources.  ResumeWorlds: one plain claim, every outcome of   *)
(* the subtitles and the speech, and two deaths or outside failures.        *)
(* ClaimWorlds: a healthy source, no failures, and rich answers of the      *)
(* models (two claims, two spans, theses, flawed drafts, every relation).   *)
EXTENDS ContentPipeline

CONSTANTS t1, t2, c1, c2, s1, s2

MediaParts == {t1, t2}
AllClaims == {c1, c2}
AllSpans == {s1, s2}

Sub(src, cover, sound) ==
    [src |-> src, zh |-> TRUE, cover |-> cover, sound |-> sound, aligned |-> FALSE]
Spoken(cover) ==
    [src |-> "ASR", zh |-> TRUE, cover |-> cover, sound |-> TRUE, aligned |-> TRUE]

GoodOfficial == Sub("OFFICIAL_SUBTITLE", MediaParts, TRUE)
BadOfficial == Sub("OFFICIAL_SUBTITLE", MediaParts, FALSE)
GappedOfficial == Sub("OFFICIAL_SUBTITLE", {t1}, TRUE)
GappedAutomatic == Sub("AUTO_SUBTITLE", {t2}, TRUE)
ForeignOfficial == [GoodOfficial EXCEPT !.zh = FALSE]

Plainly(cl, sp) ==
    [claim |-> cl, span |-> sp, thesis |-> FALSE, attributed |-> FALSE, flaw |-> "none"]

Agreeing == [f \in Frame |-> "SUPPORTS"]

ResumeWorld(fixture, tracks, asr) ==
    [ fixture |-> fixture, tracks |-> tracks, asr |-> asr, sees |-> Agreeing,
      legible |-> Frame, theses |-> {<< >>}, answers |-> {<< Plainly(c1, s1) >>},
      faults |-> 2 ]

ResumeWorlds ==
    { ResumeWorld(TRUE, {}, Spoken(MediaParts)),
      ResumeWorld(FALSE, {GoodOfficial}, Spoken(MediaParts)),
      ResumeWorld(FALSE, {BadOfficial}, Spoken(MediaParts)),
      ResumeWorld(FALSE, {GappedOfficial}, Spoken({t2})),
      ResumeWorld(TRUE, {GappedAutomatic, ForeignOfficial}, Spoken({})),
      [ResumeWorld(TRUE, {}, Spoken(MediaParts)) EXCEPT
          !.answers = {<< Plainly(c1, s1) >>, << Plainly(c1, s2) >>,
                       << [Plainly(c1, s1) EXCEPT !.attributed = TRUE] >>}] }

Theses == {<< >>, << [Plainly(c1, s1) EXCEPT !.thesis = TRUE] >>}
Answers ==
    { << >>, << Plainly(c1, s1) >>,
      << Plainly(c1, s1), Plainly(c1, s2) >>,
      << Plainly(c1, s1), Plainly(c2, s1) >>,
      << Plainly(c2, s2), [Plainly(c1, s1) EXCEPT !.attributed = TRUE] >> }
        \cup { << Plainly(c2, s2), [Plainly(c1, s1) EXCEPT !.flaw = f] >> : f \in Flaws }

Sees == { [f \in Frame |-> IF f.span = s1 THEN IF f.thesis THEN t ELSE a ELSE b] :
            t \in Relations, a \in Relations, b \in {"SUPPORTS", "CONTRADICTS"} }

LegibleFor(sees) ==
    IF sees[[span |-> s2, thesis |-> FALSE]] = "SUPPORTS" THEN Frame
                                                          ELSE {f \in Frame : f.thesis}

ClaimWorlds ==
    { [ResumeWorld(FALSE, {}, Spoken(MediaParts)) EXCEPT
          !.sees = sees, !.legible = LegibleFor(sees), !.theses = Theses,
          !.answers = Answers, !.faults = 0] : sees \in Sees }

AllWorlds == ResumeWorlds \cup ClaimWorlds
=============================================================================
