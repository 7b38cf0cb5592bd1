--------------------------- MODULE MCContentWorker ---------------------------
(* What makes a task and what a worker makes of it, one part at a time:       *)
(* requests that become rows, the fetching of a task's media by attempts, the  *)
(* graph of a playlist or a manifest that is fetched, and the stages of an     *)
(* attempt.  The parts share no state a property speaks of: `part` says which  *)
(* of them moves, the others rest.                                          *)
EXTENDS ContentWorker, TaskRequests, SourceMedia, MediaGraphs

VARIABLE part

allVars == <<part, workerVars, requestVars, mediaVars, graphVars>>

-----------------------------------------------------------------------------
(* The stages: one task, of which the last stage is model-driven and not       *)
(* restorable, and processes of which two share a worker id.                 *)
CONSTANTS p1, p2, p3, w1, w2

ThreeStages == {1, 2, 3}
MixedIds == [p \in {p1, p2, p3} |-> IF p = p3 THEN w2 ELSE w1]

-----------------------------------------------------------------------------
(* The requests: posts that spell one video in several ways under one key, and *)
(* lessons; demands that repeat, vary and break the rules.                   *)
Blank == [route |-> "bilibili", form |-> "bv", source |-> "v", page |-> 0, part |-> 1,
          credential |-> "none", header |-> "k", body |-> None, language |-> "zh"]

SomePosts ==
  {Blank,
   [Blank EXCEPT !.part = 2],
   [Blank EXCEPT !.form = "url", !.page = 2],
   [Blank EXCEPT !.form = "url", !.page = 2, !.part = 2, !.body = "k", !.header = None],
   [Blank EXCEPT !.body = "l"],
   [Blank EXCEPT !.route = "canonical bilibili", !.credential = "unlisted"],
   [Blank EXCEPT !.route = "xiaoe", !.form = "page", !.credential = "listed"],
   [Blank EXCEPT !.route = "canonical xiaoe", !.form = "lesson", !.credential = "listed"],
   [Blank EXCEPT !.route = "xiaoe", !.form = "signed", !.credential = "unlisted"],
   [Blank EXCEPT !.route = "xiaoe", !.form = "hls", !.header = None]}

Migration == [mode |-> "MIGRATION", snapshot |-> "s", pipeline |-> "v4", override |-> "none"]

SomeDemands ==
  {Migration,
   [Migration EXCEPT !.override = "model"],
   [Migration EXCEPT !.override = "runtime"],
   [Migration EXCEPT !.pipeline = None],
   [Migration EXCEPT !.mode = "REPROCESS", !.pipeline = None]}

CONSTANTS r1, r2, r3

RequestsSettled == part = "requests" /\ \A r \in Askers : at[r] \in {"answered", "dead"}

-----------------------------------------------------------------------------
(* The media: two attempts at one task and one at another, whose source has    *)
(* the same bytes.                                                         *)
CONSTANTS a1, a2, a3

SomeSources ==
  {[streams |-> 1, duration |-> TRUE, subtitle |-> FALSE],
   [streams |-> 2, duration |-> FALSE, subtitle |-> TRUE],
   [streams |-> 1, duration |-> FALSE, subtitle |-> FALSE]}

TwoTasks == [a \in {a1, a2, a3} |-> IF a = a3 THEN "other" ELSE "task"]

MediaRests == MediaInit /\ \A a \in Attempts : source[a].streams = 2
MediaSettled == part = "media" /\ \A a \in Attempts : step[a] \in {"kept", "failed", "dead"}

-----------------------------------------------------------------------------
(* The graphs: every graph of three playlists of at most two lines, one of    *)
(* them perhaps an alias, and graphs that choose, circle and exceed a limit.   *)
Item(tag, ref) == [tag |-> tag, ref |-> ref, group |-> "g", default |-> FALSE]
Default(l) == [l EXCEPT !.default = TRUE]
Straight(lines) == [redirect |-> [u \in DOMAIN lines |-> u], lines |-> lines]

Master == Straight(
  [start |-> <<Item("variant", "v"), Item("audio", "a"), Default(Item("audio", "b")),
               Item("iframe", "i"), Item("variant", "w")>>,
   v |-> <<Item("map", "m"), Item("segment", "s")>>,
   b |-> <<Item("segment", "s"), Item("segment", "s")>>])

Circle == [redirect |-> [start |-> "home", alias |-> "home", back |-> "back"],
           lines |-> [home |-> <<Item("audio", "alias"), Item("segment", "s"), Item("audio", "back")>>,
                      back |-> <<Item("audio", "start"), Item("segment", "t")>>]]

Deep == Straight([start |-> <<Item("variant", "c")>>, c |-> <<Item("variant", "d")>>,
                  d |-> <<Item("variant", "e")>>, e |-> <<Item("variant", "f")>>, f |-> <<>>])
Wide == Straight([start |-> <<Item("audio", "c"), Item("audio", "d"), Item("audio", "e")>>,
                  c |-> <<>>, d |-> <<>>, e |-> <<>>])
Long == Straight([start |-> [n \in 1 .. 4 |-> Item("segment", "s")]])
Heavy == Straight([start |-> <<Item("key", "k"), Item("map", "m"), Item("segment", "s")>>])

ShortLines ==
  UNION {[1 .. n -> {Item("audio", u) : u \in {"start", "c", "d"}} \cup {Item("segment", "s")}] :
           n \in 0 .. 2}
SomeGraphs ==
  {[redirect |-> [start |-> "start", c |-> "c", d |-> x], lines |-> [start |-> l, c |-> m, d |-> n]] :
     x \in {"start", "d"}, l \in ShortLines, m \in ShortLines, n \in ShortLines}
  \cup {Master, Circle, Deep, Wide, Long, Heavy}

Representation(id, set, list) == [id |-> id, set |-> set, list |-> list, segments |-> {<<id, 1>>, <<id, 2>>}]
SomeManifests ==
  {[representations |-> <<Representation("r", "x", FALSE), Representation("q", "y", FALSE)>>, templates |-> t] :
     t \in SUBSET {"period", "x", "y", "r", "q"}}
  \cup {[representations |-> <<Representation("r", "x", TRUE), Representation("q", "x", b)>>, templates |-> t] :
          t \in SUBSET {"x", "q"}, b \in BOOLEAN}

GraphRests == GraphInit /\ graph = Master
GraphSettled == part = "graph" /\ outcome # "busy"

-----------------------------------------------------------------------------
AllInit ==
  \/ part = "stages" /\ WorkerInit /\ RequestInit /\ MediaRests /\ GraphRests
  \/ part = "requests" /\ WorkerInit /\ RequestInit /\ MediaRests /\ GraphRests
  \/ part = "media" /\ WorkerInit /\ RequestInit /\ MediaInit /\ GraphRests
  \/ part = "graph" /\ WorkerInit /\ RequestInit /\ MediaRests /\ GraphInit

\* What has settled stays; anything else that cannot move is a deadlock.
AllNext ==
  \/ part = "stages" /\ WorkerNext /\ UNCHANGED <<part, requestVars, mediaVars, graphVars>>
  \/ part = "requests" /\ RequestNext /\ UNCHANGED <<part, workerVars, mediaVars, graphVars>>
  \/ part = "media" /\ MediaNext /\ UNCHANGED <<part, workerVars, requestVars, graphVars>>
  \/ part = "graph" /\ GraphNext /\ UNCHANGED <<part, workerVars, requestVars, mediaVars>>
  \/ (RequestsSettled \/ MediaSettled \/ GraphSettled) /\ UNCHANGED allVars

AllSpec == AllInit /\ [][AllNext]_allVars
=============================================================================
