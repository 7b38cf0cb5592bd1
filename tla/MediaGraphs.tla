------------------------------ MODULE MediaGraphs ------------------------------
(***************************************************************************)
(* Playlists and manifests made local.  download_hls_playlist walks a graph of  *)
(* playlists: a recursion per playlist, line by line, in which a playlist is    *)
(* known by the URL asked for and the URL it was found at before its lines are  *)
(* followed, and its file is written after the last.  DashLocalizer.materialize *)
(* goes through the representations of one manifest and takes inherited         *)
(* templates out of the document as it goes.  Only what is local is given to    *)
(* ffmpeg, and whatever fails leaves nothing behind.                          *)
(*                                                                         *)
(* A playlist is a sequence of lines, each with what it refers to.  A local     *)
(* file is named for the URL its playlist was found at.  Left out: hosts,       *)
(* headers and protection, which refuse a graph at once; bytes, whose limits    *)
(* are the assets'; template arithmetic.                                     *)
(***************************************************************************)
EXTENDS Naturals, Sequences, FiniteSets, Functions

CONSTANTS
  Graphs,        \* what a server may have: URL -> where it redirects, lines
  Manifests,     \* MPDs: representations, each with what it inherits or has
  MaxDepth, MaxPlaylists, MaxAssets, MaxDuration

ASSUME LimitsAssumption ==
  MaxDepth \in Nat /\ {MaxPlaylists, MaxAssets, MaxDuration} \subseteq Nat \ {0}

VARIABLES
  graph,         \* the graph at hand, or the manifest
  stack,         \* the playlists being read, each at a line
  playlists,     \* URL -> local file
  planned,       \* local file -> duration of its segments
  files,         \* local file -> the local names in it, once written
  assets,        \* what was fetched
  todo,          \* the representations yet to be localized
  templates,     \* the levels of the manifest that still have a template
  local,         \* representations with a list of local segments
  outcome        \* "busy", "done" or why not

graphVars == <<graph, stack, playlists, planned, files, assets, todo, templates, local, outcome>>

IsManifest == "representations" \in DOMAIN graph

GraphInit ==
  /\ graph \in Graphs \cup Manifests
  /\ stack = IF IsManifest THEN <<>> ELSE <<[url |-> "start", line |-> 0, at |-> 0]>>
  /\ playlists = <<>> /\ planned = <<>> /\ files = <<>>
  /\ assets = {}
  /\ todo = IF IsManifest THEN graph.representations ELSE <<>>
  /\ templates = IF IsManifest THEN graph.templates ELSE {}
  /\ local = {}
  /\ outcome = "busy"

-----------------------------------------------------------------------------
(* HLS. *)

Found(url) == graph.redirect[url]
Lines(url) == graph.lines[Found(url)]

\* A variant's line comes with its URI; audio and I-frame renditions bear theirs.
RefersToPlaylist(l) == l.tag \in {"variant", "audio", "iframe"}
IsAsset(l) == l.tag \in {"segment", "key", "map"}

\* Of a master, the first variant and one audio rendition of its group: the
\* default, or else the first.
Variants(s) == {n \in DOMAIN s : s[n].tag = "variant"}
First(ns) == CHOOSE n \in ns : \A m \in ns : n <= m

Audio(s) ==
  LET group == {n \in DOMAIN s : s[n].tag = "audio" /\ s[n].group = s[First(Variants(s))].group}
      default == {n \in group : s[n].default}
  IN  IF group = {} THEN {} ELSE {First(IF default # {} THEN default ELSE group)}

Retained(s) ==
  IF Variants(s) = {} THEN DOMAIN s
  ELSE {n \in DOMAIN s : RefersToPlaylist(s[n]) => n \in {First(Variants(s))} \cup Audio(s)}

\* A URL that is followed can be asked for; what is found there is a playlist.
ASSUME GraphsAssumption ==
  /\ \A g \in Graphs :
       /\ "representations" \notin DOMAIN g /\ "start" \in DOMAIN g.redirect
       /\ \A u \in DOMAIN g.redirect : LET s == g.lines[g.redirect[u]] IN
            /\ s \in Seq(Range(s))
            /\ \A n \in Retained(s) : RefersToPlaylist(s[n]) => s[n].ref \in DOMAIN g.redirect
  /\ \A m \in Manifests :
       "representations" \in DOMAIN m /\ m.representations \in Seq(Range(m.representations))

Top == stack[Len(stack)]
Rest == SubSeq(stack, 1, Len(stack) - 1)
Reading == outcome = "busy" /\ stack # <<>>
Local == Found(Top.url)

\* A dict with the entries of new put in.
With(dict, new) ==
  [u \in DOMAIN new \cup DOMAIN dict |-> IF u \in DOMAIN new THEN new[u] ELSE dict[u]]

\* Mutant of Known: a playlist is known by the URL asked for alone.
KnownByItsRequest(url) == [u \in {url} |-> url]

\* _local_name and the two entries made before the lines are followed.
Known(url) == [u \in {url, Found(url)} |-> Found(url)]

\* Whatever goes wrong, the directory is removed.
GiveUp(why) ==
  /\ outcome' = why
  /\ stack' = <<>> /\ files' = <<>> /\ assets' = {}
  /\ UNCHANGED <<graph, playlists, planned, todo, templates, local>>

\* fetch_manifest, once for each URL that is asked for.
ReadPlaylist ==
  /\ Reading /\ Top.line = 0
  /\ \/ GiveUp("unreachable")
     \/ /\ stack' = [stack EXCEPT ![Len(stack)].line = 1]
        /\ playlists' = With(playlists, Known(Top.url))
        /\ planned' = With(planned, [f \in {Local} |-> 0])
        /\ UNCHANGED <<graph, files, assets, todo, templates, local, outcome>>

Line == Lines(Top.url)[Top.line]
More == Reading /\ Top.line \in DOMAIN Lines(Top.url)
NextLine == [stack EXCEPT ![Len(stack)].line = @ + 1]

Skip ==
  /\ More /\ Top.line \notin Retained(Lines(Top.url))
  /\ stack' = NextLine
  /\ UNCHANGED <<graph, playlists, planned, files, assets, todo, templates, local, outcome>>

\* The limits are looked at in this order; a known playlist is not read again.
Follow ==
  /\ More /\ Top.line \in Retained(Lines(Top.url)) /\ RefersToPlaylist(Line)
  /\ LET url == Line.ref IN
     CASE Top.at + 1 > MaxDepth -> GiveUp("nested too deep")
       [] Top.at + 1 <= MaxDepth /\ url \in DOMAIN playlists ->
            /\ stack' = NextLine
            /\ UNCHANGED <<graph, playlists, planned, files, assets, todo, templates, local, outcome>>
       [] Top.at + 1 <= MaxDepth /\ url \notin DOMAIN playlists
            /\ Cardinality(Range(playlists)) >= MaxPlaylists -> GiveUp("too many playlists")
       [] OTHER ->
            /\ stack' = Append(NextLine, [url |-> url, line |-> 0, at |-> Top.at + 1])
            /\ UNCHANGED <<graph, playlists, planned, files, assets, todo, templates, local, outcome>>

\* A segment counts towards the duration of its playlist before it is fetched.
Fetch ==
  /\ More /\ Top.line \in Retained(Lines(Top.url)) /\ IsAsset(Line)
  /\ LET total == planned[Local] + (IF Line.tag = "segment" THEN 1 ELSE 0) IN
     CASE total > MaxDuration -> GiveUp("too long")
       [] total <= MaxDuration /\ Line.ref \notin assets /\ Cardinality(assets) >= MaxAssets ->
            GiveUp("too many assets")
       [] OTHER ->
            \/ Line.ref \notin assets /\ GiveUp("unreachable")
            \/ /\ assets' = assets \cup {Line.ref}
               /\ planned' = [planned EXCEPT ![Local] = total]
               /\ stack' = NextLine
               /\ UNCHANGED <<graph, playlists, files, todo, templates, local, outcome>>

\* The file is written with the local names of all it refers to.
LocalNames(url) ==
  LET s == Lines(url) IN
  {IF RefersToPlaylist(s[n]) THEN playlists[s[n].ref] ELSE s[n].ref : n \in Retained(s)}

Write ==
  /\ Reading /\ Top.line > Len(Lines(Top.url))
  /\ files' = With(files, [f \in {Local} |-> LocalNames(Top.url)])
  /\ stack' = Rest
  /\ outcome' = IF Rest = <<>> THEN "done" ELSE "busy"
  /\ UNCHANGED <<graph, playlists, planned, assets, todo, templates, local>>

-----------------------------------------------------------------------------
(* DASH. *)

\* The nearest template; a list is the representation's own or its set's.
Levels(r) == {"period", r.set, r.id}
HasTemplate(r) == Levels(r) \cap templates # {}

Unsupported(r) == HasTemplate(r) = r.list

\* Templates are taken out of every level above, for the next representation too.
Localize ==
  /\ outcome = "busy" /\ todo # <<>>
  /\ LET r == Head(todo) IN
     IF Unsupported(r) THEN GiveUp("unsupported")
     ELSE \/ GiveUp("unreachable")
          \/ /\ assets' = assets \cup r.segments
             /\ local' = local \cup {r}
             /\ templates' = templates \ Levels(r)
             /\ todo' = Tail(todo)
             /\ outcome' = IF Len(todo) = 1 THEN "done" ELSE "busy"
             /\ UNCHANGED <<graph, stack, playlists, planned, files>>

GraphNext == ReadPlaylist \/ Skip \/ Follow \/ Fetch \/ Write \/ Localize

GraphSpec == GraphInit /\ [][GraphNext]_graphVars

-----------------------------------------------------------------------------
\* Inherited templates that an earlier representation took out.
Missing(r) == Levels(r) \cap graph.templates # {} /\ ~HasTemplate(r)

\* What is handed on is closed: every playlist names files that are there,
\* every representation has its segments; within the limits, whatever the graph
\* refers back to; and a graph is refused for its depth only along distinct
\* URLs, a manifest only for what it lacks or an earlier representation took
\* (download_hls_playlist, DashLocalizer.materialize).
GraphIsClosed ==
  /\ outcome = "done" =>
       /\ \A f \in DOMAIN files : files[f] \subseteq DOMAIN files \cup assets
       /\ ~IsManifest => Found("start") \in DOMAIN files
       /\ \A r \in local : r.segments \subseteq assets
       /\ IsManifest => local = Range(graph.representations)
  /\ Cardinality(DOMAIN files) <= MaxPlaylists
  /\ ~IsManifest => Cardinality(assets) <= MaxAssets
  /\ \A m, n \in DOMAIN stack : m # n => stack[m].url # stack[n].url
  /\ outcome \notin {"busy", "done"} => files = <<>> /\ assets = {}
  /\ outcome = "unsupported" =>
       LET r == Head(todo) IN
       (Levels(r) \cap graph.templates # {}) = r.list \/ Missing(r)
=============================================================================
