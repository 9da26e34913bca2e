---------------------------- MODULE MCOfflineTools ----------------------------
(* The tools that need no server, one of them at a time: the commands of the *)
(* exporter and the workflow around them (ReviewExport), the analysis that   *)
(* goes into a report (ReviewArtifact), the cascade of configurations        *)
(* (ConfigCascade), and what the indexer offers, the questions to the graph  *)
(* (CodeGraph) and the chunks (Chunker).                                     *)
EXTENDS ReviewExport, MCReviewArtifact, ConfigCascade, CodeGraph, Chunker

CONSTANTS a, b, dev

VARIABLE tool

(* ------------------------------- exports ------------------------------- *)

(* The second commit adds b; its committed results are those of the first.   *)
(* The third has rules that cannot be read.                                  *)
MCCommit == 1..3
MCChanged == 1 :> {a} @@ 2 :> {a, b} @@ 3 :> {a}
MCCommitted == 1 :> Nothing @@ 2 :> [source |-> "github-actions", revision |-> 1, wellFormed |-> TRUE] @@ 3 :> Nothing
MCRules == 1 :> "valid" @@ 2 :> "none" @@ 3 :> "invalid"
MCVerifications == {[source |-> s, revision |-> c, wellFormed |-> TRUE] : s \in {"github-actions", "other"}, c \in 1..2}
MCFindings == {[revision |-> 1, items |-> {[path |-> a, wellFormed |-> TRUE]}]}
Explained(id, path) == [id |-> id, path |-> path, wellFormed |-> TRUE]
MCExplanations == {[version |-> 1, revision |-> 1, items |-> {Explained(1, a)}],
                   [version |-> 1, revision |-> 2, items |-> {Explained(2, b)}],
                   [version |-> 1, revision |-> 2, items |-> {Explained(1, a), Explained(1, b)}]}

(* ---------------------------- configurations --------------------------- *)

MCConfigs == {[version |-> 1, strictness |-> s, failOnP0 |-> f, maxInline |-> m, types |-> Absent, disabled |-> d, repos |-> r] :
  s \in {Absent, 1, 3, 4}, f \in BOOLEAN, m \in {Absent, 20, 0}, d \in {{}, {"rule"}}, r \in {{}, {1}, {2, 3}}}
MCCascades == {<<x, y>> : x \in MCConfigs \cup {Absent}, y \in MCConfigs \cup {Absent}}

(* -------------------------------- graphs ------------------------------- *)

Sym(id, path, name, text) == [id |-> id, path |-> path, name |-> name, text |-> text]
BaseEdge(s, t) == [source |-> s, target |-> t, unresolved |-> FALSE]
Loose(s, t) == [source |-> s, target |-> t, unresolved |-> TRUE]
HeadEdge(p, s, t) == [path |-> p, source |-> s, target |-> t, unresolved |-> t = 0]
BaseSymbols == {<<Sym(1, "a", "f", 1), Sym(2, "a", "g", 1), Sym(3, "k", "h", 1)>>,
                <<Sym(1, "a", "f", 1), Sym(2, "a", "f", 2), Sym(3, "k", "h", 1)>>}
Heads == {<<>>, <<Sym(10, "a", "f", 1)>>, <<Sym(10, "a", "g", 2), Sym(11, "a", "f", 1)>>, <<Sym(12, "a", "n", 1)>>,
          <<Sym(10, "a", "f", 2), Sym(10, "b", "f", 1), Sym(11, "a", "f", 1)>>}
HeadEdges(h) == {{}} \cup IF h = <<>> THEN {} ELSE {{HeadEdge("a", h[1].id, h[Len(h)].id)}, {HeadEdge("a", h[1].id, 0)}}
Overlays == UNION {{[ask |-> "overlay", base |-> [symbols |-> s, edges |-> e], changed |-> {"a", "b"},
                     head |-> [symbols |-> h, edges |-> n]] : n \in HeadEdges(h)} :
                   s \in BaseSymbols, e \in SUBSET {BaseEdge(3, 1), BaseEdge(1, 3), Loose(3, 2), BaseEdge(2, 1), Loose(1, 0)}, h \in Heads}

KindEdge(s, t, k) == [source |-> s, target |-> t, kind |-> k]
AllEdges == <<KindEdge(1, 2, "calls"), KindEdge(2, 3, "calls"), KindEdge(3, 1, "calls"), KindEdge(4, 1, "calls"),
              KindEdge(1, 0, "calls"), KindEdge(4, 2, "tests"), KindEdge(3, 2, "contains"), KindEdge(3, 4, "contains")>>
EdgesIn(S) == SelectSeq(AllEdges, LAMBDA e : e \in S)
SomeGraphs == UNION {{EdgesIn(S), Reverse(EdgesIn(S))} : S \in SUBSET ToSet(AllEdges)}
Walks == {[ask |-> "walk", graph |-> g, start |-> 1, direction |-> d, kind |-> "calls", depth |-> n, limit |-> l] :
            g \in SomeGraphs, d \in {"forward", "reverse"}, n \in 1..2, l \in 1..3}
         \cup {[ask |-> "siblings", graph |-> g, start |-> 2, limit |-> 1] : g \in SomeGraphs}
Blasts == {[ask |-> "blast", graph |-> g, symbols |-> <<1, 2>>, where |-> w, name |-> <<"f", "g", "h", "h">>, changed |-> {"a", "b"}] :
             g \in SomeGraphs, w \in {<<"a", "b", "c", "d">>, <<"a", "c", "b", "d">>, <<"a", "b", "c", "c">>}}

PathOf(stem, ext) == [stem |-> stem, ext |-> ext]
Named(id, path, name) == [id |-> id, path |-> path, name |-> name]
NamedSymbols == SUBSET {Named(1, PathOf(<<"x">>, "go"), "f"), Named(2, PathOf(<<"x">>, ""), "f"), Named(3, PathOf(<<"y">>, "ts"), "f"),
                        Named(4, PathOf(<<"y", "index">>, "ts"), "g"), Named(5, PathOf(<<"x">>, "go"), "f")}
References == {[kind |-> "calls", path |-> PathOf(<<"x">>, e), target |-> "f", at |-> q] : e \in {"go", ""}, q \in {"", "y"}}
              \cup {[kind |-> "imports", path |-> PathOf(<<"x">>, "go"), target |-> "m", at |-> "y"]}
Resolves == {[ask |-> "resolve", symbols |-> s, reference |-> r] : s \in NamedSymbols, r \in References}

MCQuestions == Overlays \cup Walks \cup Blasts \cup Resolves

(* -------------------------------- chunks ------------------------------- *)

(* Every file of up to seven bytes that all stand for themselves.            *)
MCContents == UNION {[1..n -> {"w", "s", "n"}] : n \in 0..7}
MCSymbols(content) ==
  {<<>>} \cup (IF Len(content) < 5 THEN {} ELSE
    {<<Unit(1, Len(content), "f")>>, <<Unit(0, 2, "f"), Unit(2, 5, "g")>>, <<Unit(0, 3, "f"), Unit(2, 4, "f")>>})

MCLimits == {<<1, 1>>, <<1, 3>>, <<2, 2>>, <<2, 1>>}

(* ------------------------------- together ------------------------------ *)

Tools == {"export", "report", "cascade", "graph", "chunker"}

NoExport == /\ ref = 0 /\ disk = Nothing /\ proc = Nothing /\ snapshot = NoFile
            /\ out = [html |-> NoFile, json |-> NoFile, sums |-> NoFile]
            /\ comment = NoFile /\ checked = NoFile /\ disturbed = FALSE /\ steps = 0 /\ exports = 0
NoChunks == file = 0 /\ pc = "idle" /\ units = 0 /\ pieces = 0 /\ chunks = 0 /\ search = 0

MCInit ==
  /\ tool \in Tools
  /\ IF tool = "export" THEN ExportInit ELSE NoExport
  /\ IF tool = "report" THEN ArtifactInit ELSE comparison = <<>> /\ artifact = NoArtifact
  /\ IF tool = "cascade" THEN CascadeInit ELSE cascade = <<>> /\ resolved = <<>>
  /\ IF tool = "graph" THEN GraphInit ELSE question = 0 /\ answer = [of |-> Unanswered]
  /\ IF tool = "chunker" THEN ChunkInit ELSE NoChunks

MCNext ==
  \/ tool = "export" /\ ExportNext /\ UNCHANGED <<artifactVars, cascadeVars, graphVars, chunkVars>>
  \/ tool = "report" /\ Analyse /\ UNCHANGED <<exportVars, cascadeVars, graphVars, chunkVars>>
  \/ tool = "cascade" /\ ResolveCascade /\ UNCHANGED <<exportVars, artifactVars, graphVars, chunkVars>>
  \/ tool = "graph" /\ Answer /\ UNCHANGED <<exportVars, artifactVars, cascadeVars, chunkVars>>
  \/ tool = "chunker" /\ ChunkNext /\ UNCHANGED <<exportVars, artifactVars, cascadeVars, graphVars>>

MCVars == <<tool, exportVars, artifactVars, cascadeVars, graphVars, chunkVars>>
MCSpec == MCInit /\ [][MCNext /\ UNCHANGED tool]_MCVars

=============================================================================
