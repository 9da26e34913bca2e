--------------------------- MODULE MCReviewArtifact ---------------------------
(* The comparisons whose analysis is checked, one of them at a time.         *)
EXTENDS ReviewArtifact, TLC

Line(k, t) == [kind |-> k, text |-> t]
TheSource == [path |-> 1, status |-> "M", kind |-> "source", stem |-> "x", dir |-> <<"d">>, rules |-> {"schema"},
  mode |-> FALSE, binary |-> FALSE, own |-> FALSE, oldSize |-> 2, newSize |-> 2, from |-> 3,
  words |-> {"w"}, tokens |-> {}, lines |-> <<Line("added", "api")>>, name |-> "plain"]
TestFile(p, status, dir) == [TheSource EXCEPT !.path = p, !.status = status, !.kind = "test", !.dir = dir,
  !.rules = {}, !.words = {"w", "t"}, !.tokens = {"k"}]

(* A file whose name has a space, and the entry that its diff makes.          *)
Spaced == [TheSource EXCEPT !.path = 12, !.name = "spaced", !.words = {"s"}]
Tab == [Spaced EXCEPT !.path = 13, !.name = "tab", !.tokens = {"l", "k"}]

(* Every diff of up to three lines of one file.                              *)
Lines == {Line(k, t) : k \in {"context", "added", "removed"}, t \in {"api", "todo", "header", "marker"}}
OneFile == {<<[TheSource EXCEPT !.lines = s]>> : s \in UNION {[1..n -> Lines] : n \in 0..3}}

(* Up to four files: more than the limits let through.                       *)
Pool == {TheSource, TestFile(2, "M", <<"d">>), TestFile(3, "A", <<"d", "sub">>), TestFile(4, "D", <<"d">>), TestFile(5, "M", <<"e">>),
  [TheSource EXCEPT !.path = 6, !.stem = "y", !.newSize = 4, !.rules = {"dependency", "authentication"}, !.words = {}, !.tokens = {"k", "l"}],
  [TheSource EXCEPT !.path = 7, !.stem = "z", !.mode = TRUE, !.kind = "fixture", !.rules = {"generated"}, !.words = {}, !.tokens = {"l", "k", "m"}],
  [TheSource EXCEPT !.path = 8, !.own = TRUE, !.status = "A", !.binary = TRUE, !.words = {"q"}, !.lines = <<>>],
  [TheSource EXCEPT !.path = 9, !.kind = "suffix", !.status = "D", !.words = {}, !.lines = <<Line("removed", "api")>>],
  [TheSource EXCEPT !.path = 10, !.dir = <<>>, !.rules = {}, !.words = {}],
  [TestFile(11, "M", <<"d">>) EXCEPT !.kind = "suffix", !.name = "quoted", !.tokens = {}],
  Spaced, Tab}
SomeFiles == {SetToSortSeq(S, LAMBDA f, g : f.path < g.path) :
                S \in {X \in SUBSET Pool : Cardinality(X) <= 4 /\ (Spaced \in X <=> Tab \in X)}}

MCTeamRules == <<[texts |-> {"api", "todo"}, block |-> FALSE, paths |-> {}],
                 [texts |-> {"todo"}, block |-> TRUE, paths |-> {1, 2, 3}]>>

MCComparisons == OneFile \cup SomeFiles
=============================================================================
