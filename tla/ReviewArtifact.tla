--------------------------- MODULE ReviewArtifact ---------------------------
(***************************************************************************)
(* What export-review computes from the comparison of two commits before   *)
(* it writes anything: the hunks the page shows (export.go), the lines the *)
(* team's rules hit (export.go), the attention flags (export_render.go,    *)
(* attention.go), the inspection questions (inspection_questions.go) and   *)
(* whether the report calls this analysis complete (staticEvidence).       *)
(*                                                                         *)
(* Abstractions.  A path is a number, ordered as the paths are, a rule of  *)
(* the team its position.  The text of a line is one of its classes: "api" *)
(* looks like a public declaration, "header" looks like the header of a    *)
(* file once the sign of the diff stands before it (but names no path),    *)
(* "marker" contains "diff --git ", which is what the code splits the      *)
(* output of git at.  The words of a path are what the file says of        *)
(* itself: which path rules it raises, and its kind: attention.go calls a  *)
(* "test" or a "fixture" a test, inspection_questions.go a "test" or a     *)
(* "suffix".  A file has one hunk.  Sizes are in units of bytes.  What a   *)
(* list of the report holds is a set with an order.                        *)
(*                                                                         *)
(* A comparison is the list of files that parseStaticReviewFiles makes.    *)
(* The name of a file is how git spells its path: "plain", "quoted" when a *)
(* byte of it is beyond ASCII, "spaced" when it has a space and ends with  *)
(* a tab in the diff.  The list then has a further entry, "tab", with that *)
(* path and the diff.  Attention reads the paths as they are, in the order *)
(* of the list.                                                            *)
(***************************************************************************)
EXTENDS Naturals, FiniteSets, SequencesExt

CONSTANTS
  Comparisons,  \* sequences of changed files, by path
  TeamRules,    \* the rules of the team, in order
  MaxHits,      \* ruleMaxHits, 500 in the code
  MaxPerKey,    \* ruleMaxHitsPerKey, 20
  MaxFiles,     \* attentionMaxFiles, 500
  MaxFileSize,  \* attentionMaxFileBytes
  MaxContent,   \* attentionMaxContentBytes
  LargeDelta,   \* attentionLargeLineDelta, 400
  MaxFlags,     \* attentionMaxFlags, 250
  MaxQuestions, \* inspectionQuestionLimit, 100
  MaxRelated    \* inspectionRelatedLimit, 8

ChangedFile ==
  [path : Nat, status : {"A", "M", "D"}, kind : {"source", "test", "fixture", "suffix"}, stem : STRING, dir : Seq(STRING),
   rules : SUBSET STRING, mode : BOOLEAN, binary : BOOLEAN, own : BOOLEAN, oldSize : Nat, newSize : Nat,
   from : Nat, lines : Seq([kind : {"context", "added", "removed"}, text : STRING]),
   words : SUBSET STRING, tokens : SUBSET STRING, name : {"plain", "quoted", "spaced", "tab"}]

\* A spaced file with a diff is followed by the entry of the path with the tab.
IsListed(files) ==
  \A i \in DOMAIN files :
    /\ files[i].name = "spaced" /\ files[i].lines # <<>> => i < Len(files) /\ files[i + 1].name = "tab"
    /\ files[i].name = "tab" =>
         /\ i > 1 /\ files[i - 1].name = "spaced"
         /\ files[i] = [files[i - 1] EXCEPT !.name = "tab", !.path = files[i].path, !.tokens = files[i].tokens]

ASSUME ComparisonsAssumption ==
  \A files \in Comparisons :
    /\ files \in Seq(ChangedFile)
    /\ IsListed(files)
    /\ \A i, j \in DOMAIN files : i < j => files[i].path < files[j].path

ASSUME TeamRulesAssumption == TeamRules \in Seq([texts : SUBSET STRING, block : BOOLEAN, paths : SUBSET Nat])

ASSUME ReportLimitsAssumption ==
  {MaxHits, MaxPerKey, MaxFiles, MaxFileSize, MaxContent, LargeDelta, MaxFlags, MaxQuestions, MaxRelated} \subseteq Nat

VARIABLES comparison, artifact

artifactVars == <<comparison, artifact>>

\* What a loop in that order keeps when it stops at a limit.
First(n, S, before(_, _)) == {x \in S : Cardinality({y \in S \ {x} : before(y, x)}) < n}

(* ------------------------------- the diff ------------------------------ *)

\* The output of git is split at every "diff --git ", also at one in a line of
\* the diff: the rest of the file's diff then belongs to no path. staticDiffPath
\* does not find a path in quotes, and one that ends with a tab is another path.
Diff(f) ==
  LET lines == f.lines
      marked == {i \in DOMAIN lines : lines[i].text = "marker"}
      m == CHOOSE i \in marked : \A j \in marked : i <= j
  IN IF f.name \in {"quoted", "spaced"} THEN <<>>
     ELSE IF marked = {} THEN lines
     ELSE Append(SubSeq(lines, 1, m - 1), [lines[m] EXCEPT !.text = "cut"])

InHead(line) == line.kind # "removed"

\* A line and its number in the head, when only some positions are counted.
NumberedLine(f, counted, i) ==
  LET block == Diff(f)
      above == {j \in counted : j < i /\ InHead(block[j])}
  IN [line |-> IF InHead(block[i]) THEN f.from + Cardinality(above) ELSE 0,
      kind |-> block[i].kind, text |-> block[i].text]

\* parseStaticReviewHunks: what the page shows.
Hunk(f) == [i \in DOMAIN Diff(f) |-> NumberedLine(f, DOMAIN Diff(f), i)]

\* An added line that begins with "++" looks like the header of a file to
\* addedLinesByPath and to staticContextBlocksByPath, which skip it uncounted;
\* a removed one that begins with "--" as well.
Skipped(line) == line.kind # "context" /\ line.text = "header"
Counted(f) == {i \in DOMAIN Diff(f) : ~Skipped(Diff(f)[i])}

NumberedByDiffLine(f) ==
  [i \in Counted(f) |-> [NumberedLine(f, Counted(f), i) EXCEPT !.line =
                          IF @ = 0 THEN 0 ELSE f.from + Cardinality({j \in Counted(f) : j < i})]]

Numbered(f) == [i \in Counted(f) |-> NumberedLine(f, Counted(f), i)]

\* addedLinesByPath; px1's own files are left out.
AddedLines(f) == IF f.own THEN {} ELSE {l \in Range(Numbered(f)) : l.kind = "added"}

\* addStaticReviewContexts: the line and two on either side.
Context(f, line) ==
  LET all == Numbered(f)
      at == {i \in DOMAIN all : all[i].kind = "added" /\ all[i].line = line}
      target == CHOOSE i \in at : \A j \in at : i <= j
      between(i) == {j \in DOMAIN all : (i < j /\ j < target) \/ (target < j /\ j < i)}
      near == IF at = {} THEN {} ELSE {i \in DOMAIN all : Cardinality(between(i)) < 2}
  IN [i \in near |-> all[i]]

(* ------------------------------ rule hits ------------------------------ *)

Hit(r, f, l) == [rule |-> r, path |-> f.path, line |-> l.line, text |-> l.text,
                 context |-> Context(f, l.line)]

\* Lines of a file with the text of one of them that stand before it.
Earlier(f, l) == {k \in AddedLines(f) : k.text = l.text /\ k.line < l.line}

\* A rule hits the same text of a file at most MaxPerKey times.
LineHits(r, f) ==
  {Hit(r, f, l) : l \in {k \in AddedLines(f) : k.text \in TeamRules[r].texts /\ Cardinality(Earlier(f, k)) < MaxPerKey}}

\* contiguousAddedBlocks: a block rule hits each run of added lines once, at the
\* line where its match begins.
BlockHits(r, f) ==
  LET added == AddedLines(f)
      lines == {l.line : l \in added}
      together(k, l) == k <= l /\ k..l \subseteq lines
      matches == {l \in added : l.text \in TeamRules[r].texts}
  IN {Hit(r, f, l) : l \in {k \in matches : \A m \in matches : together(m.line, k.line) => m = k}}

AppliesTo(r, f) == TeamRules[r].paths = {} \/ f.path \in TeamRules[r].paths

HitsIn(r, f) ==
  IF ~AppliesTo(r, f) THEN {}
  ELSE IF TeamRules[r].block THEN BlockHits(r, f)
  ELSE LineHits(r, f)

HitBefore(g, h) ==
  \/ g.path < h.path
  \/ g.path = h.path /\ g.rule < h.rule
  \/ g.path = h.path /\ g.rule = h.rule /\ g.line < h.line

\* matchStaticRuleAdditions stops at MaxHits and tells nobody.
AllHits(files) == UNION {HitsIn(r, files[i]) : r \in DOMAIN TeamRules, i \in DOMAIN files}
RuleHits(files) == First(MaxHits, AllHits(files), HitBefore)

(* ------------------------------ attention ------------------------------ *)

\* attention.go: below test/ or tests/, also at the root, *_test.go, *.test.*, *.spec.*.
IsTestFile(f) == f.kind \in {"test", "fixture"}

\* inspection_questions.go: not at the root, but _test before any extension.
IsTestPath(f) == f.kind \in {"test", "suffix"}

\* attentionBlob: a file that is too large, or does not fit what is left of the
\* content budget, is not read and leaves the budget as it is.
Fits(size, left) == size <= MaxFileSize /\ size <= left

ReadCandidate(f, left) ==
  LET oldRead == f.status # "A" /\ Fits(f.oldSize, left)
      rest    == IF oldRead THEN left - f.oldSize ELSE left
      newRead == f.status # "D" /\ Fits(f.newSize, rest)
  IN [left    |-> IF newRead THEN rest - f.newSize ELSE rest,
      content |-> (f.status # "A" => oldRead) /\ (f.status # "D" => newRead) /\ ~f.binary]

\* staticAttentionCandidates: one file after the other, as many as there may be;
\* it asks git for the paths itself and knows no entry with a tab.
IsChanged(f) == f.name # "tab"

AttentionCandidates(files) ==
  LET read(k) == IsChanged(files[k]) /\ Cardinality({j \in 1..k : IsChanged(files[j])}) <= MaxFiles
      left[k \in 0..Len(files)] ==
        IF k = 0 THEN MaxContent
        ELSE IF read(k) THEN ReadCandidate(files[k], left[k - 1]).left
        ELSE left[k - 1]
  IN [k \in {i \in DOMAIN files : read(i)} |->
       [file |-> files[k], content |-> ReadCandidate(files[k], left[k - 1]).content]]

\* changedTextLines compares multisets of lines: moving a line adds nothing.
ChangedLines(f) ==
  LET old == {i \in DOMAIN f.lines : f.lines[i].kind # "added"}
      new == {i \in DOMAIN f.lines : f.lines[i].kind # "removed"}
      upTo(S, i) == {j \in S : j <= i}
      times(S, i) == Cardinality({j \in S : f.lines[j].text = f.lines[i].text})
      extra(S, T) == {i \in S : times(upTo(S, i), i) > times(T, i)}
  IN [added   |-> {[line |-> f.from + Cardinality(upTo(new, i)) - 1, text |-> f.lines[i].text] : i \in extra(new, old)},
      removed |-> Cardinality(extra(old, new))]

PublicLines(f) == {l \in ChangedLines(f).added : l.text = "api"}

\* detectReviewAttention: what one candidate raises, in the order of the code.
AttentionRules == <<"dependency", "authentication", "schema", "configuration", "deleted-test",
                    "generated", "executable-mode", "large-diff", "public-api">>

Raises(c, rule) ==
  LET f == c.file
      change == ChangedLines(f)
  IN CASE rule = "deleted-test" -> f.status = "D" /\ IsTestFile(f)
       [] rule = "executable-mode" -> f.mode
       [] rule = "large-diff" -> c.content /\ Cardinality(change.added) + change.removed >= LargeDelta
       [] rule = "public-api" -> c.content /\ ~IsTestFile(f) /\ PublicLines(f) # {}
       [] OTHER -> rule \in f.rules

Flag(f, rule) ==
  LET line == (CHOOSE l \in PublicLines(f) : \A k \in PublicLines(f) : l.line <= k.line).line
  IN [path |-> f.path, rule |-> rule, line |-> IF rule = "public-api" THEN line ELSE 0, test |-> IsTestPath(f)]

Raised(c) == {Flag(c.file, rule) : rule \in {r \in ToSet(AttentionRules) : Raises(c, r)}}

Rank(order, rule) == CHOOSE i \in DOMAIN order : order[i] = rule
RaisedBefore(g, h) ==
  g.path < h.path \/ (g.path = h.path /\ Rank(AttentionRules, g.rule) < Rank(AttentionRules, h.rule))

\* staticAttention: the flags, and whether anything was left out on the way.
Attention(files) ==
  LET candidates == AttentionCandidates(files)
      raised == UNION {Raised(candidates[k]) : k \in DOMAIN candidates}
  IN [flags     |-> First(MaxFlags, raised, RaisedBefore),
      truncated |-> \/ Cardinality({k \in DOMAIN files : IsChanged(files[k])}) > MaxFiles
                    \/ \E k \in DOMAIN candidates : ~candidates[k].content
                    \/ Cardinality(raised) > MaxFlags]

(* ------------------------- inspection questions ------------------------ *)

\* companionStem and nearbyCompanionTest: the same stem, in the same directory or
\* in one below it; no directory is below the root, whose prefix is "./".
IsNearby(dir, below) == below = dir \/ (dir # <<>> /\ IsPrefix(dir, below))

Companions(f, files) ==
  {t.path : t \in {c \in ToSet(files) : /\ c.status # "D" /\ IsTestPath(c)
                                        /\ c.stem = f.stem /\ IsNearby(f.dir, c.dir)}}

Asks(g) == g.rule \notin {"generated", "large-diff"} /\ (g.test => g.rule = "deleted-test")

Question(path, kind, line, related) == [path |-> path, kind |-> kind, line |-> line, related |-> related]

AllQuestions(files, flags) ==
  LET sources == {f \in ToSet(files) : f.status # "D" /\ ~IsTestPath(f) /\ Companions(f, files) # {}}
  IN {Question(g.path, g.rule, g.line, {}) : g \in {h \in flags : Asks(h)}}
     \cup {Question(f.path, "changed-test", 0, Companions(f, files)) : f \in sources}

\* The flags come by path, line and rule, then the sources by path.
RuleOrder == <<"authentication", "configuration", "deleted-test", "dependency", "executable-mode",
               "generated", "large-diff", "public-api", "schema">>
PathBefore(p, q) == p < q
QuestionBefore(p, q) ==
  IF p.kind = "changed-test" \/ q.kind = "changed-test"
  THEN q.kind = "changed-test" /\ (p.kind = "changed-test" => p.path < q.path)
  ELSE \/ p.path < q.path
       \/ p.path = q.path /\ p.line < q.line
       \/ p.path = q.path /\ p.line = q.line /\ Rank(RuleOrder, p.kind) < Rank(RuleOrder, q.kind)

InspectionQuestions(files, flags) ==
  LET all == AllQuestions(files, flags)
  IN [questions |-> {[q EXCEPT !.related = First(MaxRelated, q.related, PathBefore)] :
                       q \in First(MaxQuestions, all, QuestionBefore)},
      truncated |-> Cardinality(all) > MaxQuestions \/ \E q \in all : Cardinality(q.related) > MaxRelated]

(* ---------------------------- related blocks --------------------------- *)

\* shareSignal: a word of the path, or two words of the changed code.
Shared(f, g) == f.words \cap g.words # {} \/ Cardinality(f.tokens \cap g.tokens) >= 2

\* GroupBlocks gives every file the root of its group and, for one file after the
\* other, the groups of later files that share a signal with it its own root.
Groups(files) ==
  LET n == Len(files)
      joined(r, i) ==
        [m \in 1..n |-> IF \E j \in (i + 1)..n : Shared(files[i], files[j]) /\ r[m] = r[j] THEN r[i] ELSE r[m]]
      root[i \in 0..n] == IF i = 0 THEN [m \in 1..n |-> m] ELSE joined(root[i - 1], i)
  IN {{files[k].path : k \in {m \in 1..n : root[n][m] = root[n][i]}} : i \in 1..n}

RelatedBlocks(files) == {b \in Groups(files) : Cardinality(b) >= 2}

(* ------------------------------ the report ----------------------------- *)

Analysis(files) ==
  LET attention == Attention(files)
      inspection == InspectionQuestions(files, attention.flags)
  IN [hunks     |-> [i \in DOMAIN files |-> Hunk(files[i])],
      hits      |-> RuleHits(files),
      flags     |-> attention.flags,
      questions |-> inspection.questions,
      blocks    |-> RelatedBlocks(files),
      state     |-> IF attention.truncated \/ inspection.truncated THEN "limited" ELSE "available"]

NoArtifact == [state |-> "none"]

ArtifactInit == comparison \in Comparisons /\ artifact = NoArtifact

Analyse ==
  /\ artifact = NoArtifact
  /\ artifact' = Analysis(comparison)
  /\ UNCHANGED comparison

ArtifactSpec == ArtifactInit /\ [][Analyse]_artifactVars

(* ------------------------------ properties ----------------------------- *)

Holds(f, rule) ==
  CASE rule \in {"dependency", "authentication", "schema", "configuration", "generated"} -> rule \in f.rules
    [] rule = "deleted-test" -> f.status = "D" /\ f.kind \notin {"source", "suffix"}
    [] rule = "executable-mode" -> f.mode
    [] rule = "public-api" ->
         /\ f.kind \in {"source", "suffix"}
         /\ \E i \in DOMAIN f.lines : /\ f.lines[i].kind = "added" /\ f.lines[i].text = "api"
                                      /\ \A j \in DOMAIN f.lines : f.lines[j].text = "api" => f.lines[j].kind = "added"
    [] OTHER -> FALSE

\* The limits of the attention flags and of the questions are not silent: a report
\* that calls its analysis available has every flag that a limit could have cut,
\* a question for each flag that asks one and for each source that changed with
\* its tests.
AvailableMeansComplete ==
  artifact.state = "available" =>
    /\ \A i \in DOMAIN comparison, rule \in ToSet(AttentionRules) :
         IsChanged(comparison[i]) /\ Holds(comparison[i], rule) =>
           \E g \in artifact.flags : g.path = comparison[i].path /\ g.rule = rule
    /\ \A g \in artifact.flags : Asks(g) =>
         \E q \in artifact.questions : q.path = g.path /\ q.kind = g.rule /\ q.line = g.line
    /\ \A i, j \in DOMAIN comparison :
         /\ comparison[i].status # "D" /\ ~IsTestPath(comparison[i])
         /\ comparison[j].path \in Companions(comparison[i], comparison)
         => \E q \in artifact.questions : q.path = comparison[i].path /\ comparison[j].path \in q.related

\* A file whose diff is found, no line of which looks like one of git's own.
IsReadAsItIs(f) ==
  /\ f.name \in {"plain", "tab"}
  /\ \A i \in DOMAIN f.lines : f.lines[i].text \notin {"header", "marker"}

\* The page and the rule hits number the lines of a diff apart from each other: in
\* a file that is read as it is, a hit names a line that the page shows as added
\* with that text, with its context around it, and, when the hits were not cut,
\* every line that a rule matches is a hit or has enough hits of the same text
\* before it. The report is silent about the others: SkippedAnalysisIsVisible.
HitsAreShown ==
  artifact # NoArtifact => \A n \in DOMAIN comparison :
    LET f == comparison[n]
        hunk == Range(artifact.hunks[n])
        hits(r) == {h \in artifact.hits : h.path = f.path /\ h.rule = r}
        shown(l) == [line |-> l.line, kind |-> "added", text |-> l.text]
    IN IsReadAsItIs(f) =>
         /\ \A r \in DOMAIN TeamRules : \A h \in hits(r) :
              shown(h) \in hunk /\ shown(h) \in Range(h.context) /\ Range(h.context) \subseteq hunk
         /\ Cardinality(artifact.hits) < MaxHits /\ ~f.own => \A r \in DOMAIN TeamRules, l \in hunk :
              /\ l.kind = "added" /\ l.text \in TeamRules[r].texts /\ ~TeamRules[r].block
              /\ AppliesTo(r, f)
              => \/ \E h \in hits(r) : h.line = l.line
                 \/ Cardinality({h \in hits(r) : h.text = l.text /\ h.line < l.line}) >= MaxPerKey

\* Files that share a signal, directly or through others, are in one block, and
\* only those.
BlocksAreComponents ==
  artifact # NoArtifact =>
    LET n == Len(comparison)
        closed(S) == \A i \in S, j \in 1..n : Shared(comparison[i], comparison[j]) => j \in S
        component(i) == {j \in 1..n : \A S \in SUBSET (1..n) : i \in S /\ closed(S) => j \in S}
        paths(S) == {comparison[i].path : i \in S}
    IN artifact.blocks = {paths(component(i)) : i \in {k \in 1..n : Cardinality(component(k)) >= 2}}

\* What export-review computes from the diff it has read is on the page: the flags
\* and questions, or that they were limited; the hits of files that are read as
\* they are, up to the limit; the blocks (export.go, attention.go,
\* inspection_questions.go). It says nothing of a diff that was not found, of lines
\* that look like git's own and of hits beyond the limit, which the page hides.
ReportShowsWhatItRead == AvailableMeansComplete /\ HitsAreShown /\ BlocksAreComponents

\* ROADMAP.md, 233-235: skipped or bounded analysis is visible. A report that calls
\* its analysis available has, for every added line that a rule matches, up to the
\* MaxPerKey-th of a text, a hit with the number of that line (addedLinesByPath,
\* matchStaticRuleAdditions, staticEvidence).
SkippedAnalysisIsVisible ==
  artifact.state = "available" => \A n \in DOMAIN comparison, r \in DOMAIN TeamRules :
    LET f == comparison[n]
        number(i) == f.from + Cardinality({j \in DOMAIN f.lines : j < i /\ InHead(f.lines[j])})
        matched == {i \in DOMAIN f.lines : f.lines[i].kind = "added" /\ f.lines[i].text \in TeamRules[r].texts}
    IN f.name # "spaced" /\ ~f.own /\ AppliesTo(r, f) /\ ~TeamRules[r].block => \A i \in matched :
         Cardinality({j \in matched : j < i /\ f.lines[j].text = f.lines[i].text}) < MaxPerKey =>
           \E h \in artifact.hits : h.path = f.path /\ h.rule = r /\ h.line = number(i)
=============================================================================
