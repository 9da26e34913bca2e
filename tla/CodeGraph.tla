------------------------------ MODULE CodeGraph ------------------------------
(***************************************************************************)
(* What is asked of the symbol graph of a repository: the links between    *)
(* references and symbols (graph/resolve.go), the graph of a pull request  *)
(* laid over that of the default branch (graph/overlay.go), the bounded    *)
(* walks over it (graph/tools.go) and the callers and tests that a change  *)
(* may reach (review/blast_radius.go).                                     *)
(*                                                                         *)
(* A question is a record with the kind of question it is, an answer what  *)
(* the function returns.  Abstractions: a symbol's kind is part of its     *)
(* name, its signature and lines are one value, a path of resolve.go is a  *)
(* stem with an extension.                                                 *)
(***************************************************************************)
EXTENDS Integers, FiniteSets, SequencesExt

CONSTANTS
  Questions,            \* the questions asked
  MaxBlastRadiusItems   \* 20 in the code; also its limit of a walk

\* What a function may be asked.  BuildOverlay and Resolve refuse other symbols, by
\* position or by ID; that an edge ends in a symbol of its graph, or is unresolved,
\* is up to the store and the parser.
GraphSymbol == [id : Nat \ {0}, path : STRING, name : STRING, text : Nat]
OverlayEdge == [source : Nat, target : Nat, unresolved : BOOLEAN]
StoredEdge  == [source : Nat, target : Nat, kind : STRING]
PathName    == [stem : Seq(STRING), ext : STRING]

OverlayInput(q) ==
  LET base == q.base.symbols
      head == q.head.symbols
  IN /\ base \in Seq(GraphSymbol) /\ q.base.edges \subseteq OverlayEdge
     /\ \A i, j \in DOMAIN base : base[i].id = base[j].id => i = j
     /\ \A e \in q.base.edges : {e.source, e.target} \subseteq {s.id : s \in ToSet(base)} \cup {0} /\ e.source # 0
     /\ head \in Seq(GraphSymbol) /\ \A i \in DOMAIN head : head[i].path \in q.changed
     /\ \A i, j \in DOMAIN head : head[i].id = head[j].id /\ head[i].path = head[j].path => i = j
     /\ \A e \in q.head.edges :
          LET own == {s.id : s \in {t \in ToSet(head) : t.path = e.path}}
          IN e.source \in own /\ (e.target \in own \/ (e.target = 0 /\ e.unresolved))

ResolveInput(q) ==
  /\ IsFiniteSet(q.symbols) /\ q.symbols \subseteq [id : Nat \ {0}, path : PathName, name : STRING]
  /\ \A s, t \in q.symbols : s.id = t.id => s = t
  /\ q.reference \in [kind : {"calls", "imports"}, path : PathName, target : STRING, at : STRING]

WellAsked(q) ==
  /\ q.ask \in {"overlay", "walk", "siblings", "blast", "resolve"}
  /\ q.ask = "overlay" => OverlayInput(q)
  /\ q.ask = "resolve" => ResolveInput(q)
  /\ q.ask \in {"walk", "siblings", "blast"} => q.graph \in Seq(StoredEdge)
  /\ q.ask = "blast" => q.symbols \in Seq(Nat)
  /\ q.ask \in {"walk", "siblings"} => q.limit \in Nat
  /\ q.ask = "walk" => q.depth \in Nat

ASSUME QuestionsAssumption == \A q \in Questions : WellAsked(q)
ASSUME ItemsAssumption == MaxBlastRadiusItems \in Nat

VARIABLES question, answer

graphVars == <<question, answer>>

(* ------------------------------- overlay ------------------------------- *)

\* symbolKey: how a symbol of the head is matched with one of the base.
Key(s) == <<s.path, s.name>>
Keys(S) == {Key(s) : s \in S}

\* The symbols of the base are scanned in order, the last of a key is kept.
LastOf(symbols, key) ==
  symbols[CHOOSE i \in DOMAIN symbols :
            Key(symbols[i]) = key /\ \A j \in DOMAIN symbols : Key(symbols[j]) = key => j <= i]

\* BuildOverlay.  q.base has the sequence of symbols and the set of edges of
\* the default branch; q.changed the changed paths; q.head the symbols the
\* parser found in them, file by file, and the edges between their IDs, which are
\* IDs of that file only.  A symbol of the head gets the negative of its position.
NewID(q, path, id) ==
  LET at == {i \in DOMAIN q.head.symbols : q.head.symbols[i].path = path /\ q.head.symbols[i].id = id}
  IN IF at = {} THEN id ELSE -(CHOOSE i \in at : TRUE)

Kept(q) == {s \in ToSet(q.base.symbols) : s.path \notin q.changed}
Dropped(q) == {s \in ToSet(q.base.symbols) : s.path \in q.changed}
HeadSymbols(q) == {[q.head.symbols[i] EXCEPT !.id = -i] : i \in DOMAIN q.head.symbols}

\* replacementIDs: the last symbol of the head for the last one of the base.
Replacement(q, id) ==
  LET olds == {s \in Dropped(q) : s.id = id /\ s = LastOf(q.base.symbols, Key(s))}
      news == {s \in HeadSymbols(q) : \E o \in olds : Key(o) = Key(s)}
  IN IF id \notin {s.id : s \in Dropped(q)} THEN id
     ELSE IF news = {} THEN 0
     ELSE (CHOOSE s \in news : \A t \in news : s.id <= t.id).id

ReplacementOfSources(q, edge) == [edge EXCEPT !.source = Replacement(q, @)]
Rewired(q, edge) == [edge EXCEPT !.source = Replacement(q, @), !.target = Replacement(q, @)]

Overlay(q) ==
  LET base(s) == LastOf(q.base.symbols, Key(s))
      known == Keys(Dropped(q))
      own == {[source |-> NewID(q, e.path, e.source), target |-> NewID(q, e.path, e.target),
               unresolved |-> e.unresolved] : e \in q.head.edges}
      old == {Rewired(q, e) : e \in q.base.edges}
  IN [symbols  |-> Kept(q) \cup HeadSymbols(q),
      edges    |-> own \cup {e \in old : e.source # 0 /\ (e.target # 0 \/ e.unresolved)},
      added    |-> {s \in HeadSymbols(q) : Key(s) \notin known},
      modified |-> {s \in HeadSymbols(q) : Key(s) \in known /\ base(s).text # s.text},
      removed  |-> {s \in Dropped(q) : s = LastOf(q.base.symbols, Key(s)) /\ Key(s) \notin Keys(HeadSymbols(q))}]

(* -------------------------------- walks -------------------------------- *)

\* A loop over positions in order collects what stands there until it has n
\* different things.
FirstOf(positions, thing, n) ==
  {thing[i] : i \in {i \in positions : Cardinality({thing[j] : j \in {j \in positions : j < i}}) < n}}

\* A graph is the sequence in which the store returns its edges, an end of an edge
\* that is not resolved is 0.
Near(graph, symbols, direction, kind) ==
  {i \in DOMAIN graph : /\ graph[i].kind = kind
                        /\ (IF direction = "forward" THEN graph[i].source ELSE graph[i].target) \in symbols}
Ends(graph, direction) ==
  [i \in DOMAIN graph |-> IF direction = "forward" THEN graph[i].target ELSE graph[i].source]

\* Tools.traverse, one level after the other.
Walk(graph, start, direction, kind, depth, limit) ==
  LET ends == Ends(graph, direction)
      unseen(result, frontier) ==
        {i \in Near(graph, frontier, direction, kind) : ends[i] > 0 /\ ends[i] \notin result \cup {start}}
      next(l) == FirstOf(unseen(l.result, l.frontier), ends, limit - Cardinality(l.result))
      level[d \in 0..depth] ==
        IF d = 0 THEN [result |-> {}, frontier |-> {start}]
        ELSE [result |-> level[d - 1].result \cup next(level[d - 1]), frontier |-> next(level[d - 1])]
  IN level[depth].result

Siblings(graph, start, limit) ==
  LET parents  == {graph[i].source : i \in Near(graph, {start}, "reverse", "contains")}
      children == Near(graph, parents, "forward", "contains")
      ends     == Ends(graph, "forward")
  IN FirstOf({i \in children : ends[i] # start}, ends, limit)

\* BuildBlastRadius; where is the path of each symbol, name its name.  An item
\* does not say which of the symbols of that name it is.
Callers(q, id) == Walk(q.graph, id, "reverse", "calls", 2, MaxBlastRadiusItems)
TestsFor(q, id) == Walk(q.graph, id, "reverse", "tests", 1, MaxBlastRadiusItems)

Item(q, kind, id) == <<kind, q.where[id], q.name[id]>>

AddItems(q, items, kind, ids) ==
  LET item == [id \in ids |-> Item(q, kind, id)]
      new  == {id \in ids : q.where[id] \notin q.changed /\ item[id] \notin items}
  IN items \cup FirstOf(new, item, MaxBlastRadiusItems - Cardinality(items))

BlastRadius(q) ==
  LET add(items, id) == AddItems(q, AddItems(q, items, "caller", Callers(q, id)), "test", TestsFor(q, id))
      items[k \in 0..Len(q.symbols)] == IF k = 0 THEN {} ELSE add(items[k - 1], q.symbols[k])
  IN items[Len(q.symbols)]

(* ------------------------------- resolve ------------------------------- *)

\* A symbol is filed under its path and under its path without the extension,
\* which are two entries even when they are the same.
Entries(s, path) == (IF s.path = path THEN 1 ELSE 0) + (IF [s.path EXCEPT !.ext = ""] = path THEN 1 ELSE 0)

Candidates(q, r) ==
  LET named == {s \in q.symbols : s.name = r.target}
      under(S, path) == {s \in S : Entries(s, path) > 0}
      file(stem) == [stem |-> stem, ext |-> ""]
      local == under(named, r.path)
      index == under(q.symbols, file(<<r.at, "index">>))
  IN IF r.kind = "imports"
     THEN IF under(q.symbols, file(<<r.at>>)) = {} THEN index ELSE under(q.symbols, file(<<r.at>>))
     ELSE IF r.kind = "calls" /\ r.at # "" THEN under(named, file(<<r.at>>))
     ELSE IF \E s \in local : local = {s} /\ Entries(s, r.path) = 1 THEN local
     ELSE named

\* Resolve: exactly one candidate is an edge, anything else stays unresolved.
ResolveReference(q, r) ==
  LET S == Candidates(q, r) IN IF Cardinality(S) = 1 THEN (CHOOSE s \in S : TRUE).id ELSE 0

(* ------------------------------- answers ------------------------------- *)

AnswerTo(q) ==
  CASE q.ask = "overlay"  -> Overlay(q)
    [] q.ask = "walk"     -> Walk(q.graph, q.start, q.direction, q.kind, q.depth, q.limit)
    [] q.ask = "siblings" -> Siblings(q.graph, q.start, q.limit)
    [] q.ask = "blast"    -> BlastRadius(q)
    [] q.ask = "resolve"  -> ResolveReference(q, q.reference)

Unanswered == "unanswered"

GraphInit == question \in Questions /\ answer = [of |-> Unanswered]

Answer ==
  /\ answer.of = Unanswered
  /\ answer' = [of |-> question.ask, is |-> AnswerTo(question)]
  /\ UNCHANGED question

GraphSpec == GraphInit /\ [][Answer]_graphVars

(* ------------------------------ properties ----------------------------- *)

Questioned(ask) == answer.of = ask

\* No edge of an overlay ends in a symbol that the pull request has replaced or
\* removed.  Of the symbols with one key the last one counts, before and after:
\* every edge from a file that did not change stays with it, and the delta names
\* each symbol that came, went or changed.
OverlayIsClosed ==
  Questioned("overlay") =>
    LET q == question
        o == answer.is
        ids == {s.id : s \in o.symbols}
        same(s, t) == Key(s) = Key(t)
        lastOfBase(s) == s = LastOf(q.base.symbols, Key(s))
        lastOfHead(t) == \A u \in HeadSymbols(q) : same(t, u) => t.id <= u.id
    IN /\ \A e \in o.edges : e.source \in ids /\ (e.target \in ids \/ (e.target = 0 /\ e.unresolved))
       /\ \A s, t \in o.symbols : s.id = t.id => s = t
       /\ \A s \in Dropped(q), t \in HeadSymbols(q) : same(s, t) /\ lastOfBase(s) =>
            /\ lastOfHead(t) => \A e \in q.base.edges, k \in Kept(q) : e.source = k.id /\ e.target = s.id =>
                 \E n \in o.edges : n.source = k.id /\ n.target = t.id
            /\ (t \in o.modified) = (s.text # t.text)
       /\ o.added = {t \in HeadSymbols(q) : ~\E s \in Dropped(q) : same(s, t)}
       /\ Keys(o.removed) = {Key(s) : s \in {d \in Dropped(q) : ~\E t \in HeadSymbols(q) : same(d, t)}}

\* The symbols at distance 1 to depth, if no limit stops the walk.
Reach(graph, start, direction, kind, depth) ==
  LET beyond(S) == {id \in {Ends(graph, direction)[i] : i \in Near(graph, S, direction, kind)} : id > 0}
      within[d \in 0..depth] == IF d = 0 THEN {start} ELSE within[d - 1] \cup beyond(within[d - 1])
  IN within[depth] \ {start}

AtMost(limit, n) == IF n < limit THEN n ELSE limit

\* A walk returns symbols within its depth and never its start, at most its
\* limit, and all of them if they are fewer than the limit.
WalkIsExact ==
  Questioned("walk") =>
    LET q == question
        all == Reach(q.graph, q.start, q.direction, q.kind, q.depth)
    IN answer.is \subseteq all /\ Cardinality(answer.is) = AtMost(q.limit, Cardinality(all))

\* The siblings of a symbol are what its parents contain and not itself, and all
\* of them up to the limit.
SiblingsAreExact ==
  Questioned("siblings") =>
    LET q == question
        contains(e) == e.kind = "contains"
        all == {e.target : e \in {f \in ToSet(q.graph) : contains(f) /\ f.target # q.start /\
                  \E p \in ToSet(q.graph) : contains(p) /\ p.target = q.start /\ p.source = f.source}}
    IN answer.is \subseteq all /\ Cardinality(answer.is) = AtMost(q.limit, Cardinality(all))

Unchanged(q, kind, ids) == {Item(q, kind, id) : id \in {k \in ids : q.where[k] \notin q.changed}}

\* The blast radius names unchanged callers and tests of the changed symbols
\* and nothing else, and one is missing only when it is full or the walk that
\* would have found it was cut at its limit.
BlastRadiusIsHonest ==
  Questioned("blast") =>
    LET q == question
        callers(id) == Reach(q.graph, id, "reverse", "calls", 2)
        tests(id) == Reach(q.graph, id, "reverse", "tests", 1)
        from == ToSet(q.symbols)
    IN /\ answer.is \subseteq UNION {Unchanged(q, "caller", callers(id)) \cup Unchanged(q, "test", tests(id)) : id \in from}
       /\ Cardinality(answer.is) <= MaxBlastRadiusItems
       /\ Cardinality(answer.is) < MaxBlastRadiusItems =>
            \A id \in from :
              /\ Cardinality(callers(id)) <= MaxBlastRadiusItems => Unchanged(q, "caller", callers(id)) \subseteq answer.is
              /\ Cardinality(tests(id)) <= MaxBlastRadiusItems => Unchanged(q, "test", tests(id)) \subseteq answer.is

\* A call is never linked to another file while its own file has a symbol of
\* that name, nor to one of several.
LinksAreUnambiguous ==
  Questioned("resolve") /\ answer.is # 0 =>
    LET q == question
        r == q.reference
        target == CHOOSE s \in q.symbols : s.id = answer.is
        own == {s \in q.symbols : s.path = r.path /\ s.name = r.target}
    IN /\ r.kind = "calls" => target.name = r.target
       /\ r.kind = "calls" /\ r.at = "" /\ own # {} => own = {target}
       /\ r.kind = "calls" /\ r.at # "" => target.path.stem = <<r.at>>
       /\ r.kind = "imports" => target.path.stem \in {<<r.at>>, <<r.at, "index">>}

\* What the graph is asked is answered exactly, up to limits that are named.
GraphAnswersAreExact ==
  OverlayIsClosed /\ WalkIsExact /\ SiblingsAreExact /\ BlastRadiusIsHonest /\ LinksAreUnambiguous
=============================================================================
