-------------------------- MODULE ReviewRoundsProofs --------------------------
(***************************************************************************)
(* Proofs about ReviewRounds, for any number of workers, runs, pushes and  *)
(* findings, any history and any diff: what was dismissed before a run     *)
(* began is not in its review, what is supported is on the pull request or *)
(* excused there, what the caller keeps is on the pull request, a P0 fails *)
(* the check, and no check run is left in progress but by a request that   *)
(* was lost or refused or a worker that died.                              *)
(***************************************************************************)
EXTENDS ReviewRounds, FiniteSetTheorems, TLAPS

(* ---------------------------- the invariant ---------------------------- *)

RowOf(fp, path, first, last, status, thread) ==
  [fp |-> fp, path |-> path, first |-> first, last |-> last, status |-> status, thread |-> thread]

Check == [head : Nat, run : Nat, status : {"in_progress", "completed"},
          conclusion : {"none", "neutral", "failure"}]

Shapes ==
  /\ head \in Nat /\ runs \in 0 .. MaxRuns
  /\ \A r \in rows : r = RowOf(r.fp, r.path, r.first, r.last, r.status, r.thread)
  /\ at \in [Workers -> {"idle", "starting", "analysing", "posting", "completing"}]
  /\ run \in [Workers -> Nat] /\ target \in [Workers -> Nat] /\ check \in [Workers -> Nat]
  /\ plan = [w \in Workers |-> plan[w]]
  /\ conclusion \in [Workers -> {"none", "neutral", "failure"}]
  /\ checks \in Seq(Check)
  /\ silenced \in [Fingerprints -> Nat]

(* A fingerprint that was silenced has a row that says so, and no later     *)
(* step takes the row away: resolving only touches open ones.               *)
SilencedIsDismissed ==
  \A fp \in Fingerprints :
    \/ silenced[fp] = MaxRuns + 1
    \/ silenced[fp] <= runs /\ \E r \in rows : r.fp = fp /\ r.status = "dismissed"

FixedIsOpen == \A w \in Workers : \A r \in plan[w].fixed : r.status = "open"

(* What a run is about to post was not silenced when the run began.         *)
PlansAreAudible ==
  \A w \in Workers :
    /\ run[w] <= runs
    /\ \A f \in plan[w].shown \cup plan[w].summary : f \in Findings /\ run[w] <= silenced[f.fp]

PostsHaveBegun ==
  \A p \in posts : /\ p.run \in Nat /\ p.run <= runs
                   /\ \A f \in p.shown \cup p.summary : f.fp \in Fingerprints

(* Only a worker that is about to post has a plan.                          *)
PlansAreUsed == \A w \in Workers : at[w] # "posting" => plan[w] = NoPlan

SilenceInv ==
  /\ Shapes
  /\ SilencedIsDismissed /\ FixedIsOpen /\ PlansAreAudible /\ PostsHaveBegun /\ DismissedStaysSilent

(* A worker without a check run has none to complete, and one that is about *)
(* to complete it has a conclusion that Complete accepts.                   *)
ChecksAreOwned ==
  \A w \in Workers :
    /\ at[w] \in {"idle", "starting"} => check[w] = 0
    /\ at[w] \in {"posting", "completing"} => conclusion[w] # "none"

ChecksInv == Shapes /\ ChecksAreOwned /\ ChecksComplete

-----------------------------------------------------------------------------
(* The shapes.                                                              *)

\* Neither kind of conclusion is missing (githubapp/checks.go).
LEMMA ConclusionKnown ==
  ASSUME NEW findings
  PROVE  ReviewConclusion(findings) \in {"neutral", "failure"}
BY DEF ReviewConclusion

\* The state before the first run.
LEMMA InitShapes ==
  ASSUME Init
  PROVE  Shapes
BY RoundsAssumption DEF Init, Shapes, Silence, Check, NoPlan

\* A worker that ends.
LEMMA EndShapes ==
  ASSUME Shapes, NEW w \in Workers, End(w)
  PROVE  /\ at' \in [Workers -> {"idle", "starting", "analysing", "posting", "completing"}]
         /\ run' \in [Workers -> Nat] /\ target' \in [Workers -> Nat] /\ check' \in [Workers -> Nat]
         /\ plan' = [v \in Workers |-> plan'[v]]
         /\ conclusion' \in [Workers -> {"none", "neutral", "failure"}]
BY DEF Shapes, End, Go

\* A check run that is created.
LEMMA CheckShapes ==
  ASSUME Shapes, NEW w \in Workers
  PROVE  InProgress(w) \in Check
BY DEF Shapes, InProgress, Check

\* The check runs after one is completed.
Completed(i, c) == [checks EXCEPT ![i].status = "completed", ![i].conclusion = c]

\* A check run that is completed stays what it was otherwise, and so do all
\* the others.
LEMMA CompletedShapes ==
  ASSUME Shapes, NEW i, NEW c \in {"neutral", "failure"}
  PROVE  /\ Completed(i, c) \in Seq(Check) /\ DOMAIN Completed(i, c) = DOMAIN checks
         /\ \A j \in DOMAIN checks : j # i => Completed(i, c)[j] = checks[j]
         /\ i \in DOMAIN checks => Completed(i, c)[i].status = "completed"
<1> DEFINE done == Completed(i, c)
<1>1. checks \in Seq(Check) /\ DOMAIN checks = 1 .. Len(checks) /\ Len(checks) \in Nat
  BY DEF Shapes
<1>2. DOMAIN done = DOMAIN checks /\ \A j \in DOMAIN checks : j # i => done[j] = checks[j]
  BY DEF Completed
<1>3. done = [j \in 1 .. Len(checks) |-> done[j]]
  BY <1>1 DEF Completed
<1>4. \A j \in DOMAIN checks : checks[j] \in Check
  BY <1>1
<1>5. ASSUME i \in DOMAIN checks
      PROVE  done[i] = [checks[i] EXCEPT !.status = "completed", !.conclusion = c]
  BY <1>5 DEF Completed
<1>6. ASSUME i \in DOMAIN checks
      PROVE  done[i] \in Check /\ done[i].status = "completed"
  <2>1. checks[i] \in Check
    BY <1>4, <1>6
  <2>2. QED BY <1>5, <1>6, <2>1 DEF Check
<1>7. \A j \in 1 .. Len(checks) : done[j] \in Check
  BY <1>1, <1>2, <1>4, <1>6
<1>8. done \in [1 .. Len(checks) -> Check]
  BY <1>3, <1>7
<1>9. done \in Seq(Check)
  BY <1>1, <1>8
<1>10. QED BY <1>2, <1>6, <1>9

\* Every step keeps the shapes.
LEMMA ShapesStep ==
  ASSUME Shapes, [Next]_vars
  PROVE  Shapes'
<1>1. CASE UNCHANGED vars
  BY <1>1 DEF vars, workerVars, githubVars, ghostVars, Shapes
<1>2. CASE Push
  BY <1>2 DEF Push, workerVars, githubVars, ghostVars, Shapes
<1>3. ASSUME NEW w \in Workers, Begin(w)
      PROVE  Shapes'
  BY <1>3, RoundsAssumption DEF Begin, Go, githubVars, ghostVars, Shapes
<1>4. ASSUME NEW w \in Workers, StartCheck(w)
      PROVE  Shapes'
  <2>1. checks' \in Seq(Check) /\ Len(checks') \in Nat
    BY <1>4, CheckShapes DEF StartCheck, Shapes
  <2>2. QED BY <1>4, <2>1 DEF StartCheck, Go, ghostVars, Shapes
<1>5. ASSUME NEW w \in Workers, StartFails(w)
      PROVE  Shapes'
  <2>1. Append(checks, InProgress(w)) \in Seq(Check) /\ checks \in Seq(Check)
    BY CheckShapes DEF Shapes
  <2>2. checks' \in Seq(Check)
    BY <1>5, <2>1 DEF StartFails
  <2>3. QED BY <1>5, <2>2, EndShapes DEF StartFails, Shapes
<1>6. ASSUME NEW w \in Workers, NEW reported, NEW decided, AnalysisFails(w, reported, decided)
      PROVE  Shapes'
  BY <1>6, ConclusionKnown DEF AnalysisFails, Go, githubVars, ghostVars, Shapes
<1>7. ASSUME NEW w \in Workers, NEW reported, NEW supported, NEW history, NEW changed,
             Analyse(w, reported, supported, history, changed)
      PROVE  Shapes'
  <2>1. plan' = [v \in Workers |-> plan'[v]]
    BY <1>7 DEF Analyse, Shapes
  <2>2. conclusion' \in [Workers -> {"none", "neutral", "failure"}]
    BY <1>7, ConclusionKnown DEF Analyse, Shapes
  <2>3. QED BY <1>7, <2>1, <2>2 DEF Analyse, Go, githubVars, Shapes
<1>8. ASSUME NEW w \in Workers, AlreadyReviewed(w)
      PROVE  Shapes'
  BY <1>8, ConclusionKnown DEF AlreadyReviewed, Go, githubVars, ghostVars, Shapes
<1>9. ASSUME NEW w \in Workers, Post(w) \/ PostFails(w)
      PROVE  Shapes'
  <2>1. \A r \in rows' : r = RowOf(r.fp, r.path, r.first, r.last, r.status, r.thread)
    BY <1>9 DEF Post, PostFails, Resolve, RowsOf, RowOf, Shapes
  <2>2. plan' = [v \in Workers |-> plan'[v]]
    BY <1>9 DEF Post, PostFails, Shapes
  <2>3. QED BY <1>9, <2>1, <2>2 DEF Post, PostFails, Go, ghostVars, Shapes
<1>10. ASSUME NEW w \in Workers, CompleteCheck(w) \/ CompleteFails(w) \/ Die(w)
       PROVE  Shapes'
  <2>1. \/ checks' = checks
        \/ /\ conclusion[w] \in {"neutral", "failure"}
           /\ checks' = Completed(check[w], conclusion[w])
    BY <1>10 DEF CompleteCheck, CompleteFails, Die, githubVars, Completed
  <2>3. checks' \in Seq(Check)
    BY <2>1, CompletedShapes DEF Shapes
  <2>4. QED BY <1>10, <2>3, EndShapes DEF CompleteCheck, CompleteFails, Die, githubVars, ghostVars, Shapes
<1>11. ASSUME NEW command, NEW permission, NEW r \in rows, Command(command, permission, r)
       PROVE  Shapes'
  <2>1. \A s \in rows' : s = RowOf(s.fp, s.path, s.first, s.last, s.status, s.thread)
    BY <1>11 DEF Command, RowOf, Shapes
  <2>2. silenced' \in [Fingerprints -> Nat]
    <3>1. CASE r.fp \in Fingerprints
      BY <1>11, <3>1, RoundsAssumption DEF Command, Shapes
    <3>2. CASE r.fp \notin Fingerprints
      BY <1>11, <3>2 DEF Command, Shapes
    <3>3. QED BY <3>1, <3>2
  <2>3. QED BY <1>11, <2>1, <2>2 DEF Command, workerVars, githubVars, Shapes
<1>12. QED BY <1>1, <1>2, <1>3, <1>4, <1>5, <1>6, <1>7, <1>8, <1>9, <1>10, <1>11 DEF Next, Worker

-----------------------------------------------------------------------------
(* Ranking.                                                                 *)

\* Among finite sets there is one that none of the others is part of.
LEMMA SmallestSet ==
  ASSUME NEW U, NEW T, T \subseteq FiniteSubsetsOf(U), T # {}
  PROVE  \E s \in T : \A t \in T : t \subseteq s => t = s
<1>1. PICK s \in T : \A t \in T : <<t, s>> \notin StrictSubsetOrdering(U)
  <2>1. IsWellFoundedOn(StrictSubsetOrdering(U), FiniteSubsetsOf(U))
    BY FS_StrictSubsetOrderingWellFounded
  <2>2. QED BY <2>1, WFMin
<1>2. \A t \in T : t \in SUBSET U
  BY DEF FiniteSubsetsOf
<1>3. QED BY <1>1, <1>2 DEF StrictSubsetOrdering

\* Comparing the first difference is a strict order, and total.
LEMMA BeforeOrder ==
  ASSUME NEW a \in [1 .. 6 -> Nat], NEW b \in [1 .. 6 -> Nat], NEW c \in [1 .. 6 -> Nat]
  PROVE  /\ ~Before(a, a)
         /\ Before(a, b) /\ Before(b, c) => Before(a, c)
         /\ a # b => Before(a, b) \/ Before(b, a)
<1>1. ~Before(a, a)
  BY DEF Before
<1>2. ASSUME Before(a, b), Before(b, c)
      PROVE  Before(a, c)
  <2>1. PICK i \in 1 .. 6 : a[i] < b[i] /\ \A j \in 1 .. i - 1 : a[j] = b[j]
    BY <1>2 DEF Before
  <2>2. PICK k \in 1 .. 6 : b[k] < c[k] /\ \A j \in 1 .. k - 1 : b[j] = c[j]
    BY <1>2 DEF Before
  <2>3. CASE i <= k
    <3>1. a[i] < c[i] /\ \A j \in 1 .. i - 1 : a[j] = c[j]
      BY <2>1, <2>2, <2>3
    <3>2. QED BY <3>1 DEF Before
  <2>4. CASE k < i
    <3>1. a[k] < c[k] /\ \A j \in 1 .. k - 1 : a[j] = c[j]
      BY <2>1, <2>2, <2>4
    <3>2. QED BY <3>1 DEF Before
  <2>5. QED BY <2>3, <2>4
<1>3. ASSUME NEW i \in 1 .. 6, a[i] # b[i], \A j \in 1 .. i - 1 : a[j] = b[j]
      PROVE  Before(a, b) \/ Before(b, a)
  <2>1. a[i] < b[i] \/ b[i] < a[i]
    BY <1>3
  <2>2. QED BY <1>3, <2>1 DEF Before
<1>4. ASSUME a # b
      PROVE  \E i \in 1 .. 6 : a[i] # b[i] /\ \A j \in 1 .. i - 1 : a[j] = b[j]
  <2>1. PICK i \in 1 .. 6 : a[i] # b[i]
    BY <1>4
  <2>2. QED BY <2>1
<1>5. QED BY <1>1, <1>2, <1>3, <1>4

(* What the analysis ranks.                                                 *)
Rankable(S) == IsFiniteSet(S) /\ S \subseteq Findings /\ \A f \in S : Valid(f)

\* No two findings are equally strong.
LEMMA StrongerOrder ==
  ASSUME NEW S, Rankable(S), NEW f \in S, NEW g \in S, NEW h \in S
  PROVE  /\ ~Stronger(f, f)
         /\ Stronger(f, g) /\ Stronger(g, h) => Stronger(f, h)
         /\ f # g => Stronger(f, g) \/ Stronger(g, f)
<1>1. ASSUME NEW e \in S
      PROVE  Strength(e) \in [1 .. 6 -> Nat]
  <2>1. {e.path, e.first, e.last, e.fp} \subseteq Nat /\ 100 - e.confidence \in Nat
    BY FindingsAssumption DEF Rankable, Valid
  <2>2. Rank[e.severity] \in Nat
    BY DEF Rank, Rankable, Valid, Severities
  <2>3. DOMAIN Strength(e) = 1 .. 6 /\ \A i \in 1 .. 6 : Strength(e)[i] \in Nat
    BY <2>1, <2>2 DEF Strength
  <2>4. Strength(e) = [i \in 1 .. 6 |-> Strength(e)[i]]
    BY DEF Strength
  <2>5. QED BY <2>3, <2>4
<1>2. ASSUME f # g
      PROVE  Strength(f) # Strength(g)
  <2>1. f.fp # g.fp \/ <<f.path, f.first, f.last>> # <<g.path, g.first, g.last>>
    BY <1>2, RoundsAssumption DEF Rankable
  <2>2. Strength(f)[3] = f.path /\ Strength(f)[4] = f.first /\ Strength(f)[5] = f.last /\ Strength(f)[6] = f.fp
    BY DEF Strength
  <2>3. Strength(g)[3] = g.path /\ Strength(g)[4] = g.first /\ Strength(g)[5] = g.last /\ Strength(g)[6] = g.fp
    BY DEF Strength
  <2>4. QED BY <2>1, <2>2, <2>3
<1>3. QED BY <1>1, <1>2, BeforeOrder DEF Stronger

\* Of findings there is one that all others are stronger than.
LEMMA Weakest ==
  ASSUME NEW S, Rankable(S), S # {}
  PROVE  \E w \in S : \A f \in S \ {w} : Stronger(f, w)
<1> DEFINE Least(s, w) == w \in s /\ \A f \in s \ {w} : Stronger(f, w)
           Without == {s \in SUBSET S : s # {} /\ \A w \in s : ~Least(s, w)}
<1>1. SUFFICES ASSUME Without # {}
               PROVE  FALSE
  OBVIOUS
<1>2. \A s \in SUBSET S : IsFiniteSet(s)
  BY FS_Subset DEF Rankable
<1>3. PICK s \in Without : \A t \in Without : t \subseteq s => t = s
  <2>1. \A s \in Without : s \in FiniteSubsetsOf(S)
    BY <1>2 DEF FiniteSubsetsOf
  <2> HIDE DEF Without
  <2>2. Without \subseteq FiniteSubsetsOf(S)
    BY <2>1
  <2>3. QED BY <1>1, <2>2, SmallestSet
<1>4. PICK x \in s : TRUE
  OBVIOUS
<1>5. s \ {x} # {}
  <2>1. s = {x} => Least(s, x)
    OBVIOUS
  <2>2. QED BY <2>1
<1>6. PICK w \in s \ {x} : Least(s \ {x}, w)
  <2>1. s \ {x} \notin Without
    BY <1>3, <1>4
  <2>2. QED BY <1>5, <2>1
<1>7. x \in S /\ w \in S /\ s \subseteq S /\ x # w
  BY <1>6
<1>8. CASE Stronger(x, w)
  <2>1. Least(s, w)
    BY <1>6, <1>8
  <2>2. QED BY <2>1
<1>9. CASE Stronger(w, x)
  <2>1. \A f \in s \ {x} : Stronger(f, x)
    BY <1>6, <1>7, <1>9, StrongerOrder
  <2>2. Least(s, x)
    BY <2>1
  <2>3. QED BY <2>2
<1>10. QED BY <1>7, <1>8, <1>9, StrongerOrder

\* The loop keeps something, and RankAndCap says what.
LEMMA RankAndCapKeeps ==
  ASSUME NEW S, Rankable(S)
  PROVE  /\ RankAndCap(S) \subseteq S
         /\ \A f \in S : f \in RankAndCap(S) <=> Kept(f, RankAndCap(S))
<1> DEFINE Result(s, kept) == \A f \in s : f \in kept <=> Kept(f, kept)
           Without == {s \in SUBSET S : \A kept \in SUBSET s : ~Result(s, kept)}
<1>1. SUFFICES ASSUME Without # {}
               PROVE  FALSE
  <2>1. ASSUME Without = {}
        PROVE  \E kept \in SUBSET S : Result(S, kept)
    BY <2>1
  <2>2. RankAndCap(S) = CHOOSE kept \in SUBSET S : Result(S, kept)
    BY DEF RankAndCap
  <2>3. QED BY SMTT(60), <2>1, <2>2
<1>2. \A s \in SUBSET S : Rankable(s)
  BY FS_Subset DEF Rankable
<1>3. PICK s \in Without : \A t \in Without : t \subseteq s => t = s
  <2>1. \A s \in Without : s \in FiniteSubsetsOf(S)
    BY <1>2 DEF FiniteSubsetsOf, Rankable
  <2> HIDE DEF Without
  <2>2. Without \subseteq FiniteSubsetsOf(S)
    BY <2>1
  <2>3. QED BY <1>1, <2>2, SmallestSet
<1>4. s # {}
  <2>1. s = {} => Result(s, {})
    OBVIOUS
  <2>2. QED BY <2>1
<1>5. PICK w \in s : \A f \in s \ {w} : Stronger(f, w)
  BY <1>2, <1>4, Weakest
<1>6. PICK kept \in SUBSET (s \ {w}) : Result(s \ {w}, kept)
  <2>1. s \ {w} \notin Without
    BY <1>3
  <2>2. QED BY <2>1
<1>7. \A f \in s : ~Stronger(w, f)
  <2> TAKE f \in s
  <2>1. f # w => ~Stronger(w, f)
    BY <1>2, <1>5, StrongerOrder
  <2>2. QED BY <1>2, <2>1, StrongerOrder
<1>8. ASSUME NEW f \in s
      PROVE  Kept(f, kept \cup {w}) <=> Kept(f, kept)
  <2>1. {g \in kept \cup {w} : Stronger(g, f)} = {g \in kept : Stronger(g, f)}
    BY <1>7
  <2>2. QED BY <1>7, <2>1 DEF Kept
<1>9. CASE Kept(w, kept)
  <2>1. Result(s, kept \cup {w})
    BY <1>6, <1>8, <1>9
  <2>2. QED BY <2>1
<1>10. CASE ~Kept(w, kept)
  <2>1. Result(s, kept)
    BY <1>6, <1>10
  <2>2. QED BY <2>1
<1>11. QED BY <1>9, <1>10

\* What is stronger is at least as severe.
LEMMA StrongerIsAsSevere ==
  ASSUME NEW S, Rankable(S), NEW f \in S, NEW g \in S, Stronger(g, f)
  PROVE  Rank[g.severity] <= Rank[f.severity]
<1>1. Rank[f.severity] \in Nat /\ Rank[g.severity] \in Nat
  BY DEF Rank, Rankable, Valid, Severities
<1>2. PICK i \in 1 .. 6 : /\ Strength(g)[i] < Strength(f)[i]
                         /\ \A j \in 1 .. i - 1 : Strength(g)[j] = Strength(f)[j]
  BY DEF Stronger, Before, Strength
<1>3. Strength(g)[1] = Rank[g.severity] /\ Strength(f)[1] = Rank[f.severity]
  BY DEF Strength
<1>4. CASE i = 1
  BY <1>1, <1>2, <1>3, <1>4
<1>5. CASE i # 1
  <2>1. Strength(g)[1] = Strength(f)[1]
    BY <1>2, <1>5
  <2>2. QED BY <1>1, <1>3, <2>1
<1>6. QED BY <1>4, <1>5

\* No more is kept than fits, or the weakest of it had no place.
LEMMA CapIsKept ==
  ASSUME NEW S, Rankable(S)
  PROVE  Rankable(RankAndCap(S)) /\ Cardinality(RankAndCap(S)) <= MaxInline
<1> DEFINE kept == RankAndCap(S)
<1>1. kept \subseteq S /\ \A f \in S : f \in kept <=> Kept(f, kept)
  BY RankAndCapKeeps
<1>2. Rankable(kept) /\ Cardinality(kept) \in Nat
  BY <1>1, FS_Subset, FS_CardinalityType DEF Rankable
<1>3. SUFFICES ASSUME Cardinality(kept) > MaxInline
               PROVE  FALSE
  BY <1>2, RoundsAssumption
<1>4. kept # {}
  BY <1>2, <1>3, FS_EmptySet, RoundsAssumption
<1>5. PICK w \in kept : \A f \in kept \ {w} : Stronger(f, w)
  BY <1>2, <1>4, Weakest
<1>6. {g \in kept : Stronger(g, w)} = kept \ {w}
  BY <1>2, <1>5, StrongerOrder
<1>7. Cardinality(kept \ {w}) = Cardinality(kept) - 1
  BY <1>2, FS_RemoveElement DEF Rankable
<1>8. Cardinality(kept \ {w}) < MaxInline
  BY <1>1, <1>5, <1>6 DEF Kept
<1>9. QED BY <1>2, <1>3, <1>7, <1>8, RoundsAssumption

\* A finding that is not kept is the same as a stronger one that is, or was
\* crowded out.
LEMMA RankAndCapExcuses ==
  ASSUME NEW S, Rankable(S), NEW f \in S, f \notin RankAndCap(S)
  PROVE  \/ \E g \in RankAndCap(S) : SameFinding(g, f) /\ Rank[g.severity] <= Rank[f.severity]
         \/ /\ Cardinality(RankAndCap(S)) = MaxInline
            /\ \A g \in RankAndCap(S) : Rank[g.severity] <= Rank[f.severity]
<1> DEFINE kept == RankAndCap(S)
           ahead == {g \in kept : Stronger(g, f)}
<1>1. kept \subseteq S /\ ~Kept(f, kept)
  BY RankAndCapKeeps
<1>2. \A g \in ahead : Rank[g.severity] <= Rank[f.severity]
  BY <1>1, StrongerIsAsSevere
<1>3. CASE \E g \in kept : Stronger(g, f) /\ SameFinding(g, f)
  BY <1>2, <1>3
<1>4. CASE ~(Cardinality(ahead) < MaxInline)
  <2>1. IsFiniteSet(kept) /\ Cardinality(kept) <= MaxInline /\ Cardinality(kept) \in Nat
    BY CapIsKept, FS_CardinalityType DEF Rankable
  <2>2. Cardinality(ahead) \in Nat /\ Cardinality(ahead) <= Cardinality(kept)
    BY <2>1, FS_Subset, FS_CardinalityType
  <2>3. Cardinality(kept) = MaxInline /\ Cardinality(ahead) = Cardinality(kept)
    BY <1>4, <2>1, <2>2, RoundsAssumption
  <2>4. kept = ahead
    BY <2>1, <2>3, FS_Subset
  <2>5. QED BY <1>2, <2>3, <2>4
<1>5. QED BY <1>1, <1>3, <1>4 DEF Kept

\* Distinct complaints can be picked from those that suppress a finding.
LEMMA SuppressedHasComplaints ==
  ASSUME NEW f, Valid(f), NEW history, IsFiniteSet(DOMAIN history), Suppressed(f, history)
  PROVE  f.severity # "P0" /\ f.type \in {"syntax", "style"} /\ f.path \in Scope /\ Complaints(f, history)
<1> DEFINE noise == {i \in DOMAIN history : Noise(f, history[i])}
           ids == {history[i].id : i \in noise}
           first(id) == CHOOSE i \in noise : history[i].id = id
           picked == {first(id) : id \in ids}
           idOf == [i \in picked |-> history[i].id]
<1>1. f.severity # "P0" /\ f.type \in {"syntax", "style"} /\ f.path \in Scope
  BY DEF Suppressed, Protected, Valid, Types
<1>2. \A id \in ids : first(id) \in noise /\ history[first(id)].id = id
  OBVIOUS
<1>3. picked \subseteq noise /\ IsFiniteSet(picked)
  <2>1. picked \subseteq noise
    BY <1>2
  <2>2. QED BY <2>1, FS_Subset
<1>4. \A i, j \in picked : history[i].id = history[j].id => i = j
  BY <1>2
<1>5. idOf \in Surjection(picked, ids)
  <2>1. idOf \in [picked -> ids]
    BY <1>3
  <2>2. \A id \in ids : \E i \in picked : idOf[i] = id
    BY ZenonT(60), <1>2
  <2>3. QED BY <2>1, <2>2 DEF Surjection
<1>6. Cardinality(ids) <= Cardinality(picked)
  <2> HIDE DEF ids, picked, idOf
  <2>1. QED BY <1>3, <1>5, FS_Surjection
<1>7. Cardinality(ids) \in Nat /\ Cardinality(picked) \in Nat
  <2>1. IsFiniteSet(ids)
    <3> HIDE DEF ids, picked, idOf
    <3>1. QED BY <1>3, <1>5, FS_Surjection
  <2>2. QED BY <1>3, <2>1, FS_CardinalityType
<1>8. Cardinality(picked) >= Threshold
  BY <1>6, <1>7, RoundsAssumption DEF Suppressed
<1>9. \A i \in picked :
        /\ history[i].category = f.type /\ history[i].age <= Window /\ history[i].path \in Scope
        /\ \A j \in picked \ {i} : history[i].id # history[j].id
  <2>1. \A i \in picked : Noise(f, history[i])
    BY <1>3
  <2>2. QED BY <1>4, <2>1 DEF Noise
<1>10. picked \in SUBSET DOMAIN history
  BY <1>3
<1>11. Complaints(f, history)
  <2> HIDE DEF picked
  <2>1. QED BY <1>8, <1>9, <1>10 DEF Complaints
<1>12. QED BY <1>1, <1>11

\* What a plan leaves out has an excuse.
LEMMA PlanExcuses ==
  ASSUME NEW supported, Rankable(supported), NEW history, IsFiniteSet(DOMAIN history), NEW changed,
         NEW f \in supported
  PROVE  LET p == PlanOf(supported, history, changed)
         IN  f \in p.shown \cup p.summary \/ Excused(f, history, p)
<1> DEFINE p == PlanOf(supported, history, changed)
           kept == {g \in supported : ~Suppressed(g, history) /\ ~Dismissed(g)}
           inline == {g \in kept : Anchored(g, changed)}
<1>1. p.shown = RankAndCap(inline) /\ p.summary = kept \ inline
  <2>1. kept = {g \in {h \in supported : ~Suppressed(h, history)} : ~Dismissed(g)}
    OBVIOUS
  <2>2. QED BY <2>1 DEF PlanOf
<1>2. CASE Suppressed(f, history)
  BY <1>1, <1>2, SuppressedHasComplaints DEF Excused, Rankable
<1>3. CASE Dismissed(f)
  BY <1>3 DEF Dismissed, Excused
<1>4. CASE f \in kept \ inline
  BY <1>1, <1>4
<1>5. CASE f \in inline
  <2>1. Rankable(inline)
    BY FS_Subset DEF Rankable
  <2> HIDE DEF inline
  <2>2. QED BY <1>1, <1>5, <2>1, RankAndCapExcuses DEF Excused
<1>6. QED BY <1>2, <1>3, <1>4, <1>5

\* What the verifier supports can be ranked.
LEMMA SupportedRankable ==
  ASSUME NEW reported \in SUBSET Findings, Decodes(reported), NEW supported \in SUBSET Eligible(reported)
  PROVE  Rankable(supported)
BY FS_Subset DEF Decodes, Eligible, Rankable

\* A plan shows only what is supported and not dismissed.
LEMMA PlanShows ==
  ASSUME NEW supported, Rankable(supported), NEW history, NEW changed
  PROVE  LET p == PlanOf(supported, history, changed)
         IN  /\ \A f \in p.shown \cup p.summary : f \in supported /\ ~Dismissed(f)
             /\ IsFiniteSet(p.shown) /\ Cardinality(p.shown) <= MaxInline
<1> DEFINE p == PlanOf(supported, history, changed)
           kept == {h \in {e \in supported : ~Suppressed(e, history)} : ~Dismissed(h)}
           inline == {g \in kept : Anchored(g, changed)}
<1>1. p.shown = RankAndCap(inline) /\ p.summary = kept \ inline
  BY DEF PlanOf
<1>2. \A f \in inline \cup (kept \ inline) : f \in supported /\ ~Dismissed(f)
  OBVIOUS
<1>3. Rankable(inline)
  BY FS_Subset DEF Rankable
<1> HIDE DEF inline, kept
<1>4. RankAndCap(inline) \subseteq inline
  BY <1>3, RankAndCapKeeps
<1>5. Rankable(RankAndCap(inline)) /\ Cardinality(RankAndCap(inline)) <= MaxInline
  BY <1>3, CapIsKept
<1>6. QED BY <1>1, <1>2, <1>4, <1>5 DEF Rankable

-----------------------------------------------------------------------------
(* Dismissed findings.                                                      *)

\* What is not changed by most steps.
Speechless == UNCHANGED <<runs, rows, silenced, posts>>

\* Before the first run nothing is silenced or posted.
LEMMA InitSilence ==
  ASSUME Init
  PROVE  SilenceInv
BY InitShapes DEF Init, Silence, NoPlan, SilenceInv, SilencedIsDismissed, FixedIsOpen,
                  PlansAreAudible, PostsHaveBegun, DismissedStaysSilent

\* The steps before and after a review is planned and posted.
LEMMA OtherStepsSilence ==
  ASSUME SilenceInv, Shapes', Speechless,
         \A w \in Workers : \/ run'[w] = run[w] /\ plan'[w] = plan[w]
                            \/ run'[w] = 0 /\ plan'[w] = NoPlan
                            \/ run'[w] = run[w] /\ plan'[w] = NoPlan
  PROVE  SilenceInv'
<1>1. SilencedIsDismissed' /\ PostsHaveBegun' /\ DismissedStaysSilent'
  BY DEF SilenceInv, Speechless, SilencedIsDismissed, PostsHaveBegun, DismissedStaysSilent
<1>2. FixedIsOpen'
  BY DEF SilenceInv, FixedIsOpen, NoPlan
<1>3. ASSUME NEW w \in Workers
      PROVE  /\ run'[w] <= runs'
             /\ \A f \in plan'[w].shown \cup plan'[w].summary : f \in Findings /\ run'[w] <= silenced'[f.fp]
  <2>1. run[w] <= runs /\ runs \in Nat /\ UNCHANGED <<runs, silenced>>
    BY <1>3 DEF SilenceInv, Shapes, Speechless, PlansAreAudible
  <2>2. CASE run'[w] = run[w] /\ plan'[w] = plan[w]
    BY <1>3, <2>1, <2>2 DEF SilenceInv, PlansAreAudible
  <2>3. CASE run'[w] \in {0, run[w]} /\ plan'[w] = NoPlan
    BY <2>1, <2>3 DEF NoPlan
  <2>4. QED BY <1>3, <2>2, <2>3
<1>4. QED BY <1>1, <1>2, <1>3 DEF SilenceInv, PlansAreAudible

\* A run that begins is younger than every silence there is.
LEMMA BeginSilence ==
  ASSUME SilenceInv, Shapes', NEW w \in Workers, Begin(w), plan[w] = NoPlan
  PROVE  SilenceInv'
<1> runs \in Nat /\ runs' = runs + 1 /\ UNCHANGED <<rows, plan, posts, silenced>>
  BY DEF Begin, githubVars, ghostVars, SilenceInv, Shapes
<1>1. SilencedIsDismissed'
  <2>1. \A fp \in Fingerprints : silenced[fp] \in Nat
    BY DEF SilenceInv, Shapes
  <2>2. \A fp \in Fingerprints : silenced[fp] <= runs => silenced[fp] <= runs'
    BY <2>1
  <2>3. QED BY <2>2 DEF SilenceInv, SilencedIsDismissed
<1>2. PlansAreAudible'
  BY DEF Begin, SilenceInv, PlansAreAudible, Shapes, NoPlan
<1>3. FixedIsOpen' /\ PostsHaveBegun' /\ DismissedStaysSilent'
  BY DEF SilenceInv, FixedIsOpen, PostsHaveBegun, DismissedStaysSilent
<1>4. QED BY <1>1, <1>2, <1>3 DEF SilenceInv

\* A plan shows only what no row dismisses now, which nobody silenced so far.
LEMMA AnalyseSilence ==
  ASSUME SilenceInv, Shapes', NEW w \in Workers, NEW reported \in SUBSET Findings, NEW supported, NEW history,
         NEW changed, Analyse(w, reported, supported, history, changed)
  PROVE  SilenceInv'
<1> DEFINE p == PlanOf(supported, history, changed)
<1>1. plan' = [plan EXCEPT ![w] = p] /\ supported \subseteq Findings
  BY DEF Analyse, Eligible
<1>2. \A r \in p.fixed : r.status = "open"
  BY DEF PlanOf, Fixed
<1>3. \A f \in p.shown \cup p.summary : f \in supported /\ ~Dismissed(f)
  <2>1. Rankable(supported)
    BY SupportedRankable DEF Analyse
  <2>2. QED BY <2>1, PlanShows
<1>4. ASSUME NEW f \in p.shown \cup p.summary
      PROVE  f \in Findings /\ run[w] <= silenced[f.fp]
  <2>1. f \in Findings /\ f.fp \in Fingerprints
    BY <1>1, <1>3 DEF Fingerprints
  <2>2. silenced[f.fp] = MaxRuns + 1
    BY <1>3, <2>1 DEF SilenceInv, SilencedIsDismissed, Dismissed
  <2>3. run[w] <= runs /\ run[w] \in Nat /\ runs \in 0 .. MaxRuns
    BY DEF SilenceInv, PlansAreAudible, Shapes
  <2>4. QED BY <2>1, <2>2, <2>3, RoundsAssumption
<1>5. FixedIsOpen'
  BY <1>1, <1>2 DEF SilenceInv, FixedIsOpen, Shapes
<1>6. PlansAreAudible'
  BY <1>1, <1>4 DEF Analyse, SilenceInv, PlansAreAudible, Shapes
<1>7. SilencedIsDismissed' /\ PostsHaveBegun' /\ DismissedStaysSilent'
  BY DEF Analyse, githubVars, SilenceInv, SilencedIsDismissed, PostsHaveBegun, DismissedStaysSilent
<1>8. QED BY <1>5, <1>6, <1>7 DEF SilenceInv

\* A review says what its plan shows, and the rows of the silenced stay.
LEMMA PostSilence ==
  ASSUME SilenceInv, Shapes', NEW w \in Workers, Post(w) \/ PostFails(w)
  PROVE  SilenceInv'
<1>1. plan' = [plan EXCEPT ![w] = NoPlan] /\ UNCHANGED <<runs, run, silenced>>
  BY DEF Post, PostFails, ghostVars
<1>2. posts' \in {posts, Posted(w)}
  BY DEF Post, PostFails
<1>3. ASSUME NEW p \in posts'
      PROVE  /\ p.run \in Nat /\ p.run <= runs
             /\ \A f \in p.shown \cup p.summary : f.fp \in Fingerprints /\ p.run <= silenced[f.fp]
  <2>1. CASE p \in posts
    BY <2>1 DEF SilenceInv, PostsHaveBegun, DismissedStaysSilent
  <2>2. CASE p \notin posts
    <3>1. p.run = run[w] /\ p.shown = plan[w].shown /\ p.summary = plan[w].summary
      BY <1>2, <1>3, <2>2 DEF Posted
    <3>2. run[w] \in Nat /\ run[w] <= runs
      BY DEF SilenceInv, Shapes, PlansAreAudible
    <3>3. \A f \in plan[w].shown \cup plan[w].summary : f \in Findings /\ run[w] <= silenced[f.fp]
      BY DEF SilenceInv, PlansAreAudible
    <3>4. QED BY <3>1, <3>2, <3>3 DEF Fingerprints
  <2>3. QED BY <2>1, <2>2
<1>8. PostsHaveBegun' /\ DismissedStaysSilent'
  BY <1>1, <1>3 DEF PostsHaveBegun, DismissedStaysSilent
<1>4. \A r \in rows : r.status = "dismissed" => r \in rows'
  BY DEF Post, PostFails, Resolve, SilenceInv, FixedIsOpen
<1>5. SilencedIsDismissed'
  BY <1>1, <1>4 DEF SilenceInv, SilencedIsDismissed
<1>6. FixedIsOpen' /\ PlansAreAudible'
  BY <1>1 DEF SilenceInv, FixedIsOpen, PlansAreAudible, Shapes, NoPlan
<1>7. QED BY <1>5, <1>6, <1>8 DEF SilenceInv

\* A dismissal silences no run that has begun.
LEMMA CommandSilence ==
  ASSUME SilenceInv, Shapes', NEW r \in rows, NEW command, NEW permission, Command(command, permission, r)
  PROVE  SilenceInv'
<1> DEFINE d == [r EXCEPT !.status = "dismissed"]
<1>1. /\ rows' = (rows \ {r}) \cup {d} /\ r.status = "open"
      /\ silenced' = [silenced EXCEPT ![r.fp] = IF @ <= runs THEN @ ELSE runs]
      /\ UNCHANGED <<runs, run, plan, posts>>
  BY DEF Command, workerVars, githubVars
<1>2. d.fp = r.fp /\ d.status = "dismissed"
  BY DEF SilenceInv, Shapes, RowOf
<1>3. \A fp \in Fingerprints : silenced'[fp] \in {silenced[fp], runs} /\ (fp # r.fp => silenced'[fp] = silenced[fp])
  BY <1>1 DEF SilenceInv, Shapes
<1>4. r.fp \in Fingerprints => silenced'[r.fp] <= runs
  BY <1>1 DEF SilenceInv, Shapes
<1>5. SilencedIsDismissed'
  <2> SUFFICES ASSUME NEW fp \in Fingerprints, silenced'[fp] # MaxRuns + 1
               PROVE  silenced'[fp] <= runs /\ \E s \in rows' : s.fp = fp /\ s.status = "dismissed"
    BY <1>1 DEF SilencedIsDismissed
  <2>1. CASE fp = r.fp
    BY <1>1, <1>2, <1>4, <2>1
  <2>2. CASE fp # r.fp
    <3>1. silenced'[fp] = silenced[fp]
      BY <1>3, <2>2
    <3>2. PICK s \in rows : s.fp = fp /\ s.status = "dismissed"
      BY <3>1 DEF SilenceInv, SilencedIsDismissed
    <3>3. s \in rows'
      BY <1>1, <3>2
    <3>4. QED BY <3>1, <3>2, <3>3 DEF SilenceInv, SilencedIsDismissed
  <2>3. QED BY <2>1, <2>2
<1>6. PlansAreAudible'
  BY <1>1, <1>3 DEF SilenceInv, PlansAreAudible, Fingerprints
<1>7. FixedIsOpen' /\ PostsHaveBegun'
  BY <1>1 DEF SilenceInv, FixedIsOpen, PostsHaveBegun
<1>8. DismissedStaysSilent'
  BY <1>1, <1>3 DEF SilenceInv, PostsHaveBegun, DismissedStaysSilent
<1>9. QED BY <1>5, <1>6, <1>7, <1>8 DEF SilenceInv

\* Only a worker that posts has a plan, and loses it with the attempt.
LEMMA PlansStep ==
  ASSUME Shapes, PlansAreUsed, [Next]_vars
  PROVE  PlansAreUsed'
<1>1. CASE UNCHANGED vars \/ Push \/ \E r \in rows, permission \in {"read", "write"} : Command("ignore", permission, r)
  BY <1>1 DEF vars, workerVars, Push, Command, PlansAreUsed
<1>2. ASSUME NEW w \in Workers, Begin(w) \/ StartCheck(w) \/ AlreadyReviewed(w)
      PROVE  PlansAreUsed'
  BY <1>2 DEF Begin, StartCheck, AlreadyReviewed, Go, PlansAreUsed, Shapes
<1>3. ASSUME NEW w \in Workers, StartFails(w) \/ CompleteCheck(w) \/ CompleteFails(w) \/ Die(w)
      PROVE  PlansAreUsed'
  BY <1>3 DEF StartFails, CompleteCheck, CompleteFails, Die, End, Go, PlansAreUsed, Shapes
<1>4. ASSUME NEW w \in Workers, NEW reported, NEW decided, AnalysisFails(w, reported, decided)
      PROVE  PlansAreUsed'
  BY <1>4 DEF AnalysisFails, Go, PlansAreUsed, Shapes
<1>5. ASSUME NEW w \in Workers, NEW reported, NEW supported, NEW history, NEW changed,
             Analyse(w, reported, supported, history, changed)
      PROVE  PlansAreUsed'
  BY <1>5 DEF Analyse, Go, PlansAreUsed, Shapes
<1>6. ASSUME NEW w \in Workers, Post(w) \/ PostFails(w)
      PROVE  PlansAreUsed'
  BY <1>6 DEF Post, PostFails, Go, PlansAreUsed, Shapes
<1>7. QED BY <1>1, <1>2, <1>3, <1>4, <1>5, <1>6 DEF Next, Worker

\* Every step keeps the dismissed silent.
LEMMA SilenceStep ==
  ASSUME SilenceInv, PlansAreUsed, [Next]_vars
  PROVE  SilenceInv'
<1>1. Shapes /\ Shapes'
  BY ShapesStep DEF SilenceInv
<1>2. CASE UNCHANGED vars \/ Push
  <2>1. Speechless /\ UNCHANGED <<run, plan>>
    BY <1>2 DEF vars, workerVars, githubVars, ghostVars, Push, Speechless
  <2>2. QED BY <1>1, <2>1, OtherStepsSilence
<1>3. ASSUME NEW w \in Workers, Begin(w)
      PROVE  SilenceInv'
  <2>1. plan[w] = NoPlan
    BY <1>3 DEF Begin, PlansAreUsed
  <2>2. QED BY <1>1, <1>3, <2>1, BeginSilence
<1>4. ASSUME NEW w \in Workers, StartCheck(w) \/ AlreadyReviewed(w)
      PROVE  SilenceInv'
  <2>1. Speechless /\ UNCHANGED <<run, plan>>
    BY <1>4 DEF StartCheck, AlreadyReviewed, githubVars, ghostVars, Speechless
  <2>2. QED BY <1>1, <2>1, OtherStepsSilence
<1>5. ASSUME NEW w \in Workers, StartFails(w) \/ CompleteCheck(w) \/ CompleteFails(w) \/ Die(w)
      PROVE  SilenceInv'
  <2>1. Speechless /\ End(w)
    BY <1>5 DEF StartFails, CompleteCheck, CompleteFails, Die, githubVars, ghostVars, Speechless
  <2>2. \A v \in Workers : \/ run'[v] = run[v] /\ plan'[v] = plan[v]
                           \/ run'[v] = 0 /\ plan'[v] = NoPlan
    BY <1>1, <2>1 DEF End, Shapes
  <2>3. QED BY <1>1, <2>1, <2>2, OtherStepsSilence
<1>6. ASSUME NEW w \in Workers, NEW reported, NEW decided, AnalysisFails(w, reported, decided)
      PROVE  SilenceInv'
  <2>1. Speechless /\ UNCHANGED <<run, plan>>
    BY <1>6 DEF AnalysisFails, githubVars, ghostVars, Speechless
  <2>2. QED BY <1>1, <2>1, OtherStepsSilence
<1>7. ASSUME NEW w \in Workers, NEW reported \in SUBSET Findings, NEW supported, NEW history, NEW changed,
             Analyse(w, reported, supported, history, changed)
      PROVE  SilenceInv'
  BY <1>1, <1>7, AnalyseSilence
<1>8. ASSUME NEW w \in Workers, Post(w) \/ PostFails(w)
      PROVE  SilenceInv'
  BY <1>1, <1>8, PostSilence
<1>9. ASSUME NEW r \in rows, NEW permission, Command("ignore", permission, r)
      PROVE  SilenceInv'
  BY <1>1, <1>9, CommandSilence
<1>10. QED BY <1>2, <1>3, <1>4, <1>5, <1>6, <1>7, <1>8, <1>9 DEF Next, Worker

PlansInv == SilenceInv /\ PlansAreUsed

\* What plans rest on.
LEMMA PlansInvariant == Spec => []PlansInv
<1>1. Init => PlansInv
  BY InitSilence DEF Init, PlansAreUsed, PlansInv
<1>2. PlansInv /\ [Next]_vars => PlansInv'
  <2>1. SilenceInv => Shapes
    BY DEF SilenceInv
  <2>2. QED BY <2>1, SilenceStep, PlansStep DEF PlansInv
<1>3. QED BY <1>1, <1>2, PTL DEF Spec

(* What was dismissed before a run began is not in its review, whatever     *)
(* runs overlap, posts get lost and findings move (learning/feedback.go,    *)
(* githubapp/commands.go, review/rereview.go).                              *)
THEOREM RoundsDismissedStaysSilent == Spec => []DismissedStaysSilent
<1>1. PlansInv => DismissedStaysSilent
  BY DEF PlansInv, SilenceInv
<1>2. QED BY <1>1, PlansInvariant, PTL

-----------------------------------------------------------------------------
(* What becomes of a supported finding.                                     *)

\* A plan is made by an analysis, and its conclusion stays with it until it is
\* posted.
PlanMoves(w) ==
  \/ plan'[w] = NoPlan
  \/ plan'[w] = plan[w] /\ conclusion'[w] = conclusion[w]
  \/ \E reported \in SUBSET Findings :
       \E supported \in SUBSET reported, history \in Histories, changed \in Diffs :
         Analyse(w, reported, supported, history, changed)

\* No step takes away a row that dismisses.
LEMMA DismissedStays ==
  ASSUME FixedIsOpen, [Next]_vars, NEW r \in rows, r.status = "dismissed"
  PROVE  r \in rows'
<1>1. CASE UNCHANGED rows
  BY <1>1
<1>2. ASSUME NEW w \in Workers, Post(w)
      PROVE  r \in rows'
  BY <1>2 DEF Post, Resolve, FixedIsOpen
<1>3. ASSUME NEW s \in rows, NEW permission, Command("ignore", permission, s)
      PROVE  r \in rows'
  BY <1>3 DEF Command
<1>4. CASE UNCHANGED vars \/ Push
  BY <1>1, <1>4 DEF vars, Push
<1>5. ASSUME NEW w \in Workers, Worker(w), ~Post(w)
      PROVE  UNCHANGED rows
  BY <1>5 DEF Worker, Begin, StartCheck, StartFails, AnalysisFails, Analyse, AlreadyReviewed, PostFails,
              CompleteCheck, CompleteFails, Die
<1>6. QED BY <1>1, <1>2, <1>3, <1>4, <1>5 DEF Next

\* How a step changes a plan.
LEMMA PlanMovesStep ==
  ASSUME Shapes, PlansAreUsed, [Next]_vars, NEW w \in Workers
  PROVE  PlanMoves(w)
<1>1. CASE UNCHANGED <<plan, conclusion>>
  BY <1>1 DEF PlanMoves
<1>2. CASE UNCHANGED vars \/ Push \/ \E r \in rows, permission \in {"read", "write"} : Command("ignore", permission, r)
  BY <1>1, <1>2 DEF vars, workerVars, Push, Command
<1>3. ASSUME NEW v \in Workers, Begin(v) \/ StartCheck(v)
      PROVE  PlanMoves(w)
  BY <1>1, <1>3 DEF Begin, StartCheck
<1>4. ASSUME NEW v \in Workers, StartFails(v) \/ CompleteCheck(v) \/ CompleteFails(v) \/ Die(v)
      PROVE  PlanMoves(w)
  <2>1. plan' = [plan EXCEPT ![v] = NoPlan] /\ conclusion' = [conclusion EXCEPT ![v] = "none"]
    BY <1>4 DEF StartFails, CompleteCheck, CompleteFails, Die, End
  <2>2. QED BY <2>1 DEF PlanMoves, Shapes
<1>5. ASSUME NEW v \in Workers, Post(v) \/ PostFails(v)
      PROVE  PlanMoves(w)
  <2>1. plan' = [plan EXCEPT ![v] = NoPlan] /\ UNCHANGED conclusion
    BY <1>5 DEF Post, PostFails
  <2>2. QED BY <2>1 DEF PlanMoves, Shapes
<1>6. ASSUME NEW v \in Workers, NEW reported, AlreadyReviewed(v) \/ AnalysisFails(v, reported, {})
      PROVE  PlanMoves(w)
  <2>1. /\ plan[v] = NoPlan /\ UNCHANGED plan
        /\ conclusion' = [conclusion EXCEPT ![v] = ReviewConclusion({})]
    BY <1>6 DEF AlreadyReviewed, AnalysisFails, PlansAreUsed
  <2>2. QED BY <2>1 DEF PlanMoves, Shapes
<1>7. ASSUME NEW v \in Workers, NEW reported \in SUBSET Findings, NEW supported \in SUBSET reported,
             NEW history \in Histories, NEW changed \in Diffs,
             Analyse(v, reported, supported, history, changed)
      PROVE  PlanMoves(w)
  <2>1. CASE v = w
    BY <1>7, <2>1 DEF PlanMoves
  <2>2. CASE v # w
    BY <1>7, <2>2 DEF Analyse, PlanMoves, Shapes
  <2>3. QED BY <2>1, <2>2
<1>8. QED BY <1>2, <1>3, <1>4, <1>5, <1>6, <1>7 DEF Next, Worker

\* What the plan of an analysis leaves out has an excuse, and so has a check
\* that does not fail although a P0 is supported.
LEMMA AnalyseAccounts ==
  ASSUME Shapes, NEW w \in Workers, NEW reported \in SUBSET Findings, NEW supported, NEW history \in Histories,
         NEW changed, Analyse(w, reported, supported, history, changed), NEW f \in plan'[w].supported
  PROVE  /\ f \in plan'[w].shown \cup plan'[w].summary \/ Excused(f, history, plan'[w])
         /\ FailOnP0 /\ f.severity = "P0" =>
              conclusion'[w] = "failure" \/ \E r \in rows : r.fp = f.fp /\ r.status = "dismissed"
<1> DEFINE p == PlanOf(supported, history, changed)
<1>1. /\ plan'[w] = p /\ p.supported = supported /\ p.history = history
      /\ conclusion'[w] = ReviewConclusion(p.shown \cup p.summary)
  BY DEF Analyse, Shapes, PlanOf
<1>2. Rankable(supported) /\ IsFiniteSet(DOMAIN history)
  BY SupportedRankable, HistoriesAssumption DEF Analyse
<1>3. f \in p.shown \cup p.summary \/ Excused(f, history, p)
  BY <1>1, <1>2, PlanExcuses
<1>4. \A g \in p.shown : g \in supported
  BY <1>2, PlanShows
<1>5. Cardinality(p.shown) = MaxInline => p.shown # {}
  BY FS_EmptySet, RoundsAssumption
<1> HIDE DEF p
<1>6. ASSUME FailOnP0, f.severity = "P0", ~ \E r \in rows : r.fp = f.fp /\ r.status = "dismissed"
      PROVE  conclusion'[w] = "failure"
  <2>1. ASSUME NEW g \in p.shown, Rank[g.severity] <= Rank[f.severity]
        PROVE  g.severity = "P0"
    <3>1. g.severity \in Severities
      BY <1>2, <1>4 DEF Rankable, Valid
    <3>2. QED BY <1>6, <2>1, <3>1 DEF Rank, Severities
  <2>2. \E g \in p.shown \cup p.summary : g.severity = "P0"
    BY <1>3, <1>5, <1>6, <2>1 DEF Excused
  <2>3. QED BY <1>1, <1>6, <2>2 DEF ReviewConclusion
<1>7. QED BY <1>1, <1>3, <1>6

\* An excuse stays one.
LEMMA ExcuseStays ==
  ASSUME FixedIsOpen, [Next]_vars, NEW f, NEW history, NEW p, Excused(f, history, p)
  PROVE  Excused(f, history, p)'
<1>1. CASE \E r \in rows : r.fp = f.fp /\ r.status = "dismissed"
  BY <1>1, DismissedStays DEF Excused
<1>2. CASE ~ \E r \in rows : r.fp = f.fp /\ r.status = "dismissed"
  BY <1>2 DEF Excused
<1>3. QED BY <1>1, <1>2

(* A P0 that is verified and not dismissed fails the check: neither the     *)
(* ranking nor an equal finding hides it (review/rank.go, checks.go).       *)
THEOREM RoundsP0FailsTheCheck == Spec => []P0FailsTheCheck
<1>1. Init => P0FailsTheCheck
  BY DEF Init, P0FailsTheCheck, NoPlan
<1>2. PlansInv /\ P0FailsTheCheck /\ [Next]_vars => P0FailsTheCheck'
  <2> SUFFICES ASSUME PlansInv, P0FailsTheCheck, [Next]_vars, FailOnP0,
                      NEW w \in Workers, NEW f \in plan'[w].supported, f.severity = "P0"
               PROVE  conclusion'[w] = "failure" \/ \E r \in rows' : r.fp = f.fp /\ r.status = "dismissed"
    BY DEF P0FailsTheCheck
  <2>1. Shapes /\ FixedIsOpen /\ PlansAreUsed
    BY DEF PlansInv, SilenceInv
  <2>2. CASE plan'[w] = NoPlan
    BY <2>2 DEF NoPlan
  <2>3. CASE plan'[w] = plan[w] /\ conclusion'[w] = conclusion[w]
    BY <2>1, <2>3, DismissedStays DEF P0FailsTheCheck
  <2>4. ASSUME NEW reported \in SUBSET Findings, NEW supported \in SUBSET reported, NEW history \in Histories,
               NEW changed \in Diffs, Analyse(w, reported, supported, history, changed)
        PROVE  conclusion'[w] = "failure" \/ \E r \in rows' : r.fp = f.fp /\ r.status = "dismissed"
    <3>1. UNCHANGED rows
      BY <2>4 DEF Analyse
    <3>2. QED BY <2>1, <2>4, <3>1, AnalyseAccounts
  <2>5. QED BY <2>1, <2>2, <2>3, <2>4, PlanMovesStep DEF PlanMoves
<1>3. QED BY <1>1, <1>2, PlansInvariant, PTL DEF Spec

-----------------------------------------------------------------------------
(* Check runs.                                                              *)

\* A worker that ends keeps no check run, the others keep theirs.
LEMMA EndOwned ==
  ASSUME Shapes, ChecksAreOwned, NEW w \in Workers, End(w)
  PROVE  /\ ChecksAreOwned'
         /\ \A v \in Workers : v # w => check'[v] = check[v]
BY DEF Shapes, ChecksAreOwned, End, Go

\* What keeps the check runs and who works on them keeps them accounted for.
LEMMA OtherStepsChecks ==
  ASSUME ChecksInv, UNCHANGED <<check, checks, lost, abandoned>>
  PROVE  ChecksComplete'
BY DEF ChecksInv, ChecksComplete

\* The worker that created a check run works on it.
LEMMA StartChecksComplete ==
  ASSUME ChecksInv, NEW w \in Workers, StartCheck(w)
  PROVE  ChecksComplete'
<1>1. /\ checks' = Append(checks, InProgress(w)) /\ check' = [check EXCEPT ![w] = Len(checks')]
      /\ UNCHANGED <<lost, abandoned>>
  BY DEF StartCheck, ghostVars
<1>2. checks \in Seq(Check) /\ check \in [Workers -> Nat] /\ check[w] = 0
  BY DEF ChecksInv, Shapes, ChecksAreOwned, StartCheck
<1>3. ASSUME NEW i \in DOMAIN checks'
      PROVE  checks'[i].status = "completed" \/ i \in lost' \cup abandoned' \/ \E v \in Workers : check'[v] = i
  <2>1. Len(checks') = Len(checks) + 1 /\ Len(checks) \in Nat /\ DOMAIN checks = 1 .. Len(checks)
    BY <1>1, <1>2, CheckShapes DEF ChecksInv
  <2>2. CASE i = Len(checks')
    BY <1>1, <1>2, <2>2
  <2>3. CASE i # Len(checks')
    <3>1. i \in DOMAIN checks /\ checks'[i] = checks[i]
      BY <1>1, <1>2, <1>3, <2>1, <2>3, CheckShapes DEF ChecksInv
    <3>2. \A v \in Workers : check[v] = i => check'[v] = i
      BY <1>1, <1>2, <2>1, <3>1
    <3>3. QED BY <1>1, <3>1, <3>2 DEF ChecksInv, ChecksComplete
  <2>4. QED BY <2>2, <2>3
<1>4. QED BY <1>3 DEF ChecksComplete

\* A check run whose creation was not answered is lost.
LEMMA StartFailsChecksComplete ==
  ASSUME ChecksInv, NEW w \in Workers, StartFails(w)
  PROVE  ChecksComplete'
<1>1. \A v \in Workers : v # w => check'[v] = check[v]
  BY EndOwned DEF ChecksInv, StartFails
<1>2. checks \in Seq(Check) /\ check[w] = 0
  BY DEF ChecksInv, Shapes, ChecksAreOwned, StartFails
<1>3. \A i \in DOMAIN checks : i # 0
  BY <1>2
<1>4. \A i \in DOMAIN checks : \/ checks[i].status = "completed" \/ i \in lost \cup abandoned
                              \/ \E v \in Workers : check'[v] = i
  BY <1>1, <1>2, <1>3 DEF ChecksInv, ChecksComplete
<1>0. UNCHANGED abandoned
  BY DEF StartFails
<1>5. CASE UNCHANGED <<checks, lost>>
  BY <1>0, <1>4, <1>5 DEF ChecksComplete
<1>6. CASE checks' = Append(checks, InProgress(w)) /\ lost' = lost \cup {Len(checks')}
  <2>1. ASSUME NEW i \in DOMAIN checks', i # Len(checks')
        PROVE  i \in DOMAIN checks /\ checks'[i] = checks[i]
    <3>1. Len(checks') = Len(checks) + 1 /\ Len(checks) \in Nat /\ DOMAIN checks = 1 .. Len(checks)
      BY <1>2, <1>6, CheckShapes DEF ChecksInv
    <3>2. QED BY <1>2, <1>6, <2>1, <3>1, CheckShapes DEF ChecksInv
  <2>2. QED BY <1>0, <1>4, <1>6, <2>1 DEF ChecksComplete
<1>7. QED BY <1>5, <1>6 DEF StartFails

\* A check run is left completed, lost when the request failed, or abandoned.
LEMMA EndChecksComplete ==
  ASSUME ChecksInv, NEW w \in Workers, CompleteCheck(w) \/ CompleteFails(w) \/ Die(w)
  PROVE  ChecksComplete'
<1>1. \A v \in Workers : v # w => check'[v] = check[v]
  BY EndOwned DEF ChecksInv, CompleteCheck, CompleteFails, Die
<1>2. CASE CompleteCheck(w)
  <2>1. conclusion[w] \in {"neutral", "failure"}
    BY <1>2 DEF CompleteCheck, ChecksInv, Shapes, ChecksAreOwned
  <2>2. checks' = Completed(check[w], conclusion[w]) /\ UNCHANGED <<lost, abandoned>>
    BY <1>2, <2>1 DEF CompleteCheck, Completed, ghostVars
  <2>3. /\ DOMAIN checks' = DOMAIN checks
        /\ \A i \in DOMAIN checks : i # check[w] => checks'[i] = checks[i]
        /\ check[w] \in DOMAIN checks => checks'[check[w]].status = "completed"
    BY <2>1, <2>2, CompletedShapes DEF ChecksInv
  <2>4. QED BY <1>1, <2>2, <2>3 DEF ChecksInv, ChecksComplete
<1>3. CASE CompleteFails(w)
  <2>1. UNCHANGED <<checks, abandoned>> /\ lost' = lost \cup {check[w]}
    BY <1>3 DEF CompleteFails, githubVars
  <2>2. QED BY <1>1, <2>1 DEF ChecksInv, ChecksComplete
<1>4. CASE Die(w)
  <2>1. UNCHANGED <<checks, lost>> /\ abandoned' = abandoned \cup ({check[w]} \ {0})
    BY <1>4 DEF Die, githubVars
  <2>2. \A i \in DOMAIN checks : i # 0
    BY DEF ChecksInv, Shapes
  <2>3. QED BY <1>1, <2>1, <2>2 DEF ChecksInv, ChecksComplete
<1>5. QED BY <1>2, <1>3, <1>4

\* Every step keeps every check run accounted for.
LEMMA ChecksStep ==
  ASSUME ChecksInv, [Next]_vars
  PROVE  ChecksInv'
<1>1. Shapes /\ Shapes' /\ ChecksAreOwned
  BY ShapesStep DEF ChecksInv
<1>2. CASE UNCHANGED vars \/ Push \/ \E r \in rows, permission \in {"read", "write"} : Command("ignore", permission, r)
  <2>1. UNCHANGED <<workerVars, checks, lost, abandoned>>
    BY <1>2 DEF vars, Push, Command, githubVars, ghostVars
  <2>2. ChecksAreOwned'
    BY <1>1, <2>1 DEF workerVars, ChecksAreOwned
  <2>3. QED BY <1>1, <2>1, <2>2, OtherStepsChecks DEF ChecksInv, workerVars
<1>3. ASSUME NEW w \in Workers, Begin(w) \/ Post(w) \/ PostFails(w)
      PROVE  ChecksInv'
  <2>1. ChecksAreOwned' /\ UNCHANGED <<check, checks, lost, abandoned>>
    BY <1>1, <1>3 DEF Begin, Post, PostFails, Go, githubVars, ghostVars, Shapes, ChecksAreOwned
  <2>2. QED BY <1>1, <2>1, OtherStepsChecks DEF ChecksInv
<1>4. ASSUME NEW w \in Workers, StartCheck(w)
      PROVE  ChecksInv'
  <2>1. ChecksAreOwned'
    BY <1>1, <1>4 DEF StartCheck, Go, Shapes, ChecksAreOwned
  <2>2. QED BY <1>1, <1>4, <2>1, StartChecksComplete DEF ChecksInv
<1>5. ASSUME NEW w \in Workers, StartFails(w)
      PROVE  ChecksInv'
  <2>1. ChecksAreOwned'
    BY <1>1, <1>5, EndOwned DEF StartFails
  <2>2. QED BY <1>1, <1>5, <2>1, StartFailsChecksComplete DEF ChecksInv
<1>6. ASSUME NEW w \in Workers, CompleteCheck(w) \/ CompleteFails(w) \/ Die(w)
      PROVE  ChecksInv'
  <2>1. ChecksAreOwned'
    BY <1>1, <1>6, EndOwned DEF CompleteCheck, CompleteFails, Die
  <2>2. QED BY <1>1, <1>6, <2>1, EndChecksComplete DEF ChecksInv
<1>7. ASSUME NEW w \in Workers, NEW findings, NEW place \in {"posting", "completing"}, at[w] = "analysing",
             conclusion' = [conclusion EXCEPT ![w] = ReviewConclusion(findings)], Go(w, place),
             UNCHANGED <<check, checks, lost, abandoned>>
      PROVE  ChecksInv'
  <2>1. ChecksAreOwned'
    BY <1>1, <1>7, ConclusionKnown DEF Go, Shapes, ChecksAreOwned
  <2>2. QED BY <1>1, <1>7, <2>1, OtherStepsChecks DEF ChecksInv
<1>8. ASSUME NEW w \in Workers, NEW reported, NEW decided,
             AnalysisFails(w, reported, decided) \/ AlreadyReviewed(w)
      PROVE  ChecksInv'
  BY <1>7, <1>8 DEF AnalysisFails, AlreadyReviewed, githubVars, ghostVars
<1>9. ASSUME NEW w \in Workers, NEW reported, NEW supported, NEW history, NEW changed,
             Analyse(w, reported, supported, history, changed)
      PROVE  ChecksInv'
  BY <1>7, <1>9 DEF Analyse, githubVars
<1>10. QED BY <1>2, <1>3, <1>4, <1>5, <1>6, <1>8, <1>9 DEF Next, Worker

\* Check runs are accounted for.
LEMMA ChecksInvariant == Spec => []ChecksInv
<1>1. Init => ChecksInv
  <2>1. Init => ChecksAreOwned /\ ChecksComplete
    BY DEF Init, ChecksAreOwned, ChecksComplete
  <2>2. QED BY <2>1, InitShapes DEF ChecksInv
<1>2. ChecksInv /\ [Next]_vars => ChecksInv'
  BY ChecksStep
<1>3. QED BY <1>1, <1>2, PTL DEF Spec

(* A check run that nobody works on any more is completed, unless one of    *)
(* its own requests was lost or refused or its worker died                  *)
(* (githubapp/checks.go).                                                   *)
THEOREM RoundsChecksComplete == Spec => []ChecksComplete
<1>1. ChecksInv => ChecksComplete
  BY DEF ChecksInv
<1>2. QED BY <1>1, ChecksInvariant, PTL

-----------------------------------------------------------------------------
(* Types.                                                                   *)

\* Heads only grow, and a worker that is busy has the number of a run.
Numbers ==
  /\ head \in 1 .. MaxHeads /\ reviewed \in 0 .. head
  /\ \A w \in Workers : target[w] <= head /\ (at[w] # "idle" => run[w] \in 1 .. runs)

PlansFit == \A w \in Workers : IsFiniteSet(plan[w].shown) /\ Cardinality(plan[w].shown) <= MaxInline

OwnChecks ==
  \A w \in Workers : at[w] \notin {"idle", "starting"} =>
    check[w] \in DOMAIN checks /\ checks[check[w]].run = run[w]

PostsFit == \A p \in posts : p.head \in 0 .. head /\ Cardinality(p.shown) <= MaxInline

Concluded == \A i \in DOMAIN checks : (checks[i].status = "completed") = (checks[i].conclusion # "none")

\* The numbers of heads and runs.
LEMMA NumbersStep ==
  ASSUME Shapes, Numbers, [Next]_vars
  PROVE  Numbers'
<1>1. CASE UNCHANGED vars \/ \E r \in rows, permission \in {"read", "write"} : Command("ignore", permission, r)
  BY <1>1 DEF vars, workerVars, Command, Numbers
<1>2. CASE Push
  BY <1>2, RoundsAssumption DEF Push, workerVars, Numbers, Shapes
<1>3. ASSUME NEW w \in Workers, Begin(w)
      PROVE  Numbers'
  BY <1>3 DEF Begin, Go, Numbers, Shapes
<1>4. ASSUME NEW w \in Workers, StartCheck(w) \/ AlreadyReviewed(w) \/ PostFails(w)
      PROVE  Numbers'
  BY <1>4 DEF StartCheck, AlreadyReviewed, PostFails, Go, Numbers, Shapes
<1>5. ASSUME NEW w \in Workers, StartFails(w) \/ CompleteCheck(w) \/ CompleteFails(w) \/ Die(w)
      PROVE  Numbers'
  <2>1. End(w) /\ UNCHANGED <<head, reviewed, runs>>
    BY <1>5 DEF StartFails, CompleteCheck, CompleteFails, Die
  <2>2. QED BY <2>1 DEF End, Go, Numbers, Shapes
<1>6. ASSUME NEW w \in Workers, NEW reported, NEW decided, AnalysisFails(w, reported, decided)
      PROVE  Numbers'
  BY <1>6 DEF AnalysisFails, Go, Numbers, Shapes
<1>7. ASSUME NEW w \in Workers, NEW reported, NEW supported, NEW history, NEW changed,
             Analyse(w, reported, supported, history, changed)
      PROVE  Numbers'
  BY <1>7 DEF Analyse, Go, Numbers, Shapes
<1>8. ASSUME NEW w \in Workers, Post(w)
      PROVE  Numbers'
  BY <1>8 DEF Post, Go, Numbers, Shapes
<1>9. QED BY <1>1, <1>2, <1>3, <1>4, <1>5, <1>6, <1>7, <1>8 DEF Next, Worker

\* A plan that is made fits into a review.
LEMMA PlansFitStep ==
  ASSUME PlansInv, PlansFit, [Next]_vars
  PROVE  PlansFit'
<1> SUFFICES ASSUME NEW w \in Workers
             PROVE  IsFiniteSet(plan'[w].shown) /\ Cardinality(plan'[w].shown) <= MaxInline
  BY DEF PlansFit
<1>1. CASE plan'[w] = NoPlan
  BY <1>1, FS_EmptySet, RoundsAssumption DEF NoPlan
<1>2. CASE plan'[w] = plan[w]
  BY <1>2 DEF PlansFit
<1>3. ASSUME NEW reported \in SUBSET Findings, NEW supported, NEW history, NEW changed,
             Analyse(w, reported, supported, history, changed)
      PROVE  IsFiniteSet(plan'[w].shown) /\ Cardinality(plan'[w].shown) <= MaxInline
  <2>1. plan'[w] = PlanOf(supported, history, changed)
    BY <1>3 DEF Analyse, PlansInv, SilenceInv, Shapes
  <2>2. Rankable(supported)
    BY <1>3, SupportedRankable DEF Analyse
  <2>3. QED BY <2>1, <2>2, PlanShows
<1>4. QED BY <1>1, <1>2, <1>3, PlanMovesStep DEF PlanMoves, PlansInv, SilenceInv

\* A review is of a head there has been and has as much as its plan.
LEMMA PostsFitStep ==
  ASSUME PlansInv, Numbers, PlansFit, PostsFit, [Next]_vars
  PROVE  PostsFit'
<1> head \in Nat
  BY DEF Numbers
<1>1. UNCHANGED posts => PostsFit'
  <2>1. head' \in Nat /\ head' >= head
    <3>1. ASSUME NEW w \in Workers, Worker(w) PROVE UNCHANGED head
      <4>1. CASE Begin(w) \/ StartCheck(w) \/ StartFails(w)
        BY <4>1 DEF Begin, StartCheck, StartFails
      <4>2. CASE \E reported \in SUBSET Findings :
                   \/ AnalysisFails(w, reported, {})
                   \/ \E supported \in SUBSET reported, history \in Histories, changed \in Diffs :
                        Analyse(w, reported, supported, history, changed)
        BY <4>2 DEF AnalysisFails, Analyse
      <4>3. CASE AlreadyReviewed(w) \/ Post(w) \/ PostFails(w)
        BY <4>3 DEF AlreadyReviewed, Post, PostFails
      <4>4. CASE CompleteCheck(w) \/ CompleteFails(w) \/ Die(w)
        BY <4>4 DEF CompleteCheck, CompleteFails, Die
      <4>5. QED BY <3>1, <4>1, <4>2, <4>3, <4>4 DEF Worker
    <3>2. ASSUME NEW r \in rows, NEW permission, Command("ignore", permission, r) PROVE UNCHANGED head
      BY <3>2 DEF Command
    <3>3. UNCHANGED head \/ Push
      BY <3>1, <3>2 DEF Next, vars
    <3>4. QED BY <3>3 DEF Push
  <2>2. QED BY <2>1 DEF PostsFit
<1>2. ASSUME NEW w \in Workers, Post(w) \/ PostFails(w)
      PROVE  PostsFit'
  <2>1. Cardinality(plan[w].shown) <= MaxInline
    BY DEF PlansFit
  <2>2. target[w] \in 0 .. head
    BY DEF Numbers, PlansInv, SilenceInv, Shapes
  <2>3. UNCHANGED head /\ posts' \in {posts, Posted(w)}
    BY <1>2 DEF Post, PostFails
  <2>4. \A p \in Posted(w) \ posts : p.shown = plan[w].shown /\ p.head = target[w]
    BY DEF Posted
  <2>5. QED BY <2>1, <2>2, <2>3, <2>4 DEF PostsFit
<1>3. UNCHANGED posts \/ \E w \in Workers : Post(w) \/ PostFails(w)
  BY ZenonT(60) DEF Next, Worker, vars, githubVars, Push, Begin, StartCheck, StartFails, AnalysisFails, Analyse,
         AlreadyReviewed, CompleteCheck, CompleteFails, Die, Command
<1>4. QED BY <1>1, <1>2, <1>3

\* The rows of a review describe findings.
LEMMA RowsStep ==
  ASSUME PlansInv, Numbers, rows \subseteq Row, [Next]_vars
  PROVE  (rows \subseteq Row)'
<1>1. ASSUME NEW w \in Workers, Post(w)
      PROVE  rows' \subseteq Row
  <2>1. \A r \in Resolve(plan[w].fixed) : r \in Row
    BY DEF Resolve, Row
  <2>2. run[w] \in 1 .. MaxRuns
    BY <1>1, RoundsAssumption DEF Post, Numbers, PlansInv, SilenceInv, Shapes
  <2>3. \A f \in plan[w].shown : f.fp \in Fingerprints /\ f.path \in Nat /\ f.first \in Nat /\ f.last \in Nat
    BY FindingsAssumption DEF PlansInv, SilenceInv, PlansAreAudible, Fingerprints
  <2>4. \A r \in RowsOf(w) : r \in Row
    BY <2>2, <2>3 DEF RowsOf, Row
  <2>5. QED BY <1>1, <2>1, <2>4 DEF Post
<1>2. ASSUME NEW s \in rows, NEW permission, Command("ignore", permission, s)
      PROVE  rows' \subseteq Row
  <2>1. [s EXCEPT !.status = "dismissed"] \in Row
    BY DEF Row
  <2>2. QED BY <1>2, <2>1 DEF Command
<1>3. UNCHANGED rows \/ (\E w \in Workers : Post(w))
        \/ \E s \in rows, permission \in {"read", "write"} : Command("ignore", permission, s)
  BY ZenonT(60) DEF Next, Worker, vars, Push, Begin, StartCheck, StartFails, AnalysisFails, Analyse, AlreadyReviewed, PostFails,
         CompleteCheck, CompleteFails, Die
<1>4. QED BY <1>1, <1>2, <1>3

\* How a step changes the check runs.
LEMMA ChecksMove ==
  ASSUME ChecksInv, [Next]_vars
  PROVE  \/ UNCHANGED checks
         \/ \E w \in Workers : checks' = Append(checks, InProgress(w))
         \/ \E w \in Workers, c \in {"neutral", "failure"} : checks' = Completed(check[w], c) /\ CompleteCheck(w)
<1>1. ASSUME NEW w \in Workers, CompleteCheck(w), checks' # checks
      PROVE  conclusion[w] \in {"neutral", "failure"} /\ checks' = Completed(check[w], conclusion[w])
  BY <1>1 DEF CompleteCheck, Completed
<1>2. \/ UNCHANGED checks
      \/ \E w \in Workers : checks' = Append(checks, InProgress(w))
      \/ \E w \in Workers : CompleteCheck(w)
  BY ZenonT(60) DEF Next, Worker, vars, githubVars, Push, Begin, StartCheck, StartFails, AnalysisFails, Analyse,
         AlreadyReviewed, Post, PostFails, CompleteFails, Die, Command
<1>3. QED BY <1>1, <1>2

\* Completing a check run keeps its number of a run and concludes it.
LEMMA CompletedRuns ==
  ASSUME Shapes, NEW i, NEW c \in {"neutral", "failure"}, NEW j \in DOMAIN checks
  PROVE  /\ Completed(i, c)[j].run = checks[j].run
         /\ j = i => Completed(i, c)[j].status = "completed" /\ Completed(i, c)[j].conclusion = c
<1>1. checks[j] \in Check
  BY DEF Shapes
<1>2. CASE j # i
  BY <1>2, CompletedShapes
<1>3. CASE j = i
  <2>1. Completed(i, c)[i] = [checks[i] EXCEPT !.status = "completed", !.conclusion = c]
    BY <1>3 DEF Completed
  <2>2. QED BY <1>1, <1>3, <2>1 DEF Check
<1>4. QED BY <1>2, <1>3

\* A check run is completed if and only if it has a conclusion.
LEMMA ConcludedStep ==
  ASSUME ChecksInv, Concluded, [Next]_vars
  PROVE  Concluded'
<1> Shapes
  BY DEF ChecksInv
<1>1. CASE UNCHANGED checks
  BY <1>1 DEF Concluded
<1>2. ASSUME NEW w \in Workers, checks' = Append(checks, InProgress(w))
      PROVE  Concluded'
  <2>1. checks \in Seq(Check) /\ InProgress(w) \in Check
    BY CheckShapes DEF Shapes
  <2>2. \A i \in DOMAIN checks' : (i \in DOMAIN checks /\ checks'[i] = checks[i]) \/ checks'[i] = InProgress(w)
    BY <1>2, <2>1
  <2>3. InProgress(w).status = "in_progress" /\ InProgress(w).conclusion = "none"
    BY DEF InProgress
  <2>4. QED BY <2>2, <2>3 DEF Concluded
<1>3. ASSUME NEW w \in Workers, NEW c \in {"neutral", "failure"}, checks' = Completed(check[w], c)
      PROVE  Concluded'
  BY <1>3, CompletedShapes, CompletedRuns DEF Concluded
<1>4. QED BY <1>1, <1>2, <1>3, ChecksMove

\* A worker with a check run knows its own.
LEMMA OwnChecksStep ==
  ASSUME ChecksInv, OwnChecks, [Next]_vars
  PROVE  OwnChecks'
<1> Shapes
  BY DEF ChecksInv
<1>1. ASSUME NEW i \in DOMAIN checks
      PROVE  i \in DOMAIN checks' /\ checks'[i].run = checks[i].run
  <2>1. ASSUME NEW w \in Workers, checks' = Append(checks, InProgress(w))
        PROVE  i \in DOMAIN checks' /\ checks'[i].run = checks[i].run
    <3>1. checks \in Seq(Check) /\ InProgress(w) \in Check
      BY CheckShapes DEF Shapes
    <3>2. QED BY <1>1, <2>1, <3>1
  <2>2. QED BY <1>1, <2>1, ChecksMove, CompletedShapes, CompletedRuns
<1>2. ASSUME NEW w \in Workers,
             \/ at'[w] \in {"idle", "starting"}
             \/ at[w] \notin {"idle", "starting"} /\ UNCHANGED <<check[w], run[w]>>
      PROVE  at'[w] \notin {"idle", "starting"} => check'[w] \in DOMAIN checks' /\ checks'[check'[w]].run = run'[w]
  BY <1>1, <1>2 DEF OwnChecks
<1>3. CASE UNCHANGED vars \/ Push \/ \E r \in rows, permission \in {"read", "write"} : Command("ignore", permission, r)
  BY <1>3 DEF vars, workerVars, githubVars, Push, Command, OwnChecks
<1>4. ASSUME NEW w \in Workers, StartCheck(w)
      PROVE  OwnChecks'
  <2>1. ASSUME NEW v \in Workers, v # w
        PROVE  at'[v] \notin {"idle", "starting"} => check'[v] \in DOMAIN checks' /\ checks'[check'[v]].run = run'[v]
    BY <1>2, <1>4, <2>1 DEF StartCheck, Go, Shapes
  <2>2. check'[w] \in DOMAIN checks' /\ checks'[check'[w]].run = run'[w]
    <3>1. checks \in Seq(Check) /\ InProgress(w) \in Check /\ InProgress(w).run = run[w]
      BY CheckShapes DEF Shapes, InProgress
    <3>2. check'[w] = Len(checks') /\ checks' = Append(checks, InProgress(w)) /\ UNCHANGED run
      BY <1>4 DEF StartCheck, Shapes
    <3>3. QED BY <3>1, <3>2
  <2>3. QED BY <2>1, <2>2 DEF OwnChecks
<1>5. ASSUME NEW w \in Workers, Begin(w)
      PROVE  OwnChecks'
  <2>1. /\ at' = [at EXCEPT ![w] = "starting"] /\ UNCHANGED <<check, checks>>
        /\ \A v \in Workers : v # w => run'[v] = run[v]
    BY <1>5 DEF Begin, Go, githubVars, Shapes
  <2>2. QED BY <2>1 DEF OwnChecks, Shapes
<1>6. ASSUME NEW w \in Workers, StartFails(w) \/ CompleteCheck(w) \/ CompleteFails(w) \/ Die(w)
      PROVE  OwnChecks'
  <2>1. End(w)
    BY <1>6 DEF StartFails, CompleteCheck, CompleteFails, Die
  <2>2. \A v \in Workers : at'[v] = "idle" \/ UNCHANGED <<at[v], check[v], run[v]>>
    BY <2>1 DEF End, Go, Shapes
  <2>3. QED BY <1>1, <2>2 DEF OwnChecks
<1>7. ASSUME NEW w \in Workers, NEW place, at[w] \notin {"idle", "starting"}, Go(w, place),
             UNCHANGED <<check, run>>
      PROVE  OwnChecks'
  <2>1. \A v \in Workers : at[v] \in {"idle", "starting"} => at'[v] = at[v]
    BY <1>7 DEF Go, Shapes
  <2>2. QED BY <1>1, <1>7, <2>1 DEF OwnChecks
<1>8. ASSUME NEW w \in Workers, NEW reported,
             AlreadyReviewed(w) \/ AnalysisFails(w, reported, {}) \/ Post(w) \/ PostFails(w)
      PROVE  OwnChecks'
  BY <1>7, <1>8 DEF AlreadyReviewed, AnalysisFails, Post, PostFails
<1>9. ASSUME NEW w \in Workers, NEW reported, NEW supported, NEW history, NEW changed,
             Analyse(w, reported, supported, history, changed)
      PROVE  OwnChecks'
  BY <1>7, <1>9 DEF Analyse
<1>10. QED BY <1>3, <1>4, <1>5, <1>6, <1>8, <1>9 DEF Next, Worker

TypesInv ==
  /\ Numbers /\ PlansFit /\ OwnChecks /\ PostsFit /\ Concluded /\ rows \subseteq Row

(* Reviews carry at most MaxInline findings, rows describe findings, heads  *)
(* only grow, a worker that knows a check run knows its own, and a check    *)
(* run is completed if and only if it is concluded (githubapp/review.go,    *)
(* githubapp/checks.go).                                                    *)
THEOREM RoundsTypes == Spec => []TypeOK
<1>1. Init => TypesInv
  <2>1. Init => Numbers /\ OwnChecks /\ PostsFit /\ Concluded /\ rows \subseteq Row
    BY RoundsAssumption DEF Init, Numbers, OwnChecks, PostsFit, Concluded
  <2>2. Init => PlansFit
    <3>1. IsFiniteSet({}) /\ Cardinality({}) = 0 /\ 0 <= MaxInline
      BY FS_EmptySet, RoundsAssumption
    <3>2. ASSUME Init
          PROVE  \A w \in Workers : plan[w].shown = {}
      BY <3>2 DEF Init, NoPlan
    <3>3. QED BY <3>1, <3>2 DEF PlansFit
  <2>3. QED BY <2>1, <2>2 DEF TypesInv
<1>2. PlansInv /\ ChecksInv /\ TypesInv /\ [Next]_vars => TypesInv'
  <2>1. PlansInv => Shapes
    BY DEF PlansInv, SilenceInv
  <2>2. QED BY <2>1, NumbersStep, PlansFitStep, PostsFitStep, RowsStep, ConcludedStep, OwnChecksStep DEF TypesInv
<1>3. PlansInv /\ TypesInv => TypeOK
  <2> SUFFICES ASSUME PlansInv, TypesInv
               PROVE  TypeOK
    OBVIOUS
  <2>1. \A w \in Workers : at[w] \in {"idle", "starting", "analysing", "posting", "completing"}
    BY DEF PlansInv, SilenceInv, Shapes
  <2>2. runs \in 0 .. MaxRuns
    BY DEF PlansInv, SilenceInv, Shapes
  <2>3. \A p \in posts : p.head <= head /\ Cardinality(p.shown) <= MaxInline
    BY DEF TypesInv, PostsFit
  <2>4. QED BY <2>1, <2>2, <2>3 DEF TypesInv, Numbers, PlansFit, OwnChecks, Concluded, TypeOK
<1>4. QED BY <1>1, <1>2, <1>3, PlansInvariant, ChecksInvariant, PTL DEF Spec

-----------------------------------------------------------------------------
(* What is on the pull request.                                             *)

Unposted == {"starting", "analysing", "posting"}

(* Workers have runs of their own, and a run that has not posted has no     *)
(* review and, before its analysis, is owed nothing.                        *)
OwnRuns ==
  /\ \A v, w \in Workers : v # w /\ at[v] # "idle" /\ at[w] # "idle" => run[v] # run[w]
  /\ \A w \in Workers : at[w] \in Unposted => \A p \in posts : p.run # run[w]
  /\ \A w \in Workers : at[w] \in Unposted \ {"posting"} => \A o \in owed : o.run # run[w]
  /\ \A o \in owed : o.run \in Nat /\ o.run <= runs

(* A plan accounts for what its run is owed until it is posted.             *)
PlansAccount ==
  \A w \in Workers : at[w] = "posting" =>
    /\ Accounts(plan[w], plan[w])
    /\ \A o \in owed : o.run = run[w] => o.supported = plan[w].supported /\ o.history = plan[w].history

\* Workers that keep their run and do not go back, or end.
Forward ==
  \A w \in Workers :
    \/ at'[w] = "idle"
    \/ /\ at[w] # "idle" /\ run'[w] = run[w]
       /\ at'[w] \in Unposted => at[w] \in Unposted
       /\ at'[w] \in Unposted \ {"posting"} => at[w] \in Unposted \ {"posting"}

\* Neither posting nor planning anything takes nobody's run.
LEMMA ForwardOwnRuns ==
  ASSUME OwnRuns, Forward, UNCHANGED <<runs, posts>>, owed' \subseteq owed
  PROVE  OwnRuns'
<1>1. \A v, w \in Workers : v # w /\ at'[v] # "idle" /\ at'[w] # "idle" => run'[v] # run'[w]
  BY DEF OwnRuns, Forward
<1>2. \A w \in Workers : at'[w] \in Unposted => \A p \in posts' : p.run # run'[w]
  BY DEF OwnRuns, Forward, Unposted
<1>3. \A w \in Workers : at'[w] \in Unposted \ {"posting"} => \A o \in owed' : o.run # run'[w]
  BY DEF OwnRuns, Forward, Unposted
<1>4. QED BY <1>1, <1>2, <1>3 DEF OwnRuns

\* Every step leaves the runs to their workers.
LEMMA OwnRunsStep ==
  ASSUME PlansInv, Numbers, OwnRuns, [Next]_vars
  PROVE  OwnRuns'
<1> Shapes /\ runs \in Nat
  BY DEF PlansInv, SilenceInv, Shapes
<1>1. CASE UNCHANGED vars \/ Push \/ \E r \in rows, permission \in {"read", "write"} : Command("ignore", permission, r)
  BY <1>1 DEF vars, workerVars, githubVars, ghostVars, Push, Command, OwnRuns
<1>2. ASSUME NEW w \in Workers, Begin(w)
      PROVE  OwnRuns'
  <2>1. \A v \in Workers : at[v] # "idle" => run[v] \in 1 .. runs
    BY DEF Numbers
  <2>2. \A p \in posts : p.run \in Nat /\ p.run <= runs
    BY DEF PlansInv, SilenceInv, PostsHaveBegun
  <2>3. /\ runs' = runs + 1 /\ run' = [run EXCEPT ![w] = runs + 1] /\ at' = [at EXCEPT ![w] = "starting"]
        /\ at[w] = "idle" /\ UNCHANGED <<posts, owed>>
    BY <1>2 DEF Begin, Go, githubVars, ghostVars
  <2>4. \A o \in owed : o.run \in Nat /\ o.run <= runs
    BY DEF OwnRuns
  <2>5. \A v \in Workers : v # w => run'[v] = run[v] /\ at'[v] = at[v]
    BY <2>3 DEF Shapes
  <2>6. run'[w] = runs + 1 /\ at'[w] = "starting"
    BY <2>3 DEF Shapes
  <2>7. \A u, v \in Workers : u # v /\ at'[u] # "idle" /\ at'[v] # "idle" => run'[u] # run'[v]
    BY <2>1, <2>5, <2>6 DEF OwnRuns
  <2>8. \A v \in Workers : at'[v] \in Unposted => \A p \in posts' : p.run # run'[v]
    BY <2>2, <2>3, <2>5, <2>6 DEF OwnRuns
  <2>9. \A v \in Workers : at'[v] \in Unposted \ {"posting"} => \A o \in owed' : o.run # run'[v]
    BY <2>3, <2>4, <2>5, <2>6 DEF OwnRuns
  <2>10. QED BY <2>3, <2>4, <2>7, <2>8, <2>9 DEF OwnRuns
<1>3. ASSUME NEW w \in Workers, StartCheck(w) \/ AlreadyReviewed(w)
      PROVE  OwnRuns'
  <2>1. Forward /\ UNCHANGED <<runs, posts, owed>>
    BY <1>3 DEF StartCheck, AlreadyReviewed, Go, githubVars, ghostVars, Forward, Unposted, Shapes
  <2>2. QED BY <2>1, ForwardOwnRuns
<1>4. ASSUME NEW w \in Workers, StartFails(w) \/ CompleteCheck(w) \/ CompleteFails(w) \/ Die(w)
      PROVE  OwnRuns'
  <2>1. End(w) /\ UNCHANGED <<runs, posts>> /\ owed' \subseteq owed
    BY <1>4 DEF StartFails, CompleteCheck, CompleteFails, Die, Forget, githubVars, ghostVars
  <2>2. Forward
    BY <2>1 DEF End, Go, Forward, Shapes
  <2>3. QED BY <2>1, <2>2, ForwardOwnRuns
<1>5. ASSUME NEW w \in Workers, NEW reported, NEW decided, AnalysisFails(w, reported, decided)
      PROVE  OwnRuns'
  <2>1. Forward /\ UNCHANGED <<runs, posts, owed>>
    BY <1>5 DEF AnalysisFails, Go, githubVars, ghostVars, Forward, Unposted, Shapes
  <2>2. QED BY <2>1, ForwardOwnRuns
<1>6. ASSUME NEW w \in Workers, NEW reported, NEW supported, NEW history, NEW changed,
             Analyse(w, reported, supported, history, changed)
      PROVE  OwnRuns'
  <2>1. /\ at' = [at EXCEPT ![w] = "posting"] /\ at[w] = "analysing"
        /\ owed' = owed \cup {[run |-> run[w], supported |-> supported, history |-> history]}
        /\ UNCHANGED <<runs, run, posts>>
    BY <1>6 DEF Analyse, Go, githubVars
  <2>2. run[w] \in 1 .. runs /\ \A v \in Workers : v # w /\ at[v] # "idle" => run[v] # run[w]
    BY <2>1 DEF OwnRuns, Numbers
  <2>3. \A v \in Workers : v # w => at'[v] = at[v]
    BY <2>1 DEF Shapes
  <2>4. at'[w] = "posting" /\ at[w] \in Unposted
    BY <2>1 DEF Shapes, Unposted
  <2>5. QED BY <2>1, <2>2, <2>3, <2>4 DEF OwnRuns, Unposted
<1>7. ASSUME NEW w \in Workers, Post(w) \/ PostFails(w)
      PROVE  OwnRuns'
  <2>1. /\ at' = [at EXCEPT ![w] = "completing"] /\ at[w] = "posting"
        /\ UNCHANGED <<runs, run>> /\ posts' \in {posts, Posted(w)} /\ owed' \subseteq owed
    BY <1>7 DEF Post, PostFails, Go, Forget, ghostVars
  <2>2. \A p \in Posted(w) \ posts : p.run = run[w]
    BY DEF Posted
  <2>3. at'[w] = "completing" /\ \A v \in Workers : v # w => at'[v] = at[v]
    BY <2>1 DEF Shapes
  <2>4. \A v \in Workers : at'[v] \in Unposted => v # w /\ at[v] \in Unposted /\ run[v] # run[w]
    BY <2>1, <2>3 DEF OwnRuns, Unposted
  <2>5. \A v \in Workers : at'[v] \in Unposted => \A p \in posts' : p.run # run'[v]
    BY <2>1, <2>2, <2>4 DEF OwnRuns
  <2>6. QED BY <2>1, <2>3, <2>4, <2>5 DEF OwnRuns
<1>8. QED BY <1>1, <1>2, <1>3, <1>4, <1>5, <1>6, <1>7 DEF Next, Worker

\* A worker posts, dies, or stays with what it is about to post.
LEMMA PostingMoves ==
  ASSUME Shapes, [Next]_vars, NEW w \in Workers, at[w] = "posting"
  PROVE  \/ UNCHANGED <<at[w], run[w], plan[w]>>
         \/ Post(w) \/ PostFails(w) \/ Die(w)
<1>1. CASE UNCHANGED vars \/ Push \/ \E r \in rows, permission \in {"read", "write"} : Command("ignore", permission, r)
  BY <1>1 DEF vars, workerVars, Push, Command
<1>2. ASSUME NEW v \in Workers, Begin(v) \/ StartCheck(v) \/ AlreadyReviewed(v)
      PROVE  UNCHANGED <<at[w], run[w], plan[w]>>
  BY <1>2 DEF Begin, StartCheck, AlreadyReviewed, Go, Shapes
<1>3. ASSUME NEW v \in Workers, StartFails(v) \/ CompleteCheck(v) \/ CompleteFails(v) \/ Die(v), ~Die(w)
      PROVE  UNCHANGED <<at[w], run[w], plan[w]>>
  <2>1. End(v) /\ v # w
    BY <1>3 DEF StartFails, CompleteCheck, CompleteFails, Die
  <2>2. QED BY <2>1 DEF End, Go, Shapes
<1>4. ASSUME NEW v \in Workers, NEW reported, NEW decided, AnalysisFails(v, reported, decided)
      PROVE  UNCHANGED <<at[w], run[w], plan[w]>>
  BY <1>4 DEF AnalysisFails, Go, Shapes
<1>5. ASSUME NEW v \in Workers, NEW reported, NEW supported, NEW history, NEW changed,
             Analyse(v, reported, supported, history, changed)
      PROVE  UNCHANGED <<at[w], run[w], plan[w]>>
  BY <1>5 DEF Analyse, Go, Shapes
<1>6. ASSUME NEW v \in Workers, Post(v) \/ PostFails(v), v # w
      PROVE  UNCHANGED <<at[w], run[w], plan[w]>>
  BY <1>6 DEF Post, PostFails, Go, Shapes
<1>7. QED BY <1>1, <1>2, <1>3, <1>4, <1>5, <1>6 DEF Next, Worker

\* Only an analysis makes a worker post, and only for its own run.
LEMMA OwedMoves ==
  ASSUME Shapes, [Next]_vars
  PROVE  \/ owed' \subseteq owed /\ \A w \in Workers : at'[w] = "posting" => at[w] = "posting"
         \/ \E w \in Workers, reported \in SUBSET Findings :
              \E supported \in SUBSET reported, history \in Histories, changed \in Diffs :
                Analyse(w, reported, supported, history, changed)
<1>1. CASE UNCHANGED vars \/ Push \/ \E r \in rows, permission \in {"read", "write"} : Command("ignore", permission, r)
  BY <1>1 DEF vars, workerVars, ghostVars, Push, Command
<1>2. ASSUME NEW v \in Workers, Begin(v) \/ StartCheck(v) \/ AlreadyReviewed(v)
      PROVE  owed' = owed /\ \A w \in Workers : at'[w] = "posting" => at[w] = "posting"
  BY <1>2 DEF Begin, StartCheck, AlreadyReviewed, Go, ghostVars, Shapes
<1>3. ASSUME NEW v \in Workers, StartFails(v) \/ CompleteCheck(v) \/ CompleteFails(v) \/ Die(v)
      PROVE  owed' \subseteq owed /\ \A w \in Workers : at'[w] = "posting" => at[w] = "posting"
  BY <1>3 DEF StartFails, CompleteCheck, CompleteFails, Die, End, Go, Forget, ghostVars, Shapes
<1>4. ASSUME NEW v \in Workers, NEW reported, NEW decided, AnalysisFails(v, reported, decided)
      PROVE  owed' = owed /\ \A w \in Workers : at'[w] = "posting" => at[w] = "posting"
  BY <1>4 DEF AnalysisFails, Go, ghostVars, Shapes
<1>5. ASSUME NEW v \in Workers, Post(v) \/ PostFails(v)
      PROVE  owed' \subseteq owed /\ \A w \in Workers : at'[w] = "posting" => at[w] = "posting"
  BY <1>5 DEF Post, PostFails, Go, Forget, ghostVars, Shapes
<1>6. QED BY <1>1, <1>2, <1>3, <1>4, <1>5 DEF Next, Worker

\* What is accounted for stays so.
LEMMA AccountsStay ==
  ASSUME FixedIsOpen, [Next]_vars, NEW o, NEW p, Accounts(o, p)
  PROVE  Accounts(o, p)'
BY ExcuseStays DEF Accounts

\* A plan accounts for what its analysis was given.
LEMMA PlansAccountStep ==
  ASSUME PlansInv, Numbers, OwnRuns, PlansAccount, [Next]_vars
  PROVE  PlansAccount'
<1> Shapes /\ FixedIsOpen
  BY DEF PlansInv, SilenceInv
<1>1. ASSUME NEW w \in Workers, at[w] = "posting", UNCHANGED <<at[w], run[w], plan[w]>>
      PROVE  Accounts(plan[w], plan[w])'
  <2>1. PICK q : q = plan[w]
    OBVIOUS
  <2>2. Accounts(q, q)
    BY <1>1, <2>1 DEF PlansAccount
  <2>3. Accounts(q, q)'
    BY <2>2, AccountsStay
  <2>4. QED BY <1>1, <2>1, <2>3 DEF Accounts, Excused
<1>2. CASE owed' \subseteq owed /\ \A w \in Workers : at'[w] = "posting" => at[w] = "posting"
  <2> SUFFICES ASSUME NEW w \in Workers, at'[w] = "posting"
               PROVE  /\ Accounts(plan[w], plan[w])'
                      /\ \A o \in owed' : o.run = run'[w] =>
                           o.supported = plan'[w].supported /\ o.history = plan'[w].history
    BY DEF PlansAccount
  <2>1. at[w] = "posting" /\ UNCHANGED <<at[w], run[w], plan[w]>>
    <3>1. ~Post(w) /\ ~PostFails(w) /\ ~Die(w)
      BY DEF Post, PostFails, Die, End, Go, Shapes
    <3>2. QED BY <1>2, <3>1, PostingMoves
  <2>2. QED BY <1>1, <1>2, <2>1 DEF PlansAccount
<1>3. ASSUME NEW w \in Workers, NEW reported \in SUBSET Findings, NEW supported \in SUBSET reported,
             NEW history \in Histories, NEW changed \in Diffs,
             Analyse(w, reported, supported, history, changed)
      PROVE  PlansAccount'
  <2>1. /\ at[w] = "analysing" /\ at' = [at EXCEPT ![w] = "posting"]
        /\ plan' = [plan EXCEPT ![w] = PlanOf(supported, history, changed)]
        /\ owed' = owed \cup {[run |-> run[w], supported |-> supported, history |-> history]}
        /\ UNCHANGED run
    BY <1>3 DEF Analyse, Go
  <2>2. plan'[w].supported = supported /\ plan'[w].history = history
    BY <2>1 DEF PlanOf, Shapes
  <2>3. Accounts(plan[w], plan[w])'
    <3>1. \A f \in plan'[w].supported : f \in plan'[w].shown \cup plan'[w].summary \/ Excused(f, history, plan'[w])
      BY <1>3, AnalyseAccounts
    <3>2. UNCHANGED rows
      BY <1>3 DEF Analyse
    <3>3. QED BY <2>2, <3>1, <3>2 DEF Accounts, Excused
  <2>4. \A o \in owed' : o.run = run'[w] => o.supported = supported /\ o.history = history
    BY <2>1 DEF OwnRuns, Unposted
  <2>5. ASSUME NEW v \in Workers, v # w, at'[v] = "posting"
        PROVE  /\ Accounts(plan[v], plan[v])'
               /\ \A o \in owed' : o.run = run'[v] =>
                    o.supported = plan'[v].supported /\ o.history = plan'[v].history
    <3>1. at[v] = "posting" /\ UNCHANGED <<at[v], run[v], plan[v]>>
      BY <2>1, <2>5 DEF Shapes
    <3>2. run[v] # run[w]
      BY <2>1, <2>5, <3>1 DEF OwnRuns
    <3>3. QED BY <1>1, <2>1, <3>1, <3>2 DEF PlansAccount
  <2>6. QED BY <2>2, <2>3, <2>4, <2>5 DEF PlansAccount
<1>4. QED BY <1>2, <1>3, OwedMoves

\* The review that a worker posts.
LEMMA PostedReview ==
  ASSUME NEW w
  PROVE  \E q : /\ Posted(w) = posts \cup {q}
               /\ q.run = run[w] /\ q.head = target[w]
               /\ q.shown = plan[w].shown /\ q.summary = plan[w].summary
<1> DEFINE q == [id |-> Cardinality(posts) + 1, run |-> run[w], head |-> target[w],
                 shown |-> plan[w].shown, summary |-> plan[w].summary]
<1>1. Posted(w) = posts \cup {q}
  BY DEF Posted
<1>2. /\ q.run = run[w] /\ q.head = target[w]
      /\ q.shown = plan[w].shown /\ q.summary = plan[w].summary
  OBVIOUS
<1>3. QED BY <1>1, <1>2

\* No review is taken from the pull request.
LEMMA PostsStay ==
  ASSUME [Next]_vars
  PROVE  posts \subseteq posts'
<1>1. ASSUME NEW w \in Workers, Post(w) \/ PostFails(w)
      PROVE  posts \subseteq posts'
  BY <1>1 DEF Post, PostFails, Posted
<1>2. UNCHANGED posts \/ \E w \in Workers : Post(w) \/ PostFails(w)
  BY ZenonT(60) DEF Next, Worker, vars, githubVars, Push, Begin, StartCheck, StartFails, AnalysisFails, Analyse,
         AlreadyReviewed, CompleteCheck, CompleteFails, Die, Command
<1>3. QED BY <1>1, <1>2

\* What is owed is still to be posted, on the pull request, or not owed.
LEMMA NothingLostStep ==
  ASSUME PlansInv, OwnRuns, PlansAccount, NothingLost, [Next]_vars
  PROVE  NothingLost'
<1> Shapes /\ FixedIsOpen
  BY DEF PlansInv, SilenceInv
<1> SUFFICES ASSUME NEW o \in owed'
             PROVE  \/ \E w \in Workers : run'[w] = o.run /\ at'[w] = "posting"
                    \/ \E p \in posts' : p.run = o.run /\ Accounts(o, p)'
  BY DEF NothingLost
<1>1. CASE o \notin owed
  <2>1. PICK w \in Workers, reported \in SUBSET Findings :
          \E supported \in SUBSET reported, history \in Histories, changed \in Diffs :
            Analyse(w, reported, supported, history, changed)
    BY <1>1, OwedMoves
  <2>2. at'[w] = "posting" /\ run'[w] = o.run
    BY <1>1, <2>1 DEF Analyse, Go, Shapes
  <2>3. QED BY <2>2
<1>2. ASSUME NEW p \in posts, p.run = o.run, Accounts(o, p)
      PROVE  p \in posts' /\ Accounts(o, p)'
  BY <1>2, PostsStay, AccountsStay
<1>3. ASSUME o \in owed, NEW w \in Workers, run[w] = o.run, at[w] = "posting"
      PROVE  \/ \E v \in Workers : run'[v] = o.run /\ at'[v] = "posting"
             \/ \E p \in posts' : p.run = o.run /\ Accounts(o, p)'
  <2>1. CASE UNCHANGED <<at[w], run[w], plan[w]>>
    BY <1>3, <2>1
  <2>2. CASE o \notin Forget(w) /\ owed' = Forget(w)
    BY <2>2
  <2>3. CASE posts' = Posted(w)
    <3>1. PICK p \in posts' : p.run = run[w] /\ p.shown = plan[w].shown /\ p.summary = plan[w].summary
      BY <2>3, PostedReview
    <3>2. Accounts(o, p)
      BY <1>3, <3>1 DEF PlansAccount, Accounts, Excused
    <3>3. Accounts(o, p)'
      BY <3>2, AccountsStay
    <3>4. QED BY <1>3, <3>1, <3>3
  <2>4. o \notin Forget(w)
    BY <1>3 DEF Forget
  <2>5. Post(w) \/ PostFails(w) \/ Die(w) => posts' = Posted(w) \/ owed' = Forget(w)
    BY <1>3 DEF Post, PostFails, Die
  <2>6. QED BY <1>3, <2>1, <2>2, <2>3, <2>4, <2>5, PostingMoves
<1>4. QED BY <1>1, <1>2, <1>3 DEF NothingLost

\* A run posts once, and the caller keeps what it posted.
LEMMA ReviewedIsPostedStep ==
  ASSUME PlansInv, OwnRuns, ReviewedIsPosted, [Next]_vars
  PROVE  ReviewedIsPosted'
<1> Shapes /\ FixedIsOpen
  BY DEF PlansInv, SilenceInv
<1> DEFINE Shown(r) == \E p \in posts : p.run = r.thread /\ r.fp \in Fps(p.shown)
<1>1. \A r \in rows : Shown(r) => Shown(r)'
  BY PostsStay
<1>2. ASSUME NEW w \in Workers, Post(w) \/ PostFails(w)
      PROVE  \A p, q \in posts' : p.run = q.run => p = q
  <2>1. posts' \in {posts, Posted(w)} /\ \A p \in posts : p.run # run[w]
    BY <1>2 DEF Post, PostFails, OwnRuns, Unposted
  <2>2. PICK q : Posted(w) = posts \cup {q} /\ q.run = run[w]
    BY PostedReview
  <2>3. QED BY <2>1, <2>2 DEF ReviewedIsPosted
<1>3. ASSUME NEW w \in Workers, Post(w)
      PROVE  ReviewedIsPosted'
  <2>1. PICK q \in posts' : q.run = run[w] /\ q.head = target[w] /\ q.shown = plan[w].shown
    BY <1>3, PostedReview DEF Post
  <2>2. reviewed' = target[w] /\ rows' = Resolve(plan[w].fixed) \cup RowsOf(w)
    BY <1>3 DEF Post
  <2>3. ASSUME NEW r \in Resolve(plan[w].fixed)
        PROVE  \E p \in posts' : p.run = r.thread /\ r.fp \in Fps(p.shown)
    <3>1. PICK s \in rows : r = s \/ r = [s EXCEPT !.status = "resolved"]
      BY DEF Resolve
    <3>2. r.thread = s.thread /\ r.fp = s.fp
      BY <3>1 DEF Shapes, RowOf
    <3>3. Shown(s)'
      BY <1>1 DEF ReviewedIsPosted
    <3>4. QED BY <3>2, <3>3
  <2>4. ASSUME NEW r \in RowsOf(w)
        PROVE  \E p \in posts' : p.run = r.thread /\ r.fp \in Fps(p.shown)
    BY <2>1 DEF RowsOf, Fps
  <2>5. QED BY <1>2, <1>3, <2>1, <2>2, <2>3, <2>4 DEF ReviewedIsPosted
<1>4. ASSUME NEW w \in Workers, PostFails(w)
      PROVE  ReviewedIsPosted'
  <2>1. UNCHANGED <<rows, reviewed>>
    BY <1>4 DEF PostFails
  <2>2. QED BY <1>2, <1>4, <2>1, PostsStay DEF ReviewedIsPosted
<1>5. ASSUME NEW r \in rows, NEW permission, Command("ignore", permission, r)
      PROVE  ReviewedIsPosted'
  <2>1. [r EXCEPT !.status = "dismissed"].thread = r.thread /\ [r EXCEPT !.status = "dismissed"].fp = r.fp
    BY DEF Shapes, RowOf
  <2>2. UNCHANGED <<posts, reviewed>> /\ rows' = (rows \ {r}) \cup {[r EXCEPT !.status = "dismissed"]}
    BY <1>5 DEF Command, githubVars
  <2>3. QED BY <2>1, <2>2 DEF ReviewedIsPosted
<1>6. CASE UNCHANGED <<posts, rows, reviewed>>
  BY <1>6 DEF ReviewedIsPosted
<1>7. \/ UNCHANGED <<posts, rows, reviewed>>
      \/ \E w \in Workers : Post(w) \/ PostFails(w)
      \/ \E r \in rows, permission \in {"read", "write"} : Command("ignore", permission, r)
  <2>1. ASSUME NEW w \in Workers, Worker(w), ~Post(w), ~PostFails(w)
        PROVE  UNCHANGED <<posts, rows, reviewed>>
    BY <2>1 DEF Worker, githubVars, Begin, StartCheck, StartFails, AnalysisFails, Analyse,
                AlreadyReviewed, CompleteCheck, CompleteFails, Die
  <2>2. UNCHANGED vars \/ Push => UNCHANGED <<posts, rows, reviewed>>
    BY DEF vars, githubVars, Push
  <2>3. QED BY <2>1, <2>2 DEF Next
<1>8. QED BY <1>3, <1>4, <1>5, <1>6, <1>7

OwedInv == OwnRuns /\ PlansAccount /\ NothingLost /\ ReviewedIsPosted

\* Everything the pull request is owed, with what it rests on.
LEMMA OwedInvariant == Spec => [](Numbers /\ OwedInv)
<1>1. Init => Numbers /\ OwedInv
  BY RoundsAssumption DEF Init, Numbers, OwedInv, OwnRuns, PlansAccount, NothingLost, ReviewedIsPosted, Unposted
<1>2. PlansInv /\ Numbers /\ OwedInv /\ [Next]_vars => (Numbers /\ OwedInv)'
  <2>1. PlansInv => Shapes
    BY DEF PlansInv, SilenceInv
  <2>2. QED BY <2>1, NumbersStep, OwnRunsStep, PlansAccountStep, NothingLostStep, ReviewedIsPostedStep DEF OwedInv
<1>3. QED BY <1>1, <1>2, PlansInvariant, PTL DEF Spec

(* What the verifier supports in a run is in the review of that run on the  *)
(* pull request, inline or in the summary, or there is a reason: enough     *)
(* distinct complaints, a dismissal, an equal finding in the review that is *)
(* at least as severe, or fifteen of them there - unless GitHub refused the *)
(* review or the worker died before it was sent (learning/suppression.go,   *)
(* review/rank.go, review/line_map.go, githubapp/review.go).                *)
THEOREM RoundsNothingLost == Spec => []NothingLost
<1>1. Numbers /\ OwedInv => NothingLost
  BY DEF OwedInv
<1>2. QED BY <1>1, OwedInvariant, PTL

(* A head counts as reviewed only with a review of it on the pull request,  *)
(* every row is about a finding that the review of its run shows, and no    *)
(* run has two reviews (githubapp/review.go, review/rereview.go).           *)
THEOREM RoundsReviewedIsPosted == Spec => []ReviewedIsPosted
<1>1. Numbers /\ OwedInv => ReviewedIsPosted
  BY DEF OwedInv
<1>2. QED BY <1>1, OwedInvariant, PTL
=============================================================================
