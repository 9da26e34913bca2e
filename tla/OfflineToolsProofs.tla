------------------------- MODULE OfflineToolsProofs -------------------------
(***************************************************************************)
(* Proofs about the tools that need no server.  ReviewExport: what a       *)
(* report shows is about its head, and a bundle that was checked is one    *)
(* clean report, for every set of commits, files and processes.            *)
(* ReviewArtifact: a report shows what was computed from the diff it read, *)
(* for every comparison, rules and limits; it rests on a loop that kept    *)
(* fewer than it may having kept all (FirstIsFull) and on an invariant of  *)
(* the roots that group the files (Together).                              *)
(* ConfigCascade: a configuration further down only tightens, for every    *)
(* cascade; the fold over its files is taken apart first, into "the last   *)
(* file is applied to what the ones above it come to" (AfterSteps).        *)
(* CodeGraph: every answer is exact up to its limits, for every graph and  *)
(* question; what a walk has found is told level by level (LevelIsSound).  *)
(* Chunker: chunks, pieces and units are one chain over the file, and what *)
(* overlaps a symbol belongs to it, for every file, symbols and limits.    *)
(***************************************************************************)
EXTENDS ReviewExport, ReviewArtifact, ConfigCascade, CodeGraph, Chunker,
         FiniteSetTheorems, WellFoundedInduction, TLAPS

(* ---------------------- what several of them need ---------------------- *)

\* A set of finite sets has one with no smaller one in the set, and a set of
\* numbers a smallest one: induction is argued through a smallest
\* counterexample.
LEMMA SmallestSet ==
  ASSUME NEW U, NEW T, T \subseteq FiniteSubsetsOf(U), T # {}
  PROVE  \E s \in T : \A t \in T : t \subseteq s => t = s
<1>1. PICK s \in T : \A t \in T : <<t, s>> \notin StrictSubsetOrdering(U)
  <2>1. IsWellFoundedOn(StrictSubsetOrdering(U), FiniteSubsetsOf(U))
    BY FS_StrictSubsetOrderingWellFounded
  <2>2. QED BY <2>1, WFMin
<1>2. \A t \in T : t \in SUBSET U
  BY DEF FiniteSubsetsOf
<1>3. QED BY <1>1, <1>2 DEF StrictSubsetOrdering

\* See SmallestSet.
LEMMA SmallestNumber ==
  ASSUME NEW T, T \subseteq Nat, T # {}
  PROVE  \E n \in T : \A m \in T : n <= m
<1>1. PICK n \in T : \A m \in T : <<m, n>> \notin OpToRel(<, Nat)
  BY NatLessThanWellFounded, WFMin
<1>2. \A m \in T : ~(m < n)
  BY <1>1 DEF OpToRel
<1>3. QED BY <1>2

\* A finite set of numbers has a greatest one.
LEMMA MaxIsIn ==
  ASSUME NEW S, IsFiniteSet(S), S \subseteq Nat, S # {}
  PROVE  Max(S) \in S /\ \A y \in S : Max(S) >= y
<1> DEFINE Bounded(s) == \E x \in s : \A y \in s : x >= y
           Bad == {s \in FiniteSubsetsOf(S) : s # {} /\ ~Bounded(s)}
<1>1. SUFFICES ASSUME Bad # {} PROVE FALSE
  BY DEF FiniteSubsetsOf, Max
<1>2. PICK s \in Bad : \A q \in Bad : q \subseteq s => q = s
  <2>1. Bad \subseteq FiniteSubsetsOf(S) /\ Bad # {}
    BY <1>1
  <2> HIDE DEF Bad
  <2>2. QED BY <2>1, SmallestSet
<1>3. s \in SUBSET S /\ IsFiniteSet(s) /\ s # {} /\ ~Bounded(s)
  BY DEF FiniteSubsetsOf
<1>4. PICK x \in s : TRUE
  BY <1>3
<1>5. s \ {x} \in FiniteSubsetsOf(S)
  BY <1>3, FS_RemoveElement DEF FiniteSubsetsOf
<1>6. s \ {x} # {}
  BY <1>3, <1>4
<1>7. PICK m \in s \ {x} : \A y \in s \ {x} : m >= y
  <2>1. s \ {x} \notin Bad
    BY <1>2, <1>4
  <2>2. QED BY <1>5, <1>6, <2>1
<1>8. \A y \in s : y \in Nat
  BY <1>3
<1>9. QED BY <1>3, <1>4, <1>7, <1>8

\* See MaxIsIn.
LEMMA LastNumber ==
  ASSUME NEW S, S \subseteq Nat, S # {}, IsFiniteSet(S)
  PROVE  \E m \in S : \A k \in S : k <= m
<1>1. Max(S) \in S /\ \A y \in S : Max(S) >= y
  BY MaxIsIn
<1>2. Max(S) \in Nat /\ \A y \in S : y \in Nat
  BY <1>1
<1>3. \A y \in S : y <= Max(S)
  BY <1>1, <1>2
<1>4. QED BY <1>1, <1>3

\* What a function makes of a finite set is finite and not larger.
LEMMA ImageIsFinite ==
  ASSUME NEW S, IsFiniteSet(S), NEW f
  PROVE  /\ IsFiniteSet({f[x] : x \in S})
         /\ Cardinality({f[x] : x \in S}) \in Nat
         /\ Cardinality({f[x] : x \in S}) <= Cardinality(S)
<1> DEFINE T == {f[x] : x \in S}
           g == [x \in S |-> f[x]]
<1>1. g \in Surjection(S, T)
  BY DEF Surjection
<1> HIDE DEF g, T
<1>2. IsFiniteSet(T) /\ Cardinality(T) <= Cardinality(S)
  BY <1>1, FS_Surjection
<1>3. Cardinality(T) \in Nat
  BY <1>2, FS_CardinalityType
<1>4. QED BY <1>2, <1>3 DEF T

\* A recursive function over 0 .. n exists, and induction goes up to n.
LEMMA UpTo ==
  ASSUME NEW n \in Nat, NEW S, 0 \in S, \A k \in 1 .. n : k - 1 \in S => k \in S
  PROVE  \A k \in 0 .. n : k \in S
<1> DEFINE Bad == {k \in 0 .. n : k \notin S}
<1>1. SUFFICES ASSUME Bad # {} PROVE FALSE
  OBVIOUS
<1>2. PICK m \in Bad : \A k \in Bad : m <= k
  <2>1. Bad \subseteq Nat
    OBVIOUS
  <2> HIDE DEF Bad
  <2>2. QED BY <1>1, <2>1, SmallestNumber
<1>3. m \in 0 .. n /\ m \notin S /\ m # 0 /\ m \in 1 .. n
  OBVIOUS
<1>4. m - 1 \in 0 .. n /\ ~(m <= m - 1)
  BY <1>3
<1>5. m - 1 \in S
  BY <1>2, <1>4
<1>6. QED BY <1>3, <1>5

Recursive(f, n, D, z, step) ==
  f \in [0 .. n -> D] /\ f[0] = z /\ \A k \in 1 .. n : f[k] = step[k][f[k - 1]]

\* What a step makes of a value of D is in D: then the function is there.
LEMMA Recursion ==
  ASSUME NEW n \in Nat, NEW D, NEW z, z \in D, NEW step, step \in [1 .. n -> [D -> D]]
  PROVE  \E f : Recursive(f, n, D, z, step)
<1> DEFINE Is(f, m) == f[0] = z /\ \A k \in 1 .. m : f[k] = step[k][f[k - 1]]
           S == {m \in 0 .. n : \E f \in [0 .. n -> D] : Is(f, m)}
<1>1. 0 \in S
  <2>1. [k \in 0 .. n |-> z] \in [0 .. n -> D] /\ 0 \in 0 .. n
    OBVIOUS
  <2>2. Is([k \in 0 .. n |-> z], 0)
    BY <2>1
  <2>3. QED BY <2>1, <2>2
<1>2. ASSUME NEW m \in 1 .. n, m - 1 \in S PROVE m \in S
  <2>1. PICK f \in [0 .. n -> D] : Is(f, m - 1)
    BY <1>2
  <2> DEFINE g == [k \in 0 .. n |-> IF k = m THEN step[m][f[m - 1]] ELSE f[k]]
  <2>2. m - 1 \in 0 .. n /\ m \in 0 .. n /\ m # 0 /\ 0 \in 0 .. n
    OBVIOUS
  <2>3. f[m - 1] \in D /\ step[m] \in [D -> D]
    BY <2>2
  <2>4. g \in [0 .. n -> D]
    BY <2>3
  <2>5. g[0] = z
    BY <2>1, <2>2
  <2>6. \A k \in 1 .. m : k - 1 \in 0 .. n /\ k \in 0 .. n /\ k - 1 # m /\ (k = m \/ k \in 1 .. (m - 1))
    OBVIOUS
  <2>7. \A k \in 1 .. m : g[k] = step[k][g[k - 1]]
    BY <2>1, <2>6
  <2>8. Is(g, m)
    BY <2>5, <2>7
  <2> HIDE DEF Is, g
  <2>9. QED BY <2>2, <2>4, <2>8
<1> HIDE DEF S
<1>3. \A k \in 1 .. n : k - 1 \in S => k \in S
  BY <1>2
<1>4. \A k \in 0 .. n : k \in S
  BY <1>1, <1>3, UpTo
<1>5. n \in S
  BY <1>4
<1>6. QED BY <1>5 DEF S, Recursive

\* Of a finite set, what stands before an element in a relation.
Preceding(x, S, R) == {y \in S \ {x} : <<y, x>> \in R}
FirstBy(n, S, R) == {x \in S : Cardinality(Preceding(x, S, R)) < n}

\* A relation that orders a set: nothing stands before itself.
Orders(R, S) ==
  /\ \A x \in S : <<x, x>> \notin R
  /\ \A x, y, z \in S : <<x, y>> \in R /\ <<y, z>> \in R => <<x, z>> \in R

\* Less than the whole set stands before an element of it.
LEMMA PrecedingIsSmaller ==
  ASSUME NEW S, IsFiniteSet(S), NEW R
  PROVE  \A x \in S : /\ Preceding(x, S, R) \subseteq S /\ IsFiniteSet(Preceding(x, S, R))
                      /\ Cardinality(Preceding(x, S, R)) \in Nat
                      /\ Cardinality(Preceding(x, S, R)) < Cardinality(S)
<1> SUFFICES ASSUME NEW x \in S
             PROVE  /\ Preceding(x, S, R) \subseteq S /\ IsFiniteSet(Preceding(x, S, R))
                    /\ Cardinality(Preceding(x, S, R)) \in Nat
                    /\ Cardinality(Preceding(x, S, R)) < Cardinality(S)
  OBVIOUS
<1>1. Preceding(x, S, R) \in SUBSET (S \ {x})
  BY DEF Preceding
<1>2. IsFiniteSet(S \ {x}) /\ Cardinality(S \ {x}) = Cardinality(S) - 1
  BY FS_RemoveElement
<1>3. IsFiniteSet(Preceding(x, S, R)) /\ Cardinality(Preceding(x, S, R)) <= Cardinality(S \ {x})
  BY <1>1, <1>2, FS_Subset
<1>4. Cardinality(Preceding(x, S, R)) \in Nat /\ Cardinality(S) \in Nat
  BY <1>3, FS_CardinalityType
<1>5. Cardinality(Preceding(x, S, R)) < Cardinality(S)
  BY <1>2, <1>3, <1>4
<1>6. QED BY <1>1, <1>3, <1>4, <1>5

\* A loop that may keep as many as there are keeps them all.
LEMMA FirstIsAll ==
  ASSUME NEW S, IsFiniteSet(S), NEW R, NEW n \in Nat, Cardinality(S) <= n
  PROVE  FirstBy(n, S, R) = S
<1>1. Cardinality(S) \in Nat
  BY FS_CardinalityType
<1>2. \A x \in S : Cardinality(Preceding(x, S, R)) < n
  BY <1>1, PrecedingIsSmaller
<1>3. QED BY <1>2 DEF FirstBy

\* A loop that kept fewer than it may kept them all.
LEMMA FirstIsFull ==
  ASSUME NEW S, IsFiniteSet(S), NEW R, Orders(R, S), NEW n \in Nat,
         Cardinality(FirstBy(n, S, R)) < n
  PROVE  FirstBy(n, S, R) = S
<1> DEFINE Left == S \ FirstBy(n, S, R)
           Sizes == {c \in Nat : \E x \in Left : c = Cardinality(Preceding(x, S, R))}
<1>0. \A x \in S : Cardinality(Preceding(x, S, R)) \in Nat /\ IsFiniteSet(Preceding(x, S, R))
  BY PrecedingIsSmaller
<1>1. ASSUME Left # {} PROVE FALSE
  <2>1. Sizes # {} /\ Sizes \subseteq Nat
    BY <1>0, <1>1
  <2> HIDE DEF Sizes
  <2>2. PICK c \in Sizes : \A d \in Sizes : c <= d
    BY <2>1, SmallestNumber
  <2> USE DEF Sizes
  <2>3. PICK x \in Left : c = Cardinality(Preceding(x, S, R))
    BY <2>2
  <2>4. x \in S /\ c \in Nat /\ ~(c < n)
    BY <2>3, <1>0 DEF FirstBy
  <2>5. ASSUME NEW y \in Preceding(x, S, R) PROVE y \in FirstBy(n, S, R)
    <3>1. y \in S /\ <<y, x>> \in R
      BY <2>5 DEF Preceding
    <3>2. Preceding(y, S, R) \in SUBSET (Preceding(x, S, R) \ {y})
      <4>1. ASSUME NEW z \in Preceding(y, S, R) PROVE z \in Preceding(x, S, R) /\ z # y
        <5>1. z \in S /\ <<z, y>> \in R /\ z # y
          BY <4>1 DEF Preceding
        <5>2. <<z, x>> \in R /\ <<x, x>> \notin R
          BY <5>1, <3>1, <2>4 DEF Orders
        <5>3. QED BY <5>1, <5>2 DEF Preceding
      <4>2. QED BY <4>1
    <3>3. IsFiniteSet(Preceding(x, S, R) \ {y}) /\ Cardinality(Preceding(x, S, R) \ {y}) = c - 1
      BY <1>0, <2>3, <2>4, <2>5, FS_RemoveElement
    <3>4. Cardinality(Preceding(y, S, R)) <= c - 1
      BY <3>2, <3>3, FS_Subset
    <3>5. Cardinality(Preceding(y, S, R)) \in Nat
      BY <3>1, <1>0
    <3>6. CASE y \in Left
      <4>1. Cardinality(Preceding(y, S, R)) \in Sizes
        BY <3>5, <3>6
      <4>2. c <= Cardinality(Preceding(y, S, R))
        BY <4>1, <2>2
      <4>3. QED BY <4>2, <3>4, <3>5, <2>4
    <3>7. QED BY <3>1, <3>6
  <2>6. FirstBy(n, S, R) \subseteq S /\ IsFiniteSet(FirstBy(n, S, R))
    <3>1. FirstBy(n, S, R) \in SUBSET S
      BY DEF FirstBy
    <3>2. QED BY <3>1, FS_Subset
  <2>7. Preceding(x, S, R) \in SUBSET FirstBy(n, S, R)
    BY <2>5
  <2>8. Cardinality(Preceding(x, S, R)) <= Cardinality(FirstBy(n, S, R))
    BY <2>6, <2>7, FS_Subset
  <2>9. Cardinality(FirstBy(n, S, R)) \in Nat
    BY <2>6, FS_CardinalityType
  <2>10. QED BY <2>3, <2>4, <2>8, <2>9
<1>2. FirstBy(n, S, R) \subseteq S
  BY DEF FirstBy
<1>3. QED BY <1>1, <1>2

\* What a sequence holds is a finite set.
LEMMA RangeIsFinite == ASSUME NEW s, Len(s) \in Nat, DOMAIN s = 1 .. Len(s) PROVE IsFiniteSet(ToSet(s))
<1>1. IsFiniteSet(1 .. Len(s))
  BY FS_Interval
<1>2. IsFiniteSet({s[i] : i \in 1 .. Len(s)})
  BY <1>1, ImageIsFinite
<1>3. QED BY <1>2 DEF ToSet

(* ------------------------- ReviewExport ------------------------- *)

(* ---------------------------- the invariant ---------------------------- *)

\* The results a process has read are about the head it resolved.
OwnVerification(p) ==
  /\ p.verification.state = "available" => p.verification.revision = p.head
  /\ "verification" \in p.asked => p.verification.state # "not-attached"

Writing == {"html", "json", "sums", "snapshot"}
PastFindings == {"explanations"} \cup Writing
PastVerification == {"findings"} \cup PastFindings

Fields(to, head, asked, verification, findings, explanations) ==
  [pc |-> to, head |-> head, asked |-> asked, verification |-> verification,
   findings |-> findings, explanations |-> explanations]

Sound(p) ==
  /\ p = Fields(p.pc, p.head, p.asked, p.verification, p.findings, p.explanations)
  /\ IsMadeFor(p.findings, p.head) /\ IsMadeFor(p.explanations, p.head)
  /\ p.pc \in PastVerification => OwnVerification(p)
  /\ p.pc \in PastFindings /\ "findings" \in p.asked => p.findings # Nothing
  /\ p.pc \in Writing /\ "explanations" \in p.asked => p.explanations # Nothing

ProcessesAreSound ==
  /\ proc = [e \in Process |-> proc[e]]
  /\ \A e \in Process : Sound(proc[e])

\* A manifest is about one report, whatever the files are by now.
ManifestIsOfOneReport ==
  /\ out = [html |-> out.html, json |-> out.json, sums |-> out.sums]
  /\ Readable(out.sums) => out.sums.html = out.sums.json /\ Readable(out.sums.html)

\* Between the privacy check and the publication only somebody else writes.
CheckedIsWhatIsThere ==
  At(Workflow, "verify") /\ ~disturbed => PrivacyRisks(out.json) = {}

ExportInv ==
  /\ ProcessesAreSound
  /\ ManifestIsOfOneReport
  /\ CheckedIsWhatIsThere
  /\ EvidenceIsOfTheHead
  /\ CheckedBundleIsClean

(* -------------------------------- lemmas ------------------------------- *)

\* What a process writes is about its head.
LEMMA ReportIsOfItsHead ==
  ASSUME NEW p, Sound(p), p.pc \in Writing
  PROVE  IsOfItsHead(Report(p)) /\ Readable(Report(p))
<1> DEFINE r == Report(p)
<1>1. /\ r.head = p.head /\ r.asked = p.asked /\ r.verification = p.verification
      /\ r.findings = p.findings /\ r.explanations = p.explanations /\ r.kind = "report"
  BY DEF Report
<1>2. \A s \in StaticEvidence(r) : s.state = "available" => s.revision = r.head
  BY <1>1 DEF StaticEvidence, Source, Sound, OwnVerification, PastVerification, PastFindings
<1>3. /\ IsMadeFor(r.findings, r.head) /\ IsMadeFor(r.explanations, r.head)
      /\ "findings" \in r.asked => r.findings # Nothing
      /\ "explanations" \in r.asked => r.explanations # Nothing
  BY <1>1 DEF Sound, PastFindings
<1>4. "verification" \in r.asked => r.verification.state # "not-attached"
  BY <1>1 DEF Sound, OwnVerification, PastVerification, PastFindings
<1> QED BY <1>1, <1>2, <1>3, <1>4 DEF IsOfItsHead, Readable

\* A process after another step, field by field.
LEMMA Updates ==
  ASSUME NEW p, NEW to,
         p = Fields(p.pc, p.head, p.asked, p.verification, p.findings, p.explanations)
  PROVE  [p EXCEPT !.pc = to] = Fields(to, p.head, p.asked, p.verification, p.findings, p.explanations)
BY DEF Fields

\* A process that only goes on, with sound evidence, disturbs nothing.
LEMMA ProcessMoves ==
  ASSUME ExportInv, NEW e \in Process, NEW q, Sound(q),
         proc' = [proc EXCEPT ![e] = q],
         UNCHANGED <<out, snapshot, comment, checked, disturbed>>,
         q.pc = "verify" => PrivacyRisks(out.json) = {}
  PROVE  ExportInv'
<1>1. ProcessesAreSound'
  BY DEF ExportInv, ProcessesAreSound, Sound, OwnVerification
<1>2. ManifestIsOfOneReport'
  BY DEF ExportInv, ManifestIsOfOneReport, Readable
<1>3. CheckedIsWhatIsThere'
  BY ExportAssumption DEF ExportInv, ProcessesAreSound, CheckedIsWhatIsThere, At, PrivacyRisks
<1>4. EvidenceIsOfTheHead' /\ CheckedBundleIsClean'
  BY DEF ExportInv, EvidenceIsOfTheHead, CheckedBundleIsClean, Reports, Readable, IsOfItsHead, IsMadeFor, PrivacyRisks, StaticEvidence
<1> QED BY <1>1, <1>2, <1>3, <1>4 DEF ExportInv

\* A process that leaves has nothing.
LEMMA IdleIsSound == Sound(Idle) /\ Idle.pc = "idle"
BY DEF Sound, Idle, Fields, IsMadeFor, PastVerification, PastFindings, Writing

\* A process that goes on keeps what it has read.
LEMMA GoingOnIsSound ==
  ASSUME NEW p, Sound(p), NEW to,
         to \in PastVerification => p.pc \in PastVerification,
         to \in PastFindings => p.pc \in PastFindings \/ "findings" \notin p.asked,
         to \in Writing => p.pc \in Writing \/ "explanations" \notin p.asked
  PROVE  Sound([p EXCEPT !.pc = to]) /\ [p EXCEPT !.pc = to].pc = to
<1>1. [p EXCEPT !.pc = to] = Fields(to, p.head, p.asked, p.verification, p.findings, p.explanations)
  BY Updates DEF Sound
<1> QED BY <1>1 DEF Sound, Fields, OwnVerification

\* A process that starts has read nothing.
LEMMA StartingIsSound ==
  ASSUME NEW head, NEW asked, NEW to, to \notin PastVerification,
         NEW explanations, IsMadeFor(explanations, head)
  PROVE  Sound(Fields(to, head, asked, Nothing, Nothing, explanations))
BY DEF Sound, Fields, IsMadeFor, PastVerification, PastFindings

(* ------------------------------ the steps ------------------------------ *)

\* The commands that read, one lemma for each that decides what is evidence.
LEMMA GenerateStep ==
  ASSUME ExportInv, NEW e \in Process,
         GenerateExplanations(e) \/ ModelAnswers(e) \/ ModelFails(e) \/ PublishExplanations(e)
  PROVE  ExportInv'
<1>0. Sound(proc[e]) BY DEF ExportInv, ProcessesAreSound
<1>1. CASE GenerateExplanations(e)
  <2> DEFINE to == IF Changed[ref] \subseteq Excluded THEN "publish" ELSE "ask"
             x == Explaining(ref, {})
             q == [Idle EXCEPT !.head = ref, !.explanations = x, !.pc = to]
  <2>a. [Idle EXCEPT !.head = ref] = Fields("idle", ref, {}, Nothing, Nothing, Nothing) BY DEF Fields, Idle
  <2>b. [Fields("idle", ref, {}, Nothing, Nothing, Nothing) EXCEPT !.explanations = x]
          = Fields("idle", ref, {}, Nothing, Nothing, x)
    BY DEF Fields
  <2>c. [Fields("idle", ref, {}, Nothing, Nothing, x) EXCEPT !.pc = to] = Fields(to, ref, {}, Nothing, Nothing, x)
    BY DEF Fields
  <2>1. q = Fields(to, ref, {}, Nothing, Nothing, x) BY <2>a, <2>b, <2>c
  <2>d. IsMadeFor(x, ref) BY DEF IsMadeFor, Explaining
  <2>2. Sound(q) /\ q.pc # "verify"
    BY <2>1, <2>d, StartingIsSound DEF Fields, PastVerification, PastFindings, Writing
  <2>3. proc' = [proc EXCEPT ![e] = q] BY <1>1, Zenon DEF GenerateExplanations
  <2>4. UNCHANGED <<out, snapshot, comment, checked, disturbed>> BY <1>1, Zenon DEF GenerateExplanations
  <2> HIDE DEF q
  <2> QED BY <2>2, <2>3, <2>4, ProcessMoves
<1>2. CASE ModelAnswers(e)
  <2>1. PICK reply \in ExplanationSets :
          IF ValidItems(reply.items, Changed[proc[e].head] \ Excluded)
          THEN proc' = [proc EXCEPT ![e].pc = "publish", ![e].explanations = Explaining(proc[e].head, reply.items)]
          ELSE Exit(e)
    BY <1>2 DEF ModelAnswers
  <2>2. UNCHANGED <<out, snapshot, comment, checked, disturbed>> BY <1>2 DEF ModelAnswers
  <2>3. CASE ValidItems(reply.items, Changed[proc[e].head] \ Excluded)
    <3> DEFINE p == proc[e]
               x == Explaining(p.head, reply.items)
               q == [p EXCEPT !.pc = "publish", !.explanations = x]
               r == Fields("publish", p.head, p.asked, p.verification, p.findings, p.explanations)
    <3>a. [p EXCEPT !.pc = "publish"] = r BY <1>0, Updates DEF Sound
    <3>b. [r EXCEPT !.explanations = x] = Fields("publish", p.head, p.asked, p.verification, p.findings, x)
      BY DEF Fields
    <3>0. q = Fields("publish", p.head, p.asked, p.verification, p.findings, x)
      BY <3>a, <3>b
    <3>c. IsMadeFor(x, p.head) BY <2>3 DEF IsMadeFor, Explaining, ValidItems
    <3>1. Sound(q) /\ q.pc # "verify"
      BY <1>0, <3>0, <3>c DEF Sound, Fields, PastVerification, PastFindings, Writing
    <3>2. proc' = [proc EXCEPT ![e] = q] BY <2>1, <2>3
    <3> QED BY <2>2, <3>1, <3>2, ProcessMoves
  <2>4. CASE ~ValidItems(reply.items, Changed[proc[e].head] \ Excluded)
    BY <2>1, <2>2, <2>4, IdleIsSound, ProcessMoves DEF Exit
  <2> QED BY <2>3, <2>4
<1>3. CASE ModelFails(e) \/ PublishExplanations(e)
  BY <1>3, IdleIsSound, ProcessMoves DEF ModelFails, PublishExplanations, Exit
<1> QED BY <1>1, <1>2, <1>3

\* An export starts without evidence.
LEMMA StartStep ==
  ASSUME ExportInv, NEW e \in Process, NEW asked, StartExport(e, asked)
  PROVE  ExportInv'
<1> DEFINE q == [Idle EXCEPT !.head = ref, !.asked = asked, !.pc = "verification"]
<1>a. [Idle EXCEPT !.head = ref] = Fields("idle", ref, {}, Nothing, Nothing, Nothing) BY DEF Fields, Idle
<1>b. [Fields("idle", ref, {}, Nothing, Nothing, Nothing) EXCEPT !.asked = asked] = Fields("idle", ref, asked, Nothing, Nothing, Nothing)
  BY DEF Fields
<1>c. [Fields("idle", ref, asked, Nothing, Nothing, Nothing) EXCEPT !.pc = "verification"]
        = Fields("verification", ref, asked, Nothing, Nothing, Nothing)
  BY DEF Fields
<1>0. q = Fields("verification", ref, asked, Nothing, Nothing, Nothing) BY <1>a, <1>b, <1>c
<1>1. Sound(q) /\ q.pc # "verify"
  BY <1>0, StartingIsSound DEF Fields, IsMadeFor, PastVerification, PastFindings, Writing
<1> QED BY <1>1, IdleIsSound, ProcessMoves DEF StartExport, Exit

\* Another revision's results are there as unavailable, and results that were
\* asked for are there.
LEMMA VerificationStep ==
  ASSUME ExportInv, NEW e \in Process, ReadVerification(e)
  PROVE  ExportInv'
<1> DEFINE p == proc[e]
           v == IF "verification" \in p.asked THEN disk.verification ELSE Committed[p.head]
           q == [p EXCEPT !.pc = "findings", !.verification = VerificationFrom(v, p.head)]
<1>1. Sound(p) BY DEF ExportInv, ProcessesAreSound
<1>2. UNCHANGED <<out, snapshot, comment, checked, disturbed>> BY DEF ReadVerification
<1>3. CASE "verification" \in p.asked /\ v = Nothing
  BY <1>2, <1>3, IdleIsSound, ProcessMoves DEF ReadVerification, Exit
<1>4. CASE ~("verification" \in p.asked /\ v = Nothing)
  <2> DEFINE r == Fields("findings", p.head, p.asked, p.verification, p.findings, p.explanations)
             x == VerificationFrom(v, p.head)
  <2>a. [p EXCEPT !.pc = "findings"] = r BY <1>1, Updates DEF Sound
  <2>b. [r EXCEPT !.verification = x] = Fields("findings", p.head, p.asked, x, p.findings, p.explanations)
    BY DEF Fields
  <2>0. q = Fields("findings", p.head, p.asked, x, p.findings, p.explanations)
    BY <2>a, <2>b
  <2>1. OwnVerification(q)
    BY <1>1, <1>4, <2>0 DEF OwnVerification, VerificationFrom, ValidVerification, Fields
  <2>2. Sound(q) /\ q.pc # "verify"
    BY <1>1, <2>0, <2>1 DEF Sound, Fields, PastFindings, Writing
  <2>3. proc' = [proc EXCEPT ![e] = q] BY <1>4 DEF ReadVerification
  <2> QED BY <1>2, <2>2, <2>3, ProcessMoves
<1> QED BY <1>3, <1>4

\* Findings and explanations of another revision, or of other files, end the export.
LEMMA EvidenceStep ==
  ASSUME ExportInv, NEW e \in Process, ReadFindings(e) \/ ReadExplanations(e)
  PROVE  ExportInv'
<1>1. Sound(proc[e]) BY DEF ExportInv, ProcessesAreSound
<1>2. UNCHANGED <<out, snapshot, comment, checked, disturbed>> BY DEF ReadFindings, ReadExplanations
<1>3. ASSUME NEW to, Goto(e, to),
             \/ proc[e].pc = "findings" /\ to = "explanations" /\ "findings" \notin proc[e].asked
             \/ proc[e].pc = "explanations" /\ to = "html" /\ "explanations" \notin proc[e].asked
      PROVE  ExportInv'
  <2>1. proc' = [proc EXCEPT ![e] = [proc[e] EXCEPT !.pc = to]] BY <1>3 DEF Goto
  <2>2. Sound([proc[e] EXCEPT !.pc = to]) /\ [proc[e] EXCEPT !.pc = to].pc = to
    BY <1>1, <1>3, GoingOnIsSound DEF PastVerification, PastFindings, Writing
  <2> QED BY <1>2, <1>3, <2>1, <2>2, ProcessMoves
<1>4. ASSUME Exit(e) PROVE ExportInv'
  BY <1>2, <1>4, IdleIsSound, ProcessMoves DEF Exit
<1>5. ASSUME ReadFindings(e), "findings" \in proc[e].asked, ValidFindings(disk.findings, proc[e].head)
      PROVE  ExportInv'
  <2> DEFINE q == [proc[e] EXCEPT !.pc = "explanations", !.findings = disk.findings]
  <2>1. proc[e].pc = "findings" /\ proc' = [proc EXCEPT ![e] = q] BY <1>5 DEF ReadFindings, At
  <2> DEFINE p == proc[e]
             r == Fields("explanations", p.head, p.asked, p.verification, p.findings, p.explanations)
  <2>a. [p EXCEPT !.pc = "explanations"] = r BY <1>1, Updates DEF Sound
  <2>b. [r EXCEPT !.findings = disk.findings]
          = Fields("explanations", p.head, p.asked, p.verification, disk.findings, p.explanations)
    BY DEF Fields
  <2>2. q = Fields("explanations", p.head, p.asked, p.verification, disk.findings, p.explanations)
    BY <2>a, <2>b
  <2>3. Sound(q) /\ q.pc # "verify"
    BY <1>1, <1>5, <2>1, <2>2 DEF Sound, Fields, ValidFindings, IsMadeFor, OwnVerification, PastVerification,
                                  PastFindings, Writing
  <2> QED BY <1>2, <2>1, <2>3, ProcessMoves
<1>6. ASSUME ReadExplanations(e), "explanations" \in proc[e].asked, ValidExplanations(disk.explanations, proc[e].head)
      PROVE  ExportInv'
  <2> DEFINE q == [proc[e] EXCEPT !.pc = "html", !.explanations = disk.explanations]
  <2>1. proc[e].pc = "explanations" /\ proc' = [proc EXCEPT ![e] = q] BY <1>6 DEF ReadExplanations, At
  <2> DEFINE p == proc[e]
             r == Fields("html", p.head, p.asked, p.verification, p.findings, p.explanations)
  <2>a. [p EXCEPT !.pc = "html"] = r BY <1>1, Updates DEF Sound
  <2>b. [r EXCEPT !.explanations = disk.explanations]
          = Fields("html", p.head, p.asked, p.verification, p.findings, disk.explanations)
    BY DEF Fields
  <2>2. q = Fields("html", p.head, p.asked, p.verification, p.findings, disk.explanations)
    BY <2>a, <2>b
  <2>3. Sound(q) /\ q.pc # "verify"
    BY <1>1, <1>6, <2>1, <2>2 DEF Sound, Fields, ValidExplanations, ValidItems, IsMadeFor, OwnVerification,
                                  PastVerification, PastFindings, Writing
  <2> QED BY <1>2, <2>1, <2>3, ProcessMoves
<1> QED BY <1>3, <1>4, <1>5, <1>6 DEF ReadFindings, ReadExplanations, At, PastVerification

\* The commands that write.  Each file is about the head of who writes it.
LEMMA WriteStep ==
  ASSUME ExportInv, NEW e \in Process,
         WriteHTML(e) \/ WriteJSON(e) \/ WriteSums(e) \/ WriteSnapshot(e)
  PROVE  ExportInv'
<1> DEFINE p == proc[e]
<1>1. Sound(p) /\ p.pc \in Writing
  BY DEF ExportInv, ProcessesAreSound, WriteHTML, WriteJSON, WriteSums, WriteSnapshot, At, Writing
<1>2. IsOfItsHead(Report(p)) /\ Readable(Report(p)) BY <1>1, ReportIsOfItsHead
<1>3. ASSUME NEW to, Goto(e, to), to \in Writing \cup {"privacy"} PROVE ProcessesAreSound'
  <2>1. Sound([p EXCEPT !.pc = to]) BY <1>1, <1>3, GoingOnIsSound DEF PastVerification, PastFindings, Writing
  <2> QED BY <1>3, <2>1 DEF ExportInv, ProcessesAreSound, Goto, Sound, OwnVerification
<1>4. ProcessesAreSound'
  <2>1. WriteHTML(e) => ProcessesAreSound' BY <1>3 DEF WriteHTML, Writing
  <2>2. WriteJSON(e) => ProcessesAreSound' BY <1>3 DEF WriteJSON, Writing
  <2>3. WriteSums(e) => ProcessesAreSound'
    <3>1. ASSUME WriteSums(e), e = Workflow PROVE ProcessesAreSound' BY <1>3, <3>1 DEF WriteSums
    <3>2. ASSUME WriteSums(e), e # Workflow PROVE ProcessesAreSound' BY <1>3, <3>2 DEF WriteSums, Writing
    <3> QED BY <3>1, <3>2
  <2>4. WriteSnapshot(e) => ProcessesAreSound'
    BY IdleIsSound DEF WriteSnapshot, Exit, ExportInv, ProcessesAreSound, Sound, OwnVerification
  <2> QED BY <2>1, <2>2, <2>3, <2>4
<1>5. ManifestIsOfOneReport'
  <2>1. out = [html |-> out.html, json |-> out.json, sums |-> out.sums]
    BY DEF ExportInv, ManifestIsOfOneReport
  <2>2. CASE WriteHTML(e)
    BY <2>1, <2>2 DEF ExportInv, ManifestIsOfOneReport, WriteHTML, Readable
  <2>3. CASE WriteJSON(e)
    BY <2>1, <2>3 DEF ExportInv, ManifestIsOfOneReport, WriteJSON, Readable
  <2>4. CASE WriteSums(e)
    <3>1. out'.sums = [kind |-> "sums", html |-> Report(p), json |-> Report(p)] BY <2>1, <2>4 DEF WriteSums
    <3>2. out' = [html |-> out'.html, json |-> out'.json, sums |-> out'.sums] BY <2>1, <2>4 DEF WriteSums
    <3> QED BY <1>2, <3>1, <3>2 DEF ManifestIsOfOneReport
  <2>5. CASE WriteSnapshot(e)
    BY <2>1, <2>5 DEF ExportInv, ManifestIsOfOneReport, WriteSnapshot, Readable
  <2> QED BY <2>2, <2>3, <2>4, <2>5
<1>6. CheckedIsWhatIsThere'
  <2>1. CASE e = Workflow
    <3>1. PICK to \in {"json", "sums", "privacy", "idle"} : Goto(e, to) \/ (to = "idle" /\ Exit(e))
      BY <2>1 DEF WriteHTML, WriteJSON, WriteSums, WriteSnapshot
    <3>2. proc'[Workflow].pc = to
      BY <1>1, <2>1, <3>1, IdleIsSound, GoingOnIsSound, Updates
      DEF ExportInv, ProcessesAreSound, Goto, Exit, Sound, Fields
    <3> QED BY <3>1, <3>2 DEF CheckedIsWhatIsThere, At
  <2>2. CASE e # Workflow /\ ~WriteSnapshot(e)
    BY <2>2 DEF CheckedIsWhatIsThere, Touch, WriteHTML, WriteJSON, WriteSums
  <2>3. CASE e # Workflow /\ WriteSnapshot(e)
    BY <2>3, ExportAssumption DEF CheckedIsWhatIsThere, ExportInv, ProcessesAreSound, At, Exit, WriteSnapshot, PrivacyRisks
  <2> QED BY <2>1, <2>2, <2>3
<1>7. EvidenceIsOfTheHead'
  <2>1. Reports' \subseteq Reports \cup {Report(p)}
    BY DEF Reports, ExportInv, ManifestIsOfOneReport, Readable, WriteHTML, WriteJSON, WriteSums, WriteSnapshot
  <2>2. UNCHANGED comment BY DEF WriteHTML, WriteJSON, WriteSums, WriteSnapshot
  <2> QED BY <1>2, <2>1, <2>2 DEF ExportInv, EvidenceIsOfTheHead, IsOfItsHead, IsMadeFor, StaticEvidence, Readable
<1>8. CheckedBundleIsClean'
  <2>1. UNCHANGED checked BY DEF WriteHTML, WriteJSON, WriteSums, WriteSnapshot
  <2> QED BY <2>1 DEF ExportInv, CheckedBundleIsClean, Readable, PrivacyRisks
<1> QED BY <1>4, <1>5, <1>6, <1>7, <1>8 DEF ExportInv

\* A process that dies leaves at most a file that nobody can read.
LEMMA CrashStep ==
  ASSUME ExportInv, NEW e \in Process, Crash(e)
  PROVE  ExportInv'
<1>1. ProcessesAreSound'
  BY IdleIsSound DEF Crash, Exit, ExportInv, ProcessesAreSound, Sound, OwnVerification
<1>2. CASE UNCHANGED <<out, disturbed>>
  BY <1>2, IdleIsSound, ProcessMoves DEF Crash, Exit
<1>3. ASSUME NEW f \in {"html", "json", "sums"}, proc[e].pc = f, out' = [out EXCEPT ![f] = Partial], Touch(e)
      PROVE  ExportInv'
  <2>1. out = [html |-> out.html, json |-> out.json, sums |-> out.sums]
    BY DEF ExportInv, ManifestIsOfOneReport
  <2>2. /\ out' = [html |-> out'.html, json |-> out'.json, sums |-> out'.sums]
        /\ out'.html \in {out.html, Partial} /\ out'.json \in {out.json, Partial}
        /\ out'.sums \in {out.sums, Partial}
    BY <1>3, <2>1
  <2>3. ~Readable(Partial) BY DEF Readable, Partial
  <2>4. ManifestIsOfOneReport' BY <2>2, <2>3 DEF ExportInv, ManifestIsOfOneReport, Readable
  <2>5. Reports' \subseteq Reports BY <2>2, <2>3 DEF Crash, Reports, Readable
  <2>6. EvidenceIsOfTheHead'
    BY <2>5 DEF Crash, ExportInv, EvidenceIsOfTheHead, IsOfItsHead, IsMadeFor, StaticEvidence, Readable
  <2>7. CheckedBundleIsClean' BY DEF Crash, ExportInv, CheckedBundleIsClean, Readable, PrivacyRisks
  <2>8. CheckedIsWhatIsThere'
    BY <1>3, ExportAssumption, IdleIsSound DEF Crash, Exit, Touch, At, ExportInv, ProcessesAreSound, CheckedIsWhatIsThere
  <2> QED BY <1>1, <2>4, <2>6, <2>7, <2>8 DEF ExportInv
<1> QED BY <1>2, <1>3 DEF Crash

\* The workflow after its export.
LEMMA PrivacyStep == ASSUME ExportInv, PrivacyCheck PROVE ExportInv'
<1>1. Sound(proc[Workflow]) BY ExportAssumption DEF ExportInv, ProcessesAreSound
<1>2. UNCHANGED <<out, snapshot, comment, checked, disturbed>> BY DEF PrivacyCheck
<1>3. CASE Readable(out.json) /\ PrivacyRisks(out.json) = {}
  <2> DEFINE q == [proc[Workflow] EXCEPT !.pc = "verify"]
  <2>1. Sound(q) BY <1>1, GoingOnIsSound DEF PastVerification, PastFindings, Writing
  <2>2. proc' = [proc EXCEPT ![Workflow] = q] BY <1>3 DEF PrivacyCheck, Goto
  <2> QED BY <1>2, <1>3, <2>1, <2>2, ExportAssumption, ProcessMoves
<1>4. CASE ~(Readable(out.json) /\ PrivacyRisks(out.json) = {})
  BY <1>2, <1>4, ExportAssumption, IdleIsSound, ProcessMoves DEF PrivacyCheck, Exit
<1> QED BY <1>3, <1>4

\* A bundle that passes is the one report of its manifest.
LEMMA VerifyStep == ASSUME ExportInv, VerifyBundle PROVE ExportInv'
<1> DEFINE pass == Readable(out.sums) /\ out.sums.html = out.html /\ out.sums.json = out.json
<1>1. CASE ~pass
  BY <1>1, ExportAssumption, IdleIsSound, ProcessMoves DEF VerifyBundle, Exit
<1>2. CASE pass
  <2>1. Sound([proc[Workflow] EXCEPT !.pc = "comment"]) /\ [proc[Workflow] EXCEPT !.pc = "comment"].pc = "comment"
    BY ExportAssumption, GoingOnIsSound DEF ExportInv, ProcessesAreSound, PastVerification, PastFindings, Writing
  <2>2. proc' = [proc EXCEPT ![Workflow].pc = "comment"] BY <1>2 DEF VerifyBundle, Goto
  <2>3. ProcessesAreSound' /\ CheckedIsWhatIsThere'
    BY <2>1, <2>2, ExportAssumption DEF ExportInv, ProcessesAreSound, CheckedIsWhatIsThere, At, Sound, OwnVerification
  <2>4. UNCHANGED <<out, snapshot, comment, disturbed>> BY DEF VerifyBundle
  <2>5. ManifestIsOfOneReport' /\ EvidenceIsOfTheHead'
    BY <2>4 DEF ExportInv, ManifestIsOfOneReport, EvidenceIsOfTheHead, Reports, IsOfItsHead, IsMadeFor, StaticEvidence, Readable
  <2>6. checked' = [kind |-> "bundle", html |-> out.html, json |-> out.json, alone |-> ~disturbed]
    BY <1>2 DEF VerifyBundle
  <2>7. Readable(out.html) /\ out.html = out.json BY <1>2 DEF ExportInv, ManifestIsOfOneReport
  <2>8. ~disturbed => PrivacyRisks(out.json) = {} BY DEF VerifyBundle, ExportInv, CheckedIsWhatIsThere
  <2>9. CheckedBundleIsClean' BY <2>6, <2>7, <2>8 DEF CheckedBundleIsClean, Readable, PrivacyRisks
  <2> QED BY <2>3, <2>5, <2>9 DEF ExportInv
<1> QED BY <1>1, <1>2

\* The comment says what the report it read says.
LEMMA CommentStep == ASSUME ExportInv, SummaryComment PROVE ExportInv'
<1>1. UNCHANGED <<out, snapshot, checked, disturbed>> /\ proc' = [proc EXCEPT ![Workflow] = Idle]
  BY DEF SummaryComment, Exit
<1>2. ProcessesAreSound' /\ CheckedIsWhatIsThere'
  BY <1>1, IdleIsSound, ExportAssumption DEF ExportInv, ProcessesAreSound, CheckedIsWhatIsThere, At, Sound, OwnVerification
<1>3. ManifestIsOfOneReport' /\ CheckedBundleIsClean'
  BY <1>1 DEF ExportInv, ManifestIsOfOneReport, CheckedBundleIsClean, Readable, PrivacyRisks
<1>4. Reports' = Reports BY <1>1 DEF Reports, Readable
<1>5. ASSUME ~Readable(out.json) PROVE EvidenceIsOfTheHead'
  BY <1>4, <1>5 DEF SummaryComment, ExportInv, EvidenceIsOfTheHead, Readable
<1>6. ASSUME Readable(out.json) PROVE EvidenceIsOfTheHead'
  <2>1. IsOfItsHead(out.json) BY <1>6 DEF ExportInv, EvidenceIsOfTheHead, Reports
  <2>2. Source("ci", out.json.verification.state, out.json.verification.revision) \in StaticEvidence(out.json)
    BY DEF StaticEvidence
  <2>3. out.json.verification.state = "available" => out.json.verification.revision = out.json.head
    BY <2>1, <2>2 DEF IsOfItsHead, Source
  <2>4. comment' = [kind |-> "comment", head |-> out.json.head, verification |-> out.json.verification]
    BY <1>6 DEF SummaryComment
  <2> QED BY <1>4, <2>3, <2>4 DEF ExportInv, EvidenceIsOfTheHead
<1>7. EvidenceIsOfTheHead' BY <1>5, <1>6
<1> QED BY <1>2, <1>3, <1>7 DEF ExportInv

(* ------------------------------ theorems ------------------------------- *)

\* The invariant holds before the first command.
LEMMA InitInv == ASSUME ExportInit PROVE ExportInv
<1>1. ProcessesAreSound BY IdleIsSound DEF ExportInit, ProcessesAreSound
<1>2. out = [html |-> NoFile, json |-> NoFile, sums |-> NoFile] /\ ~Readable(NoFile)
  BY DEF ExportInit, Readable, NoFile
<1>3. ManifestIsOfOneReport BY <1>2 DEF ManifestIsOfOneReport
<1>4. CheckedIsWhatIsThere
  BY ExportAssumption, IdleIsSound DEF ExportInit, CheckedIsWhatIsThere, At
<1>5. EvidenceIsOfTheHead /\ CheckedBundleIsClean
  BY <1>2 DEF ExportInit, EvidenceIsOfTheHead, CheckedBundleIsClean, Reports
<1> QED BY <1>1, <1>3, <1>4, <1>5 DEF ExportInv

\* What happens around the processes changes no report.
LEMMA OthersStep ==
  ASSUME ExportInv, UNCHANGED <<proc, out, snapshot, comment, checked, disturbed>>
  PROVE  ExportInv'
BY DEF ExportInv, ProcessesAreSound, Sound, Fields, OwnVerification, ManifestIsOfOneReport, CheckedIsWhatIsThere,
  At, PrivacyRisks, EvidenceIsOfTheHead, Reports, Readable, CheckedBundleIsClean

\* Every step keeps the invariant.
LEMMA StepInv == ASSUME ExportInv, [ExportNext]_exportVars PROVE ExportInv'
<1>1. ASSUME NEW e \in Process, Command(e) PROVE ExportInv'
  BY <1>1, GenerateStep, StartStep, VerificationStep, EvidenceStep, WriteStep, CrashStep DEF Command
<1>2. CASE PrivacyCheck \/ VerifyBundle \/ SummaryComment
  BY <1>2, PrivacyStep, VerifyStep, CommentStep
<1>3. CASE Push \/ Supply BY <1>3, OthersStep DEF Push, Supply
<1>4. CASE UNCHANGED exportVars BY <1>4, OthersStep DEF exportVars
<1> QED BY <1>1, <1>2, <1>3, <1>4 DEF ExportNext

\* The invariant holds in every behaviour of the commands and the workflow.
THEOREM ExportInvariance == ExportSpec => []ExportInv
<1>1. ExportInit => ExportInv BY InitInv
<1>2. ExportInv /\ [ExportNext]_exportVars => ExportInv' BY StepInv
<1> QED BY <1>1, <1>2, PTL DEF ExportSpec

\* Evidence that a report, or the comment, shows as available is about the head
\* it names, however many commits, files and processes there are
\* (generateStaticReviewWithOptions, staticEvidence, runSummaryComment).
THEOREM EvidenceOfEveryHead == ExportSpec => []EvidenceIsOfTheHead
<1>1. ExportInv => EvidenceIsOfTheHead BY DEF ExportInv
<1> QED BY <1>1, ExportInvariance, PTL

\* A bundle that passed sha256sum is one report, and one without a sensitive
\* path if nobody else wrote there, whoever dies when (writeStaticReviewReport,
\* runPrivacyCheck, action.yml).
THEOREM EveryCheckedBundleIsClean == ExportSpec => []CheckedBundleIsClean
<1>1. ExportInv => CheckedBundleIsClean BY DEF ExportInv
<1> QED BY <1>1, ExportInvariance, PTL

(* --------------------------- ReviewArtifact ---------------------------- *)

\* The flags, the questions and the companions that fit are all kept.
LEMMA AllAreKept ==
  ASSUME NEW S, IsFiniteSet(S), NEW n \in Nat, Cardinality(S) <= n
  PROVE  First(n, S, RaisedBefore) = S /\ First(n, S, QuestionBefore) = S /\ First(n, S, PathBefore) = S
<1>1. First(n, S, RaisedBefore) = S
  <2> DEFINE R == {p \in S \X S : RaisedBefore(p[1], p[2])}
  <2>1. \A x \in S : {y \in S \ {x} : RaisedBefore(y, x)} = Preceding(x, S, R)
    BY DEF Preceding
  <2>2. First(n, S, RaisedBefore) = FirstBy(n, S, R)
    BY <2>1 DEF First, FirstBy
  <2>3. QED BY <2>2, FirstIsAll
<1>2. First(n, S, QuestionBefore) = S
  <2> DEFINE R == {p \in S \X S : QuestionBefore(p[1], p[2])}
  <2>1. \A x \in S : {y \in S \ {x} : QuestionBefore(y, x)} = Preceding(x, S, R)
    BY DEF Preceding
  <2>2. First(n, S, QuestionBefore) = FirstBy(n, S, R)
    BY <2>1 DEF First, FirstBy
  <2>3. QED BY <2>2, FirstIsAll
<1>3. First(n, S, PathBefore) = S
  <2> DEFINE R == {p \in S \X S : PathBefore(p[1], p[2])}
  <2>1. \A x \in S : {y \in S \ {x} : PathBefore(y, x)} = Preceding(x, S, R)
    BY DEF Preceding
  <2>2. First(n, S, PathBefore) = FirstBy(n, S, R)
    BY <2>1 DEF First, FirstBy
  <2>3. QED BY <2>2, FirstIsAll
<1>4. QED BY <1>1, <1>2, <1>3

\* The files of a comparison, each with a path of its own.
LEMMA DistinctPaths ==
  ASSUME NEW files \in Comparisons
  PROVE  /\ Len(files) \in Nat /\ DOMAIN files = 1 .. Len(files)
         /\ \A i \in DOMAIN files : files[i] \in ChangedFile
         /\ \A i, j \in DOMAIN files : files[i].path = files[j].path => i = j
<1>1. files \in Seq(ChangedFile) /\ \A i, j \in DOMAIN files : i < j => files[i].path < files[j].path
  BY ComparisonsAssumption
<1>2. Len(files) \in Nat /\ DOMAIN files = 1 .. Len(files) /\ \A i \in DOMAIN files : files[i] \in ChangedFile
  BY <1>1
<1>3. \A i \in DOMAIN files : files[i].path \in Nat
  BY <1>2 DEF ChangedFile
<1>4. ASSUME NEW i \in DOMAIN files, NEW j \in DOMAIN files, files[i].path = files[j].path PROVE i = j
  <2>1. ~(files[i].path < files[j].path) /\ ~(files[j].path < files[i].path)
    BY <1>3, <1>4
  <2>2. ~(i < j) /\ ~(j < i)
    BY <1>1, <2>1
  <2>3. QED BY <1>2, <2>2
<1>5. QED BY <1>2, <1>4

(* ------------------------- flags and questions ------------------------- *)

\* The rules that detectReviewAttention knows.
LEMMA RulesAre ==
  /\ IsFiniteSet(ToSet(AttentionRules))
  /\ ToSet(AttentionRules) = {"dependency", "authentication", "schema", "configuration", "deleted-test",
                              "generated", "executable-mode", "large-diff", "public-api"}
<1>1. Len(AttentionRules) = 9 /\ DOMAIN AttentionRules = 1 .. 9
  BY DEF AttentionRules
<1>2. IsFiniteSet(ToSet(AttentionRules))
  BY <1>1, RangeIsFinite
<1>3. \A i : i \in 1 .. 9 <=> i \in {1, 2, 3, 4, 5, 6, 7, 8, 9}
  OBVIOUS
<1>4. ToSet(AttentionRules) = {AttentionRules[i] : i \in {1, 2, 3, 4, 5, 6, 7, 8, 9}}
  BY <1>1, <1>3 DEF ToSet
<1>5. QED BY <1>2, <1>4 DEF AttentionRules

\* What the parts of a finite set of positions give is finite together.
LEMMA RaisedIsFinite ==
  ASSUME NEW c, IsFiniteSet(DOMAIN c)
  PROVE  IsFiniteSet(UNION {Raised(c[k]) : k \in DOMAIN c})
<1> DEFINE rules == ToSet(AttentionRules)
           P == (DOMAIN c) \X rules
           Q == {p \in P : Raises(c[p[1]], p[2])}
           f == [p \in P |-> Flag(c[p[1]].file, p[2])]
<1>1. UNION {Raised(c[k]) : k \in DOMAIN c} = {f[p] : p \in Q}
  <2>1. ASSUME NEW g, g \in UNION {Raised(c[k]) : k \in DOMAIN c} PROVE g \in {f[p] : p \in Q}
    <3>1. PICK k \in DOMAIN c, rule \in rules : Raises(c[k], rule) /\ g = Flag(c[k].file, rule)
      BY <2>1 DEF Raised
    <3>2. <<k, rule>> \in Q /\ f[<<k, rule>>] = g
      BY <3>1
    <3>3. QED BY <3>2
  <2>2. ASSUME NEW p \in Q PROVE f[p] \in UNION {Raised(c[k]) : k \in DOMAIN c}
    BY DEF Raised
  <2>3. QED BY <2>1, <2>2
<1>2. IsFiniteSet(P)
  BY RulesAre, FS_Product
<1>3. IsFiniteSet(Q)
  BY <1>2, FS_Subset
<1> HIDE DEF Q, f
<1>4. IsFiniteSet({f[p] : p \in Q})
  BY <1>3, ImageIsFinite
<1>5. QED BY <1>1, <1>4

\* Every changed file is a candidate when there may be as many.
LEMMA CandidatesAre ==
  ASSUME NEW files \in Comparisons, Cardinality({k \in DOMAIN files : IsChanged(files[k])}) <= MaxFiles
  PROVE  LET c == AttentionCandidates(files)
         IN DOMAIN c = {k \in DOMAIN files : IsChanged(files[k])} /\ \A k \in DOMAIN c : c[k].file = files[k]
<1> DEFINE Changes == {k \in DOMAIN files : IsChanged(files[k])}
           until(k) == {j \in 1 .. k : IsChanged(files[j])}
           read(k) == IsChanged(files[k]) /\ Cardinality(until(k)) <= MaxFiles
           analysed == {i \in DOMAIN files : read(i)}
<1>1. Len(files) \in Nat /\ DOMAIN files = 1 .. Len(files)
  BY DistinctPaths
<1>2. MaxFiles \in Nat
  BY ReportLimitsAssumption
<1>3. ASSUME NEW k \in DOMAIN files PROVE Cardinality(until(k)) <= MaxFiles
  <2>1. until(k) \in SUBSET Changes
    BY <1>1
  <2>2. Changes \in SUBSET (1 .. Len(files))
    BY <1>1
  <2>3. IsFiniteSet(1 .. Len(files))
    BY <1>1, FS_Interval
  <2>4. Cardinality(Changes) <= MaxFiles
    OBVIOUS
  <2> HIDE DEF until, Changes
  <2>5. IsFiniteSet(Changes)
    BY <2>2, <2>3, FS_Subset
  <2>6. IsFiniteSet(until(k)) /\ Cardinality(until(k)) <= Cardinality(Changes)
    BY <2>1, <2>5, FS_Subset
  <2>7. Cardinality(until(k)) \in Nat /\ Cardinality(Changes) \in Nat
    BY <2>5, <2>6, FS_CardinalityType
  <2>8. QED BY <1>2, <2>4, <2>6, <2>7
<1>4. analysed = Changes
  BY <1>3
<1>5. \E left : AttentionCandidates(files) =
        [k \in analysed |-> [file |-> files[k], content |-> ReadCandidate(files[k], left[k - 1]).content]]
  BY DEF AttentionCandidates
<1> HIDE DEF analysed
<1>6. QED BY <1>4, <1>5

\* A public line where every public line was added.
LEMMA PublicIsSeen ==
  ASSUME NEW f \in ChangedFile, Holds(f, "public-api")
  PROVE  PublicLines(f) # {}
<1> DEFINE old == {i \in DOMAIN f.lines : f.lines[i].kind # "added"}
           new == {i \in DOMAIN f.lines : f.lines[i].kind # "removed"}
           upTo(i) == {j \in new : j <= i}
           before(i) == {j \in old : f.lines[j].text = f.lines[i].text}
           until(i) == {j \in upTo(i) : f.lines[j].text = f.lines[i].text}
<1>1. PICK i \in DOMAIN f.lines : /\ f.lines[i].kind = "added" /\ f.lines[i].text = "api"
                                  /\ \A j \in DOMAIN f.lines : f.lines[j].text = "api" => f.lines[j].kind = "added"
  BY DEF Holds
<1>2. IsFiniteSet(DOMAIN f.lines) /\ DOMAIN f.lines \subseteq Nat
  <2>1. DOMAIN f.lines = 1 .. Len(f.lines) /\ Len(f.lines) \in Nat
    BY DEF ChangedFile
  <2>2. \A n \in Nat : IsFiniteSet(1 .. n) /\ 1 .. n \subseteq Nat
    BY FS_Interval
  <2>3. QED BY <2>1, <2>2
<1>3. Cardinality(before(i)) = 0
  <2>1. before(i) = {}
    BY <1>1
  <2>2. QED BY <2>1, FS_EmptySet
<1>4. Cardinality(until(i)) > 0
  <2>1. i \in until(i)
    BY <1>1, <1>2
  <2>2. until(i) \in SUBSET DOMAIN f.lines
    OBVIOUS
  <2> HIDE DEF until
  <2>3. IsFiniteSet(until(i)) /\ Cardinality(until(i)) # 0
    BY <1>2, <2>1, <2>2, FS_Subset, FS_EmptySet
  <2>4. Cardinality(until(i)) \in Nat
    BY <2>3, FS_CardinalityType
  <2>5. QED BY <2>3, <2>4
<1>5. i \in new /\ Cardinality(until(i)) > Cardinality(before(i))
  BY <1>1, <1>3, <1>4
<1>6. [line |-> f.from + Cardinality(upTo(i)) - 1, text |-> f.lines[i].text] \in ChangedLines(f).added
  BY <1>5 DEF ChangedLines
<1>7. QED BY <1>1, <1>6 DEF PublicLines

\* Every rule that holds of a file whose content was read is raised.
LEMMA RuleIsRaised ==
  ASSUME NEW f \in ChangedFile, NEW c, c.file = f, c.content, NEW rule \in ToSet(AttentionRules), Holds(f, rule)
  PROVE  Flag(f, rule) \in Raised(c)
<1>1. Raises(c, rule)
  <2>1. CASE rule = "public-api"
    <3>1. f.kind \in {"source", "suffix"} /\ PublicLines(f) # {}
      BY <2>1, PublicIsSeen DEF Holds
    <3>2. ~IsTestFile(f)
      BY <3>1 DEF IsTestFile
    <3>3. QED BY <2>1, <3>1, <3>2 DEF Raises
  <2>2. CASE rule = "deleted-test"
    <3>1. f.status = "D" /\ f.kind \notin {"source", "suffix"} /\ f.kind \in {"source", "test", "fixture", "suffix"}
      BY <2>2 DEF Holds, ChangedFile
    <3>2. QED BY <2>2, <3>1 DEF Raises, IsTestFile
  <2>3. CASE rule = "executable-mode"
    BY <2>3 DEF Raises, Holds
  <2>4. CASE rule = "large-diff"
    BY <2>4 DEF Holds
  <2>5. CASE rule \in {"dependency", "authentication", "schema", "configuration", "generated"}
    <3>1. rule \in f.rules
      BY <2>5 DEF Holds
    <3>2. QED BY <2>5, <3>1 DEF Raises
  <2>6. QED BY <2>1, <2>2, <2>3, <2>4, <2>5, RulesAre
<1>2. QED BY <1>1 DEF Raised

\* An attention that is not truncated has the flags of every changed file.
LEMMA FlagsAreAll ==
  ASSUME NEW files, files \in Comparisons, ~Attention(files).truncated
  PROVE  LET c == AttentionCandidates(files)
         IN /\ Attention(files).flags = UNION {Raised(c[k]) : k \in DOMAIN c}
            /\ IsFiniteSet(Attention(files).flags)
            /\ DOMAIN c = {k \in DOMAIN files : IsChanged(files[k])}
            /\ \A k \in DOMAIN c : c[k].file = files[k] /\ c[k].content
<1> DEFINE c == AttentionCandidates(files)
           raised == UNION {Raised(c[k]) : k \in DOMAIN c}
           Changes == {k \in DOMAIN files : IsChanged(files[k])}
<1>1. Len(files) \in Nat /\ DOMAIN files = 1 .. Len(files)
  BY DistinctPaths
<1>2. MaxFiles \in Nat /\ MaxFlags \in Nat
  BY ReportLimitsAssumption
<1>3. ~(Cardinality(Changes) > MaxFiles) /\ (\A k \in DOMAIN c : c[k].content) /\ ~(Cardinality(raised) > MaxFlags)
  BY DEF Attention
<1>4. Attention(files).flags = First(MaxFlags, raised, RaisedBefore)
  BY DEF Attention
<1>5. DOMAIN c = Changes /\ \A k \in DOMAIN c : c[k].file = files[k]
  <2>1. Changes \in SUBSET (1 .. Len(files)) /\ IsFiniteSet(1 .. Len(files))
    BY <1>1, FS_Interval
  <2> HIDE DEF Changes
  <2>2. Cardinality(Changes) \in Nat
    BY <2>1, FS_Subset, FS_CardinalityType
  <2>3. Cardinality(Changes) <= MaxFiles
    BY <1>2, <1>3, <2>2
  <2>4. QED BY <2>3, CandidatesAre DEF c, Changes
<1> HIDE DEF c
<1>6. IsFiniteSet(DOMAIN c)
  <2>1. Changes \in SUBSET (1 .. Len(files)) /\ IsFiniteSet(1 .. Len(files))
    BY <1>1, FS_Interval
  <2>2. QED BY <1>5, <2>1, FS_Subset
<1>7. IsFiniteSet(raised)
  BY <1>6, RaisedIsFinite
<1> HIDE DEF raised
<1>8. Cardinality(raised) <= MaxFlags
  BY <1>2, <1>3, <1>7, FS_CardinalityType
<1>9. Attention(files).flags = raised
  BY <1>2, <1>4, <1>7, <1>8, AllAreKept
<1>10. QED BY <1>1, <1>3, <1>5, <1>7, <1>9 DEF c, raised

\* The sources that changed with tests of theirs.
Sources(files) == {f \in ToSet(files) : f.status # "D" /\ ~IsTestPath(f) /\ Companions(f, files) # {}}

LEMMA CompanionsAreFinite ==
  ASSUME NEW files, IsFiniteSet(ToSet(files)), NEW f
  PROVE  IsFiniteSet(Companions(f, files))
<1> DEFINE T == {c \in ToSet(files) : c.status # "D" /\ IsTestPath(c) /\ c.stem = f.stem /\ IsNearby(f.dir, c.dir)}
           path == [t \in T |-> t.path]
<1>1. Companions(f, files) = {path[t] : t \in T}
  BY DEF Companions
<1>2. IsFiniteSet(T)
  BY FS_Subset
<1> HIDE DEF T, path
<1>3. IsFiniteSet({path[t] : t \in T})
  BY <1>2, ImageIsFinite
<1>4. QED BY <1>1, <1>3

\* The questions that could be asked are finite, and what asks has its question.
LEMMA QuestionsAre ==
  ASSUME NEW files, IsFiniteSet(ToSet(files)), NEW flags, IsFiniteSet(flags)
  PROVE  /\ IsFiniteSet(AllQuestions(files, flags))
         /\ \A q \in AllQuestions(files, flags) :
              /\ q = [path |-> q.path, kind |-> q.kind, line |-> q.line, related |-> q.related]
              /\ IsFiniteSet(q.related)
         /\ \A g \in flags : Asks(g) => Question(g.path, g.rule, g.line, {}) \in AllQuestions(files, flags)
         /\ \A f \in Sources(files) : Question(f.path, "changed-test", 0, Companions(f, files)) \in AllQuestions(files, flags)
<1> DEFINE asking == {h \in flags : Asks(h)}
           ask == [g \in asking |-> Question(g.path, g.rule, g.line, {})]
           sources == Sources(files)
           test == [f \in sources |-> Question(f.path, "changed-test", 0, Companions(f, files))]
           all == AllQuestions(files, flags)
<1>1. all = {ask[g] : g \in asking} \cup {test[f] : f \in sources}
  BY DEF AllQuestions, Sources
<1>2. IsFiniteSet(asking) /\ IsFiniteSet(sources)
  <2>1. asking \in SUBSET flags /\ sources \in SUBSET ToSet(files)
    BY DEF Sources
  <2>2. QED BY <2>1, FS_Subset
<1>3. \A g \in asking : ask[g] = Question(g.path, g.rule, g.line, {})
  OBVIOUS
<1>4. \A f \in sources : test[f] = Question(f.path, "changed-test", 0, Companions(f, files))
  OBVIOUS
<1>5. \A g \in flags : Asks(g) => g \in asking
  OBVIOUS
<1> HIDE DEF asking, ask, sources, test, all
<1>6. IsFiniteSet({ask[g] : g \in asking}) /\ IsFiniteSet({test[f] : f \in sources})
  BY <1>2, ImageIsFinite
<1>7. IsFiniteSet(all)
  BY <1>1, <1>6, FS_Union
<1>8. ASSUME NEW q \in all
      PROVE  /\ q = [path |-> q.path, kind |-> q.kind, line |-> q.line, related |-> q.related]
             /\ IsFiniteSet(q.related)
  <2>1. CASE \E g \in asking : q = ask[g]
    <3>1. PICK g \in asking : q = Question(g.path, g.rule, g.line, {})
      BY <1>3, <2>1
    <3>2. QED BY <3>1, FS_EmptySet DEF Question
  <2>2. CASE \E f \in sources : q = test[f]
    <3>1. PICK f \in sources : q = Question(f.path, "changed-test", 0, Companions(f, files))
      BY <1>4, <2>2
    <3>2. IsFiniteSet(Companions(f, files))
      BY CompanionsAreFinite
    <3>3. QED BY <3>1, <3>2 DEF Question
  <2>3. QED BY <1>1, <2>1, <2>2
<1>9. \A g \in flags : Asks(g) => Question(g.path, g.rule, g.line, {}) \in all
  BY <1>1, <1>3, <1>5
<1>10. \A f \in sources : Question(f.path, "changed-test", 0, Companions(f, files)) \in all
  BY <1>1, <1>4
<1>11. QED BY <1>7, <1>8, <1>9, <1>10 DEF all, sources

\* When none was cut and none lost a companion, every question is in the report.
LEMMA QuestionsAreAll ==
  ASSUME NEW files, IsFiniteSet(ToSet(files)), NEW flags, IsFiniteSet(flags),
         ~InspectionQuestions(files, flags).truncated
  PROVE  \A q \in AllQuestions(files, flags) :
           \E a \in InspectionQuestions(files, flags).questions :
             a.path = q.path /\ a.kind = q.kind /\ a.line = q.line /\ a.related = q.related
<1> DEFINE all == AllQuestions(files, flags)
           kept == First(MaxQuestions, all, QuestionBefore)
<1>1. MaxQuestions \in Nat /\ MaxRelated \in Nat
  BY ReportLimitsAssumption
<1>2. ~(Cardinality(all) > MaxQuestions) /\ \A q \in all : ~(Cardinality(q.related) > MaxRelated)
  BY DEF InspectionQuestions
<1>3. InspectionQuestions(files, flags).questions = {[q EXCEPT !.related = First(MaxRelated, q.related, PathBefore)] : q \in kept}
  BY DEF InspectionQuestions
<1>4. IsFiniteSet(all) /\ \A q \in all : /\ q = [path |-> q.path, kind |-> q.kind, line |-> q.line, related |-> q.related]
                                          /\ IsFiniteSet(q.related)
  BY QuestionsAre
<1> HIDE DEF all
<1>5. Cardinality(all) <= MaxQuestions /\ \A q \in all : Cardinality(q.related) <= MaxRelated
  BY <1>1, <1>2, <1>4, FS_CardinalityType
<1>6. kept = all /\ \A q \in all : First(MaxRelated, q.related, PathBefore) = q.related
  BY <1>1, <1>4, <1>5, AllAreKept
<1> HIDE DEF kept
<1>7. ASSUME NEW q \in all PROVE [q EXCEPT !.related = First(MaxRelated, q.related, PathBefore)] = q
  BY <1>4, <1>6
<1>8. \A q \in all : q \in InspectionQuestions(files, flags).questions
  BY <1>3, <1>6, <1>7
<1>9. QED BY <1>8 DEF all

\* A report that calls itself available left nothing out: AvailableMeansComplete.
LEMMA ReportIsComplete ==
  ASSUME comparison \in Comparisons, artifact = Analysis(comparison) PROVE AvailableMeansComplete
<1> DEFINE files == comparison
           flags == Attention(files).flags
           questions == InspectionQuestions(files, flags).questions
<1> SUFFICES ASSUME artifact.state = "available" PROVE AvailableMeansComplete
  BY DEF AvailableMeansComplete
<1>1. artifact.flags = flags /\ artifact.questions = questions
  BY DEF Analysis
<1>2. ~Attention(files).truncated /\ ~InspectionQuestions(files, flags).truncated
  BY DEF Analysis
<1>3. files \in Seq(ChangedFile) /\ Len(files) \in Nat /\ DOMAIN files = 1 .. Len(files)
  BY ComparisonsAssumption
<1>4. IsFiniteSet(ToSet(files)) /\ \A i \in DOMAIN files : files[i] \in ToSet(files) /\ files[i] \in ChangedFile
  BY <1>3, RangeIsFinite DEF ToSet
<1>5. ASSUME NEW i \in DOMAIN files, NEW rule \in ToSet(AttentionRules), IsChanged(files[i]), Holds(files[i], rule)
      PROVE  \E g \in flags : g.path = files[i].path /\ g.rule = rule
  <2> DEFINE c == AttentionCandidates(files)
  <2>1. flags = UNION {Raised(c[k]) : k \in DOMAIN c} /\ i \in DOMAIN c /\ c[i].file = files[i] /\ c[i].content
    BY <1>2, <1>5, FlagsAreAll
  <2> HIDE DEF c, flags
  <2>2. Flag(files[i], rule) \in Raised(c[i])
    BY <1>4, <1>5, <2>1, RuleIsRaised
  <2>3. Flag(files[i], rule) \in flags
    BY <2>1, <2>2
  <2>4. Flag(files[i], rule).path = files[i].path /\ Flag(files[i], rule).rule = rule
    BY DEF Flag
  <2>5. QED BY <2>3, <2>4
<1>6. IsFiniteSet(flags)
  BY <1>2, FlagsAreAll
<1> HIDE DEF flags
<1>7. \A q \in AllQuestions(files, flags) :
        \E a \in questions : a.path = q.path /\ a.kind = q.kind /\ a.line = q.line /\ a.related = q.related
  BY <1>2, <1>4, <1>6, QuestionsAreAll
<1> HIDE DEF questions
<1>8. ASSUME NEW g \in flags, Asks(g)
      PROVE  \E q \in questions : q.path = g.path /\ q.kind = g.rule /\ q.line = g.line
  <2>1. Question(g.path, g.rule, g.line, {}) \in AllQuestions(files, flags)
    BY <1>4, <1>6, <1>8, QuestionsAre
  <2>2. QED BY <1>7, <2>1 DEF Question
<1>9. ASSUME NEW i \in DOMAIN files, NEW j \in DOMAIN files, files[i].status # "D", ~IsTestPath(files[i]),
             files[j].path \in Companions(files[i], files)
      PROVE  \E q \in questions : q.path = files[i].path /\ files[j].path \in q.related
  <2>1. files[i] \in Sources(files)
    BY <1>4, <1>9 DEF Sources
  <2>2. Question(files[i].path, "changed-test", 0, Companions(files[i], files)) \in AllQuestions(files, flags)
    BY <1>4, <1>6, <2>1, QuestionsAre
  <2>3. QED BY <1>7, <1>9, <2>2 DEF Question
<1>10. QED BY <1>1, <1>5, <1>8, <1>9 DEF AvailableMeansComplete

(* ------------------------------ rule hits ------------------------------ *)

DiffLine == [kind : {"context", "added", "removed"}, text : STRING]

\* The block of a file has finitely many lines, also when it was split.
LEMMA BlockIsDiff ==
  ASSUME NEW f \in ChangedFile
  PROVE  /\ IsFiniteSet(DOMAIN Diff(f)) /\ DOMAIN Diff(f) \subseteq Nat
         /\ \A S \in SUBSET DOMAIN Diff(f) : IsFiniteSet(S) /\ Cardinality(S) \in Nat
<1> DEFINE lines == f.lines
           marked == {i \in DOMAIN lines : lines[i].text = "marker"}
           m == CHOOSE i \in marked : \A j \in marked : i <= j
           cut == [lines[m] EXCEPT !.text = "cut"]
           Parts == DiffLine \cup {cut}
<1>1. lines \in Seq(DiffLine) /\ DOMAIN lines = 1 .. Len(lines) /\ Len(lines) \in Nat
  BY DEF ChangedFile, DiffLine
<1>2. Diff(f) \in Seq(Parts)
  <2>0. CASE f.name \in {"quoted", "spaced"}
    BY <2>0 DEF Diff
  <2>1. CASE f.name \notin {"quoted", "spaced"} /\ marked = {}
    <3>1. lines \in Seq(Parts)
      <4> HIDE DEF cut
      <4>1. QED BY <1>1
    <3>2. QED BY <3>1, <2>1 DEF Diff
  <2>2. CASE f.name \notin {"quoted", "spaced"} /\ marked # {}
    <3>1. \E i \in marked : \A j \in marked : i <= j
      <4>1. marked \subseteq Nat
        BY <1>1
      <4> HIDE DEF marked
      <4>2. QED BY <2>2, <4>1, SmallestNumber
    <3>2. m \in 1 .. Len(lines)
      <4>1. m \in marked
        BY <3>1
      <4>2. QED BY <1>1, <4>1
    <3>3. Diff(f) = Append(SubSeq(lines, 1, m - 1), cut)
      BY <2>2 DEF Diff
    <3> HIDE DEF m, cut, lines
    <3>4. SubSeq(lines, 1, m - 1) \in Seq(Parts) /\ cut \in Parts
      BY <1>1, <3>2
    <3> HIDE DEF Parts
    <3>5. QED BY <3>3, <3>4
  <2>3. QED BY <2>0, <2>1, <2>2
<1> HIDE DEF Parts
<1>3. DOMAIN Diff(f) = 1 .. Len(Diff(f)) /\ Len(Diff(f)) \in Nat
  BY <1>2
<1>4. IsFiniteSet(DOMAIN Diff(f)) /\ DOMAIN Diff(f) \subseteq Nat
  BY <1>3, FS_Interval
<1>5. \A S \in SUBSET DOMAIN Diff(f) : IsFiniteSet(S) /\ Cardinality(S) \in Nat
  BY <1>4, FS_Subset, FS_CardinalityType
<1>6. QED BY <1>4, <1>5

\* The added lines of any file, each with its number.
LEMMA AddedAre ==
  ASSUME NEW f \in ChangedFile
  PROVE  /\ IsFiniteSet(AddedLines(f))
         /\ \A l \in AddedLines(f) : l.line \in Nat /\ l.kind = "added" /\ l = [line |-> l.line, kind |-> "added", text |-> l.text]
<1> DEFINE C == Counted(f)
           N == Numbered(f)
<1>1. C \in SUBSET DOMAIN Diff(f) /\ DOMAIN N = C
  BY DEF Counted, Numbered
<1>2. IsFiniteSet(C)
  BY <1>1, BlockIsDiff
<1>3. IsFiniteSet({N[i] : i \in C})
  <2> HIDE DEF C, N
  <2>1. QED BY <1>2, ImageIsFinite
<1>4. Range(N) = {N[i] : i \in C}
  BY <1>1 DEF Range
<1>5. ASSUME NEW i \in C
      PROVE  N[i].line \in Nat /\ N[i] = [line |-> N[i].line, kind |-> N[i].kind, text |-> N[i].text]
  <2> DEFINE above == {j \in C : j < i /\ InHead(Diff(f)[j])}
             number == IF InHead(Diff(f)[i]) THEN f.from + Cardinality(above) ELSE 0
  <2>1. N[i] = [line |-> number, kind |-> Diff(f)[i].kind, text |-> Diff(f)[i].text]
    BY DEF Numbered, NumberedLine
  <2>2. above \in SUBSET DOMAIN Diff(f)
    BY <1>1
  <2> HIDE DEF above
  <2>3. Cardinality(above) \in Nat
    BY <2>2, BlockIsDiff
  <2>4. f.from \in Nat
    BY DEF ChangedFile
  <2>5. number \in Nat
    BY <2>3, <2>4
  <2> HIDE DEF number, N
  <2>6. QED BY <2>1, <2>5
<1> HIDE DEF N, C
<1>6. AddedLines(f) \in SUBSET Range(N) /\ \A l \in AddedLines(f) : l.kind = "added"
  BY DEF AddedLines, N
<1>7. IsFiniteSet(AddedLines(f))
  BY <1>3, <1>4, <1>6, FS_Subset
<1>8. QED BY <1>4, <1>5, <1>6, <1>7

\* Every hit of a rule in a file is about an added line of the file.
LEMMA RunHits ==
  ASSUME NEW files \in Comparisons, NEW r \in DOMAIN TeamRules, NEW i \in DOMAIN files
  PROVE  \A h \in HitsIn(r, files[i]) : \E l \in AddedLines(files[i]) : h = Hit(r, files[i], l)
BY DEF HitsIn, BlockHits, LineHits

\* All hits of a comparison: finitely many, each about an added line.
LEMMA HitsAre ==
  ASSUME NEW files \in Comparisons
  PROVE  /\ IsFiniteSet(AllHits(files))
         /\ \A h \in AllHits(files) :
              /\ h.path \in Nat /\ h.rule \in Nat /\ h.line \in Nat
              /\ \E r \in DOMAIN TeamRules, i \in DOMAIN files : \E l \in AddedLines(files[i]) : h = Hit(r, files[i], l)
<1>1. /\ files \in Seq(ChangedFile) /\ Len(files) \in Nat /\ DOMAIN files = 1 .. Len(files)
      /\ \A i \in DOMAIN files : files[i] \in ChangedFile /\ files[i].path \in Nat
  <2>1. files \in Seq(ChangedFile)
    BY ComparisonsAssumption
  <2>2. Len(files) \in Nat /\ DOMAIN files = 1 .. Len(files) /\ \A i \in DOMAIN files : files[i] \in ChangedFile
    BY DistinctPaths
  <2>3. \A i \in DOMAIN files : files[i].path \in Nat
    BY <2>2 DEF ChangedFile
  <2>4. QED BY <2>1, <2>2, <2>3
<1>2. DOMAIN TeamRules = 1 .. Len(TeamRules) /\ Len(TeamRules) \in Nat
  BY TeamRulesAssumption
<1>3. \A h \in AllHits(files) : \E r \in DOMAIN TeamRules, i \in DOMAIN files : \E l \in AddedLines(files[i]) : h = Hit(r, files[i], l)
  <2>1. \A h \in AllHits(files) : \E r \in DOMAIN TeamRules, i \in DOMAIN files : h \in HitsIn(r, files[i])
    BY DEF AllHits
  <2>2. QED BY <2>1, RunHits
<1>4. ASSUME NEW h \in AllHits(files) PROVE h.path \in Nat /\ h.rule \in Nat /\ h.line \in Nat
  <2>1. PICK r \in DOMAIN TeamRules, i \in DOMAIN files : \E l \in AddedLines(files[i]) : h = Hit(r, files[i], l)
    BY <1>3
  <2>2. PICK l \in AddedLines(files[i]) : h = Hit(r, files[i], l)
    BY <2>1
  <2>3. l.line \in Nat /\ r \in Nat /\ files[i].path \in Nat
    BY <1>1, <1>2, AddedAre
  <2>4. QED BY <2>2, <2>3 DEF Hit
<1>5. IsFiniteSet(AllHits(files))
  <2> DEFINE P == (DOMAIN TeamRules) \X (DOMAIN files)
             all(p) == {Hit(p[1], files[p[2]], l) : l \in AddedLines(files[p[2]])}
             U == {all(p) : p \in P}
             allOf == [p \in P |-> all(p)]
  <2>1. IsFiniteSet(DOMAIN TeamRules) /\ IsFiniteSet(DOMAIN files)
    BY <1>1, <1>2, FS_Interval
  <2>2. IsFiniteSet(P)
    BY <2>1, FS_Product
  <2>3. ASSUME NEW p \in P PROVE IsFiniteSet(all(p))
    <3> DEFINE L == AddedLines(files[p[2]])
               hit == [l \in L |-> Hit(p[1], files[p[2]], l)]
    <3>1. IsFiniteSet(L)
      BY <1>1, AddedAre
    <3>2. all(p) = {hit[l] : l \in L}
      OBVIOUS
    <3> HIDE DEF L, hit
    <3>3. IsFiniteSet({hit[l] : l \in L})
      BY <3>1, ImageIsFinite
    <3>4. QED BY <3>2, <3>3
  <2>4. U = {allOf[p] : p \in P}
    OBVIOUS
  <2>5. AllHits(files) \subseteq UNION U
    <3>1. ASSUME NEW h \in AllHits(files) PROVE h \in UNION U
      <4>1. PICK r \in DOMAIN TeamRules, i \in DOMAIN files : \E l \in AddedLines(files[i]) : h = Hit(r, files[i], l)
        BY <1>3
      <4>2. <<r, i>> \in P /\ h \in all(<<r, i>>)
        BY <4>1
      <4>3. QED BY <4>2
    <3>2. QED BY <3>1
  <2>6. \A u \in U : IsFiniteSet(u)
    BY <2>3
  <2> HIDE DEF P, all, U, allOf
  <2>7. IsFiniteSet(U)
    BY <2>2, <2>4, ImageIsFinite
  <2>8. IsFiniteSet(UNION U)
    BY <2>6, <2>7, FS_UNION
  <2>9. QED BY <2>5, <2>8, FS_Subset
<1>6. QED BY <1>3, <1>4, <1>5

\* Hits that were not cut are all of them.
LEMMA HitsAreAll ==
  ASSUME NEW files \in Comparisons
  PROVE  /\ RuleHits(files) \subseteq AllHits(files)
         /\ Cardinality(RuleHits(files)) < MaxHits => RuleHits(files) = AllHits(files)
<1> DEFINE S == AllHits(files)
           R == {p \in S \X S : HitBefore(p[1], p[2])}
<1>1. MaxHits \in Nat
  BY ReportLimitsAssumption
<1>2. IsFiniteSet(S) /\ \A h \in S : h.path \in Nat /\ h.rule \in Nat /\ h.line \in Nat
  BY HitsAre
<1>3. RuleHits(files) = FirstBy(MaxHits, S, R)
  <2>1. \A x \in S : {y \in S \ {x} : HitBefore(y, x)} = Preceding(x, S, R)
    BY DEF Preceding
  <2>2. QED BY <2>1 DEF RuleHits, First, FirstBy
<1>4. \A g, h \in S : <<g, h>> \in R <=> HitBefore(g, h)
  OBVIOUS
<1> HIDE DEF S, R
<1>5. \A x \in S : ~HitBefore(x, x)
  BY <1>2 DEF HitBefore
<1>6. \A x, y, z \in S : HitBefore(x, y) /\ HitBefore(y, z) => HitBefore(x, z)
  BY <1>2 DEF HitBefore
<1>7. Orders(R, S)
  BY <1>4, <1>5, <1>6 DEF Orders
<1>8. FirstBy(MaxHits, S, R) \subseteq S
  BY DEF FirstBy
<1>9. Cardinality(FirstBy(MaxHits, S, R)) < MaxHits => FirstBy(MaxHits, S, R) = S
  BY <1>1, <1>2, <1>7, FirstIsFull
<1>10. QED BY <1>3, <1>8, <1>9 DEF S

Above(f, i) == {j \in DOMAIN f.lines : j < i /\ InHead(f.lines[j])}

\* The two numberings of a plain file agree, and its added lines have increasing
\* numbers.
LEMMA PlainIs ==
  ASSUME NEW f \in ChangedFile, IsReadAsItIs(f)
  PROVE  /\ Numbered(f) = Hunk(f) /\ DOMAIN Hunk(f) = DOMAIN f.lines /\ DOMAIN f.lines \subseteq Nat
         /\ \A i \in DOMAIN f.lines : Hunk(f)[i].kind = "added" => Hunk(f)[i].line = f.from + Cardinality(Above(f, i))
         /\ \A i \in DOMAIN f.lines : Hunk(f)[i].kind = f.lines[i].kind
         /\ \A i \in DOMAIN f.lines : Hunk(f)[i] = [line |-> Hunk(f)[i].line, kind |-> Hunk(f)[i].kind, text |-> Hunk(f)[i].text]
<1>1. Diff(f) = f.lines
  <2>1. {i \in DOMAIN f.lines : f.lines[i].text = "marker"} = {}
    BY DEF IsReadAsItIs
  <2>2. QED BY <2>1 DEF Diff, IsReadAsItIs
<1>2. Counted(f) = DOMAIN f.lines
  BY <1>1 DEF Counted, Skipped, IsReadAsItIs
<1>3. DOMAIN f.lines \subseteq Nat
  BY <1>1, BlockIsDiff
<1>4. Numbered(f) = Hunk(f) /\ DOMAIN Hunk(f) = DOMAIN f.lines
  BY <1>1, <1>2 DEF Numbered, Hunk
<1>5. \A i \in DOMAIN f.lines : Hunk(f)[i] = [line |-> IF InHead(f.lines[i]) THEN f.from + Cardinality(Above(f, i)) ELSE 0,
                                              kind |-> f.lines[i].kind, text |-> f.lines[i].text]
  BY <1>1 DEF Hunk, NumberedLine, Above
<1>6. \A i \in DOMAIN f.lines : f.lines[i].kind = "added" => InHead(f.lines[i])
  BY DEF InHead
<1>7. ASSUME NEW i \in DOMAIN f.lines
      PROVE  /\ Hunk(f)[i].kind = "added" => Hunk(f)[i].line = f.from + Cardinality(Above(f, i))
             /\ Hunk(f)[i].kind = f.lines[i].kind
             /\ Hunk(f)[i] = [line |-> Hunk(f)[i].line, kind |-> Hunk(f)[i].kind, text |-> Hunk(f)[i].text]
  <2> DEFINE number == IF InHead(f.lines[i]) THEN f.from + Cardinality(Above(f, i)) ELSE 0
  <2>1. Hunk(f)[i] = [line |-> number, kind |-> f.lines[i].kind, text |-> f.lines[i].text]
    BY <1>5
  <2>2. f.lines[i].kind = "added" => number = f.from + Cardinality(Above(f, i))
    BY <1>6
  <2> HIDE DEF number
  <2>3. QED BY <2>1, <2>2
<1>8. QED BY <1>3, <1>4, <1>7

\* No two added lines of a plain file have one number.
LEMMA NumbersDiffer ==
  ASSUME NEW f \in ChangedFile, IsReadAsItIs(f), NEW i \in DOMAIN f.lines, NEW j \in DOMAIN f.lines,
         Hunk(f)[i].kind = "added", Hunk(f)[j].kind = "added", Hunk(f)[i].line = Hunk(f)[j].line
  PROVE  i = j
<1>1. i \in Nat /\ j \in Nat
  BY PlainIs
<1>2. f.from \in Nat
  BY DEF ChangedFile
<1>3. ASSUME NEW a \in DOMAIN f.lines, NEW b \in DOMAIN f.lines, a \in Nat, b \in Nat, a < b, Hunk(f)[a].kind = "added"
      PROVE  Cardinality(Above(f, a)) < Cardinality(Above(f, b))
  <2>1. InHead(f.lines[a])
    BY <1>3, PlainIs DEF InHead
  <2>2. a \in Above(f, b) /\ a \notin Above(f, a) /\ Above(f, a) \subseteq Above(f, b)
    <3>1. \A c \in DOMAIN f.lines : c \in Nat
      BY PlainIs
    <3>2. QED BY <1>3, <2>1, <3>1 DEF Above
  <2>3. DOMAIN f.lines = DOMAIN Diff(f)
    BY PlainIs DEF Hunk
  <2>4. /\ IsFiniteSet(Above(f, b)) /\ Cardinality(Above(f, b)) \in Nat /\ Cardinality(Above(f, a)) \in Nat
    <3>1. Above(f, a) \in SUBSET DOMAIN f.lines /\ Above(f, b) \in SUBSET DOMAIN f.lines
      BY DEF Above
    <3>2. QED BY <2>3, <3>1, BlockIsDiff
  <2>5. Cardinality(Above(f, a)) <= Cardinality(Above(f, b)) /\ Cardinality(Above(f, a)) # Cardinality(Above(f, b))
    BY <2>2, <2>4, FS_Subset
  <2>6. QED BY <2>4, <2>5
<1>4. f.from + Cardinality(Above(f, i)) = f.from + Cardinality(Above(f, j))
  BY PlainIs
<1>5. Cardinality(Above(f, i)) \in Nat /\ Cardinality(Above(f, j)) \in Nat
  <2>1. DOMAIN f.lines = DOMAIN Diff(f)
    BY PlainIs DEF Hunk
  <2>2. Above(f, i) \in SUBSET DOMAIN f.lines /\ Above(f, j) \in SUBSET DOMAIN f.lines
    BY DEF Above
  <2>3. QED BY <2>1, <2>2, BlockIsDiff
<1>6. ~(i < j)
  BY <1>1, <1>2, <1>3, <1>4, <1>5
<1>7. ~(j < i)
  BY <1>1, <1>2, <1>3, <1>4, <1>5
<1>8. QED BY <1>1, <1>6, <1>7

\* The lines a rule is matched against are the ones the page shows as added.
LEMMA AddedArePlain ==
  ASSUME NEW f \in ChangedFile, IsReadAsItIs(f)
  PROVE  /\ \A l \in AddedLines(f) : l \in Range(Hunk(f)) /\ l.kind = "added"
         /\ ~f.own => \A l \in Range(Hunk(f)) : l.kind = "added" => l \in AddedLines(f)
         /\ \A l, k \in AddedLines(f) : l.line = k.line => l = k
<1>1. Numbered(f) = Hunk(f) /\ DOMAIN Hunk(f) = DOMAIN f.lines
  BY PlainIs
<1>2. \A l \in AddedLines(f) : l \in Range(Hunk(f)) /\ l.kind = "added"
  BY <1>1 DEF AddedLines
<1>3. ~f.own => \A l \in Range(Hunk(f)) : l.kind = "added" => l \in AddedLines(f)
  BY <1>1 DEF AddedLines
<1>4. ASSUME NEW l \in AddedLines(f), NEW k \in AddedLines(f), l.line = k.line PROVE l = k
  <2>1. PICK i \in DOMAIN f.lines : l = Hunk(f)[i]
    BY <1>1, <1>2 DEF Range
  <2>2. PICK j \in DOMAIN f.lines : k = Hunk(f)[j]
    BY <1>1, <1>2 DEF Range
  <2>3. i = j
    BY <1>2, <1>4, <2>1, <2>2, NumbersDiffer
  <2>4. QED BY <2>1, <2>2, <2>3
<1>5. QED BY <1>2, <1>3, <1>4

\* The context of a line of a plain file is of its hunk and holds the line.
LEMMA ContextIs ==
  ASSUME NEW f \in ChangedFile, IsReadAsItIs(f), NEW l \in AddedLines(f)
  PROVE  l \in Range(Context(f, l.line)) /\ Range(Context(f, l.line)) \subseteq Range(Hunk(f))
<1> DEFINE all == Numbered(f)
           at == {i \in DOMAIN all : all[i].kind = "added" /\ all[i].line = l.line}
           target == CHOOSE i \in at : \A j \in at : i <= j
           between(i) == {j \in DOMAIN all : (i < j /\ j < target) \/ (target < j /\ j < i)}
           near == IF at = {} THEN {} ELSE {i \in DOMAIN all : Cardinality(between(i)) < 2}
<1>1. Context(f, l.line) = [i \in near |-> all[i]]
  BY DEF Context
<1>2. all = Hunk(f) /\ DOMAIN all = DOMAIN f.lines /\ DOMAIN f.lines \subseteq Nat
  BY PlainIs
<1>3. PICK t \in DOMAIN f.lines : l = Hunk(f)[t] /\ l.kind = "added"
  BY <1>2, AddedArePlain DEF Range
<1>4. at = {t}
  <2>1. \A i \in DOMAIN f.lines : Hunk(f)[i].kind = "added" /\ Hunk(f)[i].line = l.line => i = t
    BY <1>3, NumbersDiffer
  <2> HIDE DEF all
  <2>2. t \in at
    BY <1>2, <1>3
  <2>3. \A i \in at : i = t
    BY <1>2, <2>1
  <2>4. QED BY <2>2, <2>3
<1>5. target = t
  <2>1. t <= t
    BY <1>2, <1>3
  <2> HIDE DEF at
  <2>2. QED BY <1>4, <2>1
<1> HIDE DEF target, at
<1>6. between(t) = {}
  <2>1. t \in Nat /\ \A j \in DOMAIN all : j \in Nat
    BY <1>2
  <2> HIDE DEF all
  <2>2. QED BY <1>5, <2>1
<1>7. t \in near
  <2>1. Cardinality(between(t)) = 0
    BY <1>6, FS_EmptySet
  <2> HIDE DEF all, between
  <2>2. QED BY <1>2, <1>4, <2>1
<1>8. near \subseteq DOMAIN all
  OBVIOUS
<1> HIDE DEF near, all
<1>9. Range(Context(f, l.line)) = {all[i] : i \in near}
  BY <1>1 DEF Range
<1>10. QED BY <1>2, <1>3, <1>7, <1>8, <1>9 DEF Range

\* Every hit of a plain file is shown with its context.
LEMMA ShownHits ==
  ASSUME NEW files \in Comparisons, NEW n \in DOMAIN files, IsReadAsItIs(files[n]),
         NEW h \in AllHits(files), h.path = files[n].path
  PROVE  LET line == [line |-> h.line, kind |-> "added", text |-> h.text]
         IN /\ line \in Range(Hunk(files[n])) /\ line \in Range(h.context)
            /\ Range(h.context) \subseteq Range(Hunk(files[n]))
<1>1. PICK r \in DOMAIN TeamRules, i \in DOMAIN files : \E l \in AddedLines(files[i]) : h = Hit(r, files[i], l)
  BY HitsAre
<1>2. PICK l \in AddedLines(files[i]) : h = Hit(r, files[i], l)
  BY <1>1
<1>3. h.path = files[i].path /\ h.line = l.line /\ h.text = l.text /\ h.context = Context(files[i], l.line)
  BY <1>2 DEF Hit
<1>4. i = n
  BY <1>3, DistinctPaths
<1>5. files[n] \in ChangedFile
  BY DistinctPaths
<1>6. [line |-> h.line, kind |-> "added", text |-> h.text] = l
  BY <1>3, <1>4, <1>5, AddedAre
<1>7. QED BY <1>3, <1>4, <1>5, <1>6, AddedArePlain, ContextIs

\* Of the earlier lines with a text the first ones are hits of the rule, as many
\* as it may have.
LEMMA EnoughHits ==
  ASSUME NEW files \in Comparisons, NEW n \in DOMAIN files, IsReadAsItIs(files[n]),
         NEW r \in DOMAIN TeamRules, ~TeamRules[r].block,
         AppliesTo(r, files[n]),
         NEW l \in AddedLines(files[n]), l.text \in TeamRules[r].texts
  PROVE  \/ \E h \in AllHits(files) : h.path = files[n].path /\ h.rule = r /\ h.line = l.line
         \/ Cardinality({h \in AllHits(files) : /\ h.path = files[n].path /\ h.rule = r
                                                /\ h.text = l.text /\ h.line < l.line}) >= MaxPerKey
<1> DEFINE f == files[n]
           same(k) == {h \in AllHits(files) : /\ h.path = f.path /\ h.rule = r /\ h.text = k.text /\ h.line < k.line}
<1>1. f \in ChangedFile /\ MaxPerKey \in Nat
  BY DistinctPaths, ReportLimitsAssumption
<1>2. ASSUME NEW k \in AddedLines(f), k.text = l.text, Cardinality(Earlier(f, k)) < MaxPerKey
      PROVE  /\ Hit(r, f, k) \in AllHits(files) /\ Hit(r, f, k).path = f.path /\ Hit(r, f, k).rule = r
             /\ Hit(r, f, k).line = k.line /\ Hit(r, f, k).text = k.text
  <2>1. Hit(r, f, k) \in LineHits(r, f)
    BY <1>2 DEF LineHits
  <2>2. LineHits(r, f) = HitsIn(r, f)
    BY DEF HitsIn
  <2>3. Hit(r, f, k) \in AllHits(files)
    BY <2>1, <2>2 DEF AllHits
  <2>4. QED BY <2>3 DEF Hit
<1>3. CASE Cardinality(Earlier(f, l)) < MaxPerKey
  BY <1>2, <1>3
<1>4. CASE ~(Cardinality(Earlier(f, l)) < MaxPerKey)
  <2> DEFINE E == Earlier(f, l)
             R == {p \in E \X E : p[1].line < p[2].line}
             F == FirstBy(MaxPerKey, E, R)
  <2>1. \A k \in E : k \in AddedLines(f) /\ k.text = l.text /\ k.line < l.line /\ k.line \in Nat
    BY <1>1, AddedAre DEF Earlier
  <2>2. l.line \in Nat
    BY <1>1, AddedAre
  <2>3. IsFiniteSet(E)
    <3>1. E \in SUBSET AddedLines(f)
      BY DEF Earlier
    <3>2. IsFiniteSet(AddedLines(f))
      BY <1>1, AddedAre
    <3> HIDE DEF E, f
    <3>3. QED BY <3>1, <3>2, FS_Subset
  <2>4. \A j, k \in E : <<j, k>> \in R <=> j.line < k.line
    OBVIOUS
  <2>5. \A k \in E : Earlier(f, k) = Preceding(k, E, R)
    <3>1. ASSUME NEW k \in E, NEW j PROVE j \in Earlier(f, k) <=> j \in Preceding(k, E, R)
      <4>1. j \in Earlier(f, k) <=> j \in AddedLines(f) /\ j.text = k.text /\ j.line < k.line
        BY DEF Earlier
      <4>2. j \in E <=> j \in AddedLines(f) /\ j.text = l.text /\ j.line < l.line
        BY DEF Earlier
      <4>3. j \in Preceding(k, E, R) <=> j \in E /\ j # k /\ <<j, k>> \in R
        BY DEF Preceding
      <4>4. j \in AddedLines(f) => j.line \in Nat
        BY <1>1, AddedAre
      <4> HIDE DEF E, R, f
      <4>5. QED BY <2>1, <2>2, <2>4, <4>1, <4>2, <4>3, <4>4
    <3> HIDE DEF E, R
    <3>2. QED BY <3>1
  <2> HIDE DEF E, R
  <2>6. Orders(R, E)
    BY <2>1, <2>4 DEF Orders
  <2>7. F \subseteq E /\ \A k \in F : Cardinality(Earlier(f, k)) < MaxPerKey
    BY <2>5 DEF FirstBy
  <2>8. IsFiniteSet(F) /\ Cardinality(F) \in Nat
    BY <2>3, <2>7, FS_Subset, FS_CardinalityType
  <2>9. Cardinality(F) >= MaxPerKey
    <3>1. CASE Cardinality(F) < MaxPerKey
      <4>1. F = E
        BY <1>1, <2>3, <2>6, <3>1, FirstIsFull
      <4>2. QED BY <4>1, <3>1, <1>4 DEF E
    <3> HIDE DEF F
    <3>2. QED BY <3>1, <2>8, <1>1
  <2> DEFINE T == same(l)
             g == [k \in F |-> Hit(r, f, k)]
  <2>10. \A k \in F : g[k] \in T /\ g[k].line = k.line
    <3>1. \A k \in F : k \in AddedLines(f) /\ k.text = l.text /\ k.line < l.line /\ Cardinality(Earlier(f, k)) < MaxPerKey
      BY <2>1, <2>7
    <3> HIDE DEF F
    <3>2. QED BY <1>2, <3>1
  <2>11. g \in Injection(F, T)
    <3>1. g \in [F -> T]
      BY <2>10
    <3> HIDE DEF g, T
    <3>2. \A j, k \in F : g[j] = g[k] => j = k
      <4>1. \A j, k \in AddedLines(f) : j.line = k.line => j = k
        BY <1>1, AddedArePlain
      <4>2. QED BY <4>1, <2>1, <2>7, <2>10
    <3>3. QED BY <3>1, <3>2 DEF Injection, IsInjective
  <2>12. IsFiniteSet(T)
    <3>1. T \in SUBSET AllHits(files) /\ IsFiniteSet(AllHits(files))
      BY HitsAre
    <3> HIDE DEF T
    <3>2. QED BY <3>1, FS_Subset
  <2> HIDE DEF F, T, g
  <2>13. Cardinality(F) <= Cardinality(T) /\ Cardinality(T) \in Nat
    BY <2>11, <2>12, FS_Injection, FS_CardinalityType
  <2>14. Cardinality(T) >= MaxPerKey
    BY <1>1, <2>8, <2>9, <2>13
  <2>15. QED BY <2>14 DEF T
<1>5. QED BY <1>3, <1>4

\* A hit names what the page shows, and uncut hits are complete: HitsAreShown.
LEMMA HitsShown ==
  ASSUME comparison \in Comparisons, artifact = Analysis(comparison) PROVE HitsAreShown
<1> DEFINE files == comparison
           all == AllHits(files)
           hunk(n) == Range(artifact.hunks[n])
           hits(n, r) == {h \in artifact.hits : h.path = files[n].path /\ h.rule = r}
           shown(l) == [line |-> l.line, kind |-> "added", text |-> l.text]
<1>1. artifact.hits = RuleHits(files) /\ artifact.hunks = [i \in DOMAIN files |-> Hunk(files[i])]
  BY DEF Analysis
<1>2. artifact.hits \subseteq all /\ (Cardinality(artifact.hits) < MaxHits => artifact.hits = all)
  BY <1>1, HitsAreAll
<1>3. \A n \in DOMAIN files : artifact.hunks[n] = Hunk(files[n])
  BY <1>1
<1> HIDE DEF all
<1>4. ASSUME NEW n \in DOMAIN files, IsReadAsItIs(files[n]), NEW r \in DOMAIN TeamRules, NEW h \in hits(n, r)
      PROVE  shown(h) \in hunk(n) /\ shown(h) \in Range(h.context) /\ Range(h.context) \subseteq hunk(n)
  <2>1. h \in all /\ h.path = files[n].path
    BY <1>2, <1>4
  <2>2. QED BY <2>1, <1>3, <1>4, ShownHits DEF all
<1>5. ASSUME NEW n \in DOMAIN files, IsReadAsItIs(files[n]), Cardinality(artifact.hits) < MaxHits, ~files[n].own,
             NEW r \in DOMAIN TeamRules, NEW l \in hunk(n), l.kind = "added", l.text \in TeamRules[r].texts,
             ~TeamRules[r].block, AppliesTo(r, files[n])
      PROVE  \/ \E h \in hits(n, r) : h.line = l.line
             \/ Cardinality({h \in hits(n, r) : h.text = l.text /\ h.line < l.line}) >= MaxPerKey
  <2>1. artifact.hits = AllHits(files)
    BY <1>2, <1>5 DEF all
  <2>2. files[n] \in ChangedFile
    BY DistinctPaths
  <2>3. l \in AddedLines(files[n])
    BY <1>3, <1>5, <2>2, AddedArePlain
  <2>4. \/ \E h \in AllHits(files) : h.path = files[n].path /\ h.rule = r /\ h.line = l.line
        \/ Cardinality({h \in AllHits(files) : /\ h.path = files[n].path /\ h.rule = r
                                               /\ h.text = l.text /\ h.line < l.line}) >= MaxPerKey
    BY <1>5, <2>3, EnoughHits
  <2>5. {h \in AllHits(files) : h.path = files[n].path /\ h.rule = r /\ h.text = l.text /\ h.line < l.line}
          = {h \in hits(n, r) : h.text = l.text /\ h.line < l.line}
    BY <2>1
  <2>6. QED BY <2>1, <2>4, <2>5
<1>6. QED BY <1>4, <1>5 DEF HitsAreShown

(* --------------------------- related blocks ---------------------------- *)

\* The roots after one file was joined with the later ones, and after all.
JoinedRoots(files, r, i) ==
  [m \in 1 .. Len(files) |->
     IF \E j \in (i + 1) .. Len(files) : Shared(files[i], files[j]) /\ r[m] = r[j] THEN r[i] ELSE r[m]]

Roots(files, f) ==
  f = [i \in 0 .. Len(files) |-> IF i = 0 THEN [m \in 1 .. Len(files) |-> m] ELSE JoinedRoots(files, f[i - 1], i)]

Class(files, r, i) == {m \in 1 .. Len(files) : r[m] = r[i]}
PathsOf(files, S) == {files[k].path : k \in S}

GroupsAre(files, r) == Groups(files) = {PathsOf(files, Class(files, r, i)) : i \in 1 .. Len(files)}

\* The roots are there, and the groups are made from the last of them.
LEMMA RootsExist ==
  ASSUME NEW files, Len(files) \in Nat
  PROVE  \E f : Roots(files, f) /\ GroupsAre(files, f[Len(files)])
<1> DEFINE n == Len(files)
           D == [1 .. n -> 1 .. n]
           z == [m \in 1 .. n |-> m]
           body(r, i) == JoinedRoots(files, r, i)
           step == [i \in 1 .. n |-> [r \in D |-> body(r, i)]]
<1>1. z \in D /\ \A r \in D, i \in 1 .. n : body(r, i) \in D
  BY DEF JoinedRoots
<1>2. step \in [1 .. n -> [D -> D]]
  <2> HIDE DEF body, D
  <2>1. QED BY <1>1
<1>3. PICK f : Recursive(f, n, D, z, step)
  <2> HIDE DEF D, step, z
  <2>1. z \in D
    BY <1>1
  <2>2. QED BY <1>2, <2>1, Recursion
<1>4. \A i \in 0 .. n : i # 0 => i \in 1 .. n /\ i - 1 \in 0 .. n
  OBVIOUS
<1>5. \A i \in 0 .. n : f[i] = IF i = 0 THEN z ELSE body(f[i - 1], i)
  <2> HIDE DEF body, D, z
  <2>1. QED BY <1>3, <1>4 DEF Recursive
<1>6. f = [i \in 0 .. n |-> IF i = 0 THEN z ELSE body(f[i - 1], i)]
  <2> HIDE DEF body, D, z
  <2>1. QED BY <1>3, <1>5 DEF Recursive
<1>7. Roots(files, f)
  BY <1>6 DEF Roots
<1> DEFINE w == CHOOSE w : Roots(files, w)
<1>8. Groups(files) = {{files[k].path : k \in {m \in 1 .. n : w[n][m] = w[n][i]}} : i \in 1 .. n}
  BY DEF Groups, Roots, JoinedRoots
<1> HIDE DEF w
<1>9. Roots(files, w)
  BY <1>7 DEF w
<1>10. GroupsAre(files, w[n])
  BY <1>8 DEF GroupsAre, PathsOf, Class
<1>11. QED BY <1>9, <1>10

\* A set of positions that holds whatever shares a signal with one of them.
Closed(files, S) == \A i \in S, j \in 1 .. Len(files) : Shared(files[i], files[j]) => j \in S

LEMMA SharedBack == \A f, g : Shared(f, g) => Shared(g, f)
<1> SUFFICES ASSUME NEW f, NEW g, Shared(f, g) PROVE Shared(g, f)
  OBVIOUS
<1>1. f.words \cap g.words = g.words \cap f.words /\ f.tokens \cap g.tokens = g.tokens \cap f.tokens
  OBVIOUS
<1>2. QED BY <1>1 DEF Shared

\* What has the same root belongs together, and what the files joined so far
\* share with later ones has the same root.
Together(files, r, i) ==
  /\ r \in [1 .. Len(files) -> 1 .. Len(files)]
  /\ \A a, m \in 1 .. Len(files), S \in SUBSET (1 .. Len(files)) :
       r[a] = r[m] /\ Closed(files, S) /\ a \in S => m \in S
  /\ \A a, j \in 1 .. Len(files) : a <= i /\ a < j /\ Shared(files[a], files[j]) => r[a] = r[j]

\* Joining one file with the later ones keeps what belongs together.
LEMMA JoinedStep ==
  ASSUME NEW files, Len(files) \in Nat, NEW i \in 1 .. Len(files), NEW r, Together(files, r, i - 1)
  PROVE  Together(files, JoinedRoots(files, r, i), i)
<1> DEFINE N == 1 .. Len(files)
           s == JoinedRoots(files, r, i)
           moved(m) == \E j \in N : i < j /\ Shared(files[i], files[j]) /\ r[m] = r[j]
<1>1. /\ r \in [N -> N]
      /\ \A a, m \in N, S \in SUBSET N : r[a] = r[m] /\ Closed(files, S) /\ a \in S => m \in S
      /\ \A a, j \in N : a <= i - 1 /\ a < j /\ Shared(files[a], files[j]) => r[a] = r[j]
  BY DEF Together
<1>2. \A m \in N : s[m] = IF moved(m) THEN r[i] ELSE r[m]
  <2>1. \A j : j \in (i + 1) .. Len(files) <=> j \in N /\ i < j
    OBVIOUS
  <2>2. QED BY <2>1 DEF JoinedRoots
<1>3. s \in [N -> N]
  BY <1>1 DEF JoinedRoots
<1> HIDE DEF s
<1>4. ASSUME NEW a \in N, NEW m \in N, NEW S \in SUBSET N, s[a] = s[m], Closed(files, S), a \in S
      PROVE  m \in S
  <2>1. \A j \in N : Shared(files[i], files[j]) => (i \in S <=> j \in S)
    BY <1>4, SharedBack DEF Closed
  <2>2. \A c, d \in N : r[c] = r[d] /\ c \in S => d \in S
    BY <1>1, <1>4
  <2>3. \A c \in N : moved(c) => (c \in S <=> i \in S)
    BY <2>1, <2>2
  <2>4. CASE moved(a) /\ moved(m)
    BY <2>3, <2>4, <1>4
  <2>5. CASE moved(a) /\ ~moved(m)
    <3>1. i \in S /\ r[m] = r[i]
      BY <2>3, <2>5, <1>2, <1>4
    <3>2. QED BY <3>1, <2>2
  <2>6. CASE ~moved(a) /\ moved(m)
    <3>1. r[a] = r[i]
      BY <2>6, <1>2, <1>4
    <3>2. i \in S
      BY <3>1, <2>2, <1>4
    <3>3. QED BY <3>2, <2>3, <2>6
  <2>7. CASE ~moved(a) /\ ~moved(m)
    <3>1. r[a] = r[m]
      BY <2>7, <1>2, <1>4
    <3>2. QED BY <3>1, <2>2, <1>4
  <2>8. QED BY <2>4, <2>5, <2>6, <2>7
<1>5. ASSUME NEW a \in N, NEW j \in N, a <= i, a < j, Shared(files[a], files[j])
      PROVE  s[a] = s[j]
  <2>1. CASE a = i
    <3>1. moved(j)
      BY <1>5, <2>1
    <3>2. s[j] = r[i] /\ s[a] = r[i]
      BY <3>1, <1>2, <2>1
    <3>3. QED BY <3>2
  <2>2. CASE a # i
    <3>1. a <= i - 1
      BY <1>5, <2>2
    <3>2. r[a] = r[j]
      BY <3>1, <1>1, <1>5
    <3>3. QED BY <3>2, <1>2
  <2>3. QED BY <2>1, <2>2
<1>6. QED BY <1>3, <1>4, <1>5 DEF Together, s

\* What is in every closed set that holds a position.
Component(files, i) == {j \in 1 .. Len(files) : \A S \in SUBSET (1 .. Len(files)) : i \in S /\ Closed(files, S) => j \in S}

LEMMA ClassesAreComponents ==
  ASSUME NEW files, Len(files) \in Nat
  PROVE  \E r : /\ GroupsAre(files, r)
                /\ \A i \in 1 .. Len(files) : Class(files, r, i) = Component(files, i)
<1> DEFINE n == Len(files)
<1>1. PICK f : Roots(files, f) /\ GroupsAre(files, f[n])
  BY RootsExist
<1> DEFINE Good == {i \in 0 .. n : Together(files, f[i], i)}
<1>2. 0 \in Good
  <2>1. f[0] = [m \in 1 .. n |-> m]
    BY <1>1 DEF Roots
  <2>2. f[0] \in [1 .. n -> 1 .. n] /\ \A m \in 1 .. n : f[0][m] = m
    BY <2>1
  <2>3. \A a \in 1 .. n : ~(a <= 0)
    OBVIOUS
  <2>4. Together(files, f[0], 0)
    BY <2>2, <2>3 DEF Together
  <2>5. QED BY <2>4
<1>3. ASSUME NEW i \in 1 .. n, i - 1 \in Good PROVE i \in Good
  <2>1. i \in 0 .. n /\ i # 0
    OBVIOUS
  <2>2. f[i] = JoinedRoots(files, f[i - 1], i)
    BY <1>1, <2>1 DEF Roots
  <2>3. Together(files, f[i], i)
    BY <1>3, <2>2, JoinedStep
  <2>4. QED BY <2>1, <2>3
<1>4. Together(files, f[n], n)
  <2> HIDE DEF Good
  <2>1. \A i \in 1 .. n : i - 1 \in Good => i \in Good
    BY <1>3
  <2>2. \A i \in 0 .. n : i \in Good
    BY <1>2, <2>1, UpTo
  <2>3. n \in Good
    BY <2>2
  <2>4. QED BY <2>3 DEF Good
<1> DEFINE r == f[n]
<1> HIDE DEF r
<1>5. /\ \A a, m \in 1 .. n, S \in SUBSET (1 .. n) : r[a] = r[m] /\ Closed(files, S) /\ a \in S => m \in S
      /\ \A a, j \in 1 .. n : a < j /\ Shared(files[a], files[j]) => r[a] = r[j]
  BY <1>4 DEF Together, r
<1>6. ASSUME NEW i \in 1 .. n PROVE Class(files, r, i) = Component(files, i)
  <2> DEFINE C == Class(files, r, i)
  <2>1. \A m : m \in C <=> m \in 1 .. n /\ r[m] = r[i]
    BY DEF Class
  <2>2. Closed(files, C)
    <3>1. ASSUME NEW a \in C, NEW j \in 1 .. n, Shared(files[a], files[j]) PROVE r[j] = r[a]
      <4>1. a \in 1 .. n /\ Shared(files[j], files[a])
        BY <2>1, <3>1, SharedBack
      <4>2. a < j \/ j < a \/ a = j
        BY <4>1
      <4>3. QED BY <1>5, <3>1, <4>1, <4>2
    <3>2. QED BY <2>1, <3>1 DEF Closed
  <2>3. C \in SUBSET (1 .. n) /\ i \in C
    BY <2>1
  <2> HIDE DEF C
  <2>4. \A j \in Component(files, i) : j \in C
    BY <2>2, <2>3 DEF Component
  <2>5. \A j \in C : j \in Component(files, i)
    BY <1>5, <2>1 DEF Component
  <2>6. QED BY <2>4, <2>5 DEF C
<1>7. GroupsAre(files, r)
  BY <1>1 DEF r
<1>8. QED BY <1>6, <1>7

\* Files have different paths.
LEMMA PathsCount ==
  ASSUME NEW files, \A i, j \in 1 .. Len(files) : files[i].path = files[j].path => i = j,
         Len(files) \in Nat, NEW S \in SUBSET (1 .. Len(files))
  PROVE  IsFiniteSet(S) /\ Cardinality(PathsOf(files, S)) = Cardinality(S)
<1> DEFINE g == [k \in S |-> files[k].path]
<1>1. g \in Surjection(S, PathsOf(files, S)) /\ g \in Injection(S, PathsOf(files, S))
  BY DEF Surjection, Injection, IsInjective, PathsOf
<1> HIDE DEF g
<1>2. IsFiniteSet(1 .. Len(files))
  BY FS_Interval
<1>3. IsFiniteSet(S)
  BY <1>2, FS_Subset
<1>4. QED BY <1>1, <1>3, FS_Surjection

\* The blocks of two files or more are the components: BlocksAreComponents.
LEMMA BlocksAre ==
  ASSUME comparison \in Comparisons, artifact = Analysis(comparison) PROVE BlocksAreComponents
<1> DEFINE files == comparison
           n == Len(files)
<1>1. n \in Nat /\ \A i, j \in 1 .. n : files[i].path = files[j].path => i = j
  BY DistinctPaths
<1>2. PICK r : GroupsAre(files, r) /\ \A i \in 1 .. n : Class(files, r, i) = Component(files, i)
  BY <1>1, ClassesAreComponents
<1>3. Groups(files) = {PathsOf(files, Component(files, i)) : i \in 1 .. n}
  BY <1>2 DEF GroupsAre
<1>4. \A i \in 1 .. n : Cardinality(PathsOf(files, Component(files, i))) = Cardinality(Component(files, i))
  <2>1. \A i \in 1 .. n : Component(files, i) \in SUBSET (1 .. n)
    BY DEF Component
  <2>2. QED BY <1>1, <2>1, PathsCount
<1>5. RelatedBlocks(files) = {PathsOf(files, Component(files, i)) : i \in {k \in 1 .. n : Cardinality(Component(files, k)) >= 2}}
  BY <1>3, <1>4 DEF RelatedBlocks
<1>6. artifact.blocks = RelatedBlocks(files)
  BY DEF Analysis
<1>7. QED BY <1>5, <1>6 DEF BlocksAreComponents, PathsOf, Component, Closed

(* ----------------------------- the report ------------------------------ *)

\* What a report holds is what the analysis of its comparison gives.
ReportInv ==
  /\ comparison \in Comparisons
  /\ artifact = NoArtifact \/ artifact = Analysis(comparison)

\* The three parts of ReportShowsWhatItRead from what the report holds.
LEMMA ReportShows == ASSUME ReportInv PROVE ReportShowsWhatItRead
<1>1. CASE artifact = NoArtifact
  <2>1. artifact.state # "available"
    BY <1>1 DEF NoArtifact
  <2>2. QED BY <1>1, <2>1 DEF ReportShowsWhatItRead, AvailableMeansComplete, HitsAreShown, BlocksAreComponents
<1>2. CASE artifact = Analysis(comparison)
  BY <1>2, ReportIsComplete, HitsShown, BlocksAre DEF ReportInv, ReportShowsWhatItRead
<1>3. QED BY <1>1, <1>2 DEF ReportInv

\* Whatever commits are compared under whatever rules and limits, the report shows
\* what was computed from the diff that was read, or that flags and questions were
\* limited: ReportShowsWhatItRead. Of a diff that is not found, of lines that look
\* like git's own and of hits that were cut it says nothing.
THEOREM ReportsShowWhatTheyRead == ArtifactSpec => []ReportShowsWhatItRead
<1>1. ArtifactInit => ReportInv
  BY DEF ArtifactInit, ReportInv
<1>2. ReportInv /\ [Analyse]_artifactVars => ReportInv'
  BY DEF ReportInv, Analyse, artifactVars
<1>3. ReportInv => ReportShowsWhatItRead
  BY ReportShows
<1>4. QED BY <1>1, <1>2, <1>3, PTL DEF ArtifactSpec

(* ------------------------- ConfigCascade ------------------------- *)

(* ------------------------- folding a cascade --------------------------- *)

\* The recursive function behind FoldLeft over the files with indices in S:
\* the last file is applied last.
IsFold(h, S, files) ==
  h = [s \in SUBSET S |-> IF s = {} THEN Defaults
                          ELSE Apply(h[s \ {Max(s)}], files[Max(s)])]
Fold(S, files) == CHOOSE h : IsFold(h, S, files)

LEMMA FoldUnfold ==
  ASSUME NEW files
  PROVE  FoldLeft(Apply, Defaults, files) = Fold(DOMAIN files, files)[DOMAIN files]
BY DEF FoldLeft, MapThenFoldSet, Fold, IsFold

Indices(S) == S \subseteq Nat
Same(c, d, V) == \A i \in V : c[i] = d[i]

\* Folds agree on the files that two cascades have in common.
LEMMA FoldsAgree ==
  ASSUME NEW S, NEW V, Indices(V), V \subseteq S, IsFiniteSet(V),
         NEW c, NEW d, Same(c, d, V),
         NEW g, NEW h, IsFold(g, S, c), IsFold(h, V, d)
  PROVE  g[V] = h[V]
<1> DEFINE Apart == {s \in FiniteSubsetsOf(V) : g[s] # h[s]}
<1>1. SUFFICES ASSUME Apart # {} PROVE FALSE
  BY DEF FiniteSubsetsOf
<1>2. PICK s \in Apart : \A q \in Apart : q \subseteq s => q = s
  <2>1. Apart \subseteq FiniteSubsetsOf(V) /\ Apart # {}
    BY <1>1
  <2> HIDE DEF Apart
  <2>2. QED BY <2>1, SmallestSet
<1>3. s \in SUBSET V /\ s \in SUBSET S /\ IsFiniteSet(s) /\ g[s] # h[s]
  BY DEF FiniteSubsetsOf
<1>4. s # {}
  BY <1>3 DEF IsFold
<1>5. Max(s) \in s
  BY <1>3, <1>4, MaxIsIn DEF Indices
<1>6. s \ {Max(s)} \in FiniteSubsetsOf(V)
  BY <1>3, FS_RemoveElement DEF FiniteSubsetsOf
<1>7. g[s \ {Max(s)}] = h[s \ {Max(s)}]
  BY <1>2, <1>5, <1>6
<1>8. /\ g[s] = Apply(g[s \ {Max(s)}], c[Max(s)])
      /\ h[s] = Apply(h[s \ {Max(s)}], d[Max(s)])
  BY <1>3, <1>4 DEF IsFold
<1>9. c[Max(s)] = d[Max(s)]
  BY <1>3, <1>5 DEF Same
<1>10. QED BY <1>3, <1>7, <1>8, <1>9

\* Every finite cascade has its fold.
LEMMA FoldExists ==
  ASSUME NEW S, IsFiniteSet(S), S \subseteq Nat, NEW c
  PROVE  IsFold(Fold(S, c), S, c)
<1> DEFINE Without == {s \in FiniteSubsetsOf(S) : ~ \E h : IsFold(h, s, c)}
<1>1. SUFFICES ASSUME Without # {} PROVE FALSE
  BY DEF FiniteSubsetsOf, Fold
<1>2. PICK s \in Without : \A q \in Without : q \subseteq s => q = s
  <2>1. Without \subseteq FiniteSubsetsOf(S) /\ Without # {}
    BY <1>1
  <2> HIDE DEF Without
  <2>2. QED BY <2>1, SmallestSet
<1>3. s \in SUBSET S /\ IsFiniteSet(s) /\ ~ \E h : IsFold(h, s, c)
  BY DEF FiniteSubsetsOf
<1>4. \A q \in SUBSET s : q # s => IsFiniteSet(q) /\ IsFold(Fold(q, c), q, c)
  <2>1. \A q \in SUBSET s : q \in FiniteSubsetsOf(S)
    BY <1>3, FS_Subset DEF FiniteSubsetsOf
  <2>2. QED BY <1>2, <2>1 DEF Fold, FiniteSubsetsOf
<1>5. \A q \in SUBSET s : q # {} => Max(q) \in q /\ q \subseteq Nat
  BY <1>3, FS_Subset, MaxIsIn
<1> DEFINE h == [q \in SUBSET s |-> IF q = {} THEN Defaults
                   ELSE Apply(Fold(q \ {Max(q)}, c)[q \ {Max(q)}], c[Max(q)])]
<1>6. ASSUME NEW q \in SUBSET s, q # {}
      PROVE  h[q \ {Max(q)}] = Fold(q \ {Max(q)}, c)[q \ {Max(q)}]
  <2> DEFINE u == q \ {Max(q)}
             v == u \ {Max(u)}
  <2>1. Max(q) \in q /\ u \in SUBSET s /\ u # s
    BY <1>5, <1>6
  <2>2. IsFiniteSet(u) /\ IsFold(Fold(u, c), u, c)
    BY <1>4, <2>1
  <2>3. CASE u = {}
    BY <2>1, <2>2, <2>3 DEF IsFold
  <2>4. CASE u # {}
    <3>1. Max(u) \in u /\ v \in SUBSET u /\ v \in SUBSET s /\ v # s /\ u \subseteq Nat
      BY <1>5, <2>1, <2>4
    <3>2. IsFiniteSet(v) /\ IsFold(Fold(v, c), v, c) /\ Indices(v) /\ Same(c, c, v)
      BY <1>4, <3>1 DEF Indices, Same
    <3>3. Fold(u, c)[v] = Fold(v, c)[v]
      BY <2>2, <3>1, <3>2, FoldsAgree
    <3>4. Fold(u, c)[u] = Apply(Fold(u, c)[v], c[Max(u)])
      BY <2>2, <2>4 DEF IsFold
    <3>5. h[u] = Apply(Fold(v, c)[v], c[Max(u)])
      BY <2>1, <2>4
    <3>6. QED BY <3>3, <3>4, <3>5
  <2>5. QED BY <2>3, <2>4
<1>7. h = [q \in SUBSET s |-> IF q = {} THEN Defaults
                              ELSE Apply(h[q \ {Max(q)}], c[Max(q)])]
  BY <1>6
<1>8. IsFold(h, s, c)
  BY <1>7 DEF IsFold
<1>9. QED BY <1>3, <1>8

\* The last of n files is applied last.
LEMMA FoldLast ==
  ASSUME NEW n \in Nat, n >= 1, NEW a, NEW b, \A i \in 1 .. n - 1 : a[i] = b[i]
  PROVE  Fold(1 .. n, a)[1 .. n] = Apply(Fold(1 .. n - 1, b)[1 .. n - 1], a[n])
<1> DEFINE S == 1 .. n
           V == 1 .. n - 1
           last == Fold(S, a)
           above == Fold(V, b)
<1>1. IsFiniteSet(S) /\ IsFiniteSet(V) /\ S \subseteq Nat /\ V \subseteq Nat /\ V \subseteq S
  BY SMTT(60), FS_Interval
<1>2. n \in S /\ S \ {n} = V /\ \A y \in S : n >= y
  OBVIOUS
<1>3. Same(a, b, V) /\ Indices(V) /\ IsFiniteSet(V) /\ V \subseteq S
  BY <1>1 DEF Same, Indices
<1> HIDE DEF S, V
<1>4. IsFold(last, S, a) /\ IsFold(above, V, b)
  BY <1>1, FoldExists
<1>5. Max(S) = n
  <2>1. Max(S) \in S /\ \A y \in S : Max(S) >= y
    BY <1>1, <1>2, MaxIsIn
  <2>2. Max(S) \in Nat /\ n >= Max(S) /\ Max(S) >= n
    BY <1>1, <1>2, <2>1
  <2>3. QED BY <2>2
<1> HIDE DEF S, V
<1>6. last[V] = above[V]
  BY <1>3, <1>4, FoldsAgree
<1>7. last[S] = Apply(last[S \ {Max(S)}], a[Max(S)])
  BY <1>2, <1>4 DEF IsFold
<1>8. last[S] = Apply(above[V], a[n])
  BY <1>2, <1>5, <1>6, <1>7
<1>9. QED BY <1>8 DEF last, above, S, V

\* What the first n files of a cascade come to, before the last check.
After(c, n) == FoldLeft(Apply, Defaults, SubSeq(c, 1, n))

\* It starts with the defaults, and every file is applied to what the ones
\* above it come to.
LEMMA AfterSteps ==
  ASSUME NEW X, NEW c \in Seq(X)
  PROVE  /\ After(c, 0) = Defaults
         /\ \A n \in 1 .. Len(c) : After(c, n) = Apply(After(c, n - 1), c[n])
<1>1. ASSUME NEW n \in 0 .. Len(c)
      PROVE  /\ IsFiniteSet(1 .. n) /\ 1 .. n \subseteq Nat
             /\ IsFold(Fold(1 .. n, SubSeq(c, 1, n)), 1 .. n, SubSeq(c, 1, n))
             /\ After(c, n) = Fold(1 .. n, SubSeq(c, 1, n))[1 .. n]
  <2>1. IsFiniteSet(1 .. n) /\ 1 .. n \subseteq Nat
    BY FS_Interval
  <2>2. DOMAIN SubSeq(c, 1, n) = 1 .. n
    OBVIOUS
  <2>3. QED BY <2>1, <2>2, FoldExists, FoldUnfold DEF After
<1>2. After(c, 0) = Defaults
  <2>1. 0 \in 0 .. Len(c) /\ 1 .. 0 = {}
    OBVIOUS
  <2>2. QED BY <1>1, <2>1 DEF IsFold
<1>3. ASSUME NEW n \in 1 .. Len(c)
      PROVE  After(c, n) = Apply(After(c, n - 1), c[n])
  <2>1. n \in 0 .. Len(c) /\ n - 1 \in 0 .. Len(c) /\ n \in Nat /\ n >= 1
    OBVIOUS
  <2>2. /\ \A i \in 1 .. n - 1 : SubSeq(c, 1, n)[i] = SubSeq(c, 1, n - 1)[i]
        /\ SubSeq(c, 1, n)[n] = c[n]
    OBVIOUS
  <2> DEFINE a == SubSeq(c, 1, n)
             b == SubSeq(c, 1, n - 1)
  <2>3. After(c, n) = Fold(1 .. n, a)[1 .. n] /\ After(c, n - 1) = Fold(1 .. n - 1, b)[1 .. n - 1]
    BY <1>1, <2>1
  <2>4. (\A i \in 1 .. n - 1 : a[i] = b[i]) /\ a[n] = c[n]
    BY <2>2
  <2> HIDE DEF a, b
  <2>5. Fold(1 .. n, a)[1 .. n] = Apply(Fold(1 .. n - 1, b)[1 .. n - 1], a[n])
    BY <2>1, <2>4, FoldLast
  <2>6. QED BY <2>3, <2>4, <2>5
<1>4. QED BY <1>2, <1>3

(* --------------------- what a configuration tightens ------------------- *)

\* A configuration is undecided, or it has every field.
Shaped(c) ==
  \/ c = Undecided
  \/ /\ c = [ok |-> TRUE, strictness |-> c.strictness, failOnP0 |-> c.failOnP0,
             maxInline |-> c.maxInline, types |-> c.types, disabled |-> c.disabled,
             repos |-> c.repos]
     /\ c.strictness \in Nat /\ c.failOnP0 \in BOOLEAN /\ IsFiniteSet(c.repos)

Tighter(c, d) ==
  \/ ~d.ok
  \/ /\ c.ok
     /\ c.strictness <= d.strictness
     /\ c.failOnP0 => d.failOnP0
     /\ c.disabled \subseteq d.disabled
     /\ c.repos \subseteq d.repos

\* One file more only tightens, and leaves a configuration decided only if it
\* has passed every check of the file.
LEMMA ApplyTightens ==
  ASSUME NEW c, Shaped(c), NEW next \in Files \cup {Absent}
  PROVE  /\ Shaped(Apply(c, next))
         /\ Tighter(c, Apply(c, next))
         /\ Apply(c, next).ok => c.ok /\ (next # Absent => Decodes(next))
<1>1. CASE next = Absent \/ ~c.ok
  <2>1. Apply(c, next) = c
    BY <1>1 DEF Apply
  <2>2. Tighter(c, c) /\ (c.ok => next = Absent)
    BY <1>1 DEF Tighter, Shaped, Undecided
  <2>3. QED BY <2>1, <2>2
<1>2. CASE next # Absent /\ c.ok /\ ~Decodes(next)
  <2>1. Apply(c, next) = Undecided
    BY <1>2 DEF Apply
  <2>2. QED BY <2>1 DEF Shaped, Tighter, Undecided
<1>3. CASE next # Absent /\ c.ok /\ Decodes(next)
  <2> DEFINE d == [ok         |-> TRUE,
                   strictness |-> IF next.strictness # Absent /\ next.strictness > c.strictness
                                  THEN next.strictness ELSE c.strictness,
                   failOnP0   |-> c.failOnP0 \/ next.failOnP0,
                   maxInline  |-> IF next.maxInline # Absent THEN next.maxInline ELSE c.maxInline,
                   types      |-> IF next.types # Absent THEN next.types ELSE c.types,
                   disabled   |-> c.disabled \cup next.disabled,
                   repos      |-> c.repos \cup next.repos]
  <2>1. c # Undecided
    BY <1>3 DEF Undecided
  <2>2. Apply(c, next) = d
    BY <1>3, <2>1 DEF Apply, Shaped
  <2>3. next.failOnP0 \in BOOLEAN /\ IsFiniteSet(next.repos)
    BY <1>3, CascadesAssumption
  <2>4. c.strictness \in Nat /\ c.failOnP0 \in BOOLEAN /\ IsFiniteSet(c.repos)
    BY <2>1 DEF Shaped
  <2>5. d.strictness \in Nat /\ c.strictness <= d.strictness
    BY <1>3, <2>4 DEF Decodes
  <2>6. d.failOnP0 \in BOOLEAN /\ (c.failOnP0 => d.failOnP0)
    BY <2>3, <2>4
  <2>7. IsFiniteSet(d.repos)
    BY <2>3, <2>4, FS_Union
  <2>8. Shaped(d)
    BY <2>5, <2>6, <2>7 DEF Shaped
  <2>9. Tighter(c, d)
    BY <1>3, <2>5, <2>6 DEF Tighter
  <2> HIDE DEF d
  <2>10. QED BY <1>3, <2>2, <2>8, <2>9
<1>4. QED BY <1>1, <1>2, <1>3

\* Tightening is transitive.
LEMMA TighterAgain ==
  ASSUME NEW a, NEW b, NEW c, Shaped(a), Shaped(b), Shaped(c), Tighter(a, b), Tighter(b, c)
  PROVE  Tighter(a, c)
<1>1. CASE ~c.ok
  BY <1>1 DEF Tighter
<1>2. CASE c.ok
  <2>1. b.ok /\ a.ok
    BY <1>2 DEF Tighter
  <2>2. a.strictness \in Nat /\ b.strictness \in Nat /\ c.strictness \in Nat
    BY <1>2, <2>1 DEF Shaped, Undecided
  <2>3. QED BY <1>2, <2>1, <2>2 DEF Tighter
<1>3. QED BY <1>1, <1>2

\* What the first files come to is a configuration, no laxer than what fewer
\* of them come to, and decided only if each of them has passed.
LEMMA CascadeTightens ==
  ASSUME NEW c \in Seq(Files \cup {Absent}), NEW i \in 0 .. Len(c), NEW j \in i .. Len(c)
  PROVE  /\ Shaped(After(c, j))
         /\ Tighter(After(c, i), After(c, j))
         /\ After(c, j).ok => \A k \in 1 .. j : c[k] # Absent => Decodes(c[k])
<1> DEFINE Passed(n) == After(c, n).ok => \A k \in 1 .. n : c[k] # Absent => Decodes(c[k])
           Good(n) == /\ Shaped(After(c, n)) /\ Passed(n)
                      /\ n >= i => Tighter(After(c, i), After(c, n))
           Bad == {n \in 0 .. Len(c) : ~Good(n)}
<1>1. SUFFICES ASSUME Bad # {} PROVE FALSE
  OBVIOUS
<1>2. PICK n \in Bad : \A m \in Bad : n <= m
  <2>1. Bad \subseteq Nat /\ Bad # {}
    BY <1>1
  <2> HIDE DEF Bad
  <2>2. QED BY <2>1, SmallestNumber
<1>3. n \in 0 .. Len(c) /\ ~Good(n) /\ Len(c) \in Nat
  OBVIOUS
<1>4. CASE n = 0
  <2>1. After(c, 0) = Defaults
    BY AfterSteps
  <2>2. IsFiniteSet({})
    BY FS_EmptySet
  <2>3. Shaped(Defaults)
    BY <2>2 DEF Shaped, Defaults
  <2>4. Tighter(Defaults, Defaults)
    BY DEF Tighter, Defaults
  <2>5. 0 >= i => i = 0
    OBVIOUS
  <2>6. QED BY <1>3, <1>4, <2>1, <2>3, <2>4, <2>5
<1>5. CASE n # 0
  <2>1. n \in 1 .. Len(c) /\ n - 1 \in 0 .. Len(c) /\ ~(n <= n - 1)
    BY <1>3, <1>5
  <2>2. Good(n - 1)
    BY <1>2, <2>1
  <2>3. c[n] \in Files \cup {Absent}
    BY <2>1
  <2> DEFINE b == After(c, n - 1)
             d == After(c, n)
  <2>4. d = Apply(b, c[n])
    BY <2>1, AfterSteps
  <2>5. Shaped(b) /\ Passed(n - 1)
    BY <2>2
  <2>6. Shaped(d) /\ Tighter(b, d) /\ (d.ok => b.ok /\ (c[n] # Absent => Decodes(c[n])))
    BY <2>3, <2>4, <2>5, ApplyTightens
  <2>7. Passed(n)
    <3>1. \A k \in 1 .. n : k = n \/ k \in 1 .. n - 1
      BY <2>1
    <3>2. QED BY <2>5, <2>6, <3>1
  <2>8. ASSUME n >= i PROVE Tighter(After(c, i), d)
    <3>1. CASE n = i
      BY <2>6, <3>1 DEF Tighter, Shaped, Undecided
    <3>2. CASE n # i
      <4>1. n - 1 >= i
        BY <2>1, <2>8, <3>2
      <4>2. Tighter(After(c, i), b)
        BY <2>2, <4>1
      <4>3. i \notin Bad
        BY <1>2, <2>1, <4>1
      <4>4. Shaped(After(c, i))
        BY <4>3
      <4>5. QED BY <2>5, <2>6, <4>2, <4>4, TighterAgain
    <3>3. QED BY <3>1, <3>2
  <2>9. QED BY <1>3, <2>6, <2>7, <2>8
<1>6. QED BY <1>4, <1>5

\* What a run of the cascade has resolved so far.
ResolvedAlongTheWay ==
  /\ cascade \in Seq(Files \cup {Absent})
  /\ resolved \in Seq({ResolveConfig(SubSeq(cascade, 1, n)) : n \in 0 .. Len(cascade)})
  /\ Len(resolved) <= Len(cascade) + 1
  /\ \A i \in DOMAIN resolved : resolved[i] = ResolveConfig(SubSeq(cascade, 1, i - 1))

LEMMA ResolveCascadeInv ==
  ASSUME ResolvedAlongTheWay, [ResolveCascade]_cascadeVars
  PROVE  ResolvedAlongTheWay'
<1>1. CASE UNCHANGED cascadeVars
  BY <1>1 DEF ResolvedAlongTheWay, cascadeVars
<1>2. CASE ResolveCascade
  <2> DEFINE next == ResolveConfig(SubSeq(cascade, 1, Len(resolved)))
             Results == {ResolveConfig(SubSeq(cascade, 1, n)) : n \in 0 .. Len(cascade)}
  <2>1. cascade' = cascade /\ resolved' = Append(resolved, next) /\ Len(resolved) <= Len(cascade)
    BY <1>2 DEF ResolveCascade
  <2>2. resolved \in Seq(Results) /\ Len(resolved) \in Nat /\ Len(cascade) \in Nat
    BY DEF ResolvedAlongTheWay
  <2>3. next \in Results
    BY <2>1, <2>2
  <2>4. \A i \in DOMAIN resolved : resolved[i] = ResolveConfig(SubSeq(cascade, 1, i - 1))
    BY DEF ResolvedAlongTheWay
  <2> HIDE DEF Results
  <2>5. /\ resolved' \in Seq(Results) /\ Len(resolved') = Len(resolved) + 1
        /\ DOMAIN resolved' = 1 .. Len(resolved) + 1
        /\ \A i \in DOMAIN resolved : resolved'[i] = resolved[i]
        /\ resolved'[Len(resolved) + 1] = next
    BY <2>1, <2>2, <2>3
  <2>6. ASSUME NEW i \in DOMAIN resolved'
        PROVE  resolved'[i] = ResolveConfig(SubSeq(cascade, 1, i - 1))
    <3>1. CASE i = Len(resolved) + 1
      <4>1. i - 1 = Len(resolved)
        BY <2>2, <3>1
      <4>2. QED BY <2>5, <3>1, <4>1
    <3>2. CASE i # Len(resolved) + 1
      <4>1. i \in DOMAIN resolved
        BY <2>2, <2>5, <2>6, <3>2
      <4>2. QED BY <2>4, <2>5, <4>1
    <3>3. QED BY <3>1, <3>2
  <2>7. Len(resolved') <= Len(cascade) + 1
    BY <2>1, <2>2, <2>5
  <2>8. QED BY <2>1, <2>5, <2>6, <2>7 DEF ResolvedAlongTheWay, Results
<1>3. QED BY <1>1, <1>2

\* For every cascade: strictness and failing on a P0 only become stricter on the
\* way down, disabled rules and repositories are only added to, and what is decided
\* has passed every check of each of its files.
THEOREM ConfigCascadeOnlyTightens == CascadeSpec => []ConfigOnlyTightens
<1>1. CascadeInit => ResolvedAlongTheWay
  BY CascadesAssumption DEF CascadeInit, ResolvedAlongTheWay
<1>2. ResolvedAlongTheWay /\ [ResolveCascade]_cascadeVars => ResolvedAlongTheWay'
  BY ResolveCascadeInv
<1>3. ResolvedAlongTheWay => ConfigOnlyTightens
  <2> SUFFICES ASSUME ResolvedAlongTheWay, NEW i \in DOMAIN resolved, NEW j \in DOMAIN resolved,
                      i < j, resolved[j].ok
               PROVE  /\ resolved[i].ok
                      /\ resolved[i].strictness <= resolved[j].strictness
                      /\ resolved[i].failOnP0 => resolved[j].failOnP0
                      /\ resolved[i].disabled \subseteq resolved[j].disabled
                      /\ resolved[i].repos \subseteq resolved[j].repos
                      /\ Cardinality(resolved[j].repos) <= MaxRepos
                      /\ \A k \in 1 .. j - 1 : cascade[k] # Absent => Decodes(cascade[k])
    BY DEF ConfigOnlyTightens
  <2> DEFINE a == After(cascade, i - 1)
             b == After(cascade, j - 1)
  <2>1. /\ cascade \in Seq(Files \cup {Absent})
        /\ i - 1 \in 0 .. Len(cascade) /\ j - 1 \in (i - 1) .. Len(cascade)
    BY DEF ResolvedAlongTheWay
  <2>2. /\ resolved[i] = IF a.ok /\ Cardinality(a.repos) > MaxRepos THEN Undecided ELSE a
        /\ resolved[j] = IF b.ok /\ Cardinality(b.repos) > MaxRepos THEN Undecided ELSE b
    BY DEF ResolvedAlongTheWay, ResolveConfig, After
  <2>3. /\ Shaped(b) /\ Tighter(a, b)
        /\ b.ok => \A k \in 1 .. j - 1 : cascade[k] # Absent => Decodes(cascade[k])
    BY <2>1, CascadeTightens
  <2> HIDE DEF a, b
  <2>4. b.ok /\ resolved[j] = b /\ ~(Cardinality(b.repos) > MaxRepos)
    BY <2>2 DEF Undecided
  <2>5. a.ok /\ a.repos \subseteq b.repos /\ IsFiniteSet(b.repos)
    BY <2>3, <2>4 DEF Tighter, Shaped, Undecided
  <2>6. Cardinality(a.repos) <= Cardinality(b.repos)
        /\ Cardinality(a.repos) \in Nat /\ Cardinality(b.repos) \in Nat
    BY <2>5, FS_Subset, FS_CardinalityType
  <2>7. resolved[i] = a /\ Cardinality(b.repos) <= MaxRepos
    BY <2>2, <2>4, <2>6, CascadesAssumption
  <2>8. QED BY <2>3, <2>4, <2>7 DEF Tighter
<1>4. QED BY <1>1, <1>2, <1>3, PTL DEF CascadeSpec

(* ------------------------------ CodeGraph ------------------------------ *)

Things(P, thing) == {thing[i] : i \in P}

\* F has the n first of the things of T, or all of them.
HasFirst(F, T, n) ==
  /\ F \subseteq T /\ IsFiniteSet(F) /\ IsFiniteSet(T)
  /\ Cardinality(F) = AtMost(n, Cardinality(T))
  /\ Cardinality(T) <= n => F = T

\* A loop that collects until it has n things has all of them, or n of them.
LEMMA FirstOfIs ==
  ASSUME NEW P, P \subseteq Nat, IsFiniteSet(P), NEW thing, NEW n \in Nat
  PROVE  HasFirst(FirstOf(P, thing, n), Things(P, thing), n)
<1> DEFINE B(i) == {j \in P : j < i}
           Before(i) == {thing[j] : j \in B(i)}
           G == {i \in P : Cardinality(Before(i)) < n}
           T == {thing[i] : i \in P}
           F == {thing[i] : i \in G}
<1>1. F = FirstOf(P, thing, n)
  BY DEF FirstOf
<1>2. \A i : B(i) \subseteq P
  OBVIOUS
<1>3. \A i : IsFiniteSet(Before(i)) /\ Cardinality(Before(i)) \in Nat
  <2>1. \A i : IsFiniteSet(B(i))
    <3> HIDE DEF B
    <3>1. QED BY <1>2, FS_Subset
  <2> HIDE DEF B
  <2>2. QED BY <2>1, ImageIsFinite
<1>4. IsFiniteSet(T) /\ Cardinality(T) \in Nat
  BY ImageIsFinite
<1>5. G \in SUBSET P /\ F \in SUBSET T
  OBVIOUS
<1>6. IsFiniteSet(F) /\ Cardinality(F) \in Nat /\ Cardinality(F) <= Cardinality(T) /\ IsFiniteSet(G)
  <2> HIDE DEF F, T, G
  <2>1. QED BY <1>4, <1>5, FS_Subset, FS_CardinalityType
<1>7. Cardinality(F) <= n
  <2>1. CASE G = {}
    <3>1. F = {}
      BY <2>1
    <3> HIDE DEF F, G
    <3>2. QED BY <3>1, FS_EmptySet
  <2>2. CASE G # {}
    <3>1. PICK m \in G : \A k \in G : k <= m
      <4>1. G \subseteq Nat
        BY <1>5
      <4> HIDE DEF G
      <4>2. QED BY <1>6, <2>2, <4>1, LastNumber
    <3>2. F \subseteq Before(m) \cup {thing[m]}
      <4>1. SUFFICES ASSUME NEW k \in G PROVE thing[k] \in Before(m) \cup {thing[m]}
        OBVIOUS
      <4>2. k \in Nat /\ m \in Nat /\ k \in P /\ k <= m
        BY <3>1
      <4>3. k = m \/ k \in B(m)
        BY <4>2
      <4>4. QED BY <4>3
    <3>3. Cardinality(Before(m)) < n
      BY <3>1
    <3> HIDE DEF F, Before, G
    <3>4. /\ IsFiniteSet(Before(m) \cup {thing[m]}) /\ Cardinality(Before(m)) \in Nat
          /\ Cardinality(Before(m) \cup {thing[m]}) <= Cardinality(Before(m)) + 1
      BY <1>3, FS_AddElement
    <3>5. Cardinality(F) <= Cardinality(Before(m) \cup {thing[m]}) /\ Cardinality(Before(m) \cup {thing[m]}) \in Nat
      BY <3>2, <3>4, FS_Subset, FS_CardinalityType
    <3>6. QED BY <1>6, <3>3, <3>4, <3>5
  <2>3. QED BY <2>1, <2>2
<1>8. CASE G = P
  <2>1. F = T
    BY <1>8
  <2> HIDE DEF F, T, G
  <2>2. QED BY <1>1, <1>4, <1>6, <1>7, <2>1 DEF AtMost, T, HasFirst, Things
<1>9. CASE G # P
  <2>1. PICK m \in P \ G : \A k \in P \ G : m <= k
    <3>1. P \ G \subseteq Nat /\ P \ G # {}
      BY <1>5, <1>9
    <3> HIDE DEF G
    <3>2. QED BY <3>1, SmallestNumber
  <2>2. ~(Cardinality(Before(m)) < n)
    BY <2>1
  <2>3. \A k \in B(m) : k \in G
    <3>1. SUFFICES ASSUME NEW k \in B(m) PROVE k \in G
      OBVIOUS
    <3>2. k \in P /\ k \in Nat /\ m \in Nat /\ ~(m <= k)
      BY <2>1
    <3> HIDE DEF G
    <3>3. QED BY <2>1, <3>2
  <2>4. Before(m) \subseteq F
    BY <2>3
  <2>5. Cardinality(Before(m)) <= Cardinality(F) /\ Cardinality(Before(m)) \in Nat
    <3> HIDE DEF Before, F
    <3>1. QED BY <1>3, <1>6, <2>4, FS_Subset
  <2> HIDE DEF F, T, G, Before
  <2>6. Cardinality(F) = n
    BY <1>6, <1>7, <2>2, <2>5
  <2>7. Cardinality(T) <= n => F = T
    <3>1. ASSUME Cardinality(T) <= n PROVE F = T
      <4>1. Cardinality(F) = Cardinality(T)
        BY <1>4, <1>6, <2>6, <3>1
      <4>2. QED BY <1>4, <1>5, <4>1, FS_Subset
    <3>2. QED BY <3>1
  <2>8. Cardinality(F) = AtMost(n, Cardinality(T))
    BY <1>4, <1>6, <2>6 DEF AtMost
  <2>9. QED BY <1>1, <1>4, <1>5, <1>6, <2>7, <2>8 DEF T, HasFirst, Things
<1>10. QED BY <1>8, <1>9

(* -------------------------------- walks -------------------------------- *)

\* What one step leads to from a set of symbols.
Beyond(graph, direction, kind, S) ==
  {id \in {Ends(graph, direction)[i] : i \in Near(graph, S, direction, kind)} : id > 0}

Starts(graph, direction) ==
  [i \in DOMAIN graph |-> IF direction = "forward" THEN graph[i].source ELSE graph[i].target]

\* What lies beyond a set of symbols, told by the edges of the graph.
LEMMA BeyondIs ==
  ASSUME NEW graph \in Seq(StoredEdge), NEW direction, NEW kind, NEW S
  PROVE  /\ \A id : id \in Beyond(graph, direction, kind, S) <=>
                \E i \in DOMAIN graph : /\ graph[i].kind = kind /\ Starts(graph, direction)[i] \in S
                                        /\ id = Ends(graph, direction)[i] /\ id > 0
         /\ Beyond(graph, direction, kind, S) \subseteq Nat
         /\ Near(graph, S, direction, kind) \subseteq DOMAIN graph
         /\ IsFiniteSet(Near(graph, S, direction, kind)) /\ Near(graph, S, direction, kind) \subseteq Nat
<1>1. \A i \in DOMAIN graph : graph[i] \in StoredEdge
  OBVIOUS
<1>2. \A i \in DOMAIN graph : Ends(graph, direction)[i] \in Nat
  BY <1>1 DEF Ends, StoredEdge
<1>3. IsFiniteSet(DOMAIN graph) /\ DOMAIN graph \subseteq Nat
  <2>1. DOMAIN graph = 1 .. Len(graph) /\ Len(graph) \in Nat
    OBVIOUS
  <2>2. QED BY <2>1, FS_Interval
<1>4. Near(graph, S, direction, kind) \subseteq DOMAIN graph
  BY DEF Near
<1>5. QED BY <1>2, <1>3, <1>4, FS_Subset DEF Beyond, Near, Starts, Ends

\* The recursive functions behind Reach and Walk.
Within(graph, start, direction, kind, depth, w) ==
  w = [d \in 0 .. depth |-> IF d = 0 THEN {start} ELSE w[d - 1] \cup Beyond(graph, direction, kind, w[d - 1])]

Unseen(graph, start, direction, kind, l) ==
  {i \in Near(graph, l.frontier, direction, kind) :
     Ends(graph, direction)[i] > 0 /\ Ends(graph, direction)[i] \notin l.result \cup {start}}
NextOf(graph, start, direction, kind, limit, l) ==
  FirstOf(Unseen(graph, start, direction, kind, l), Ends(graph, direction), limit - Cardinality(l.result))
Levels(graph, start, direction, kind, depth, limit, f) ==
  f = [d \in 0 .. depth |->
         IF d = 0 THEN [result |-> {}, frontier |-> {start}]
         ELSE [result |-> f[d - 1].result \cup NextOf(graph, start, direction, kind, limit, f[d - 1]),
               frontier |-> NextOf(graph, start, direction, kind, limit, f[d - 1])]]

ReachedBy(graph, start, direction, kind, depth, w) ==
  /\ Within(graph, start, direction, kind, depth, w)
  /\ Reach(graph, start, direction, kind, depth) = w[depth] \ {start}

\* Reach is made from the sets of symbols within each distance.
LEMMA WithinExists ==
  ASSUME NEW graph \in Seq(StoredEdge), NEW start, NEW direction, NEW kind, NEW depth \in Nat
  PROVE  \E w : ReachedBy(graph, start, direction, kind, depth, w)
<1> DEFINE Ids == Nat \cup {start}
           D == SUBSET Ids
           body(S) == S \cup Beyond(graph, direction, kind, S)
           step == [k \in 1 .. depth |-> [S \in D |-> body(S)]]
<1>1. {start} \in D /\ \A S \in D : body(S) \in D
  BY BeyondIs
<1>2. step \in [1 .. depth -> [D -> D]]
  <2> HIDE DEF body, D
  <2>1. QED BY <1>1
<1>3. PICK f : Recursive(f, depth, D, {start}, step)
  <2> HIDE DEF D, step
  <2>1. {start} \in D
    BY <1>1
  <2>2. QED BY <1>2, <2>1, Recursion
<1>4. \A k \in 0 .. depth : k # 0 => k \in 1 .. depth /\ k - 1 \in 0 .. depth
  OBVIOUS
<1>5. \A k \in 0 .. depth : f[k] = IF k = 0 THEN {start} ELSE body(f[k - 1])
  <2> HIDE DEF body, D
  <2>1. QED BY <1>3, <1>4 DEF Recursive
<1>6. f = [k \in 0 .. depth |-> IF k = 0 THEN {start} ELSE body(f[k - 1])]
  <2> HIDE DEF body
  <2>1. QED BY <1>3, <1>5 DEF Recursive
<1>7. Within(graph, start, direction, kind, depth, f)
  BY <1>6 DEF Within
<1> DEFINE w == CHOOSE w : Within(graph, start, direction, kind, depth, w)
<1>8. Reach(graph, start, direction, kind, depth) = w[depth] \ {start}
  BY DEF Reach, Within, Beyond
<1> HIDE DEF w
<1>9. Within(graph, start, direction, kind, depth, w)
  BY <1>7 DEF w
<1>10. QED BY <1>8, <1>9 DEF ReachedBy

\* Walk is made from its levels.
LEMMA LevelsExist ==
  ASSUME NEW graph \in Seq(StoredEdge), NEW start, NEW direction, NEW kind, NEW depth \in Nat, NEW limit
  PROVE  \E f : /\ Levels(graph, start, direction, kind, depth, limit, f)
                /\ Walk(graph, start, direction, kind, depth, limit) = f[depth].result
<1> DEFINE Ids == Nat \cup {start}
           D == [result : SUBSET Ids, frontier : SUBSET Ids]
           next(l) == NextOf(graph, start, direction, kind, limit, l)
           body(l) == [result |-> l.result \cup next(l), frontier |-> next(l)]
           z == [result |-> {}, frontier |-> {start}]
           step == [k \in 1 .. depth |-> [l \in D |-> body(l)]]
<1>1. \A l : next(l) \subseteq Nat
  <2>1. ASSUME NEW l PROVE next(l) \subseteq Nat
    <3>1. Unseen(graph, start, direction, kind, l) \subseteq DOMAIN graph
      BY DEF Unseen, Near
    <3>2. \A i \in DOMAIN graph : Ends(graph, direction)[i] \in Nat
      <4>1. \A i \in DOMAIN graph : graph[i] \in StoredEdge
        OBVIOUS
      <4>2. QED BY <4>1 DEF Ends, StoredEdge
    <3>3. QED BY <3>1, <3>2 DEF NextOf, FirstOf
  <2>2. QED BY <2>1
<1>2. z \in D /\ \A l \in D : body(l) \in D
  <2> HIDE DEF next
  <2>1. QED BY <1>1
<1>3. step \in [1 .. depth -> [D -> D]]
  <2> HIDE DEF body, D
  <2>1. QED BY <1>2
<1>4. PICK f : Recursive(f, depth, D, z, step)
  <2> HIDE DEF D, step, z
  <2>1. z \in D
    BY <1>2
  <2>2. QED BY <1>3, <2>1, Recursion
<1>5. \A k \in 0 .. depth : k # 0 => k \in 1 .. depth /\ k - 1 \in 0 .. depth
  OBVIOUS
<1>6. \A k \in 0 .. depth : f[k] = IF k = 0 THEN z ELSE body(f[k - 1])
  <2> HIDE DEF body, D, z
  <2>1. QED BY <1>4, <1>5 DEF Recursive
<1>7. f = [k \in 0 .. depth |-> IF k = 0 THEN z ELSE body(f[k - 1])]
  <2> HIDE DEF body, z, D
  <2>1. QED BY <1>4, <1>6 DEF Recursive
<1>8. Levels(graph, start, direction, kind, depth, limit, f)
  BY <1>7 DEF Levels
<1> DEFINE w == CHOOSE w : Levels(graph, start, direction, kind, depth, limit, w)
<1>9. Walk(graph, start, direction, kind, depth, limit) = w[depth].result
  BY DEF Walk, Levels, NextOf, Unseen
<1> HIDE DEF w
<1>10. Levels(graph, start, direction, kind, depth, limit, w)
  BY <1>8 DEF w
<1>11. QED BY <1>9, <1>10

\* What a level of a walk has found and where it goes on.  As long as the limit
\* is not reached everything within the distance is found, and what lies beyond
\* the symbols of earlier levels as well.
LevelIsSound(graph, start, direction, kind, limit, l, within) ==
  LET found == l.result \cup {start}
  IN /\ l.result \subseteq within \ {start} /\ l.frontier \subseteq found /\ start \in within
     /\ l.result \subseteq Nat
     /\ IsFiniteSet(l.result) /\ Cardinality(l.result) <= limit
     /\ Cardinality(l.result) < limit =>
          /\ found = within
          /\ Beyond(graph, direction, kind, found \ l.frontier) \subseteq found

\* The next level: what lies beyond and was not seen, as much as the limit lets.
LEMMA NextIs ==
  ASSUME NEW graph \in Seq(StoredEdge), NEW start, NEW direction, NEW kind, NEW limit \in Nat, NEW l,
         IsFiniteSet(l.result), Cardinality(l.result) <= limit
  PROVE  HasFirst(NextOf(graph, start, direction, kind, limit, l),
                  Beyond(graph, direction, kind, l.frontier) \ (l.result \cup {start}),
                  limit - Cardinality(l.result))
<1> DEFINE U == Unseen(graph, start, direction, kind, l)
           T == Beyond(graph, direction, kind, l.frontier) \ (l.result \cup {start})
           ends == Ends(graph, direction)
<1>1. U \subseteq Near(graph, l.frontier, direction, kind)
  BY DEF Unseen
<1>2. U \subseteq Nat /\ IsFiniteSet(U)
  <2> HIDE DEF U
  <2>1. QED BY <1>1, BeyondIs, FS_Subset
<1>3. {ends[i] : i \in U} = T
  <2>1. \A i : i \in U <=> i \in Near(graph, l.frontier, direction, kind) /\ ends[i] > 0 /\ ends[i] \notin l.result \cup {start}
    BY DEF Unseen
  <2>2. \A id : id \in T <=> /\ id \in {ends[i] : i \in Near(graph, l.frontier, direction, kind)} /\ id > 0
                             /\ id \notin l.result \cup {start}
    BY DEF Beyond
  <2> HIDE DEF U, T, ends
  <2>3. QED BY <2>1, <2>2
<1>4. limit - Cardinality(l.result) \in Nat
  <2>1. Cardinality(l.result) \in Nat
    BY FS_CardinalityType
  <2>2. QED BY <2>1
<1>5. NextOf(graph, start, direction, kind, limit, l) = FirstOf(U, ends, limit - Cardinality(l.result))
  BY DEF NextOf
<1> HIDE DEF U, T, ends
<1>6. HasFirst(FirstOf(U, ends, limit - Cardinality(l.result)), Things(U, ends), limit - Cardinality(l.result))
  BY <1>2, <1>4, FirstOfIs
<1>7. Things(U, ends) = T
  BY <1>3 DEF Things
<1>8. QED BY <1>5, <1>6, <1>7 DEF T

\* One more level of a walk is sound for one more step of distance.
LEMMA LevelStep ==
  ASSUME NEW graph \in Seq(StoredEdge), NEW start, NEW direction, NEW kind, NEW limit \in Nat, NEW l, NEW within,
         LevelIsSound(graph, start, direction, kind, limit, l, within)
  PROVE  LET N == NextOf(graph, start, direction, kind, limit, l)
         IN LevelIsSound(graph, start, direction, kind, limit, [result |-> l.result \cup N, frontier |-> N],
                         within \cup Beyond(graph, direction, kind, within))
<1> DEFINE N == NextOf(graph, start, direction, kind, limit, l)
           R == l.result
           F == l.frontier
           B(S) == Beyond(graph, direction, kind, S)
           T == B(F) \ (R \cup {start})
           m == [result |-> R \cup N, frontier |-> N]
<1>1. /\ R \subseteq within \ {start} /\ F \subseteq R \cup {start} /\ start \in within
      /\ R \subseteq Nat /\ IsFiniteSet(R) /\ Cardinality(R) <= limit
      /\ Cardinality(R) < limit => R \cup {start} = within /\ B((R \cup {start}) \ F) \subseteq R \cup {start}
  BY DEF LevelIsSound
<1>2. /\ N \subseteq T /\ IsFiniteSet(N) /\ IsFiniteSet(T)
      /\ Cardinality(N) = AtMost(limit - Cardinality(R), Cardinality(T))
      /\ Cardinality(T) <= limit - Cardinality(R) => N = T
  BY <1>1, NextIs DEF HasFirst
<1>3. /\ Cardinality(R) \in Nat /\ Cardinality(N) \in Nat /\ Cardinality(T) \in Nat
      /\ IsFiniteSet(R \cup N) /\ Cardinality(R \cup N) = Cardinality(R) + Cardinality(N)
  <2>1. R \cap N = {}
    BY <1>2
  <2> HIDE DEF R, N, T
  <2>2. Cardinality(R \cap N) = 0
    BY <2>1, FS_EmptySet
  <2>3. IsFiniteSet(R)
    BY <1>1 DEF R
  <2>4. /\ IsFiniteSet(R \cup N)
        /\ Cardinality(R \cup N) = Cardinality(R) + Cardinality(N) - Cardinality(R \cap N)
    BY <1>2, <2>3, FS_Union
  <2>5. Cardinality(R) \in Nat /\ Cardinality(N) \in Nat /\ Cardinality(T) \in Nat
    BY <1>2, <2>3, FS_CardinalityType
  <2>6. QED BY <2>2, <2>4, <2>5
<1>4. Cardinality(N) <= limit - Cardinality(R)
  BY <1>1, <1>2, <1>3 DEF AtMost
<1>5. B(F) \subseteq B(within) /\ B(within) \subseteq Nat /\ \A S : B(S) \subseteq B(S \cap F) \cup B(S \ F)
  <2>1. F \subseteq within
    BY <1>1
  <2>2. \A S, id : id \in B(S) <=> \E i \in DOMAIN graph : /\ graph[i].kind = kind /\ Starts(graph, direction)[i] \in S
                                                          /\ id = Ends(graph, direction)[i] /\ id > 0
    BY BeyondIs
  <2>3. B(within) \subseteq Nat
    BY BeyondIs
  <2> HIDE DEF B, F
  <2>4. B(F) \subseteq B(within)
    BY <2>1, <2>2
  <2>5. ASSUME NEW S PROVE B(S) \subseteq B(S \cap F) \cup B(S \ F)
    BY <2>2
  <2>6. QED BY <2>3, <2>4, <2>5
<1>6. ASSUME Cardinality(R \cup N) < limit
      PROVE  /\ R \cup N \cup {start} = within \cup B(within)
             /\ B((R \cup N \cup {start}) \ N) \subseteq R \cup N \cup {start}
  <2>1. N = T /\ Cardinality(R) < limit
    BY <1>2, <1>3, <1>6 DEF AtMost
  <2>2. R \cup {start} = within /\ B(within \ F) \subseteq within /\ within \cap F = F
    BY <1>1, <2>1
  <2>3. B(within) \subseteq B(F) \cup within
    BY <1>5, <2>2
  <2> HIDE DEF B, R, F, N
  <2>4. R \cup N \cup {start} = within \cup B(within)
    BY <1>5, <2>1, <2>2, <2>3
  <2>5. (R \cup N \cup {start}) \ N = within
    BY <2>1, <2>2
  <2>6. QED BY <2>4, <2>5
<1>7. m.result = R \cup N /\ m.frontier = N
  OBVIOUS
<1>8. /\ R \cup N \subseteq (within \cup B(within)) \ {start} /\ R \cup N \subseteq Nat
      /\ N \subseteq R \cup N \cup {start} /\ start \in within \cup B(within)
  <2> HIDE DEF B, R, F, N
  <2>1. QED BY <1>1, <1>2, <1>5
<1>9. Cardinality(R \cup N) <= limit
  BY <1>3, <1>4
<1> HIDE DEF m, R, N, B
<1>10. /\ m.result \subseteq (within \cup B(within)) \ {start} /\ m.frontier \subseteq m.result \cup {start}
       /\ start \in within \cup B(within)
       /\ m.result \subseteq Nat
       /\ IsFiniteSet(m.result) /\ Cardinality(m.result) <= limit
       /\ Cardinality(m.result) < limit =>
            /\ m.result \cup {start} = within \cup B(within)
            /\ B((m.result \cup {start}) \ m.frontier) \subseteq m.result \cup {start}
  BY <1>3, <1>6, <1>7, <1>8, <1>9
<1>11. LevelIsSound(graph, start, direction, kind, limit, m, within \cup B(within))
  BY <1>10 DEF LevelIsSound, B
<1>12. QED BY <1>11 DEF m, B, R, N

\* A walk finds what is within its depth, all of it or as much as its limit lets.
LEMMA WalkIs ==
  ASSUME NEW graph \in Seq(StoredEdge), NEW start, NEW direction, NEW kind, NEW depth \in Nat, NEW limit \in Nat
  PROVE  LET found == Walk(graph, start, direction, kind, depth, limit)
             all == Reach(graph, start, direction, kind, depth)
         IN /\ found \subseteq all /\ Cardinality(found) = AtMost(limit, Cardinality(all))
            /\ IsFiniteSet(all) /\ IsFiniteSet(found) /\ found \subseteq Nat
            /\ Cardinality(all) <= limit => found = all
<1> DEFINE found == Walk(graph, start, direction, kind, depth, limit)
           all == Reach(graph, start, direction, kind, depth)
           B(S) == Beyond(graph, direction, kind, S)
           N(l) == NextOf(graph, start, direction, kind, limit, l)
           Next(l) == [result |-> l.result \cup N(l), frontier |-> N(l)]
           Exact(l, S) == LevelIsSound(graph, start, direction, kind, limit, l, S)
<1>1. PICK w : Within(graph, start, direction, kind, depth, w) /\ all = w[depth] \ {start}
  <2>1. PICK w : ReachedBy(graph, start, direction, kind, depth, w)
    BY WithinExists
  <2>2. QED BY <2>1 DEF ReachedBy
<1>2. PICK f : Levels(graph, start, direction, kind, depth, limit, f) /\ found = f[depth].result
  BY LevelsExist
<1> DEFINE Good == {d \in 0 .. depth : Exact(f[d], w[d]) /\ IsFiniteSet(w[d])}
<1>3. 0 \in Good
  <2>1. w[0] = {start} /\ f[0].result = {} /\ f[0].frontier = {start}
    BY <1>1, <1>2 DEF Within, Levels
  <2>2. Beyond(graph, direction, kind, {}) = {}
    BY BeyondIs
  <2>3. ({} \cup {start}) \ {start} = {} /\ {} \cup {start} = {start}
    OBVIOUS
  <2>4. IsFiniteSet({}) /\ Cardinality({}) = 0 /\ 0 <= limit /\ {start} \ {start} = {}
    BY FS_EmptySet
  <2>5. Exact(f[0], w[0])
    <3> DEFINE l == f[0]
    <3>1. l.result = {} /\ l.frontier = {start} /\ w[0] = {start}
      BY <2>1
    <3> HIDE DEF l
    <3>2. LevelIsSound(graph, start, direction, kind, limit, l, w[0])
      BY <2>2, <2>3, <2>4, <3>1 DEF LevelIsSound
    <3>3. QED BY <3>2 DEF l
  <2>6. IsFiniteSet(w[0])
    BY <2>1, FS_Singleton
  <2>7. QED BY <2>5, <2>6
<1>4. ASSUME NEW d \in 1 .. depth, d - 1 \in Good PROVE d \in Good
  <2>1. d \in 0 .. depth /\ d # 0
    OBVIOUS
  <2>2. w[d] = w[d - 1] \cup B(w[d - 1])
    BY <1>1, <2>1 DEF Within
  <2>3. f[d] = Next(f[d - 1])
    BY <1>2, <2>1 DEF Levels
  <2>4. Exact(f[d - 1], w[d - 1]) /\ IsFiniteSet(w[d - 1])
    BY <1>4
  <2>5. Exact(Next(f[d - 1]), w[d - 1] \cup B(w[d - 1]))
    BY <2>4, LevelStep
  <2>6. IsFiniteSet(B(w[d - 1]))
    <3>1. B(w[d - 1]) \subseteq Things(Near(graph, w[d - 1], direction, kind), Ends(graph, direction))
      BY DEF Beyond, Things
    <3>2. IsFiniteSet(Things(Near(graph, w[d - 1], direction, kind), Ends(graph, direction)))
      <4>1. IsFiniteSet(Near(graph, w[d - 1], direction, kind))
        BY BeyondIs
      <4>2. QED BY <4>1, ImageIsFinite DEF Things
    <3>3. QED BY <3>1, <3>2, FS_Subset
  <2> HIDE DEF Exact, B, Next
  <2>7. IsFiniteSet(w[d])
    BY ZenonT(60), <2>2, <2>4, <2>6, FS_Union
  <2>8. QED BY <2>1, <2>2, <2>3, <2>5, <2>7
<1>5. depth \in Good
  <2> HIDE DEF Good
  <2>1. \A d \in 1 .. depth : d - 1 \in Good => d \in Good
    BY <1>4
  <2>2. \A d \in 0 .. depth : d \in Good
    BY <1>3, <2>1, UpTo
  <2>3. QED BY <2>2
<1>6. Exact(f[depth], w[depth]) /\ IsFiniteSet(w[depth])
  BY <1>5
<1>7. /\ found \subseteq w[depth] \ {start} /\ found \subseteq Nat
      /\ IsFiniteSet(found) /\ Cardinality(found) <= limit
      /\ Cardinality(found) < limit => found \cup {start} = w[depth]
  BY <1>2, <1>6 DEF LevelIsSound
<1> HIDE DEF found, all, Exact
<1>8. /\ found \subseteq all /\ found \subseteq Nat /\ IsFiniteSet(found) /\ Cardinality(found) <= limit
      /\ Cardinality(found) < limit => found = all
  BY <1>1, <1>7
<1>9. IsFiniteSet(all)
  BY <1>1, <1>6, FS_Subset
<1>10. /\ Cardinality(found) \in Nat /\ Cardinality(all) \in Nat /\ Cardinality(found) <= Cardinality(all)
       /\ Cardinality(found) = Cardinality(all) => found = all
  BY <1>8, <1>9, FS_CardinalityType, FS_Subset
<1>11. Cardinality(found) = AtMost(limit, Cardinality(all)) /\ (Cardinality(all) <= limit => found = all)
  <2>1. CASE Cardinality(found) < limit
    BY <1>8, <1>10, <2>1 DEF AtMost
  <2>2. CASE Cardinality(found) = limit
    <3>1. Cardinality(all) <= limit => Cardinality(all) = Cardinality(found)
      BY <1>10, <2>2
    <3>2. Cardinality(found) = AtMost(limit, Cardinality(all))
      BY <1>10, <2>2 DEF AtMost
    <3>3. QED BY <1>10, <3>1, <3>2
  <2>3. QED BY <1>8, <1>10, <2>1, <2>2
<1>12. QED BY <1>8, <1>9, <1>11 DEF found, all

\* Siblings, as the property states them.
SiblingsOf(graph, start) ==
  LET contains(e) == e.kind = "contains"
  IN {e.target : e \in {f \in ToSet(graph) : contains(f) /\ f.target # start /\
        \E p \in ToSet(graph) : contains(p) /\ p.target = start /\ p.source = f.source}}

\* The siblings found are of a parent of the symbol, and all that the limit lets.
LEMMA SiblingsIs ==
  ASSUME NEW graph \in Seq(StoredEdge), NEW start, NEW limit \in Nat
  PROVE  HasFirst(Siblings(graph, start, limit), SiblingsOf(graph, start), limit)
<1> DEFINE parents  == {graph[i].source : i \in Near(graph, {start}, "reverse", "contains")}
           children == Near(graph, parents, "forward", "contains")
           ends     == Ends(graph, "forward")
           others   == {i \in children : ends[i] # start}
<1>1. Siblings(graph, start, limit) = FirstOf(others, ends, limit)
  BY DEF Siblings
<1>2. others \subseteq Nat /\ IsFiniteSet(others)
  <2>1. children \subseteq Nat /\ IsFiniteSet(children)
    BY BeyondIs
  <2>2. others \subseteq children
    OBVIOUS
  <2> HIDE DEF others, children
  <2>3. QED BY <2>1, <2>2, FS_Subset
<1>3. Things(others, ends) = SiblingsOf(graph, start)
  <2>1. \A x : x \in parents <=> \E i \in DOMAIN graph : graph[i].kind = "contains" /\ graph[i].target = start /\ graph[i].source = x
    BY DEF Near
  <2>2. \A x : x \in Things(others, ends) <=>
          \E i \in DOMAIN graph : graph[i].kind = "contains" /\ graph[i].source \in parents /\ graph[i].target = x /\ x # start
    <3> HIDE DEF parents
    <3>1. \A i : i \in others <=> i \in DOMAIN graph /\ graph[i].kind = "contains" /\ graph[i].source \in parents /\ ends[i] # start
      BY DEF Near
    <3>2. \A i \in DOMAIN graph : ends[i] = graph[i].target
      BY DEF Ends
    <3> HIDE DEF others, ends
    <3>3. QED BY <3>1, <3>2 DEF Things
  <2>3. \A e : e \in ToSet(graph) <=> \E i \in DOMAIN graph : e = graph[i]
    BY DEF ToSet
  <2> HIDE DEF parents, others, ends
  <2>4. \A x : x \in SiblingsOf(graph, start) <=>
          \E i \in DOMAIN graph : /\ graph[i].kind = "contains" /\ graph[i].target = x /\ x # start
                                  /\ \E j \in DOMAIN graph : graph[j].kind = "contains" /\ graph[j].target = start /\ graph[j].source = graph[i].source
    <3> DEFINE Is(x) == \E i \in DOMAIN graph :
                 /\ graph[i].kind = "contains" /\ graph[i].target = x /\ x # start
                 /\ \E j \in DOMAIN graph : graph[j].kind = "contains" /\ graph[j].target = start /\ graph[j].source = graph[i].source
    <3>1. ASSUME NEW x, x \in SiblingsOf(graph, start) PROVE Is(x)
      <4>1. PICK e \in ToSet(graph) : /\ e.kind = "contains" /\ e.target = x /\ x # start
                                      /\ \E p \in ToSet(graph) : p.kind = "contains" /\ p.target = start /\ p.source = e.source
        BY <3>1 DEF SiblingsOf
      <4>2. PICK p \in ToSet(graph) : p.kind = "contains" /\ p.target = start /\ p.source = e.source
        BY <4>1
      <4>3. PICK i \in DOMAIN graph, j \in DOMAIN graph : e = graph[i] /\ p = graph[j]
        BY <2>3
      <4>4. QED BY <4>1, <4>2, <4>3
    <3>2. ASSUME NEW x, Is(x) PROVE x \in SiblingsOf(graph, start)
      <4>1. PICK i \in DOMAIN graph : /\ graph[i].kind = "contains" /\ graph[i].target = x /\ x # start
                 /\ \E j \in DOMAIN graph : graph[j].kind = "contains" /\ graph[j].target = start /\ graph[j].source = graph[i].source
        BY <3>2
      <4>2. PICK j \in DOMAIN graph : graph[j].kind = "contains" /\ graph[j].target = start /\ graph[j].source = graph[i].source
        BY <4>1
      <4>3. graph[i] \in ToSet(graph) /\ graph[j] \in ToSet(graph)
        BY <2>3
      <4>4. QED BY <4>1, <4>2, <4>3 DEF SiblingsOf
    <3>3. QED BY <3>1, <3>2
  <2>5. \A x : x \in Things(others, ends) <=> x \in SiblingsOf(graph, start)
    <3>1. ASSUME NEW x, x \in Things(others, ends) PROVE x \in SiblingsOf(graph, start)
      <4>1. PICK i \in DOMAIN graph : graph[i].kind = "contains" /\ graph[i].source \in parents /\ graph[i].target = x /\ x # start
        BY <2>2, <3>1
      <4>2. QED BY <2>1, <2>4, <4>1
    <3>2. ASSUME NEW x, x \in SiblingsOf(graph, start) PROVE x \in Things(others, ends)
      <4>1. PICK i \in DOMAIN graph : /\ graph[i].kind = "contains" /\ graph[i].target = x /\ x # start
                 /\ \E j \in DOMAIN graph : graph[j].kind = "contains" /\ graph[j].target = start /\ graph[j].source = graph[i].source
        BY <2>4, <3>2
      <4>2. graph[i].source \in parents
        BY <2>1, <4>1
      <4>3. QED BY <2>2, <4>1, <4>2
    <3>3. QED BY <3>1, <3>2
  <2>6. QED BY <2>5
<1> HIDE DEF others, ends
<1>4. QED BY <1>1, <1>2, <1>3, FirstOfIs

(* ----------------------------- blast radius ---------------------------- *)

NewIDs(q, items, kind, ids) == {id \in ids : q.where[id] \notin q.changed /\ Item(q, kind, id) \notin items}

\* What one kind of relation adds to the items of a blast radius.
LEMMA AddItemsAdds ==
  ASSUME NEW q, NEW items, NEW kind, NEW ids
  PROVE  /\ \E item : /\ Things(NewIDs(q, items, kind, ids), item) = Unchanged(q, kind, ids) \ items
                      /\ AddItems(q, items, kind, ids) =
                           items \cup FirstOf(NewIDs(q, items, kind, ids), item, MaxBlastRadiusItems - Cardinality(items))
         /\ AddItems(q, items, kind, ids) \subseteq items \cup Unchanged(q, kind, ids)
<1> DEFINE item == [id \in ids |-> Item(q, kind, id)]
           new == {id \in ids : q.where[id] \notin q.changed /\ item[id] \notin items}
<1>1. new = NewIDs(q, items, kind, ids)
  BY DEF NewIDs
<1>2. AddItems(q, items, kind, ids) = items \cup FirstOf(new, item, MaxBlastRadiusItems - Cardinality(items))
  BY DEF AddItems
<1>3. Things(new, item) = Unchanged(q, kind, ids) \ items
  <2>1. \A id \in ids : item[id] = Item(q, kind, id)
    OBVIOUS
  <2> HIDE DEF item
  <2>2. QED BY <2>1 DEF Things, Unchanged
<1> HIDE DEF new, item
<1>4. AddItems(q, items, kind, ids) \subseteq items \cup Unchanged(q, kind, ids)
  <2>1. FirstOf(new, item, MaxBlastRadiusItems - Cardinality(items)) \subseteq Things(new, item)
    BY DEF FirstOf, Things
  <2>2. QED BY <1>2, <1>3, <2>1
<1>5. QED BY <1>1, <1>2, <1>3, <1>4

\* The same, and that nothing is left out before the items are full.
LEMMA AddItemsIs ==
  ASSUME NEW q, NEW items, IsFiniteSet(items), Cardinality(items) <= MaxBlastRadiusItems,
         NEW kind, NEW ids, ids \subseteq Nat, IsFiniteSet(ids)
  PROVE  LET all == AddItems(q, items, kind, ids)
         IN /\ IsFiniteSet(all) /\ Cardinality(all) <= MaxBlastRadiusItems
            /\ items \subseteq all /\ all \subseteq items \cup Unchanged(q, kind, ids)
            /\ Cardinality(all) < MaxBlastRadiusItems => all = items \cup Unchanged(q, kind, ids)
<1> DEFINE new == NewIDs(q, items, kind, ids)
           left == MaxBlastRadiusItems - Cardinality(items)
           T == Unchanged(q, kind, ids) \ items
<1>1. PICK item : /\ Things(new, item) = T
                  /\ AddItems(q, items, kind, ids) = items \cup FirstOf(new, item, left)
  BY AddItemsAdds
<1> DEFINE F == FirstOf(new, item, left)
<1>2. new \subseteq Nat /\ IsFiniteSet(new)
  <2>1. new \subseteq ids
    BY DEF NewIDs
  <2> HIDE DEF new
  <2>2. QED BY <2>1, FS_Subset
<1>3. left \in Nat /\ Cardinality(items) \in Nat
  <2>1. Cardinality(items) \in Nat
    BY FS_CardinalityType
  <2>2. QED BY <2>1, ItemsAssumption
<1> HIDE DEF new, left
<1>4. HasFirst(F, Things(new, item), left)
  BY <1>2, <1>3, FirstOfIs
<1> HIDE DEF F
<1>5. F \subseteq T /\ IsFiniteSet(F) /\ IsFiniteSet(T) /\ Cardinality(F) = AtMost(left, Cardinality(T)) /\ (Cardinality(T) <= left => F = T)
  BY <1>1, <1>4 DEF HasFirst
<1>6. Cardinality(F) \in Nat /\ Cardinality(T) \in Nat
  BY <1>5, FS_CardinalityType
<1>7. IsFiniteSet(items \cup F) /\ Cardinality(items \cup F) = Cardinality(items) + Cardinality(F)
  <2>1. items \cap F = {}
    BY <1>5
  <2>2. Cardinality(items \cap F) = 0
    BY <2>1, FS_EmptySet
  <2>3. /\ IsFiniteSet(items \cup F)
        /\ Cardinality(items \cup F) = Cardinality(items) + Cardinality(F) - Cardinality(items \cap F)
    BY <1>5, FS_Union
  <2>4. QED BY <1>3, <1>6, <2>2, <2>3
<1>8. Cardinality(F) <= left
  BY <1>3, <1>5, <1>6 DEF AtMost
<1>9. Cardinality(items \cup F) <= MaxBlastRadiusItems
  BY <1>3, <1>6, <1>7, <1>8, ItemsAssumption DEF left
<1>10. Cardinality(items \cup F) < MaxBlastRadiusItems => F = T
  <2>1. ASSUME Cardinality(items \cup F) < MaxBlastRadiusItems PROVE F = T
    <3>1. Cardinality(F) < left
      BY <1>3, <1>6, <1>7, <2>1, ItemsAssumption DEF left
    <3>2. Cardinality(T) <= left
      BY <1>3, <1>5, <1>6, <3>1 DEF AtMost
    <3>3. QED BY <1>5, <3>2
  <2>2. QED BY <2>1
<1>11. items \cup T = items \cup Unchanged(q, kind, ids)
  OBVIOUS
<1> HIDE DEF T
<1>12. AddItems(q, items, kind, ids) = items \cup F
  BY <1>1 DEF F
<1>13. items \cup F \subseteq items \cup T
  BY <1>5
<1>14. Cardinality(items \cup F) < MaxBlastRadiusItems => items \cup F = items \cup T
  BY <1>10
<1>15. QED BY <1>7, <1>9, <1>11, <1>12, <1>13, <1>14

AddSymbol(q, items, id) ==
  AddItems(q, AddItems(q, items, "caller", Callers(q, id)), "test", TestsFor(q, id))
Offered(q, id) == Unchanged(q, "caller", Callers(q, id)) \cup Unchanged(q, "test", TestsFor(q, id))

\* The same for the callers and the tests of one symbol.
LEMMA AddSymbolIs ==
  ASSUME NEW q, q.graph \in Seq(StoredEdge), NEW items, NEW id,
         IsFiniteSet(items), Cardinality(items) <= MaxBlastRadiusItems
  PROVE  LET all == AddSymbol(q, items, id)
         IN /\ IsFiniteSet(all) /\ Cardinality(all) <= MaxBlastRadiusItems
            /\ items \subseteq all /\ all \subseteq items \cup Offered(q, id)
            /\ Cardinality(all) < MaxBlastRadiusItems => all = items \cup Offered(q, id) /\ Cardinality(items) < MaxBlastRadiusItems
<1> DEFINE C == Unchanged(q, "caller", Callers(q, id))
           T == Unchanged(q, "test", TestsFor(q, id))
           half == AddItems(q, items, "caller", Callers(q, id))
           all == AddItems(q, half, "test", TestsFor(q, id))
<1>1. Callers(q, id) \subseteq Nat /\ IsFiniteSet(Callers(q, id))
  BY WalkIs, ItemsAssumption DEF Callers
<1>2. TestsFor(q, id) \subseteq Nat /\ IsFiniteSet(TestsFor(q, id))
  BY WalkIs, ItemsAssumption DEF TestsFor
<1>3. /\ IsFiniteSet(half) /\ Cardinality(half) <= MaxBlastRadiusItems
      /\ items \subseteq half /\ half \subseteq items \cup C
      /\ Cardinality(half) < MaxBlastRadiusItems => half = items \cup C
  BY <1>1, AddItemsIs
<1> HIDE DEF half
<1>4. /\ IsFiniteSet(all) /\ Cardinality(all) <= MaxBlastRadiusItems
      /\ half \subseteq all /\ all \subseteq half \cup T
      /\ Cardinality(all) < MaxBlastRadiusItems => all = half \cup T
  BY <1>2, <1>3, AddItemsIs
<1>5. all = AddSymbol(q, items, id) /\ C \cup T = Offered(q, id)
  BY DEF AddSymbol, Offered, half
<1> HIDE DEF all, C, T
<1>6. Cardinality(half) <= Cardinality(all) /\ Cardinality(half) \in Nat /\ Cardinality(all) \in Nat
      /\ Cardinality(items) <= Cardinality(half) /\ Cardinality(items) \in Nat
  BY <1>3, <1>4, FS_Subset, FS_CardinalityType
<1>7. Cardinality(all) < MaxBlastRadiusItems => Cardinality(half) < MaxBlastRadiusItems /\ Cardinality(items) < MaxBlastRadiusItems
  BY <1>6, ItemsAssumption
<1>8. all \subseteq items \cup (C \cup T) /\ items \subseteq all
  BY <1>3, <1>4
<1>9. Cardinality(all) < MaxBlastRadiusItems => all = items \cup (C \cup T)
  BY <1>3, <1>4, <1>7
<1>10. QED BY <1>4, <1>5, <1>7, <1>8, <1>9

\* The recursive function behind BlastRadius.
Radii(q, f) ==
  f = [k \in 0 .. Len(q.symbols) |-> IF k = 0 THEN {} ELSE AddSymbol(q, f[k - 1], q.symbols[k])]

\* BlastRadius is made from the items of the first symbols, one more each time.
LEMMA RadiiExist ==
  ASSUME NEW q, q.symbols \in Seq(Nat)
  PROVE  \E f : Radii(q, f) /\ BlastRadius(q) = f[Len(q.symbols)]
<1> DEFINE n == Len(q.symbols)
           V == UNION {Offered(q, id) : id \in Nat}
           D == SUBSET V
           step == [k \in 1 .. n |-> [X \in D |-> AddSymbol(q, X, q.symbols[k])]]
<1>1. n \in Nat /\ \A k \in 1 .. n : q.symbols[k] \in Nat
  OBVIOUS
<1>2. ASSUME NEW X \in D, NEW id \in Nat PROVE AddSymbol(q, X, id) \in D
  <2>1. AddSymbol(q, X, id) \subseteq X \cup Offered(q, id)
    BY AddItemsAdds DEF AddSymbol, Offered
  <2>2. QED BY <2>1
<1>3. step \in [1 .. n -> [D -> D]]
  <2> HIDE DEF D, n
  <2>1. QED BY <1>1, <1>2
<1>4. {} \in D
  OBVIOUS
<1>5. PICK f : Recursive(f, n, D, {}, step)
  <2> HIDE DEF D, step, n
  <2>1. QED BY <1>1, <1>3, <1>4, Recursion
<1>6. \A k \in 0 .. n : k # 0 => k \in 1 .. n /\ k - 1 \in 0 .. n
  BY <1>1
<1>7. \A k \in 0 .. n : f[k] = IF k = 0 THEN {} ELSE AddSymbol(q, f[k - 1], q.symbols[k])
  <2> HIDE DEF D, n
  <2>1. QED BY <1>5, <1>6 DEF Recursive
<1>8. f = [k \in 0 .. n |-> IF k = 0 THEN {} ELSE AddSymbol(q, f[k - 1], q.symbols[k])]
  <2> HIDE DEF D, n
  <2>1. QED BY <1>5, <1>7 DEF Recursive
<1>9. Radii(q, f)
  BY <1>8 DEF Radii
<1> DEFINE w == CHOOSE w : Radii(q, w)
<1>10. BlastRadius(q) = w[Len(q.symbols)]
  BY DEF BlastRadius, Radii, AddSymbol
<1> HIDE DEF w
<1>11. Radii(q, w)
  BY <1>9 DEF w
<1>12. QED BY <1>10, <1>11

\* Everything in a blast radius was offered by one of the symbols, and unless it
\* is full everything that was offered is in it.
LEMMA BlastIs ==
  ASSUME NEW q, q.graph \in Seq(StoredEdge), q.symbols \in Seq(Nat)
  PROVE  LET all == BlastRadius(q)
         IN /\ Cardinality(all) <= MaxBlastRadiusItems
            /\ \A x \in all : \E k \in 1 .. Len(q.symbols) : x \in Offered(q, q.symbols[k])
            /\ Cardinality(all) < MaxBlastRadiusItems =>
                 \A k \in 1 .. Len(q.symbols) : Offered(q, q.symbols[k]) \subseteq all
<1> DEFINE n == Len(q.symbols)
           Exact(k, X) == /\ IsFiniteSet(X) /\ Cardinality(X) <= MaxBlastRadiusItems
                          /\ \A x \in X : \E i \in 1 .. k : x \in Offered(q, q.symbols[i])
                          /\ Cardinality(X) < MaxBlastRadiusItems => \A i \in 1 .. k : Offered(q, q.symbols[i]) \subseteq X
<1>1. PICK f : Radii(q, f) /\ BlastRadius(q) = f[n]
  BY RadiiExist
<1> DEFINE Good == {k \in 0 .. n : Exact(k, f[k])}
<1>2. n \in Nat
  OBVIOUS
<1>3. 0 \in Good
  <2>1. f[0] = {}
    BY <1>1, <1>2 DEF Radii
  <2>2. \A i \in 1 .. 0 : FALSE
    OBVIOUS
  <2>3. Exact(0, {})
    BY <2>2, FS_EmptySet, ItemsAssumption
  <2> HIDE DEF Exact
  <2>4. Exact(0, f[0]) /\ 0 \in 0 .. n
    BY <1>2, <2>1, <2>3
  <2>5. QED BY <2>4
<1>4. ASSUME NEW k \in 1 .. n, k - 1 \in Good PROVE k \in Good
  <2>1. k \in 0 .. n /\ k # 0 /\ k \in 1 .. k /\ (\A i \in 1 .. k : i = k \/ i \in 1 .. (k - 1)) /\ \A i \in 1 .. (k - 1) : i \in 1 .. k
    BY <1>2
  <2> DEFINE X == f[k - 1]
             Y == AddSymbol(q, X, q.symbols[k])
  <2>2. f[k] = Y
    BY <1>1, <2>1 DEF Radii
  <2>3. Exact(k - 1, X)
    BY <1>4
  <2> HIDE DEF X
  <2>4. /\ IsFiniteSet(Y) /\ Cardinality(Y) <= MaxBlastRadiusItems
        /\ X \subseteq Y /\ Y \subseteq X \cup Offered(q, q.symbols[k])
        /\ Cardinality(Y) < MaxBlastRadiusItems => Y = X \cup Offered(q, q.symbols[k]) /\ Cardinality(X) < MaxBlastRadiusItems
    BY <2>3, AddSymbolIs
  <2> HIDE DEF Y
  <2>5. \A x \in Y : \E i \in 1 .. k : x \in Offered(q, q.symbols[i])
    BY <2>1, <2>3, <2>4
  <2>6. Cardinality(Y) < MaxBlastRadiusItems => \A i \in 1 .. k : Offered(q, q.symbols[i]) \subseteq Y
    BY <2>1, <2>3, <2>4
  <2>7. Exact(k, Y)
    BY <2>4, <2>5, <2>6
  <2>8. QED BY <2>1, <2>2, <2>7
<1>5. n \in Good
  <2> HIDE DEF Good, n
  <2>1. \A k \in 1 .. n : k - 1 \in Good => k \in Good
    BY <1>4
  <2>2. \A k \in 0 .. n : k \in Good
    BY <1>2, <1>3, <2>1, UpTo
  <2>3. QED BY <1>2, <2>2
<1>6. QED BY <1>1, <1>5

(* ------------------------------- answers ------------------------------- *)

\* The part of GraphAnswersAreExact about walks.
LEMMA WalksAreExact ==
  ASSUME NEW q, q.ask = "walk", WellAsked(q), question = q, answer = [of |-> q.ask, is |-> AnswerTo(q)]
  PROVE  WalkIsExact
<1>1. q.graph \in Seq(StoredEdge) /\ q.depth \in Nat /\ q.limit \in Nat
  BY DEF WellAsked
<1>2. answer.is = Walk(q.graph, q.start, q.direction, q.kind, q.depth, q.limit)
  BY DEF AnswerTo
<1>3. QED BY <1>1, <1>2, WalkIs DEF WalkIsExact

\* The part of GraphAnswersAreExact about siblings.
LEMMA SiblingsAreFound ==
  ASSUME NEW q, q.ask = "siblings", WellAsked(q), question = q, answer = [of |-> q.ask, is |-> AnswerTo(q)]
  PROVE  SiblingsAreExact
<1>1. q.graph \in Seq(StoredEdge) /\ q.limit \in Nat
  BY DEF WellAsked
<1>2. answer.is = Siblings(q.graph, q.start, q.limit)
  BY DEF AnswerTo
<1>3. HasFirst(answer.is, SiblingsOf(q.graph, q.start), q.limit)
  BY <1>1, <1>2, SiblingsIs
<1>4. answer.is \subseteq SiblingsOf(q.graph, q.start) /\ Cardinality(answer.is) = AtMost(q.limit, Cardinality(SiblingsOf(q.graph, q.start)))
  BY <1>3 DEF HasFirst
<1>5. QED BY <1>4, Zenon DEF SiblingsAreExact, SiblingsOf

\* The part of GraphAnswersAreExact about blast radii.
LEMMA BlastsAreHonest ==
  ASSUME NEW q, q.ask = "blast", WellAsked(q), question = q, answer = [of |-> q.ask, is |-> AnswerTo(q)]
  PROVE  BlastRadiusIsHonest
<1> DEFINE callers(id) == Reach(q.graph, id, "reverse", "calls", 2)
           tests(id) == Reach(q.graph, id, "reverse", "tests", 1)
           from == ToSet(q.symbols)
           all == answer.is
<1>1. q.graph \in Seq(StoredEdge) /\ q.symbols \in Seq(Nat)
  BY DEF WellAsked
<1>2. all = BlastRadius(q)
  BY DEF AnswerTo
<1>3. \A id : id \in from <=> \E k \in 1 .. Len(q.symbols) : q.symbols[k] = id
  BY <1>1 DEF ToSet
<1> HIDE DEF all, from
<1>4. /\ Cardinality(all) <= MaxBlastRadiusItems
      /\ \A x \in all : \E id \in from : x \in Offered(q, id)
      /\ Cardinality(all) < MaxBlastRadiusItems => \A id \in from : Offered(q, id) \subseteq all
  BY <1>1, <1>2, <1>3, BlastIs
<1>5. \A id : /\ Callers(q, id) \subseteq callers(id)
              /\ Cardinality(callers(id)) <= MaxBlastRadiusItems => Callers(q, id) = callers(id)
  BY <1>1, WalkIs, ItemsAssumption DEF Callers
<1>6. \A id : /\ TestsFor(q, id) \subseteq tests(id)
              /\ Cardinality(tests(id)) <= MaxBlastRadiusItems => TestsFor(q, id) = tests(id)
  BY <1>1, WalkIs, ItemsAssumption DEF TestsFor
<1> HIDE DEF callers, tests
<1>7. \A kind, S, T : S \subseteq T => Unchanged(q, kind, S) \subseteq Unchanged(q, kind, T)
  BY DEF Unchanged
<1>8. all \subseteq UNION {Unchanged(q, "caller", callers(id)) \cup Unchanged(q, "test", tests(id)) : id \in from}
  <2>1. \A id : Offered(q, id) \subseteq Unchanged(q, "caller", callers(id)) \cup Unchanged(q, "test", tests(id))
    BY <1>5, <1>6, <1>7 DEF Offered
  <2>2. QED BY <1>4, <2>1
<1>9. ASSUME Cardinality(all) < MaxBlastRadiusItems, NEW id \in from
      PROVE  /\ Cardinality(callers(id)) <= MaxBlastRadiusItems => Unchanged(q, "caller", callers(id)) \subseteq all
             /\ Cardinality(tests(id)) <= MaxBlastRadiusItems => Unchanged(q, "test", tests(id)) \subseteq all
  <2>1. Offered(q, id) \subseteq all
    BY <1>4, <1>9
  <2>2. Unchanged(q, "caller", Callers(q, id)) \subseteq all /\ Unchanged(q, "test", TestsFor(q, id)) \subseteq all
    BY <2>1 DEF Offered
  <2>3. QED BY <1>5, <1>6, <2>2
<1>10. QED BY <1>4, <1>8, <1>9, Zenon DEF BlastRadiusIsHonest, callers, tests, from, all

\* A symbol is found under a path when it lies there, or would without its extension.
LEMMA EntriesAre ==
  ASSUME NEW s, NEW path, Entries(s, path) > 0
  PROVE  s.path = path \/ [s.path EXCEPT !.ext = ""] = path
<1>1. ASSUME s.path # path, [s.path EXCEPT !.ext = ""] # path PROVE Entries(s, path) = 0 + 0
  BY <1>1, Zenon DEF Entries
<1>2. ~(0 + 0 > 0)
  OBVIOUS
<1>3. QED BY <1>1, <1>2

\* The part of GraphAnswersAreExact about references: one match or none.
LEMMA LinksAreSingle ==
  ASSUME NEW q, q.ask = "resolve", WellAsked(q), question = q, answer = [of |-> q.ask, is |-> AnswerTo(q)]
  PROVE  LinksAreUnambiguous
<1> DEFINE r == q.reference
           S == Candidates(q, r)
           named == {s \in q.symbols : s.name = r.target}
           under(X, path) == {s \in X : Entries(s, path) > 0}
           bare(stem) == [stem |-> stem, ext |-> ""]
           own == {s \in q.symbols : s.path = r.path /\ s.name = r.target}
<1>1. /\ IsFiniteSet(q.symbols) /\ \A s \in q.symbols : s.path \in PathName /\ s.id # 0
      /\ \A s, t \in q.symbols : s.id = t.id => s = t
      /\ r.kind \in {"calls", "imports"}
  BY DEF WellAsked, ResolveInput
<1>2. answer.is = ResolveReference(q, r)
  BY DEF AnswerTo
<1>3. SUFFICES ASSUME answer.is # 0
      PROVE  LET target == CHOOSE s \in q.symbols : s.id = answer.is
             IN /\ r.kind = "calls" => target.name = r.target
                /\ r.kind = "calls" /\ r.at = "" /\ own # {} => own = {target}
                /\ r.kind = "calls" /\ r.at # "" => target.path.stem = <<r.at>>
                /\ r.kind = "imports" => target.path.stem \in {<<r.at>>, <<r.at, "index">>}
  BY DEF LinksAreUnambiguous
<1>4. S \subseteq q.symbols
  BY DEF Candidates
<1>5. PICK t : S = {t} /\ answer.is = t.id
  <2>1. Cardinality(S) = 1 /\ answer.is = (CHOOSE s \in S : TRUE).id
    BY <1>2, <1>3 DEF ResolveReference
  <2>2. IsFiniteSet(S)
    BY <1>1, <1>4, FS_Subset
  <2>3. PICK t : S = {t}
    BY <2>1, <2>2, FS_Singleton
  <2>4. (CHOOSE s \in S : TRUE) = t
    BY <2>3
  <2>5. QED BY <2>1, <2>3, <2>4
<1>6. t \in q.symbols
  BY <1>4, <1>5
<1>7. (CHOOSE s \in q.symbols : s.id = answer.is) = t
  BY <1>1, <1>5, <1>6
<1>8. ASSUME NEW s \in q.symbols, NEW stem, Entries(s, bare(stem)) > 0 PROVE s.path.stem = stem
  <2>1. s.path = bare(stem) \/ [s.path EXCEPT !.ext = ""] = bare(stem)
    BY <1>8, EntriesAre
  <2>2. [s.path EXCEPT !.ext = ""].stem = s.path.stem
    BY <1>1 DEF PathName
  <2>3. bare(stem).stem = stem
    OBVIOUS
  <2> HIDE DEF bare
  <2>4. QED BY <2>1, <2>2, <2>3
<1>9. \A s \in q.symbols : \A stem : Entries(s, bare(stem)) > 0 => s.path.stem = stem
  BY <1>8
<1> DEFINE local == under(named, r.path)
           first == under(q.symbols, bare(<<r.at>>))
           index == under(q.symbols, bare(<<r.at, "index">>))
<1>10. S = IF r.kind = "imports" THEN IF first = {} THEN index ELSE first
           ELSE IF r.kind = "calls" /\ r.at # "" THEN under(named, bare(<<r.at>>))
           ELSE IF \E s \in local : local = {s} /\ Entries(s, r.path) = 1 THEN local
           ELSE named
  BY DEF Candidates
<1>11. own \subseteq named /\ own \subseteq local
  BY DEF Entries
<1>12. CASE r.kind = "imports"
  <2>1. t \in first \/ t \in index
    BY <1>5, <1>10, <1>12
  <2>2. t.path.stem = <<r.at>> \/ t.path.stem = <<r.at, "index">>
    BY <1>9, <2>1
  <2>3. QED BY <1>7, <1>12, <2>2
<1>13. CASE r.kind = "calls" /\ r.at # ""
  <2>1. t \in under(named, bare(<<r.at>>))
    BY <1>5, <1>10, <1>13
  <2>2. t.name = r.target /\ t.path.stem = <<r.at>>
    BY <1>9, <2>1
  <2>3. QED BY <1>7, <1>13, <2>2
<1>14. CASE r.kind = "calls" /\ r.at = ""
  <2>1. S = local \/ S = named
    <3> HIDE DEF local, named, S
    <3>1. QED BY <1>10, <1>14
  <2>2. S \subseteq named
    BY <2>1
  <2>3. t.name = r.target
    BY <1>5, <2>2
  <2>4. own # {} => own = {t}
    <3> HIDE DEF local, named, S, own
    <3>1. QED BY <1>5, <1>11, <2>1
  <2>5. QED BY <1>7, <1>14, <2>3, <2>4
<1>15. QED BY <1>1, <1>12, <1>13, <1>14

(* ------------------------------- overlay ------------------------------- *)

\* The last symbol of a key that there is.
LEMMA LastOfIs ==
  ASSUME NEW symbols \in Seq(GraphSymbol), NEW d \in ToSet(symbols)
  PROVE  /\ LastOf(symbols, Key(d)) \in ToSet(symbols) /\ Key(LastOf(symbols, Key(d))) = Key(d)
<1> DEFINE P == {i \in DOMAIN symbols : Key(symbols[i]) = Key(d)}
<1>1. DOMAIN symbols = 1 .. Len(symbols) /\ Len(symbols) \in Nat
  OBVIOUS
<1>2. P # {}
  BY DEF ToSet
<1>3. P \subseteq Nat /\ IsFiniteSet(P)
  <2>1. P \subseteq 1 .. Len(symbols) /\ 1 .. Len(symbols) \subseteq Nat
    BY <1>1
  <2>2. IsFiniteSet(1 .. Len(symbols))
    BY <1>1, FS_Interval
  <2> HIDE DEF P
  <2>3. IsFiniteSet(P)
    BY <2>1, <2>2, FS_Subset
  <2>4. QED BY <2>1, <2>3
<1>4. PICK m \in P : \A k \in P : k <= m
  <2> HIDE DEF P
  <2>1. QED BY <1>2, <1>3, LastNumber
<1> DEFINE Is(i) == Key(symbols[i]) = Key(d) /\ \A j \in DOMAIN symbols : Key(symbols[j]) = Key(d) => j <= i
           c == CHOOSE i \in DOMAIN symbols : Is(i)
<1>5. \E i \in DOMAIN symbols : Is(i)
  BY <1>4
<1>6. c \in DOMAIN symbols /\ Is(c)
  <2> HIDE DEF Is
  <2>1. QED BY <1>5
<1>7. LastOf(symbols, Key(d)) = symbols[c]
  BY DEF LastOf
<1> HIDE DEF c
<1>8. QED BY <1>6, <1>7 DEF ToSet

\* The symbols of the head have negative IDs of their own.
LEMMA HeadIs ==
  ASSUME NEW q, OverlayInput(q)
  PROVE  /\ \A t : t \in HeadSymbols(q) <=>
              \E i \in 1 .. Len(q.head.symbols) : t = [q.head.symbols[i] EXCEPT !.id = -i]
         /\ \A t \in HeadSymbols(q) : t.id \in Int /\ t.id < 0
         /\ \A s, t \in HeadSymbols(q) : s.id = t.id => s = t
<1>1. q.head.symbols \in Seq(GraphSymbol)
  BY DEF OverlayInput
<1>2. DOMAIN q.head.symbols = 1 .. Len(q.head.symbols)
  BY <1>1
<1>3. \A t : t \in HeadSymbols(q) <=>
              \E i \in 1 .. Len(q.head.symbols) : t = [q.head.symbols[i] EXCEPT !.id = -i]
  BY <1>2 DEF HeadSymbols
<1>4. \A i \in 1 .. Len(q.head.symbols) : [q.head.symbols[i] EXCEPT !.id = -i].id = -i /\ -i \in Int /\ -i < 0
  <2>1. ASSUME NEW i \in 1 .. Len(q.head.symbols) PROVE [q.head.symbols[i] EXCEPT !.id = -i].id = -i
    <3>1. q.head.symbols[i] \in GraphSymbol
      BY <1>1
    <3>2. QED BY <3>1 DEF GraphSymbol
  <2>2. QED BY <2>1
<1>5. ASSUME NEW t \in HeadSymbols(q) PROVE \E i \in 1 .. Len(q.head.symbols) : t = [q.head.symbols[i] EXCEPT !.id = -i] /\ t.id = -i /\ -i \in Int /\ -i < 0
  BY <1>3, <1>4
<1>6. ASSUME NEW s \in HeadSymbols(q), NEW t \in HeadSymbols(q), s.id = t.id PROVE s = t
  <2>1. PICK i \in 1 .. Len(q.head.symbols) : s = [q.head.symbols[i] EXCEPT !.id = -i] /\ s.id = -i
    BY <1>5
  <2>2. PICK j \in 1 .. Len(q.head.symbols) : t = [q.head.symbols[j] EXCEPT !.id = -j] /\ t.id = -j
    BY <1>5
  <2>3. i = j
    BY <1>6, <2>1, <2>2
  <2>4. QED BY <2>1, <2>2, <2>3
<1>7. \A t \in HeadSymbols(q) : t.id \in Int /\ t.id < 0
  BY <1>5
<1>8. QED BY <1>3, <1>6, <1>7

\* The symbol of the head that a symbol of the base is replaced by.
LEMMA ReplacementIs ==
  ASSUME NEW q, OverlayInput(q), NEW id
  PROVE  /\ id \notin {s.id : s \in Dropped(q)} => Replacement(q, id) = id
         /\ id \in {s.id : s \in Dropped(q)} =>
              LET news == {s \in HeadSymbols(q) : \E o \in Dropped(q) : o.id = id /\ o = LastOf(q.base.symbols, Key(o)) /\ Key(o) = Key(s)}
              IN \/ news = {} /\ Replacement(q, id) = 0
                 \/ \E u \in news : Replacement(q, id) = u.id /\ \A t \in news : u.id <= t.id
<1> DEFINE news == {s \in HeadSymbols(q) : \E o \in Dropped(q) : o.id = id /\ o = LastOf(q.base.symbols, Key(o)) /\ Key(o) = Key(s)}
           least(s) == \A t \in news : s.id <= t.id
<1>1. Replacement(q, id) = IF id \notin {s.id : s \in Dropped(q)} THEN id
                           ELSE IF news = {} THEN 0 ELSE (CHOOSE s \in news : least(s)).id
  <2> DEFINE olds == {s \in Dropped(q) : s.id = id /\ s = LastOf(q.base.symbols, Key(s))}
             these == {s \in HeadSymbols(q) : \E o \in olds : Key(o) = Key(s)}
  <2>1. these = news
    OBVIOUS
  <2>2. Replacement(q, id) = IF id \notin {s.id : s \in Dropped(q)} THEN id
                             ELSE IF these = {} THEN 0 ELSE (CHOOSE s \in these : \A t \in these : s.id <= t.id).id
    BY DEF Replacement
  <2> HIDE DEF these, news
  <2>3. QED BY <2>1, <2>2
<1>2. ASSUME news # {} PROVE \E u \in news : least(u)
  <2> DEFINE P == {-s.id : s \in news}
  <2>1. \A s \in news : s \in HeadSymbols(q) /\ s.id \in Int /\ s.id < 0
    BY HeadIs
  <2>2. P \subseteq 1 .. Len(q.head.symbols)
    <3>1. ASSUME NEW s \in news PROVE -s.id \in 1 .. Len(q.head.symbols)
      <4>1. PICK i \in 1 .. Len(q.head.symbols) : s = [q.head.symbols[i] EXCEPT !.id = -i]
        BY <2>1, HeadIs
      <4>2. q.head.symbols[i] \in GraphSymbol
        BY DEF OverlayInput
      <4>3. s.id = -i
        BY <4>1, <4>2 DEF GraphSymbol
      <4>4. QED BY <4>3
    <3>2. QED BY <3>1
  <2> HIDE DEF news
  <2>3. P # {} /\ P \subseteq Nat /\ IsFiniteSet(P)
    <3>1. P # {}
      BY <1>2
    <3>2. Len(q.head.symbols) \in Nat
      BY DEF OverlayInput
    <3> HIDE DEF P
    <3>3. IsFiniteSet(1 .. Len(q.head.symbols)) /\ 1 .. Len(q.head.symbols) \subseteq Nat
      BY <3>2, FS_Interval
    <3>4. IsFiniteSet(P)
      BY <2>2, <3>3, FS_Subset
    <3>5. QED BY <2>2, <3>1, <3>3, <3>4
  <2>4. PICK m \in P : \A k \in P : k <= m
    <3> HIDE DEF P
    <3>1. QED BY <2>3, LastNumber
  <2>5. PICK u \in news : m = -u.id
    BY DEF P
  <2>6. \A t \in news : -t.id <= -u.id
    BY <2>4, <2>5
  <2>7. QED BY <2>1, <2>5, <2>6
<1> HIDE DEF news, least
<1>3. news # {} => (CHOOSE s \in news : least(s)) \in news /\ least(CHOOSE s \in news : least(s))
  BY <1>2
<1>4. QED BY <1>1, <1>3 DEF news, least

\* What the base holds of paths that changed and of others.
LEMMA BaseIs ==
  ASSUME NEW q, OverlayInput(q)
  PROVE  /\ \A s : s \in Kept(q) \cup Dropped(q) <=> s \in ToSet(q.base.symbols)
         /\ \A s \in Kept(q), d \in Dropped(q) : s.id # d.id
         /\ \A s \in ToSet(q.base.symbols) : s.id \in Nat /\ s.id > 0
         /\ \A s, t \in ToSet(q.base.symbols) : s.id = t.id => s = t
<1>1. q.base.symbols \in Seq(GraphSymbol)
  BY DEF OverlayInput
<1>2. \A s \in ToSet(q.base.symbols) : \E i \in DOMAIN q.base.symbols : s = q.base.symbols[i]
  BY DEF ToSet
<1>3. \A s, t \in ToSet(q.base.symbols) : s.id = t.id => s = t
  BY <1>2 DEF OverlayInput
<1>4. \A s \in ToSet(q.base.symbols) : s.id \in Nat /\ s.id > 0
  <2>1. \A s \in ToSet(q.base.symbols) : s \in GraphSymbol
    BY <1>1, <1>2
  <2>2. QED BY <2>1 DEF GraphSymbol
<1>5. QED BY <1>3, <1>4 DEF Kept, Dropped

SymbolIDs(q) == {s.id : s \in Kept(q) \cup HeadSymbols(q)}

\* An edge of the head leads to a symbol of the overlay or to nothing.
LEMMA NewIDIs ==
  ASSUME NEW q, OverlayInput(q), NEW path, NEW id
  PROVE  /\ id \in {s.id : s \in {t \in ToSet(q.head.symbols) : t.path = path}} => NewID(q, path, id) \in SymbolIDs(q)
         /\ id = 0 => NewID(q, path, id) = 0
<1> DEFINE at == {i \in DOMAIN q.head.symbols : q.head.symbols[i].path = path /\ q.head.symbols[i].id = id}
<1>1. NewID(q, path, id) = IF at = {} THEN id ELSE -(CHOOSE i \in at : TRUE)
  BY DEF NewID
<1>2. q.head.symbols \in Seq(GraphSymbol) /\ DOMAIN q.head.symbols = 1 .. Len(q.head.symbols)
  BY DEF OverlayInput
<1>3. ASSUME id \in {s.id : s \in {t \in ToSet(q.head.symbols) : t.path = path}}
      PROVE  NewID(q, path, id) \in SymbolIDs(q)
  <2>1. at # {}
    BY <1>3 DEF ToSet
  <2>2. PICK i \in at : NewID(q, path, id) = -i
    BY <1>1, <2>1
  <2>3. i \in 1 .. Len(q.head.symbols)
    BY <1>2
  <2> DEFINE t == [q.head.symbols[i] EXCEPT !.id = -i]
  <2>4. t \in HeadSymbols(q)
    BY <2>3, HeadIs
  <2>5. t.id = -i
    <3>1. q.head.symbols[i] \in GraphSymbol
      BY <1>2, <2>3
    <3>2. QED BY <3>1 DEF GraphSymbol
  <2> HIDE DEF t
  <2>6. QED BY <2>2, <2>4, <2>5 DEF SymbolIDs
<1>4. ASSUME id = 0 PROVE NewID(q, path, id) = 0
  <2>1. \A i \in DOMAIN q.head.symbols : q.head.symbols[i].id # 0
    <3>1. \A i \in DOMAIN q.head.symbols : q.head.symbols[i] \in GraphSymbol
      BY <1>2
    <3>2. QED BY <3>1 DEF GraphSymbol
  <2>2. at = {}
    BY <1>4, <2>1
  <2>3. QED BY <1>1, <1>4, <2>2
<1>5. QED BY <1>3, <1>4

\* An edge of the base is led to a symbol of the overlay or to nothing.
LEMMA ReplacementIsThere ==
  ASSUME NEW q, OverlayInput(q), NEW id, id = 0 \/ id \in {s.id : s \in ToSet(q.base.symbols)}
  PROVE  Replacement(q, id) = 0 \/ Replacement(q, id) \in SymbolIDs(q)
<1>1. CASE id \notin {s.id : s \in Dropped(q)}
  <2>1. Replacement(q, id) = id
    BY <1>1, ReplacementIs
  <2>2. id = 0 \/ id \in {s.id : s \in Kept(q)}
    BY <1>1, BaseIs
  <2>3. QED BY <2>1, <2>2 DEF SymbolIDs
<1>2. CASE id \in {s.id : s \in Dropped(q)}
  <2>1. Replacement(q, id) = 0 \/ \E u \in HeadSymbols(q) : Replacement(q, id) = u.id
    BY <1>2, ReplacementIs
  <2>2. QED BY <2>1 DEF SymbolIDs
<1>3. QED BY <1>1, <1>2

\* The edges of an overlay: those of the head with their new IDs, and the rewired
\* ones of the base that keep their source and their target or say they have none.
OwnEdge(q, e) ==
  [source |-> NewID(q, e.path, e.source), target |-> NewID(q, e.path, e.target), unresolved |-> e.unresolved]

\* A rewired edge has the replacements of its ends.
LEMMA RewiredIs ==
  ASSUME NEW q, OverlayInput(q), NEW e \in q.base.edges
  PROVE  /\ Rewired(q, e).source = Replacement(q, e.source) /\ Rewired(q, e).target = Replacement(q, e.target)
         /\ Rewired(q, e).unresolved = e.unresolved
<1>1. e \in OverlayEdge
  BY DEF OverlayInput
<1>2. QED BY <1>1 DEF Rewired, OverlayEdge

\* No edge of an overlay leads to a symbol that is not in it.
LEMMA EdgesAreClosed ==
  ASSUME NEW q, OverlayInput(q), NEW e \in Overlay(q).edges
  PROVE  e.source \in SymbolIDs(q) /\ (e.target \in SymbolIDs(q) \/ (e.target = 0 /\ e.unresolved))
<1>1. \/ \E h \in q.head.edges : e = OwnEdge(q, h)
      \/ \E b \in q.base.edges : e = Rewired(q, b) /\ e.source # 0 /\ (e.target # 0 \/ e.unresolved)
  BY DEF Overlay, OwnEdge
<1>2. CASE \E h \in q.head.edges : e = OwnEdge(q, h)
  <2>1. PICK h \in q.head.edges : e = OwnEdge(q, h)
    BY <1>2
  <2> DEFINE own == {s.id : s \in {t \in ToSet(q.head.symbols) : t.path = h.path}}
  <2>2. h.source \in own /\ (h.target \in own \/ (h.target = 0 /\ h.unresolved))
    BY DEF OverlayInput
  <2>3. e.source = NewID(q, h.path, h.source) /\ e.target = NewID(q, h.path, h.target) /\ e.unresolved = h.unresolved
    BY <2>1 DEF OwnEdge
  <2> HIDE DEF own
  <2>4. \A id : id \in own => NewID(q, h.path, id) \in SymbolIDs(q)
    BY NewIDIs DEF own
  <2>5. NewID(q, h.path, 0) = 0
    BY NewIDIs
  <2>6. QED BY <2>2, <2>3, <2>4, <2>5
<1>3. CASE \E b \in q.base.edges : e = Rewired(q, b) /\ e.source # 0 /\ (e.target # 0 \/ e.unresolved)
  <2>1. PICK b \in q.base.edges : e = Rewired(q, b) /\ e.source # 0 /\ (e.target # 0 \/ e.unresolved)
    BY <1>3
  <2>2. {b.source, b.target} \subseteq {s.id : s \in ToSet(q.base.symbols)} \cup {0}
    BY DEF OverlayInput
  <2>3. e.source = Replacement(q, b.source) /\ e.target = Replacement(q, b.target)
    BY <2>1, RewiredIs
  <2>4. /\ b.source = 0 \/ b.source \in {s.id : s \in ToSet(q.base.symbols)}
        /\ b.target = 0 \/ b.target \in {s.id : s \in ToSet(q.base.symbols)}
    BY <2>2
  <2>5. /\ Replacement(q, b.source) = 0 \/ Replacement(q, b.source) \in SymbolIDs(q)
        /\ Replacement(q, b.target) = 0 \/ Replacement(q, b.target) \in SymbolIDs(q)
    BY <2>4, ReplacementIsThere
  <2>6. QED BY <2>1, <2>3, <2>5
<1>4. QED BY <1>1, <1>2, <1>3

\* An edge from a file that did not change follows the last symbol of its key.
LEMMA EdgesFollow ==
  ASSUME NEW q, OverlayInput(q), NEW s \in Dropped(q), NEW t \in HeadSymbols(q), Key(s) = Key(t),
         s = LastOf(q.base.symbols, Key(s)), \A u \in HeadSymbols(q) : Key(t) = Key(u) => t.id <= u.id,
         NEW e \in q.base.edges, NEW k \in Kept(q), e.source = k.id, e.target = s.id
  PROVE  \E n \in Overlay(q).edges : n.source = k.id /\ n.target = t.id
<1>1. Replacement(q, k.id) = k.id
  <2>1. k.id \notin {d.id : d \in Dropped(q)}
    BY BaseIs
  <2>2. QED BY <2>1, ReplacementIs
<1> DEFINE news == {w \in HeadSymbols(q) : \E o \in Dropped(q) : o.id = s.id /\ o = LastOf(q.base.symbols, Key(o)) /\ Key(o) = Key(w)}
<1>2. s.id \in {d.id : d \in Dropped(q)}
  OBVIOUS
<1>3. \/ news = {} /\ Replacement(q, s.id) = 0
      \/ \E u \in news : Replacement(q, s.id) = u.id /\ \A w \in news : u.id <= w.id
  BY <1>2, ReplacementIs
<1>4. t \in news
  OBVIOUS
<1>5. \A u \in news : Key(u) = Key(t)
  <2>1. \A o \in Dropped(q) : o.id = s.id => o = s
    BY BaseIs DEF Dropped
  <2>2. QED BY <2>1
<1>6. \A u \in news : u \in HeadSymbols(q) /\ u.id \in Int /\ u.id < 0
  BY HeadIs
<1> HIDE DEF news
<1>7. PICK u \in news : Replacement(q, s.id) = u.id /\ u.id <= t.id
  BY <1>3, <1>4
<1>8. t.id <= u.id
  BY <1>5, <1>6
<1>9. Replacement(q, s.id) = t.id /\ t.id # 0
  BY <1>4, <1>6, <1>7, <1>8
<1>10. k.id # 0
  BY BaseIs
<1>11. Rewired(q, e).source = k.id /\ Rewired(q, e).target = t.id
  BY <1>1, <1>9, RewiredIs
<1>12. Rewired(q, e) \in Overlay(q).edges
  BY <1>9, <1>10, <1>11 DEF Overlay
<1>13. QED BY <1>11, <1>12

\* The part of GraphAnswersAreExact about overlays.
LEMMA OverlaysAreClosed ==
  ASSUME NEW q, q.ask = "overlay", WellAsked(q), question = q, answer = [of |-> q.ask, is |-> AnswerTo(q)]
  PROVE  OverlayIsClosed
<1> DEFINE o == Overlay(q)
           same(s, t) == Key(s) = Key(t)
           lastOfBase(s) == s = LastOf(q.base.symbols, Key(s))
           lastOfHead(t) == \A u \in HeadSymbols(q) : same(t, u) => t.id <= u.id
           ids == {s.id : s \in o.symbols}
<1>1. OverlayInput(q) /\ q.base.symbols \in Seq(GraphSymbol)
  BY DEF WellAsked, OverlayInput
<1>2. answer.is = o
  BY DEF AnswerTo
<1>3. /\ o.symbols = Kept(q) \cup HeadSymbols(q)
      /\ o.added = {s \in HeadSymbols(q) : Key(s) \notin Keys(Dropped(q))}
      /\ o.modified = {s \in HeadSymbols(q) : Key(s) \in Keys(Dropped(q)) /\ LastOf(q.base.symbols, Key(s)).text # s.text}
      /\ o.removed = {s \in Dropped(q) : s = LastOf(q.base.symbols, Key(s)) /\ Key(s) \notin Keys(HeadSymbols(q))}
  BY DEF Overlay
<1>4. ids = SymbolIDs(q)
  BY <1>3 DEF SymbolIDs
<1> HIDE DEF o
<1>5. \A e \in o.edges : e.source \in ids /\ (e.target \in ids \/ (e.target = 0 /\ e.unresolved))
  BY <1>1, <1>4, EdgesAreClosed DEF o
<1>6. \A s, t \in o.symbols : s.id = t.id => s = t
  <2>1. /\ \A s, t \in Kept(q) : s.id = t.id => s = t
        /\ \A s \in Kept(q) : s.id \in Nat
    BY <1>1, BaseIs
  <2>2. /\ \A s, t \in HeadSymbols(q) : s.id = t.id => s = t
        /\ \A t \in HeadSymbols(q) : t.id \in Int /\ t.id < 0
    BY <1>1, HeadIs
  <2>3. \A s \in Kept(q), t \in HeadSymbols(q) : s.id # t.id
    BY <2>1, <2>2
  <2>4. QED BY <1>3, <2>1, <2>2, <2>3
<1>7. ASSUME NEW s \in Dropped(q), NEW t \in HeadSymbols(q), same(s, t), lastOfBase(s)
      PROVE  /\ lastOfHead(t) => \A e \in q.base.edges, k \in Kept(q) : e.source = k.id /\ e.target = s.id =>
                  \E n \in o.edges : n.source = k.id /\ n.target = t.id
             /\ (t \in o.modified) = (s.text # t.text)
  <2>1. lastOfHead(t) => \A e \in q.base.edges, k \in Kept(q) : e.source = k.id /\ e.target = s.id =>
                  \E n \in o.edges : n.source = k.id /\ n.target = t.id
    BY <1>1, <1>7, EdgesFollow DEF o
  <2>2. LastOf(q.base.symbols, Key(t)) = s /\ Key(t) \in Keys(Dropped(q))
    BY <1>7 DEF Keys
  <2>3. t \in o.modified <=> s.text # t.text
    BY <1>3, <2>2
  <2>4. QED BY <2>1, <2>3
<1>8. o.added = {t \in HeadSymbols(q) : ~\E s \in Dropped(q) : same(s, t)}
  BY <1>3 DEF Keys
<1>9. Keys(o.removed) = {Key(s) : s \in {d \in Dropped(q) : ~\E t \in HeadSymbols(q) : same(d, t)}}
  <2> DEFINE gone == {d \in Dropped(q) : ~\E t \in HeadSymbols(q) : same(d, t)}
  <2>1. \A s \in o.removed : s \in gone
    BY <1>3 DEF Keys
  <2>2. ASSUME NEW d \in gone PROVE \E s \in o.removed : Key(s) = Key(d)
    <3> DEFINE s == LastOf(q.base.symbols, Key(d))
    <3>1. d \in ToSet(q.base.symbols) /\ d.path \in q.changed
      BY DEF Dropped
    <3>2. s \in ToSet(q.base.symbols) /\ Key(s) = Key(d)
      BY <1>1, <3>1, LastOfIs
    <3>3. s.path = d.path
      BY <3>2 DEF Key
    <3>4. s \in Dropped(q)
      BY <3>1, <3>2, <3>3 DEF Dropped
    <3>5. Key(s) \notin Keys(HeadSymbols(q))
      BY <3>2 DEF Keys
    <3>6. s = LastOf(q.base.symbols, Key(s))
      BY <3>2
    <3> HIDE DEF s
    <3>7. QED BY <1>3, <3>2, <3>4, <3>5, <3>6
  <2> HIDE DEF gone
  <2>3. Keys(o.removed) = Keys(gone)
    BY <2>1, <2>2 DEF Keys
  <2>4. QED BY <2>3 DEF Keys, gone
<1> DEFINE Follow(s, t) == \A e \in q.base.edges, k \in Kept(q) : e.source = k.id /\ e.target = s.id =>
                             \E n \in o.edges : n.source = k.id /\ n.target = t.id
<1>10. \A s \in Dropped(q), t \in HeadSymbols(q) : same(s, t) /\ lastOfBase(s) =>
         (lastOfHead(t) => Follow(s, t)) /\ (t \in o.modified) = (s.text # t.text)
  BY <1>7
<1> HIDE DEF Follow
<1>11. OverlayIsClosed = (Questioned("overlay") =>
         /\ \A e \in o.edges : e.source \in ids /\ (e.target \in ids \/ (e.target = 0 /\ e.unresolved))
         /\ \A s, t \in o.symbols : s.id = t.id => s = t
         /\ \A s \in Dropped(q), t \in HeadSymbols(q) : same(s, t) /\ lastOfBase(s) =>
              (lastOfHead(t) => Follow(s, t)) /\ (t \in o.modified) = (s.text # t.text)
         /\ o.added = {t \in HeadSymbols(q) : ~\E s \in Dropped(q) : same(s, t)}
         /\ Keys(o.removed) = {Key(s) : s \in {d \in Dropped(q) : ~\E t \in HeadSymbols(q) : same(d, t)}})
  BY <1>2 DEF OverlayIsClosed, Follow
<1>12. QED BY <1>5, <1>6, <1>8, <1>9, <1>10, <1>11

\* Every answer is exact, whatever is asked.
GraphInv ==
  /\ question \in Questions
  /\ \/ answer = [of |-> Unanswered]
     \/ answer = [of |-> question.ask, is |-> AnswerTo(question)]

\* The five parts of GraphAnswersAreExact from what the answer is.
LEMMA AnswersAreExact == ASSUME GraphInv PROVE GraphAnswersAreExact
<1> DEFINE q == question
<1>1. WellAsked(q) /\ q.ask \in {"overlay", "walk", "siblings", "blast", "resolve"}
  BY QuestionsAssumption DEF GraphInv, WellAsked
<1>2. CASE answer = [of |-> Unanswered]
  <2>1. \A ask \in {"overlay", "walk", "siblings", "blast", "resolve"} : ~Questioned(ask)
    BY <1>2 DEF Questioned, Unanswered
  <2>2. QED BY <2>1 DEF GraphAnswersAreExact, OverlayIsClosed, WalkIsExact, SiblingsAreExact, BlastRadiusIsHonest, LinksAreUnambiguous
<1>3. CASE answer = [of |-> q.ask, is |-> AnswerTo(q)]
  <2>1. \A ask \in {"overlay", "walk", "siblings", "blast", "resolve"} : Questioned(ask) => q.ask = ask
    BY <1>3 DEF Questioned
  <2>2. Questioned("overlay") => OverlayIsClosed
    BY <1>1, <1>3, <2>1, OverlaysAreClosed
  <2>3. Questioned("walk") => WalkIsExact
    BY <1>1, <1>3, <2>1, WalksAreExact
  <2>4. Questioned("siblings") => SiblingsAreExact
    BY <1>1, <1>3, <2>1, SiblingsAreFound
  <2>5. Questioned("blast") => BlastRadiusIsHonest
    BY <1>1, <1>3, <2>1, BlastsAreHonest
  <2>6. Questioned("resolve") => LinksAreUnambiguous
    BY <1>1, <1>3, <2>1, LinksAreSingle
  <2>7. /\ ~Questioned("overlay") => OverlayIsClosed
        /\ ~Questioned("walk") => WalkIsExact
        /\ ~Questioned("siblings") => SiblingsAreExact
        /\ ~Questioned("blast") => BlastRadiusIsHonest
        /\ ~Questioned("resolve") => LinksAreUnambiguous
    BY DEF OverlayIsClosed, WalkIsExact, SiblingsAreExact, BlastRadiusIsHonest, LinksAreUnambiguous
  <2>8. QED BY <2>2, <2>3, <2>4, <2>5, <2>6, <2>7 DEF GraphAnswersAreExact
<1>4. QED BY <1>2, <1>3 DEF GraphInv

\* Whatever graph is asked whatever, with whatever limits, the answer is exact up
\* to them: GraphAnswersAreExact.
THEOREM GraphIsAnsweredExactly == GraphSpec => []GraphAnswersAreExact
<1>1. GraphInit => GraphInv
  BY DEF GraphInit, GraphInv
<1>2. GraphInv /\ [Answer]_graphVars => GraphInv'
  BY DEF GraphInv, Answer, graphVars
<1>3. GraphInv => GraphAnswersAreExact
  BY AnswersAreExact
<1>4. QED BY <1>1, <1>2, <1>3, PTL DEF GraphSpec

(* -------------------------------- Chunker ------------------------------- *)

\* A set of numbers has a least one, and with a bound a greatest one.
LEMMA LeastIsIn ==
  ASSUME NEW S, S \subseteq Nat, S # {}
  PROVE  Least(S) \in S /\ \A k \in S : Least(S) <= k
BY SmallestNumber DEF Least

LEMMA GreatestIsIn ==
  ASSUME NEW n \in Nat, NEW S, S \subseteq 0 .. n, S # {}
  PROVE  Greatest(S) \in S /\ \A k \in S : k <= Greatest(S)
<1> DEFINE Distances == {d \in Nat : \E k \in S : d = n - k}
<1>1. \A k \in S : k \in Nat /\ n - k \in Distances
  OBVIOUS
<1>2. Distances \subseteq Nat /\ Distances # {}
  BY <1>1
<1>3. PICK d \in Distances : \A e \in Distances : d <= e
  <2> HIDE DEF Distances
  <2>1. QED BY <1>2, SmallestNumber
<1>4. PICK m \in S : d = n - m
  OBVIOUS
<1>5. \A k \in S : k <= m
  BY <1>1, <1>3, <1>4
<1>6. QED BY <1>4, <1>5 DEF Greatest

(* ------------------------------- counting ------------------------------ *)

Text == Seq({"w", "L", "c", "s", "n"})

\* What Count counts: the places where a run of word characters begins.
Runs(content, a, b) ==
  {i \in a .. b - 1 : /\ IsWord(Byte(content, i))
                      /\ i = a \/ ~IsWord(Byte(content, i - 1))}

LEMMA RunsAreCounted ==
  ASSUME NEW content, NEW a \in Nat, NEW b \in Nat
  PROVE  /\ IsFiniteSet(Runs(content, a, b))
         /\ Count(content, a, b) = Cardinality(Runs(content, a, b))
         /\ Count(content, a, b) \in Nat
<1>1. IsFiniteSet(a .. b - 1) /\ Runs(content, a, b) \subseteq a .. b - 1
  BY FS_Interval DEF Runs
<1>2. IsFiniteSet(Runs(content, a, b))
  BY <1>1, FS_Subset
<1>3. QED BY <1>2, FS_CardinalityType DEF Count, Runs

\* A longer text has at least as many words.
LEMMA CountGrows ==
  ASSUME NEW content, NEW a \in Nat, NEW b \in Nat, NEW c \in Nat, b <= c
  PROVE  Count(content, a, b) <= Count(content, a, c)
<1>1. Runs(content, a, b) \subseteq Runs(content, a, c)
  BY DEF Runs
<1>2. QED BY <1>1, RunsAreCounted, FS_Subset

\* Cutting a text loses no word.
LEMMA CountSplits ==
  ASSUME NEW content, NEW a \in Nat, NEW b \in Nat, NEW c \in Nat, a <= b
  PROVE  Count(content, a, c) <= Count(content, a, b) + Count(content, b, c)
<1> DEFINE R == Runs(content, a, b) S == Runs(content, b, c) T == Runs(content, a, c)
<1>1. T \subseteq R \union S
  BY DEF Runs
<1>2. IsFiniteSet(R) /\ IsFiniteSet(S) /\ IsFiniteSet(T)
  BY RunsAreCounted
<1>3. /\ IsFiniteSet(R \union S)
      /\ Cardinality(R \union S) = Cardinality(R) + Cardinality(S) - Cardinality(R \cap S)
  BY <1>2, FS_Union
<1>4. Cardinality(R \cap S) \in Nat /\ Cardinality(R) \in Nat /\ Cardinality(S) \in Nat
  BY <1>2, FS_Intersection, FS_CardinalityType
<1>5. Cardinality(T) <= Cardinality(R \union S) /\ Cardinality(T) \in Nat
  BY <1>1, <1>2, <1>3, FS_Subset, FS_CardinalityType
<1> HIDE DEF R, S, T
<1>6. Cardinality(T) <= Cardinality(R) + Cardinality(S)
  BY <1>3, <1>4, <1>5, FS_CardinalityType
<1>7. QED BY <1>6, RunsAreCounted DEF R, S, T

\* In UTF-8 a following byte follows.
UTF8(content) ==
  /\ content \in Text
  /\ \A i \in DOMAIN content : content[i] = "c" => i > 1 /\ content[i - 1] \in {"L", "c"}

\* One character has one word at most.
LEMMA CountOfRune ==
  ASSUME NEW content, UTF8(content), NEW a \in Nat, NEW b \in Nat, b <= Len(content),
         \A i \in a + 1 .. b - 1 : Byte(content, i) = "c"
  PROVE  Count(content, a, b) <= 1
<1>1. \A i \in a + 1 .. b - 1 : IsWord(Byte(content, i - 1))
  <2> TAKE i \in a + 1 .. b - 1
  <2>1. i \in Nat /\ i + 1 \in DOMAIN content /\ content[i + 1] = "c"
    BY DEF Byte, UTF8, Text
  <2>2. content[i] \in {"L", "c"}
    BY <2>1 DEF UTF8
  <2>3. QED BY <2>1, <2>2 DEF Byte, IsWord
<1>2. Runs(content, a, b) \subseteq {a}
  BY <1>1 DEF Runs
<1>3. Cardinality({a}) = 1 /\ IsFiniteSet({a})
  BY FS_Singleton
<1>4. QED BY <1>2, <1>3, RunsAreCounted, FS_Subset

(* -------------------------------- chains ------------------------------- *)

\* Parts of a text that follow each other from one offset to another.
Chain(s, from, to) ==
  /\ from \in Nat /\ to \in Nat
  /\ \A i \in 1 .. Len(s) : s[i].start \in Nat /\ s[i].end \in Nat /\ s[i].start < s[i].end
  /\ \A i \in 2 .. Len(s) : s[i].start = s[i - 1].end
  /\ IF Len(s) = 0 THEN from = to ELSE s[1].start = from /\ s[Len(s)].end = to

LEMMA ChainOrder ==
  ASSUME NEW X, NEW s \in Seq(X), NEW from, NEW to, Chain(s, from, to)
  PROVE  /\ \A i, j \in 1 .. Len(s) : i < j => s[i].end <= s[j].start
         /\ \A i \in 1 .. Len(s) : from <= s[i].start /\ s[i].end <= to
         /\ from <= to
<1>1. ASSUME NEW i \in 1 .. Len(s)
      PROVE  \A j \in 1 .. Len(s) : i < j => s[i].end <= s[j].start
  <2> DEFINE Bad == {j \in Nat : j \in 1 .. Len(s) /\ i < j /\ ~(s[i].end <= s[j].start)}
  <2>1. SUFFICES ASSUME Bad # {} PROVE FALSE
    OBVIOUS
  <2>2. PICK j \in Bad : \A k \in Bad : j <= k
    <3>1. Bad \subseteq Nat /\ Bad # {}
      BY <2>1
    <3> HIDE DEF Bad
    <3>2. QED BY <3>1, SmallestNumber
  <2>3. j \in 1 .. Len(s) /\ i < j /\ ~(s[i].end <= s[j].start)
    OBVIOUS
  <2>4. s[j].start = s[j - 1].end /\ s[j].start \in Nat
    BY <2>3 DEF Chain
  <2>5. j - 1 \in 1 .. Len(s) /\ j - 1 \notin Bad
    BY <2>2, <2>3
  <2>6. j - 1 # i
    BY <2>3, <2>4
  <2>7. s[i].end <= s[j - 1].start
    BY <2>3, <2>5, <2>6
  <2>8. s[j - 1].start < s[j - 1].end /\ s[j - 1].start \in Nat /\ s[j - 1].end \in Nat /\ s[i].end \in Nat
    BY <2>5 DEF Chain
  <2>9. QED BY <2>3, <2>4, <2>7, <2>8
<1>2. ASSUME NEW i \in 1 .. Len(s)
      PROVE  from <= s[i].start /\ s[i].end <= to
  <2>1. 1 \in 1 .. Len(s) /\ Len(s) \in 1 .. Len(s) /\ Len(s) # 0
    OBVIOUS
  <2>2. s[1].start = from /\ s[Len(s)].end = to
    BY <2>1 DEF Chain
  <2>3. \A j \in 1 .. Len(s) : s[j].start \in Nat /\ s[j].end \in Nat /\ s[j].start < s[j].end
    BY DEF Chain
  <2>4. from <= s[i].start
    <3>1. CASE i = 1
      BY <2>2, <2>3, <3>1
    <3>2. CASE i # 1
      <4>1. s[1].end <= s[i].start
        BY <1>1, <2>1, <3>2
      <4>2. QED BY <2>1, <2>2, <2>3, <4>1
    <3>3. QED BY <3>1, <3>2
  <2>5. s[i].end <= to
    <3>1. CASE i = Len(s)
      BY <2>2, <2>3, <3>1
    <3>2. CASE i # Len(s)
      <4>1. s[i].end <= s[Len(s)].start
        BY <1>1, <2>1, <3>2
      <4>2. QED BY <2>1, <2>2, <2>3, <4>1
    <3>3. QED BY <3>1, <3>2
  <2>6. QED BY <2>4, <2>5
<1>3. from <= to
  <2>1. CASE Len(s) = 0
    BY <2>1 DEF Chain
  <2>2. CASE Len(s) # 0
    <3>1. 1 \in 1 .. Len(s)
      BY <2>2
    <3>2. from <= s[1].start /\ s[1].end <= to /\ s[1].start < s[1].end
      BY <1>2, <3>1 DEF Chain
    <3>3. QED BY <3>1, <3>2 DEF Chain
  <2>3. QED BY <2>1, <2>2
<1>4. QED BY <1>1, <1>2, <1>3

\* Every byte is in some part.
LEMMA ChainCovers ==
  ASSUME NEW X, NEW s \in Seq(X), NEW from, NEW to, Chain(s, from, to),
         NEW x \in Nat, from <= x, x < to
  PROVE  \E i \in 1 .. Len(s) : s[i].start <= x /\ x < s[i].end
<1> DEFINE Later == {i \in Nat : i \in 1 .. Len(s) /\ x < s[i].end}
<1>1. Len(s) # 0 /\ Len(s) \in Later
  BY DEF Chain
<1>2. PICK i \in Later : \A k \in Later : i <= k
  <2>1. Later \subseteq Nat /\ Later # {}
    BY <1>1
  <2> HIDE DEF Later
  <2>2. QED BY <2>1, SmallestNumber
<1>3. i \in 1 .. Len(s) /\ x < s[i].end
  OBVIOUS
<1>4. CASE i = 1
  BY <1>1, <1>3, <1>4 DEF Chain
<1>5. CASE i # 1
  <2>1. i - 1 \in 1 .. Len(s) /\ i - 1 \notin Later /\ i \in 2 .. Len(s)
    BY <1>2, <1>3, <1>5
  <2>2. s[i].start = s[i - 1].end /\ s[i - 1].end \in Nat
    BY <2>1 DEF Chain
  <2>3. ~(x < s[i - 1].end)
    BY <2>1
  <2>4. QED BY <1>3, <2>2, <2>3
<1>6. QED BY <1>4, <1>5

LEMMA ChainConcat ==
  ASSUME NEW X, NEW s \in Seq(X), NEW t \in Seq(X), NEW a, NEW b, NEW c, Chain(s, a, b), Chain(t, b, c)
  PROVE  Chain(s \o t, a, c)
<1> DEFINE u == s \o t
<1>1. Len(u) = Len(s) + Len(t) /\ Len(s) \in Nat /\ Len(t) \in Nat
  OBVIOUS
<1>2. \A i \in 1 .. Len(s) : u[i] = s[i]
  OBVIOUS
<1>3. \A i \in 1 .. Len(u) : i > Len(s) => i - Len(s) \in 1 .. Len(t) /\ u[i] = t[i - Len(s)]
  OBVIOUS
<1> HIDE DEF u
<1>4. \A i \in 1 .. Len(u) : u[i].start \in Nat /\ u[i].end \in Nat /\ u[i].start < u[i].end
  <2> TAKE i \in 1 .. Len(u)
  <2>1. CASE i <= Len(s)
    <3>1. i \in 1 .. Len(s)
      BY <1>1, <2>1
    <3>2. QED BY <1>2, <3>1 DEF Chain
  <2>2. CASE i > Len(s)
    BY <1>3, <2>2 DEF Chain
  <2>3. QED BY <1>1, <2>1, <2>2
<1>5. \A i \in 2 .. Len(u) : u[i].start = u[i - 1].end
  <2> TAKE i \in 2 .. Len(u)
  <2>1. CASE i <= Len(s)
    <3>1. i \in 2 .. Len(s) /\ i \in 1 .. Len(s) /\ i - 1 \in 1 .. Len(s)
      BY <1>1, <2>1
    <3>2. QED BY <1>2, <3>1 DEF Chain
  <2>2. CASE i > Len(s) + 1
    <3>1. i - Len(s) \in 2 .. Len(t) /\ i - 1 \in 1 .. Len(u) /\ i - 1 > Len(s) /\ i > Len(s) /\ i \in 1 .. Len(u)
      BY <1>1, <2>2
    <3>2. (i - 1) - Len(s) = (i - Len(s)) - 1
      BY <1>1
    <3>3. u[i] = t[i - Len(s)] /\ u[i - 1] = t[(i - Len(s)) - 1]
      BY <1>3, <3>1, <3>2
    <3>4. QED BY <3>1, <3>3 DEF Chain
  <2>3. CASE i = Len(s) + 1
    <3>1. i - Len(s) = 1 /\ Len(s) \in 1 .. Len(s) /\ i - 1 = Len(s) /\ i > Len(s) /\ i \in 1 .. Len(u) /\ Len(t) # 0 /\ Len(s) # 0
      BY <1>1, <2>3
    <3>2. u[i] = t[1] /\ u[i - 1] = s[Len(s)]
      BY <1>2, <1>3, <3>1
    <3>3. QED BY <3>1, <3>2 DEF Chain
  <2>4. QED BY <1>1, <2>1, <2>2, <2>3
<1>6. IF Len(u) = 0 THEN a = c ELSE u[1].start = a /\ u[Len(u)].end = c
  <2>1. CASE Len(s) = 0
    <3>1. a = b /\ Len(u) = Len(t)
      BY <1>1, <2>1 DEF Chain
    <3>2. \A i \in 1 .. Len(u) : u[i] = t[i]
      BY <1>1, <1>3, <2>1
    <3>3. QED BY <1>1, <3>1, <3>2 DEF Chain
  <2>2. CASE Len(s) # 0 /\ Len(t) = 0
    <3>1. b = c /\ Len(u) = Len(s) /\ 1 \in 1 .. Len(s) /\ Len(s) \in 1 .. Len(s)
      BY <1>1, <2>2 DEF Chain
    <3>2. QED BY <1>2, <2>2, <3>1 DEF Chain
  <2>3. CASE Len(s) # 0 /\ Len(t) # 0
    <3>1. 1 \in 1 .. Len(s) /\ Len(u) \in 1 .. Len(u) /\ Len(u) > Len(s) /\ Len(u) - Len(s) = Len(t)
      BY <1>1, <2>3
    <3>2. u[1] = s[1] /\ u[Len(u)] = t[Len(t)]
      BY <1>2, <1>3, <3>1
    <3>3. QED BY <1>1, <2>3, <3>2 DEF Chain
  <2>4. QED BY <2>1, <2>2, <2>3
<1>7. QED BY <1>4, <1>5, <1>6 DEF Chain, u

\* A chain ends and begins anew behind each of its parts.
LEMMA ChainSplits ==
  ASSUME NEW X, NEW s \in Seq(X), NEW a, NEW b, Chain(s, a, b), NEW n \in 1 .. Len(s)
  PROVE  /\ Chain(SubSeq(s, 1, n), a, s[n].end)
         /\ Chain(SubSeq(s, n + 1, Len(s)), s[n].end, b)
<1> DEFINE p == SubSeq(s, 1, n)
           q == SubSeq(s, n + 1, Len(s))
<1>1. Len(p) = n /\ \A i \in 1 .. n : p[i] = s[i]
  OBVIOUS
<1>2. Len(q) = Len(s) - n /\ \A i \in 1 .. Len(s) - n : q[i] = s[n + i]
  OBVIOUS
<1>3. n \in Nat /\ n >= 1 /\ n <= Len(s) /\ Len(s) \in Nat /\ Len(s) # 0
  OBVIOUS
<1> HIDE DEF p, q
<1>4. Chain(p, a, s[n].end)
  <2>1. \A i \in 1 .. n : i \in 1 .. Len(s)
    BY <1>3
  <2>2. \A i \in 2 .. n : i \in 2 .. Len(s) /\ i \in 1 .. n /\ i - 1 \in 1 .. n
    BY <1>3
  <2>3. 1 \in 1 .. n /\ n \in 1 .. n
    BY <1>3
  <2>4. \A i \in 1 .. Len(p) : p[i].start \in Nat /\ p[i].end \in Nat /\ p[i].start < p[i].end
    BY <1>1, <2>1 DEF Chain
  <2>5. \A i \in 2 .. Len(p) : p[i].start = p[i - 1].end
    BY <1>1, <2>2 DEF Chain
  <2>6. p[1].start = a /\ p[Len(p)].end = s[n].end /\ a \in Nat /\ s[n].end \in Nat /\ Len(p) # 0
    BY <1>1, <1>3, <2>3 DEF Chain
  <2>7. QED BY <2>4, <2>5, <2>6 DEF Chain
<1>5. Chain(q, s[n].end, b)
  <2>1. \A i \in 1 .. Len(q) : n + i \in 1 .. Len(s) /\ n + i \in 2 .. Len(s) /\ q[i] = s[n + i]
    BY <1>2, <1>3
  <2>2. \A i \in 2 .. Len(q) : i - 1 \in 1 .. Len(q) /\ n + (i - 1) = (n + i) - 1 /\ i \in 1 .. Len(q)
    BY <1>2, <1>3
  <2>3. \A i \in 2 .. Len(q) : q[i].start = q[i - 1].end
    BY <2>1, <2>2 DEF Chain
  <2>4. IF Len(q) = 0 THEN s[n].end = b ELSE q[1].start = s[n].end /\ q[Len(q)].end = b
    <3>1. CASE Len(q) = 0
      <4>1. n = Len(s)
        BY <1>2, <1>3, <3>1
      <4>2. QED BY <1>3, <3>1, <4>1 DEF Chain
    <3>2. CASE Len(q) # 0
      <4>1. 1 \in 1 .. Len(q) /\ Len(q) \in 1 .. Len(q) /\ n + Len(q) = Len(s) /\ (n + 1) - 1 = n
        BY <1>2, <1>3, <3>2
      <4>2. q[1] = s[n + 1] /\ q[Len(q)] = s[Len(s)] /\ s[n + 1].start = s[(n + 1) - 1].end
        BY <2>1, <4>1 DEF Chain
      <4>3. QED BY <1>3, <3>2, <4>1, <4>2 DEF Chain
    <3>3. QED BY <3>1, <3>2
  <2>5. s[n].end \in Nat
    BY DEF Chain
  <2>6. QED BY <2>1, <2>3, <2>4, <2>5 DEF Chain
<1>6. QED BY <1>4, <1>5 DEF p, q

\* Two parts that overlap are one.
LEMMA ChainIsDisjoint ==
  ASSUME NEW X, NEW s \in Seq(X), NEW from, NEW to, Chain(s, from, to),
         NEW i \in 1 .. Len(s), NEW j \in 1 .. Len(s), Covers(s[i], s[j])
  PROVE  i = j
<1>1. s[i].end <= s[j].start \/ s[j].end <= s[i].start \/ i = j
  BY ChainOrder
<1>2. {s[i].start, s[i].end, s[j].start, s[j].end} \subseteq Nat
  BY DEF Chain
<1>3. QED BY <1>1, <1>2 DEF Covers

(* -------------------------------- units -------------------------------- *)

\* The recursive function behind FlattenSeq.
Flattens(f, seqs, n) == f = [i \in 1 .. n |-> IF i = 1 THEN seqs[i] ELSE f[i - 1] \o seqs[i]]

LEMMA FlattenUnfold ==
  ASSUME NEW seqs, Len(seqs) # 0
  PROVE  FlattenSeq(seqs) = (CHOOSE f : Flattens(f, seqs, Len(seqs)))[Len(seqs)]
BY DEF FlattenSeq, Flattens

LEMMA FlattenExists ==
  ASSUME NEW seqs, NEW m \in Nat
  PROVE  \E f : Flattens(f, seqs, m)
<1> DEFINE Bad == {n \in Nat : ~ \E f : Flattens(f, seqs, n)}
<1>1. SUFFICES ASSUME Bad # {} PROVE FALSE
  OBVIOUS
<1>2. PICK n \in Bad : \A q \in Bad : n <= q
  <2>1. Bad \subseteq Nat /\ Bad # {}
    BY <1>1
  <2> HIDE DEF Bad
  <2>2. QED BY <2>1, SmallestNumber
<1>3. n \in Nat /\ ~ \E f : Flattens(f, seqs, n)
  OBVIOUS
<1>4. CASE n = 0
  <2>1. Flattens([i \in 1 .. 0 |-> {}], seqs, 0)
    BY DEF Flattens
  <2>2. QED BY <1>3, <1>4, <2>1
<1>5. CASE n # 0
  <2>1. n - 1 \in Nat /\ ~(n <= n - 1)
    BY <1>3, <1>5
  <2>2. PICK f : Flattens(f, seqs, n - 1)
    BY <1>2, <2>1
  <2> DEFINE Step(j, i) == j \o seqs[i]
             h == [i \in 1 .. n |-> IF i = n THEN IF n = 1 THEN seqs[n] ELSE Step(f[n - 1], n) ELSE f[i]]
  <2>3. \A i \in 1 .. n - 1 : f[i] = IF i = 1 THEN seqs[i] ELSE Step(f[i - 1], i)
    BY <2>2 DEF Flattens
  <2>4. \A i \in 1 .. n : i # 1 => i - 1 \in 1 .. n - 1 /\ i - 1 # n /\ i - 1 \in 1 .. n
    BY <1>3
  <2>5. \A i \in 1 .. n : i # 1 => h[i - 1] = f[i - 1]
    BY <2>4
  <2> HIDE DEF Step
  <2>6. \A i \in 1 .. n : h[i] = IF i = 1 THEN seqs[i] ELSE Step(h[i - 1], i)
    <3>1. \A i \in 1 .. n : i # n => i \in 1 .. n - 1
      BY <1>3
    <3>2. QED BY <1>5, <2>3, <2>5, <3>1
  <2>7. h = [i \in 1 .. n |-> IF i = 1 THEN seqs[i] ELSE Step(h[i - 1], i)]
    BY <2>6
  <2>8. Flattens(h, seqs, n)
    BY <2>7 DEF Flattens, Step
  <2>9. QED BY <1>3, <2>8
<1>6. QED BY <1>4, <1>5

\* Chains that follow each other are one chain, which has all of their parts.
LEMMA FlattenChain ==
  ASSUME NEW X, NEW seqs \in Seq(Seq(X)), Len(seqs) # 0, NEW e,
         \A i \in 1 .. Len(seqs) : Chain(seqs[i], e[i - 1], e[i])
  PROVE  /\ FlattenSeq(seqs) \in Seq(X)
         /\ Chain(FlattenSeq(seqs), e[0], e[Len(seqs)])
         /\ \A i \in 1 .. Len(seqs) : \A j \in 1 .. Len(seqs[i]) :
              \E k \in 1 .. Len(FlattenSeq(seqs)) : FlattenSeq(seqs)[k] = seqs[i][j]
<1>1. PICK f : Flattens(f, seqs, Len(seqs)) /\ FlattenSeq(seqs) = f[Len(seqs)]
  <2>1. Len(seqs) \in Nat
    OBVIOUS
  <2>2. Flattens(CHOOSE f : Flattens(f, seqs, Len(seqs)), seqs, Len(seqs))
    BY <2>1, FlattenExists
  <2>3. QED BY <2>2, FlattenUnfold
<1> DEFINE Good(n) == /\ f[n] \in Seq(X)
                      /\ Chain(f[n], e[0], e[n])
                      /\ \A i \in 1 .. n : \A j \in 1 .. Len(seqs[i]) :
                           \E k \in 1 .. Len(f[n]) : f[n][k] = seqs[i][j]
           Bad == {n \in Nat : n \in 1 .. Len(seqs) /\ ~Good(n)}
<1>2. SUFFICES Bad = {}
  <2>1. Len(seqs) \in Nat /\ Len(seqs) \in 1 .. Len(seqs)
    OBVIOUS
  <2>2. Bad = {} => Good(Len(seqs))
    BY <2>1
  <2>3. QED BY <1>1, <2>2
<1>3. SUFFICES ASSUME Bad # {} PROVE FALSE
  OBVIOUS
<1>4. PICK n \in Bad : \A q \in Bad : n <= q
  <2>1. Bad \subseteq Nat /\ Bad # {}
    BY <1>3
  <2> HIDE DEF Bad
  <2>2. QED BY <2>1, SmallestNumber
<1>5. n \in Nat /\ n \in 1 .. Len(seqs) /\ ~Good(n)
  OBVIOUS
<1>6. seqs[n] \in Seq(X) /\ Chain(seqs[n], e[n - 1], e[n])
  BY <1>5
<1>7. CASE n = 1
  <2>1. f[n] = seqs[n] /\ n - 1 = 0
    BY <1>1, <1>5, <1>7 DEF Flattens
  <2>2. Good(n)
    BY <1>6, <1>7, <2>1
  <2>3. QED BY <1>5, <2>2
<1>8. CASE n # 1
  <2>1. n - 1 \in 1 .. Len(seqs) /\ n - 1 \in Nat /\ ~(n <= n - 1)
    BY <1>5, <1>8
  <2>2. Good(n - 1)
    BY <1>4, <2>1
  <2>3. f[n] = f[n - 1] \o seqs[n]
    BY <1>1, <1>5, <1>8 DEF Flattens
  <2> DEFINE s == f[n - 1]
             t == seqs[n]
             u == s \o t
  <2>4. s \in Seq(X) /\ t \in Seq(X) /\ u \in Seq(X) /\ Chain(u, e[0], e[n])
    BY <1>6, <2>2, ChainConcat
  <2>5. \A i \in 1 .. n - 1 : \A j \in 1 .. Len(seqs[i]) : \E k \in 1 .. Len(s) : s[k] = seqs[i][j]
    BY <2>2
  <2>6. (\A i \in 1 .. n : i \in 1 .. n - 1 \/ i = n) /\ f[n] = u
    BY <1>5, <2>3
  <2> HIDE DEF s, Good, Bad
  <2>7. \A k \in 1 .. Len(s) : k \in 1 .. Len(u) /\ u[k] = s[k]
    BY <2>4
  <2>8. \A k \in 1 .. Len(t) : Len(s) + k \in 1 .. Len(u) /\ u[Len(s) + k] = t[k]
    BY <2>4
  <2>9. \A i \in 1 .. n : \A j \in 1 .. Len(seqs[i]) : \E k \in 1 .. Len(u) : u[k] = seqs[i][j]
    <3>1. ASSUME NEW i \in 1 .. n, NEW j \in 1 .. Len(seqs[i])
          PROVE  \E k \in 1 .. Len(u) : u[k] = seqs[i][j]
      <4> HIDE DEF u
      <4>1. CASE i \in 1 .. n - 1
        BY <2>5, <2>7, <4>1
      <4>2. CASE i = n
        BY <2>8, <4>2 DEF t
      <4>3. QED BY <2>6, <4>1, <4>2
    <3>2. QED BY <3>1
  <2>10. Good(n)
    <3> HIDE DEF u
    <3>1. QED BY <2>4, <2>6, <2>9 DEF Good
  <2>11. QED BY <1>5, <2>10
<1>9. QED BY <1>7, <1>8

\* Between two characters, or at an end.
Boundary(content, offset) == offset < Len(content) => content[offset + 1] # "c"

\* The parts of a file.
Parts(content) ==
  {u \in Units :
     u.end <= Len(content) /\ Boundary(content, u.start) /\ Boundary(content, u.end)}

LEMMA BetweenIsChain ==
  ASSUME NEW content \in Text, NEW start \in Nat, NEW end \in Nat, start <= end, end <= Len(content),
         Boundary(content, start), Boundary(content, end)
  PROVE  Between(start, end) \in Seq(Parts(content)) /\ Chain(Between(start, end), start, end)
<1>1. CASE start < end
  <2>1. Unit(start, end, NoSymbol) \in Parts(content)
    <3>1. Unit(start, end, NoSymbol) \in Units
      BY NamesAssumption DEF Unit, Units
    <3>2. Unit(start, end, NoSymbol).start = start /\ Unit(start, end, NoSymbol).end = end
      BY DEF Unit
    <3>3. QED BY <3>1, <3>2 DEF Parts
  <2>2. Between(start, end) = <<Unit(start, end, NoSymbol)>>
    BY <1>1 DEF Between
  <2>3. QED BY <1>1, <2>1, <2>2 DEF Chain, Unit
<1>2. CASE ~(start < end)
  BY <1>2 DEF Between, Chain
<1>3. QED BY <1>1, <1>2

\* A file that can be given, and the symbols with it.
Given(content, symbols) ==
  /\ UTF8(content)
  /\ symbols \in Seq(Units)
  /\ \A i \in DOMAIN symbols : Boundary(content, symbols[i].start) /\ Boundary(content, symbols[i].end)

\* The units are the whole file, and each symbol is one of them.
LEMMA UnitsAreChain ==
  ASSUME NEW content, NEW symbols, Given(content, symbols), SymbolsFit(content, symbols)
  PROVE  /\ SymbolUnits(content, symbols) \in Seq(Parts(content))
         /\ Chain(SymbolUnits(content, symbols), 0, Len(content))
         /\ \A i \in DOMAIN symbols :
              \E k \in 1 .. Len(SymbolUnits(content, symbols)) : SymbolUnits(content, symbols)[k] = symbols[i]
<1> DEFINE n == Len(symbols)
           Before(i) == IF i = 1 THEN 0 ELSE symbols[i - 1].end
           seqs == [i \in DOMAIN symbols |-> Between(Before(i), symbols[i].start) \o <<symbols[i]>>]
           last == IF symbols = <<>> THEN 0 ELSE symbols[n].end
           tail == Between(last, Len(content))
           P == Parts(content)
<1>1. content \in Text /\ Len(content) \in Nat /\ n \in Nat /\ DOMAIN symbols = 1 .. n
  BY DEF Given, UTF8, Text
<1>2. SymbolUnits(content, symbols) = FlattenSeq(seqs) \o tail
  BY DEF SymbolUnits, Last
<1>3. Boundary(content, 0) /\ Boundary(content, Len(content))
  <2>1. 1 <= Len(content) => 1 \in DOMAIN content
    BY <1>1 DEF Text
  <2>2. 1 \in DOMAIN content => content[1] # "c"
    <3>1. UTF8(content)
      BY DEF Given
    <3>2. QED BY <3>1 DEF UTF8
  <2>3. QED BY <1>1, <2>1, <2>2 DEF Boundary
<1>4. \A i \in 1 .. n : /\ symbols[i] \in P
                         /\ symbols[i].start \in Nat /\ symbols[i].end \in Nat
                         /\ symbols[i].start < symbols[i].end /\ symbols[i].end <= Len(content)
                         /\ Boundary(content, symbols[i].start) /\ Boundary(content, symbols[i].end)
  <2> TAKE i \in 1 .. n
  <2>1. symbols[i] \in Units
    BY <1>1 DEF Given
  <2>2. symbols[i].start < symbols[i].end /\ symbols[i].end <= Len(content)
    BY <1>1 DEF SymbolsFit
  <2>3. Boundary(content, symbols[i].start) /\ Boundary(content, symbols[i].end)
    BY <1>1 DEF Given
  <2>4. QED BY <2>1, <2>2, <2>3 DEF Parts, Units
<1>5. ASSUME NEW i \in 1 .. n
      PROVE  /\ seqs[i] \in Seq(P)
             /\ Chain(seqs[i], Before(i), symbols[i].end)
             /\ seqs[i][Len(seqs[i])] = symbols[i] /\ Len(seqs[i]) \in 1 .. Len(seqs[i])
  <2>1. /\ Before(i) \in Nat /\ Before(i) <= symbols[i].start /\ Boundary(content, Before(i))
    <3>1. CASE i = 1
      BY <1>3, <1>4, <3>1
    <3>2. CASE i # 1
      <4>1. i - 1 \in 1 .. n /\ i > 1
        BY <1>1, <3>2
      <4>2. QED BY <1>1, <1>4, <3>2, <4>1 DEF SymbolsFit
    <3>3. QED BY <3>1, <3>2
  <2>2. symbols[i] \in P /\ symbols[i].start <= Len(content) /\ symbols[i].start \in Nat /\ symbols[i].end \in Nat
    BY <1>1, <1>4
  <2> DEFINE between == Between(Before(i), symbols[i].start)
             one == <<symbols[i]>>
  <2>3. between \in Seq(P) /\ Chain(between, Before(i), symbols[i].start)
    BY <1>1, <2>1, <2>2, BetweenIsChain DEF Parts
  <2>4. one \in Seq(P) /\ Chain(one, symbols[i].start, symbols[i].end)
    BY <1>4, <2>2 DEF Chain
  <2>5. seqs[i] = between \o one
    BY <1>1
  <2> HIDE DEF between, seqs, Before, P
  <2>6. seqs[i] \in Seq(P) /\ Chain(seqs[i], Before(i), symbols[i].end)
    <3>1. Chain(between \o one, Before(i), symbols[i].end)
      BY <2>3, <2>4, ChainConcat
    <3>2. between \o one \in Seq(P)
      BY <2>3, <2>4
    <3>3. QED BY <2>5, <3>1, <3>2
  <2>7. Len(seqs[i]) = Len(between) + 1 /\ Len(between) \in Nat /\ seqs[i][Len(between) + 1] = symbols[i]
    BY <2>3, <2>4, <2>5
  <2>8. QED BY <2>6, <2>7
<1>6. last \in Nat /\ last <= Len(content) /\ Boundary(content, last)
  <2>1. CASE symbols = <<>>
    BY <1>1, <1>3, <2>1
  <2>2. CASE symbols # <<>>
    <3>1. n \in 1 .. n
      BY <1>1, <2>2 DEF Given
    <3>2. QED BY <1>4, <2>2, <3>1
  <2>3. QED BY <2>1, <2>2
<1>7. tail \in Seq(P) /\ Chain(tail, last, Len(content))
  BY <1>1, <1>3, <1>6, BetweenIsChain
<1>8. /\ FlattenSeq(seqs) \in Seq(P) /\ Chain(FlattenSeq(seqs), 0, last)
      /\ \A i \in 1 .. n : \E k \in 1 .. Len(FlattenSeq(seqs)) : FlattenSeq(seqs)[k] = symbols[i]
  <2> HIDE DEF P
  <2>1. CASE symbols = <<>>
    <3>1. seqs = <<>> /\ n = 0
      BY <2>1
    <3>2. FlattenSeq(seqs) = <<>> /\ last = 0
      BY <2>1, <3>1 DEF FlattenSeq
    <3> HIDE DEF seqs, last
    <3>3. FlattenSeq(seqs) \in Seq(P) /\ Len(FlattenSeq(seqs)) = 0
      BY <3>2
    <3>4. QED BY <3>1, <3>2, <3>3 DEF Chain
  <2>2. CASE symbols # <<>>
    <3> DEFINE e == [i \in 0 .. n |-> IF i = 0 THEN 0 ELSE symbols[i].end]
    <3>1. seqs \in Seq(Seq(P)) /\ Len(seqs) = n /\ n # 0
      <4> HIDE DEF seqs
      <4>1. DOMAIN seqs = 1 .. n
        BY <1>1 DEF seqs
      <4>2. seqs = [i \in 1 .. n |-> seqs[i]]
        BY <1>1 DEF seqs
      <4>3. QED BY <1>1, <1>5, <2>2, <4>1, <4>2 DEF Given
    <3>2. \A i \in 1 .. n : e[i - 1] = Before(i) /\ e[i] = symbols[i].end
      <4>1. \A i \in 1 .. n : i - 1 \in 0 .. n /\ i \in 0 .. n /\ i # 0 /\ (i - 1 = 0 <=> i = 1)
        BY <1>1
      <4>2. QED BY <4>1
    <3>3. e[0] = 0 /\ e[n] = last
      BY <1>1, <2>2, <3>1
    <3> HIDE DEF seqs, e, Before
    <3>4. \A i \in 1 .. Len(seqs) : Chain(seqs[i], e[i - 1], e[i])
      BY <1>5, <3>1, <3>2
    <3>5. /\ FlattenSeq(seqs) \in Seq(P)
          /\ Chain(FlattenSeq(seqs), e[0], e[Len(seqs)])
          /\ \A i \in 1 .. Len(seqs) : \A j \in 1 .. Len(seqs[i]) :
               \E k \in 1 .. Len(FlattenSeq(seqs)) : FlattenSeq(seqs)[k] = seqs[i][j]
      BY <3>1, <3>4, FlattenChain
    <3> HIDE DEF last
    <3>6. ASSUME NEW i \in 1 .. n
          PROVE  \E k \in 1 .. Len(FlattenSeq(seqs)) : FlattenSeq(seqs)[k] = symbols[i]
      <4>1. Len(seqs[i]) \in 1 .. Len(seqs[i]) /\ seqs[i][Len(seqs[i])] = symbols[i] /\ i \in 1 .. Len(seqs)
        BY <1>5, <3>1
      <4>2. QED BY <3>5, <4>1
    <3>7. QED BY <3>1, <3>3, <3>5, <3>6
  <2>3. QED BY <2>1, <2>2
<1> DEFINE s == FlattenSeq(seqs)
           u == s \o tail
<1>9. s \in Seq(P) /\ tail \in Seq(P)
  BY <1>7, <1>8
<1> HIDE DEF s, tail, P
<1>10. u \in Seq(P) /\ Chain(u, 0, Len(content))
  BY <1>7, <1>8, <1>9, ChainConcat DEF s
<1>11. \A k \in 1 .. Len(s) : k \in 1 .. Len(u) /\ u[k] = s[k]
  BY <1>9
<1>12. SymbolUnits(content, symbols) = u
  BY <1>2 DEF s
<1> HIDE DEF u
<1>13. \A i \in 1 .. n : \E k \in 1 .. Len(u) : u[k] = symbols[i]
  BY <1>8, <1>11 DEF s
<1>14. QED BY <1>1, <1>10, <1>12, <1>13 DEF P

(* ------------------------------- packing ------------------------------- *)

\* The recursive function behind Tokens.
Adds(sum, items, m) == sum = [k \in 0 .. m |-> IF k = 0 THEN 0 ELSE sum[k - 1] + items[k].tokens]

LEMMA AddsExists ==
  ASSUME NEW items, NEW m \in Nat
  PROVE  \E sum : Adds(sum, items, m)
<1> DEFINE Bad == {n \in Nat : ~ \E sum : Adds(sum, items, n)}
<1>1. SUFFICES ASSUME Bad # {} PROVE FALSE
  OBVIOUS
<1>2. PICK n \in Bad : \A q \in Bad : n <= q
  <2>1. Bad \subseteq Nat /\ Bad # {}
    BY <1>1
  <2> HIDE DEF Bad
  <2>2. QED BY <2>1, SmallestNumber
<1>3. n \in Nat /\ ~ \E sum : Adds(sum, items, n)
  OBVIOUS
<1>4. CASE n = 0
  <2>1. Adds([i \in 0 .. 0 |-> 0], items, 0)
    BY DEF Adds
  <2>2. QED BY <1>3, <1>4, <2>1
<1>5. CASE n # 0
  <2>1. n - 1 \in Nat /\ ~(n <= n - 1)
    BY <1>3, <1>5
  <2>2. PICK f : Adds(f, items, n - 1)
    BY <1>2, <2>1
  <2> DEFINE Step(j, i) == j + items[i].tokens
             h == [i \in 0 .. n |-> IF i = n THEN Step(f[n - 1], n) ELSE f[i]]
  <2>3. \A i \in 0 .. n - 1 : f[i] = IF i = 0 THEN 0 ELSE Step(f[i - 1], i)
    BY <2>2 DEF Adds
  <2>4. \A i \in 0 .. n : i # 0 => i - 1 \in 0 .. n - 1 /\ i - 1 # n /\ i - 1 \in 0 .. n
    BY <1>3
  <2>5. \A i \in 0 .. n : i # 0 => h[i - 1] = f[i - 1]
    BY <2>4
  <2> HIDE DEF Step
  <2>6. \A i \in 0 .. n : h[i] = IF i = 0 THEN 0 ELSE Step(h[i - 1], i)
    <3>1. \A i \in 0 .. n : i # n => i \in 0 .. n - 1
      BY <1>3
    <3>2. QED BY <1>5, <2>3, <2>5, <3>1
  <2>7. h = [i \in 0 .. n |-> IF i = 0 THEN 0 ELSE Step(h[i - 1], i)]
    BY <2>6
  <2>8. Adds(h, items, n)
    BY <2>7 DEF Adds, Step
  <2>9. QED BY <1>3, <2>8
<1>6. QED BY <1>4, <1>5

LEMMA TokensAdd ==
  ASSUME NEW X, pieces \in Seq(X)
  PROVE  Tokens(0) = 0 /\ \A k \in 1 .. Len(pieces) : Tokens(k) = Tokens(k - 1) + pieces[k].tokens
<1> DEFINE sum == CHOOSE f : Adds(f, pieces, Len(pieces))
<1>1. Len(pieces) \in Nat
  OBVIOUS
<1>2. Adds(sum, pieces, Len(pieces))
  BY <1>1, AddsExists
<1>3. \A n : Tokens(n) = sum[n]
  BY DEF Tokens, Adds
<1> HIDE DEF sum
<1>4. \A k \in 1 .. Len(pieces) : k \in 0 .. Len(pieces) /\ k # 0
  BY <1>1
<1>5. \A k \in 0 .. Len(pieces) : sum[k] = IF k = 0 THEN 0 ELSE sum[k - 1] + pieces[k].tokens
  BY <1>2 DEF Adds
<1>6. 0 \in 0 .. Len(pieces)
  BY <1>1
<1>7. QED BY <1>3, <1>4, <1>5, <1>6

\* The recursive function behind JoinedSymbols.
Joins(names, items, m) ==
  names = [k \in 0 .. m |->
             IF k = 0 THEN <<>>
             ELSE IF \/ items[k].symbol = NoSymbol
                     \/ names[k - 1] # <<>> /\ Last(names[k - 1]) = items[k].symbol
                  THEN names[k - 1]
                  ELSE Append(names[k - 1], items[k].symbol)]

LEMMA JoinsExists ==
  ASSUME NEW items, NEW m \in Nat
  PROVE  \E names : Joins(names, items, m)
<1> DEFINE Bad == {n \in Nat : ~ \E names : Joins(names, items, n)}
<1>1. SUFFICES ASSUME Bad # {} PROVE FALSE
  OBVIOUS
<1>2. PICK n \in Bad : \A q \in Bad : n <= q
  <2>1. Bad \subseteq Nat /\ Bad # {}
    BY <1>1
  <2> HIDE DEF Bad
  <2>2. QED BY <2>1, SmallestNumber
<1>3. n \in Nat /\ ~ \E names : Joins(names, items, n)
  OBVIOUS
<1>4. CASE n = 0
  <2>1. Joins([i \in 0 .. 0 |-> <<>>], items, 0)
    BY DEF Joins
  <2>2. QED BY <1>3, <1>4, <2>1
<1>5. CASE n # 0
  <2>1. n - 1 \in Nat /\ ~(n <= n - 1)
    BY <1>3, <1>5
  <2>2. PICK f : Joins(f, items, n - 1)
    BY <1>2, <2>1
  <2> DEFINE Step(j, i) == IF items[i].symbol = NoSymbol \/ (j # <<>> /\ Last(j) = items[i].symbol)
                           THEN j ELSE Append(j, items[i].symbol)
             h == [i \in 0 .. n |-> IF i = n THEN Step(f[n - 1], n) ELSE f[i]]
  <2>3. \A i \in 0 .. n - 1 : f[i] = IF i = 0 THEN <<>> ELSE Step(f[i - 1], i)
    BY <2>2 DEF Joins
  <2>4. \A i \in 0 .. n : i # 0 => i - 1 \in 0 .. n - 1 /\ i - 1 # n /\ i - 1 \in 0 .. n
    BY <1>3
  <2>5. \A i \in 0 .. n : i # 0 => h[i - 1] = f[i - 1]
    BY <2>4
  <2> HIDE DEF Step
  <2>6. \A i \in 0 .. n : h[i] = IF i = 0 THEN <<>> ELSE Step(h[i - 1], i)
    <3>1. \A i \in 0 .. n : i # n => i \in 0 .. n - 1
      BY <1>3
    <3>2. QED BY <1>5, <2>3, <2>5, <3>1
  <2>7. h = [i \in 0 .. n |-> IF i = 0 THEN <<>> ELSE Step(h[i - 1], i)]
    BY <2>6
  <2>8. Joins(h, items, n)
    BY <2>7 DEF Joins, Step
  <2>9. QED BY <1>3, <2>8
<1>6. QED BY <1>4, <1>5

\* Every piece with a symbol has its name among the joined ones.
LEMMA JoinedNames ==
  ASSUME NEW X, NEW items \in Seq(X), \A k \in 1 .. Len(items) : items[k].symbol \in Names
  PROVE  /\ JoinedSymbols(items) \in Seq(Names)
         /\ \A k \in 1 .. Len(items) : items[k].symbol # NoSymbol => items[k].symbol \in ToSet(JoinedSymbols(items))
<1> DEFINE f == CHOOSE names : Joins(names, items, Len(items))
           Good(n) == /\ f[n] \in Seq(Names)
                      /\ \A k \in 1 .. n : items[k].symbol # NoSymbol => items[k].symbol \in ToSet(f[n])
           Bad == {n \in Nat : n \in 0 .. Len(items) /\ ~Good(n)}
<1>1. Len(items) \in Nat
  OBVIOUS
<1>2. Joins(f, items, Len(items))
  BY <1>1, JoinsExists
<1>3. JoinedSymbols(items) = f[Len(items)]
  BY DEF JoinedSymbols, Joins
<1>4. SUFFICES ASSUME Bad # {} PROVE FALSE
  <2>1. Bad = {} => Good(Len(items))
    BY <1>1
  <2>2. QED BY <1>3, <2>1
<1>5. PICK n \in Bad : \A q \in Bad : n <= q
  <2>1. Bad \subseteq Nat /\ Bad # {}
    BY <1>4
  <2> HIDE DEF Bad
  <2>2. QED BY <2>1, SmallestNumber
<1>6. n \in Nat /\ n \in 0 .. Len(items) /\ ~Good(n)
  OBVIOUS
<1> HIDE DEF f
<1>7. CASE n = 0
  <2>1. f[0] = <<>>
    BY <1>2, <1>6, <1>7 DEF Joins
  <2>2. Good(0)
    BY <2>1
  <2>3. QED BY <1>6, <1>7, <2>2
<1>8. CASE n # 0
  <2>1. n - 1 \in Nat /\ ~(n <= n - 1) /\ n - 1 \in 0 .. Len(items) /\ n \in 1 .. Len(items)
    BY <1>1, <1>6, <1>8
  <2>2. Good(n - 1)
    BY <1>5, <2>1
  <2> DEFINE s == f[n - 1]
             x == items[n].symbol
  <2>3. f[n] = IF x = NoSymbol \/ (s # <<>> /\ Last(s) = x) THEN s ELSE Append(s, x)
    BY <1>2, <1>6, <1>8 DEF Joins
  <2>4. s \in Seq(Names) /\ x \in Names
    BY <2>1, <2>2
  <2>5. \A k \in 1 .. n - 1 : items[k].symbol # NoSymbol => \E j \in 1 .. Len(s) : s[j] = items[k].symbol
    BY SMTT(60), <2>2, <2>4 DEF ToSet
  <2>6. \A k \in 1 .. n : k \in 1 .. n - 1 \/ k = n
    BY <1>6
  <2>7. \E t \in Seq(Names) : /\ f[n] = t
                              /\ \A i \in 1 .. Len(s) : i \in 1 .. Len(t) /\ t[i] = s[i]
                              /\ x # NoSymbol => \E j \in 1 .. Len(t) : t[j] = x
    <3> HIDE DEF s, x
    <3>1. CASE x = NoSymbol
      BY <2>3, <2>4, <3>1
    <3>2. CASE x # NoSymbol /\ s # <<>> /\ Last(s) = x
      <4>1. Len(s) \in 1 .. Len(s) /\ s[Len(s)] = x
        BY <2>4, <3>2 DEF Last
      <4>2. QED BY <2>3, <2>4, <3>2, <4>1
    <3>3. CASE x # NoSymbol /\ ~(s # <<>> /\ Last(s) = x)
      <4> DEFINE t == Append(s, x)
      <4>1. /\ t \in Seq(Names) /\ Len(t) = Len(s) + 1 /\ Len(s) \in Nat
            /\ t[Len(s) + 1] = x /\ \A j \in 1 .. Len(s) : t[j] = s[j]
        BY <2>4
      <4>2. f[n] = t
        BY <2>3, <3>3
      <4> HIDE DEF t
      <4>3. Len(s) + 1 \in 1 .. Len(t) /\ \A j \in 1 .. Len(s) : j \in 1 .. Len(t)
        BY <4>1
      <4>4. QED BY <4>1, <4>2, <4>3
    <3>4. QED BY <3>1, <3>2, <3>3
  <2>8. PICK t \in Seq(Names) : /\ f[n] = t
                                /\ \A i \in 1 .. Len(s) : i \in 1 .. Len(t) /\ t[i] = s[i]
                                /\ x # NoSymbol => \E j \in 1 .. Len(t) : t[j] = x
    BY <2>7
  <2> HIDE DEF s
  <2>9. \A k \in 1 .. n : items[k].symbol # NoSymbol => \E j \in 1 .. Len(t) : t[j] = items[k].symbol
    <3> TAKE k \in 1 .. n
    <3>1. CASE k \in 1 .. n - 1
      BY <2>5, <2>8, <3>1
    <3>2. CASE k = n
      BY <2>8, <3>2
    <3>3. QED BY <2>6, <3>1, <3>2
  <2>10. Good(n)
    BY <2>8, <2>9 DEF ToSet
  <2>11. QED BY <1>6, <2>10
<1>9. QED BY <1>7, <1>8

\* What a row of pieces has of words is no more than what they have each.
LEMMA CountOfPieces ==
  ASSUME NEW X, pieces \in Seq(X), NEW from, NEW to, Chain(pieces, from, to),
         \A k \in 1 .. Len(pieces) : pieces[k].tokens = Count(file.content, pieces[k].start, pieces[k].end)
  PROVE  \A n \in 1 .. Len(pieces) :
           /\ Tokens(n) \in Nat
           /\ Count(file.content, pieces[1].start, pieces[n].end) <= Tokens(n)
<1> DEFINE C(a, b) == Count(file.content, a, b)
           Good(n) == Tokens(n) \in Nat /\ C(pieces[1].start, pieces[n].end) <= Tokens(n)
           Bad == {n \in Nat : n \in 1 .. Len(pieces) /\ ~Good(n)}
<1>1. SUFFICES ASSUME Bad # {} PROVE FALSE
  OBVIOUS
<1>2. PICK n \in Bad : \A q \in Bad : n <= q
  <2>1. Bad \subseteq Nat /\ Bad # {}
    BY <1>1
  <2> HIDE DEF Bad
  <2>2. QED BY <2>1, SmallestNumber
<1>3. n \in Nat /\ n \in 1 .. Len(pieces) /\ ~Good(n) /\ 1 \in 1 .. Len(pieces)
  OBVIOUS
<1>4. \A k \in 1 .. Len(pieces) : pieces[k].start \in Nat /\ pieces[k].end \in Nat /\ pieces[k].start < pieces[k].end
  BY DEF Chain
<1>5. \A a, b \in Nat : C(a, b) \in Nat
  BY RunsAreCounted
<1>6. /\ pieces[n].tokens = C(pieces[n].start, pieces[n].end)
      /\ Tokens(n) = Tokens(n - 1) + pieces[n].tokens /\ Tokens(0) = 0
  BY <1>3, TokensAdd
<1>7. CASE n = 1
  <2> HIDE DEF C, Good, Bad
  <2>1. n - 1 = 0 /\ C(pieces[1].start, pieces[1].end) \in Nat
    <3>1. pieces[1].start \in Nat /\ pieces[1].end \in Nat
      BY <1>3, <1>4
    <3>2. C(pieces[1].start, pieces[1].end) \in Nat
      BY <1>5, <3>1
    <3>3. n - 1 = 0
      BY <1>7
    <3>4. QED BY <3>2, <3>3
  <2>2. Tokens(n) = C(pieces[1].start, pieces[n].end) /\ C(pieces[1].start, pieces[n].end) \in Nat
    BY <1>6, <1>7, <2>1
  <2>3. QED BY <1>3, <2>2 DEF Good
<1>8. CASE n # 1
  <2>1. n - 1 \in Nat /\ ~(n <= n - 1) /\ n - 1 \in 1 .. Len(pieces) /\ n \in 2 .. Len(pieces)
    BY <1>3, <1>8
  <2>2. Good(n - 1)
    BY <1>2, <2>1
  <2>3. pieces[n].start = pieces[n - 1].end /\ pieces[1].start <= pieces[n - 1].end
    <3>1. pieces[n].start = pieces[n - 1].end
      BY <2>1 DEF Chain
    <3>2. n - 1 # 1 => pieces[1].end <= pieces[n - 1].start
      BY <1>3, <2>1, ChainOrder
    <3>3. QED BY <1>3, <1>4, <2>1, <3>1, <3>2
  <2> DEFINE a == pieces[1].start
             b == pieces[n].start
             c == pieces[n].end
  <2>4. a \in Nat /\ b \in Nat /\ c \in Nat /\ a <= b
    BY <1>3, <1>4, <2>3
  <2>5. C(a, c) <= C(a, b) + C(b, c)
    BY <2>4, CountSplits
  <2>6. C(a, b) <= Tokens(n - 1) /\ Tokens(n - 1) \in Nat /\ Tokens(n) = Tokens(n - 1) + C(b, c)
    BY <1>6, <2>2, <2>3
  <2>7. C(a, b) \in Nat /\ C(b, c) \in Nat /\ C(a, c) \in Nat
    BY <1>5, <2>4
  <2> HIDE DEF C
  <2>8. Tokens(n) \in Nat /\ C(a, c) <= Tokens(n)
    BY <2>5, <2>6, <2>7
  <2>9. QED BY <1>3, <2>8
<1>9. QED BY <1>7, <1>8

(* ------------------------------ characters ----------------------------- *)

\* The end of the first character, and that character is what lies before it.
LEMMA RuneEndIs ==
  ASSUME UTF8(file.content), NEW start \in Nat, NEW limit \in Nat, start < limit, limit <= Len(file.content),
         Boundary(file.content, limit)
  PROVE  /\ RuneEnd(start, limit) \in start + 1 .. limit
         /\ Boundary(file.content, RuneEnd(start, limit))
         /\ Count(file.content, start, RuneEnd(start, limit)) <= 1
<1> DEFINE S == {m \in start + 1 .. limit : m = limit \/ RuneStart(m)}
           end == Least(S)
<1>1. S \subseteq Nat /\ limit \in S
  OBVIOUS
<1>2. end \in S /\ \A k \in S : end <= k
  <2> HIDE DEF S
  <2>1. QED BY <1>1, LeastIsIn
<1>3. end \in start + 1 .. limit /\ (end = limit \/ RuneStart(end))
  <2> HIDE DEF end
  <2>1. QED BY <1>2
<1>4. \A i \in start + 1 .. end - 1 : Byte(file.content, i) = "c"
  <2> HIDE DEF end
  <2>1. \A i \in start + 1 .. end - 1 : i \notin S /\ i \in start + 1 .. limit
    BY <1>2, <1>3
  <2>2. QED BY <2>1 DEF RuneStart
<1>5. Boundary(file.content, end)
  BY <1>3 DEF Boundary, RuneStart, Byte
<1>6. end \in Nat /\ end <= Len(file.content)
  <2> HIDE DEF end, S
  <2>1. QED BY <1>3 DEF UTF8, Text
<1>7. Count(file.content, start, end) <= 1
  <2> HIDE DEF end, S
  <2>1. QED BY <1>4, <1>6, CountOfRune
<1>8. RuneEnd(start, limit) = end
  BY DEF RuneEnd
<1>9. QED BY <1>3, <1>5, <1>7, <1>8

\* The middle of a search is between two characters behind its start.
LEMMA MiddleIs ==
  ASSUME UTF8(file.content), NEW start \in Nat, NEW limit \in Nat, start < limit, limit <= Len(file.content),
         Boundary(file.content, limit), NEW middle \in start + 1 .. limit
  PROVE  Middle(middle, start, limit) \in start + 1 .. limit /\ Boundary(file.content, Middle(middle, start, limit))
<1> DEFINE S == {m \in start .. middle : m \in {start, limit} \/ RuneStart(m)}
           back == Greatest(S)
<1>1. middle \in Nat /\ S \subseteq 0 .. middle /\ start \in S
  OBVIOUS
<1>2. back \in S
  <2> HIDE DEF S
  <2>1. QED BY <1>1, GreatestIsIn
<1>3. back \in start .. middle /\ (back \in {start, limit} \/ RuneStart(back))
  <2> HIDE DEF back
  <2>1. QED BY <1>2
<1>4. Middle(middle, start, limit) = IF back = start THEN RuneEnd(start, limit) ELSE back
  BY DEF Middle
<1> HIDE DEF back
<1>5. CASE back = start
  BY <1>4, <1>5, RuneEndIs
<1>6. CASE back # start
  <2>1. back \in start + 1 .. limit /\ (back = limit \/ RuneStart(back))
    BY <1>3, <1>6
  <2>2. QED BY <1>4, <1>6, <2>1 DEF Boundary, RuneStart, Byte
<1>7. QED BY <1>5, <1>6

\* What the search of the end of a piece knows.
Searched(f, s, limit) ==
  /\ s = [start |-> s.start, low |-> s.low, high |-> s.high, best |-> s.best]
  /\ s.start \in Nat /\ s.start < limit /\ Boundary(f.content, s.start)
  /\ s.low \in s.start + 1 .. limit + 1 /\ s.high \in s.start .. limit /\ s.best \in s.start .. limit
  /\ s.best # s.start => Boundary(f.content, s.best) /\ Count(f.content, s.start, s.best) <= f.maximum

\* The end that is found is behind the start, between two characters, and what
\* lies before it fits.
LEMMA BoundedEndIs ==
  ASSUME UTF8(file.content), NEW limit \in Nat, limit <= Len(file.content), Boundary(file.content, limit),
         file.maximum \in Nat \ {0}, NEW s, Searched(file, s, limit)
  PROVE  /\ BoundedEnd(s, limit) \in s.start + 1 .. limit
         /\ Boundary(file.content, BoundedEnd(s, limit))
         /\ Count(file.content, s.start, BoundedEnd(s, limit)) <= file.maximum
<1> DEFINE content == file.content
           newlines == {i \in s.start .. s.best - 1 : Byte(content, i) = "n"}
           after == Greatest(newlines) + 1
<1>1. /\ s.start \in Nat /\ s.best \in Nat /\ s.start < limit /\ s.start <= s.best /\ s.best <= limit
      /\ s.best # s.start => Boundary(content, s.best) /\ Count(content, s.start, s.best) <= file.maximum
  BY DEF Searched
<1>2. BoundedEnd(s, limit) =
        IF s.best <= s.start THEN RuneEnd(s.start, limit)
        ELSE IF newlines # {} /\ Count(content, s.start, after) >= file.maximum \div 2 THEN after
        ELSE s.best
  BY DEF BoundedEnd
<1>3. \A n \in Nat : Count(content, s.start, n) \in Nat
  BY <1>1, RunsAreCounted
<1>4. CASE s.best <= s.start
  <2>1. /\ RuneEnd(s.start, limit) \in s.start + 1 .. limit
        /\ Boundary(content, RuneEnd(s.start, limit))
        /\ Count(content, s.start, RuneEnd(s.start, limit)) <= 1
    BY <1>1, RuneEndIs
  <2> DEFINE end == RuneEnd(s.start, limit)
  <2>2. BoundedEnd(s, limit) = end
    BY <1>2, <1>4
  <2>3. end \in Nat /\ end \in s.start + 1 .. limit /\ Boundary(content, end) /\ Count(content, s.start, end) <= 1
    BY <1>1, <2>1
  <2> HIDE DEF end, content
  <2>4. Count(content, s.start, end) <= file.maximum
    BY <1>3, <2>3
  <2>5. QED BY <2>2, <2>3, <2>4 DEF content
<1>5. CASE ~(s.best <= s.start) /\ newlines # {}
  <2>1. newlines \subseteq 0 .. limit
    BY <1>1
  <2>2. Greatest(newlines) \in newlines
    <3> HIDE DEF newlines
    <3>1. QED BY <1>5, <2>1, GreatestIsIn
  <2> DEFINE g == Greatest(newlines)
  <2>3. g \in s.start .. s.best - 1 /\ Byte(content, g) = "n"
    <3> HIDE DEF g
    <3>1. g \in newlines
      BY <2>2 DEF g
    <3>2. QED BY <3>1
  <2> HIDE DEF g, newlines, content
  <2>4. g + 1 \in s.start + 1 .. s.best /\ g \in Nat /\ g + 1 \in Nat /\ g + 1 <= s.best
    BY <1>1, <2>3
  <2>5. Boundary(content, g + 1)
    <3>1. SUFFICES ASSUME g + 1 < Len(content), content[g + 2] = "c"
                   PROVE  FALSE
      BY <2>4 DEF Boundary
    <3>2. content \in Text /\ \A i \in DOMAIN content : content[i] = "c" => i > 1 /\ content[i - 1] \in {"L", "c"}
      BY DEF UTF8, content
    <3>3. g + 2 \in DOMAIN content /\ (g + 2) - 1 = g + 1
      BY <2>4, <3>1, <3>2 DEF Text
    <3>4. content[g + 1] = "n"
      BY <2>3 DEF Byte
    <3>5. QED BY <3>1, <3>2, <3>3, <3>4
  <2>6. Count(content, s.start, g + 1) <= file.maximum
    <3>1. Count(content, s.start, g + 1) <= Count(content, s.start, s.best)
      BY <1>1, <2>4, CountGrows
    <3>2. Count(content, s.start, s.best) <= file.maximum
      BY <1>1, <1>5
    <3>3. Count(content, s.start, g + 1) \in Nat /\ Count(content, s.start, s.best) \in Nat
      BY <1>1, <1>3, <2>4
    <3> DEFINE c == Count(content, s.start, g + 1)
               d == Count(content, s.start, s.best)
    <3>4. c \in Nat /\ d \in Nat /\ c <= d /\ d <= file.maximum /\ file.maximum \in Nat
      BY <3>1, <3>2, <3>3
    <3> HIDE DEF c, d
    <3>5. c <= file.maximum
      BY <3>4
    <3>6. QED BY <3>5 DEF c
  <2>7. BoundedEnd(s, limit) \in {g + 1, s.best}
    BY <1>2, <1>5 DEF g
  <2>8. \A e \in {g + 1, s.best} :
          e \in s.start + 1 .. limit /\ Boundary(content, e) /\ Count(content, s.start, e) <= file.maximum
    BY <1>1, <1>5, <2>4, <2>5, <2>6
  <2>9. QED BY <2>7, <2>8 DEF content
<1>6. CASE ~(s.best <= s.start) /\ newlines = {}
  <2>1. BoundedEnd(s, limit) = s.best
    BY <1>2, <1>6
  <2>2. QED BY <1>1, <1>6, <2>1
<1>7. QED BY <1>4, <1>5, <1>6

(* ---------------------------- the invariant ---------------------------- *)

Piecewise == [start : Nat, end : Nat, symbol : Names, tokens : Nat]
Chunk     == [start : Nat, end : Nat, symbols : Seq(Names), lines : SUBSET Nat, tokens : Nat]

\* The file and the limits of the call are ones it accepts.
Accepted(f) == SymbolsFit(f.content, f.symbols) /\ f.minimum <= f.maximum

CallTypes ==
  /\ Given(file.content, file.symbols)
  /\ file.minimum \in Nat \ {0} /\ file.maximum \in Nat \ {0}
  /\ pc \in {"units", "split", "search", "done", "refused"}
  /\ units \in Seq(Parts(file.content)) /\ pieces \in Seq(Piecewise) /\ chunks \in Seq(Chunk)

Stages ==
  /\ pc = "units" => units = <<>> /\ pieces = <<>> /\ chunks = <<>>
  /\ pc = "done" => units = <<>> /\ pieces = <<>>
  /\ pc = "search" => units # <<>>
  /\ pc \in {"split", "search", "done"} => Accepted(file)
  /\ pc = "refused" => ~Accepted(file)

\* Chunks, pieces and units lie one behind the other over the whole file.
LaidOut ==
  pc \notin {"units", "refused"} =>
    \E m, k \in Nat :
      /\ Chain(chunks, 0, m) /\ Chain(pieces, m, k)
      /\ IF pc = "search"
         THEN k = search.start /\ Chain(Tail(units), Head(units).end, Len(file.content))
         ELSE Chain(units, k, Len(file.content))

Small(f, symbol) == Count(f.content, symbol.start, symbol.end) <= f.maximum

\* A unit that overlaps a symbol is that symbol.
UnitIsSound(f, u) == \A i \in DOMAIN f.symbols : Covers(u, f.symbols[i]) => u = f.symbols[i]

\* A piece fits, and what overlaps a symbol is part of it and has its name.
PieceIsSound(f, p) ==
  /\ p.tokens = Count(f.content, p.start, p.end) /\ p.tokens <= f.maximum
  /\ Boundary(f.content, p.start)
  /\ \A i \in DOMAIN f.symbols : Covers(p, f.symbols[i]) =>
       /\ p.symbol = f.symbols[i].symbol
       /\ Small(f, f.symbols[i]) => p.start = f.symbols[i].start /\ p.end = f.symbols[i].end

\* A chunk fits, names the symbols it overlaps, and has the small ones whole.
ChunkIsSound(f, c) ==
  /\ c.tokens <= f.maximum /\ Boundary(f.content, c.start)
  /\ \A i \in DOMAIN f.symbols : Covers(c, f.symbols[i]) =>
       /\ f.symbols[i].symbol # NoSymbol => f.symbols[i].symbol \in ToSet(c.symbols)
       /\ Small(f, f.symbols[i]) => c.start <= f.symbols[i].start /\ f.symbols[i].end <= c.end

PartsAreSound ==
  /\ \A i \in 1 .. Len(units) : UnitIsSound(file, units[i])
  /\ \A i \in 1 .. Len(pieces) : PieceIsSound(file, pieces[i])
  /\ \A i \in 1 .. Len(chunks) : ChunkIsSound(file, chunks[i])

SearchIsSound ==
  pc = "search" =>
    /\ Searched(file, search, Head(units).end) /\ Head(units).start <= search.start
    /\ ~Small(file, Head(units))

ChunkInv == CallTypes /\ Stages /\ LaidOut /\ PartsAreSound /\ SearchIsSound

(* ------------------------------- the steps ----------------------------- *)

\* The first part of a chain, and the rest.
LEMMA ChainTail ==
  ASSUME NEW X, NEW s \in Seq(X), s # <<>>, NEW a, NEW b, Chain(s, a, b)
  PROVE  /\ Head(s) = s[1] /\ Head(s) \in X /\ 1 \in 1 .. Len(s)
         /\ Head(s).start = a /\ Head(s).end \in Nat /\ a < Head(s).end /\ a \in Nat
         /\ Tail(s) \in Seq(X) /\ Chain(Tail(s), Head(s).end, b)
         /\ \A i \in 1 .. Len(Tail(s)) : i + 1 \in 1 .. Len(s) /\ Tail(s)[i] = s[i + 1]
<1>1. Len(s) \in Nat /\ Len(s) # 0 /\ 1 \in 1 .. Len(s)
  OBVIOUS
<1>2. Head(s) = s[1] /\ s[1] \in X /\ Tail(s) = SubSeq(s, 2, Len(s)) /\ Tail(s) \in Seq(X)
  BY <1>1
<1>3. s[1].start = a /\ s[1].end \in Nat /\ s[1].start < s[1].end /\ a \in Nat
  BY <1>1 DEF Chain
<1>4. Chain(Tail(s), s[1].end, b)
  <2>1. Chain(SubSeq(s, 1 + 1, Len(s)), s[1].end, b)
    BY <1>1, ChainSplits
  <2>2. SubSeq(s, 1 + 1, Len(s)) = Tail(s)
    BY <1>1
  <2>3. QED BY <2>1, <2>2
<1>5. \A i \in 1 .. Len(Tail(s)) : i + 1 \in 1 .. Len(s) /\ Tail(s)[i] = s[i + 1]
  BY <1>1
<1>6. QED BY <1>1, <1>2, <1>3, <1>4, <1>5

\* A chain with one part more.
LEMMA ChainAppends ==
  ASSUME NEW X, NEW s \in Seq(X), NEW a, NEW b, Chain(s, a, b), NEW x \in X,
         x.start = b, x.end \in Nat, x.start < x.end
  PROVE  /\ Append(s, x) \in Seq(X) /\ Chain(Append(s, x), a, x.end)
         /\ \A i \in 1 .. Len(Append(s, x)) : \/ i \in 1 .. Len(s) /\ Append(s, x)[i] = s[i]
                                              \/ Append(s, x)[i] = x
<1>1. Append(s, x) = s \o <<x>> /\ <<x>> \in Seq(X)
  OBVIOUS
<1>2. Chain(<<x>>, b, x.end)
  BY DEF Chain
<1>3. Chain(s \o <<x>>, a, x.end)
  BY <1>1, <1>2, ChainConcat
<1>4. QED BY <1>1, <1>3

LEMMA ChunkInitInv == ChunkInit => ChunkInv
<1> SUFFICES ASSUME ChunkInit PROVE ChunkInv
  OBVIOUS
<1>1. PICK content \in Contents, limits \in Limits : \E symbols \in Symbols(content) :
        file = [content |-> content, symbols |-> symbols, minimum |-> limits[1], maximum |-> limits[2]]
  BY DEF ChunkInit
<1>2. PICK symbols \in Symbols(content) :
        file = [content |-> content, symbols |-> symbols, minimum |-> limits[1], maximum |-> limits[2]]
  BY <1>1
<1>3. limits[1] \in Nat \ {0} /\ limits[2] \in Nat \ {0}
  BY LimitsAssumption
<1>4. UTF8(content)
  BY ContentsAssumption DEF UTF8, Text
<1>5. symbols \in Seq(Units)
  BY ContentsAssumption
<1>6. \A i \in DOMAIN symbols : Boundary(content, symbols[i].start) /\ Boundary(content, symbols[i].end)
  BY ContentsAssumption DEF Boundary
<1>7. Given(file.content, file.symbols)
  BY <1>2, <1>4, <1>5, <1>6 DEF Given
<1>8. file.minimum \in Nat \ {0} /\ file.maximum \in Nat \ {0}
  BY <1>2, <1>3
<1>9. pc = "units" /\ units = <<>> /\ pieces = <<>> /\ chunks = <<>>
  BY DEF ChunkInit
<1>10. CallTypes
  BY <1>7, <1>8, <1>9 DEF CallTypes
<1>11. Stages /\ LaidOut /\ PartsAreSound /\ SearchIsSound
  BY <1>9 DEF Stages, LaidOut, PartsAreSound, SearchIsSound
<1>12. QED BY <1>10, <1>11 DEF ChunkInv

LEMMA MakeUnitsStep == ASSUME ChunkInv, MakeUnits PROVE ChunkInv'
<1>1. /\ pc = "units" /\ UNCHANGED <<file, pieces, chunks, search>>
      /\ units = <<>> /\ pieces = <<>> /\ chunks = <<>>
      /\ Given(file.content, file.symbols)
      /\ file.minimum \in Nat \ {0} /\ file.maximum \in Nat \ {0}
  BY DEF MakeUnits, ChunkInv, CallTypes, Stages
<1>2. CASE file.minimum > file.maximum \/ ~SymbolsFit(file.content, file.symbols)
  <2>1. pc' = "refused" /\ UNCHANGED units
    BY <1>2 DEF MakeUnits
  <2>2. ~Accepted(file)
    BY <1>1, <1>2 DEF Accepted
  <2>3. CallTypes'
    BY <1>1, <2>1 DEF CallTypes
  <2>4. Stages' /\ LaidOut' /\ SearchIsSound'
    BY <1>1, <2>1, <2>2 DEF Stages, LaidOut, SearchIsSound
  <2>5. PartsAreSound'
    BY <1>1, <2>1 DEF PartsAreSound
  <2>6. QED BY <2>3, <2>4, <2>5 DEF ChunkInv
<1>3. CASE ~(file.minimum > file.maximum) /\ SymbolsFit(file.content, file.symbols)
  <2> DEFINE content == file.content
             symbols == file.symbols
             s == SymbolUnits(content, symbols)
  <2>1. pc' = "split" /\ units' = s
    BY <1>3 DEF MakeUnits
  <2>2. Accepted(file)
    BY <1>1, <1>3 DEF Accepted
  <2>3. /\ s \in Seq(Parts(content)) /\ Chain(s, 0, Len(content))
        /\ \A i \in DOMAIN symbols : \E k \in 1 .. Len(s) : s[k] = symbols[i]
    BY <1>1, <1>3, UnitsAreChain
  <2> HIDE DEF s
  <2>4. CallTypes'
    BY <1>1, <2>1, <2>3 DEF CallTypes
  <2>5. Stages' /\ SearchIsSound'
    BY <1>1, <2>1, <2>2 DEF Stages, SearchIsSound
  <2>6. LaidOut'
    <3>1. Chain(<<>>, 0, 0)
      BY DEF Chain
    <3>2. QED BY <1>1, <2>1, <2>3, <3>1 DEF LaidOut
  <2>7. ASSUME NEW i \in 1 .. Len(s)
        PROVE  UnitIsSound(file, s[i])
    <3>1. SUFFICES ASSUME NEW j \in DOMAIN symbols, Covers(s[i], symbols[j])
                   PROVE  s[i] = symbols[j]
      BY DEF UnitIsSound
    <3>2. PICK k \in 1 .. Len(s) : s[k] = symbols[j]
      BY <2>3
    <3>3. i = k
      BY <2>3, <3>1, <3>2, ChainIsDisjoint
    <3>4. QED BY <3>2, <3>3
  <2>8. PartsAreSound'
    BY <1>1, <2>1, <2>7 DEF PartsAreSound
  <2>9. QED BY <2>4, <2>5, <2>6, <2>8 DEF ChunkInv
<1>4. QED BY <1>2, <1>3

\* What is added to the pieces and taken from the units.
LEMMA PieceStep ==
  ASSUME ChunkInv, pc \in {"split", "search"}, UNCHANGED <<file, chunks>>,
         NEW m \in Nat, NEW k \in Nat, Chain(chunks, 0, m), Chain(pieces, m, k),
         NEW p \in Piecewise, p.start = k, p.start < p.end, PieceIsSound(file, p), pieces' = Append(pieces, p),
         pc' \in {"split", "search"},
         units' \in Seq(Parts(file.content)),
         \A i \in 1 .. Len(units') : UnitIsSound(file, units'[i]),
         pc' = "search" => /\ units' # <<>>
                           /\ search'.start = p.end
                           /\ Chain(Tail(units'), Head(units').end, Len(file.content))
                           /\ Searched(file, search', Head(units').end) /\ Head(units').start <= search'.start
                           /\ ~Small(file, Head(units')),
         pc' = "split" => Chain(units', p.end, Len(file.content))
  PROVE  ChunkInv'
<1>1. p.end \in Nat
  BY DEF Piecewise
<1>2. /\ pieces' \in Seq(Piecewise) /\ Chain(pieces', m, p.end)
      /\ \A i \in 1 .. Len(pieces') : (i \in 1 .. Len(pieces) /\ pieces'[i] = pieces[i]) \/ pieces'[i] = p
  BY <1>1, ChainAppends DEF ChunkInv, CallTypes
<1>3. CallTypes'
  BY <1>2 DEF ChunkInv, CallTypes
<1>4. Stages'
  BY DEF ChunkInv, Stages
<1>5. LaidOut'
  BY <1>1, <1>2 DEF LaidOut
<1>6. PartsAreSound'
  BY <1>2 DEF ChunkInv, PartsAreSound
<1>7. SearchIsSound'
  BY DEF SearchIsSound
<1>8. QED BY <1>3, <1>4, <1>5, <1>6, <1>7 DEF ChunkInv

\* A part of a unit has its name, and if the unit is too large no small symbol
\* is in it.
LEMMA PartOfUnit ==
  ASSUME NEW f, NEW u, UnitIsSound(f, u), NEW start \in Nat, NEW end \in Nat, u.start <= start, end <= u.end,
         u.start \in Nat, u.end \in Nat, Given(f.content, f.symbols),
         Count(f.content, start, end) <= f.maximum, Boundary(f.content, start),
         (start = u.start /\ end = u.end) \/ ~Small(f, u)
  PROVE  PieceIsSound(f, [start |-> start, end |-> end, symbol |-> u.symbol, tokens |-> Count(f.content, start, end)])
<1> DEFINE p == [start |-> start, end |-> end, symbol |-> u.symbol, tokens |-> Count(f.content, start, end)]
<1>1. p.start = start /\ p.end = end /\ p.symbol = u.symbol /\ p.tokens = Count(f.content, start, end)
  OBVIOUS
<1> HIDE DEF p
<1>2. ASSUME NEW i \in DOMAIN f.symbols, Covers(p, f.symbols[i])
      PROVE  u = f.symbols[i]
  <2>1. f.symbols[i].start \in Nat /\ f.symbols[i].end \in Nat
    <3>1. f.symbols[i] \in Units
      BY DEF Given
    <3>2. QED BY <3>1 DEF Units
  <2>2. Covers(u, f.symbols[i])
    BY <1>1, <1>2, <2>1 DEF Covers
  <2>3. QED BY <2>2 DEF UnitIsSound
<1>3. ASSUME NEW i \in DOMAIN f.symbols, Covers(p, f.symbols[i])
      PROVE  /\ p.symbol = f.symbols[i].symbol
             /\ Small(f, f.symbols[i]) => p.start = f.symbols[i].start /\ p.end = f.symbols[i].end
  <2>1. u = f.symbols[i]
    BY <1>2, <1>3
  <2>2. QED BY <1>1, <2>1
<1>4. QED BY <1>1, <1>3 DEF PieceIsSound, p

LEMMA SplitUnitStep == ASSUME ChunkInv, SplitUnit PROVE ChunkInv'
<1>1. pc = "split" /\ units # <<>> /\ UNCHANGED <<file, chunks>>
  BY DEF SplitUnit
<1>2. /\ units \in Seq(Parts(file.content)) /\ Given(file.content, file.symbols)
      /\ file.maximum \in Nat \ {0} /\ \A i \in 1 .. Len(units) : UnitIsSound(file, units[i])
  BY DEF ChunkInv, CallTypes, PartsAreSound
<1>3. PICK m, k \in Nat : Chain(chunks, 0, m) /\ Chain(pieces, m, k) /\ Chain(units, k, Len(file.content))
  BY <1>1 DEF ChunkInv, LaidOut
<1> DEFINE u == Head(units)
           p == [start |-> u.start, end |-> u.end, symbol |-> u.symbol, tokens |-> Count(file.content, u.start, u.end)]
<1>4. /\ u = units[1] /\ u \in Parts(file.content) /\ 1 \in 1 .. Len(units)
      /\ u.start = k /\ u.end \in Nat /\ u.start < u.end /\ u.start \in Nat
      /\ Tail(units) \in Seq(Parts(file.content)) /\ Chain(Tail(units), u.end, Len(file.content))
      /\ \A i \in 1 .. Len(Tail(units)) : i + 1 \in 1 .. Len(units) /\ Tail(units)[i] = units[i + 1]
  BY <1>1, <1>2, <1>3, ChainTail
<1>5. u.symbol \in Names /\ Boundary(file.content, u.start) /\ UnitIsSound(file, u)
  BY <1>2, <1>4 DEF Parts, Units
<1>6. Piece(u.start, u.end, u.symbol) = p /\ p.tokens = Count(file.content, u.start, u.end)
  BY DEF Piece
<1>7. CASE p.tokens <= file.maximum
  <2>1. pieces' = Append(pieces, p) /\ units' = Tail(units) /\ UNCHANGED <<pc, search>>
    BY <1>6, <1>7 DEF SplitUnit
  <2>2. PieceIsSound(file, p)
    <3> HIDE DEF u
    <3>1. QED BY <1>2, <1>4, <1>5, <1>6, <1>7, PartOfUnit
  <2>3. p \in Piecewise /\ p.start = k /\ p.start < p.end /\ p.end = u.end
    <3> HIDE DEF u
    <3>1. QED BY <1>4, <1>5, RunsAreCounted DEF Piecewise
  <2>4. \A i \in 1 .. Len(units') : UnitIsSound(file, units'[i])
    BY <1>2, <1>4, <2>1
  <2> HIDE DEF p, u
  <2>5. QED BY <1>1, <1>3, <1>4, <2>1, <2>2, <2>3, <2>4, PieceStep
<1>8. CASE ~(p.tokens <= file.maximum)
  <2>1. pc' = "search" /\ search' = From(u.start, u) /\ UNCHANGED <<pieces, units>>
    BY <1>6, <1>8 DEF SplitUnit
  <2> HIDE DEF u
  <2>2. /\ search' = [start |-> u.start, low |-> u.start + 1, high |-> u.end, best |-> u.start]
        /\ search'.start = u.start /\ search'.low = u.start + 1
        /\ search'.high = u.end /\ search'.best = u.start
    BY <2>1 DEF From
  <2>3. Searched(file, search', u.end)
    BY <1>4, <1>5, <2>2 DEF Searched
  <2>4. ~Small(file, u)
    BY <1>6, <1>8 DEF Small
  <2>5. CallTypes'
    BY <1>1, <2>1 DEF ChunkInv, CallTypes
  <2>6. Stages'
    BY <1>1, <2>1 DEF ChunkInv, Stages
  <2>7. PartsAreSound'
    BY <1>1, <2>1 DEF ChunkInv, PartsAreSound
  <2>8. LaidOut'
    BY <1>1, <1>3, <1>4, <2>1, <2>2 DEF LaidOut, u
  <2>9. SearchIsSound'
    <3>1. Head(units') = u /\ file' = file
      BY <1>1, <2>1 DEF u
    <3>2. u.start <= search'.start
      BY <1>4, <2>2
    <3>3. QED BY <2>3, <2>4, <3>1, <3>2 DEF SearchIsSound
  <2>10. QED BY <2>5, <2>6, <2>7, <2>8, <2>9 DEF ChunkInv
<1>9. QED BY <1>7, <1>8

LEMMA ProbeStep == ASSUME ChunkInv, Probe PROVE ChunkInv'
<1> DEFINE u == Head(units)
           limit == u.end
           half == search.low + (search.high - search.low) \div 2
           middle == Middle(half, search.start, limit)
<1>1. /\ pc = "search" /\ search.low <= search.high /\ UNCHANGED <<file, pc, units, pieces, chunks>>
      /\ search' = IF Count(file.content, search.start, middle) <= file.maximum
                   THEN [search EXCEPT !.best = middle, !.low = middle + 1]
                   ELSE [search EXCEPT !.high = middle - 1]
  BY DEF Probe
<1>2. /\ units # <<>> /\ units \in Seq(Parts(file.content)) /\ Given(file.content, file.symbols)
      /\ Searched(file, search, limit) /\ u.start <= search.start /\ ~Small(file, u)
  BY <1>1 DEF ChunkInv, CallTypes, Stages, SearchIsSound
<1>3. UTF8(file.content) /\ u \in Parts(file.content)
  BY <1>2 DEF Given
<1>4. limit \in Nat /\ limit <= Len(file.content) /\ Boundary(file.content, limit)
  BY <1>3 DEF Parts, Units
<1> HIDE DEF u, limit, half, middle
<1>5. /\ search = [start |-> search.start, low |-> search.low, high |-> search.high, best |-> search.best]
      /\ search.start \in Nat /\ search.start < limit /\ Boundary(file.content, search.start)
      /\ search.low \in search.start + 1 .. limit + 1 /\ search.high \in search.start .. limit
      /\ search.best \in search.start .. limit
      /\ search.best # search.start => /\ Boundary(file.content, search.best)
                                       /\ Count(file.content, search.start, search.best) <= file.maximum
  BY <1>2 DEF Searched
<1>6. half \in search.start + 1 .. limit
  BY <1>1, <1>4, <1>5 DEF half
<1>7. middle \in search.start + 1 .. limit /\ Boundary(file.content, middle)
  BY <1>3, <1>4, <1>5, <1>6, MiddleIs DEF middle
<1>8. Searched(file, search', limit)
  <2>1. CASE Count(file.content, search.start, middle) <= file.maximum
    <3>1. search' = [search EXCEPT !.best = middle, !.low = middle + 1]
      BY <1>1, <2>1
    <3>2. /\ search' = [start |-> search.start, low |-> middle + 1, high |-> search.high, best |-> middle]
          /\ search'.start = search.start /\ search'.low = middle + 1
          /\ search'.high = search.high /\ search'.best = middle
      BY <1>5, <3>1
    <3>3. middle + 1 \in search.start + 1 .. limit + 1 /\ middle \in search.start .. limit
      BY <1>4, <1>5, <1>7
    <3>4. QED BY <1>5, <1>7, <2>1, <3>2, <3>3 DEF Searched
  <2>2. CASE ~(Count(file.content, search.start, middle) <= file.maximum)
    <3>1. search' = [search EXCEPT !.high = middle - 1]
      BY <1>1, <2>2
    <3>2. /\ search' = [start |-> search.start, low |-> search.low, high |-> middle - 1, best |-> search.best]
          /\ search'.start = search.start /\ search'.low = search.low
          /\ search'.high = middle - 1 /\ search'.best = search.best
      BY <1>5, <3>1
    <3>3. middle - 1 \in search.start .. limit
      BY <1>4, <1>5, <1>7
    <3>4. QED BY <1>5, <3>2, <3>3 DEF Searched
  <2>3. QED BY <2>1, <2>2
<1>9. search'.start = search.start
  BY <1>1, <1>5
<1>10. CallTypes' /\ Stages'
  BY <1>1 DEF ChunkInv, CallTypes, Stages
<1>11. LaidOut'
  BY <1>1, <1>9 DEF ChunkInv, LaidOut
<1>12. PartsAreSound'
  BY <1>1 DEF ChunkInv, PartsAreSound
<1>13. SearchIsSound'
  <2>1. Head(units') = u /\ Head(units').end = limit /\ file' = file
    BY <1>1 DEF u, limit
  <2>2. QED BY <1>2, <1>8, <1>9, <2>1 DEF SearchIsSound
<1>14. QED BY <1>10, <1>11, <1>12, <1>13 DEF ChunkInv

LEMMA TakePieceStep == ASSUME ChunkInv, TakePiece PROVE ChunkInv'
<1> DEFINE u == Head(units)
           start == search.start
           end == BoundedEnd(search, u.end)
           p == [start |-> start, end |-> end, symbol |-> u.symbol, tokens |-> Count(file.content, start, end)]
<1>1. pc = "search" /\ UNCHANGED <<file, chunks>> /\ pieces' = Append(pieces, p)
  BY DEF TakePiece, Piece
<1>2. IF end < u.end THEN search' = From(end, u) /\ UNCHANGED <<pc, units>>
      ELSE search' = NoSearch /\ pc' = "split" /\ units' = Tail(units)
  BY DEF TakePiece
<1>3. /\ units # <<>> /\ units \in Seq(Parts(file.content)) /\ Given(file.content, file.symbols)
      /\ Searched(file, search, u.end) /\ u.start <= start /\ ~Small(file, u)
      /\ file.maximum \in Nat \ {0} /\ \A i \in 1 .. Len(units) : UnitIsSound(file, units[i])
  BY <1>1 DEF ChunkInv, CallTypes, Stages, SearchIsSound, PartsAreSound
<1>4. PICK m, k \in Nat : /\ Chain(chunks, 0, m) /\ Chain(pieces, m, k)
                         /\ k = start /\ Chain(Tail(units), u.end, Len(file.content))
  BY <1>1 DEF ChunkInv, LaidOut
<1>5. /\ u \in Parts(file.content) /\ Tail(units) \in Seq(Parts(file.content))
      /\ \A i \in 1 .. Len(Tail(units)) : i + 1 \in 1 .. Len(units) /\ Tail(units)[i] = units[i + 1]
      /\ UnitIsSound(file, u)
  BY <1>3
<1>6. /\ u.start \in Nat /\ u.end \in Nat /\ u.symbol \in Names /\ u.end <= Len(file.content)
      /\ Boundary(file.content, u.end) /\ UTF8(file.content)
  BY <1>3, <1>5 DEF Parts, Units, Given
<1>7. start \in Nat /\ start < u.end /\ Boundary(file.content, start)
  BY <1>3 DEF Searched
<1> HIDE DEF u
<1>8. end \in start + 1 .. u.end /\ Boundary(file.content, end) /\ Count(file.content, start, end) <= file.maximum
  BY <1>3, <1>6, BoundedEndIs
<1> HIDE DEF start, end
<1>9. end \in Nat /\ start < end /\ end <= u.end
  BY <1>6, <1>7, <1>8
<1>10. PieceIsSound(file, p)
  BY <1>3, <1>5, <1>6, <1>7, <1>8, <1>9, PartOfUnit
<1>11. p \in Piecewise /\ p.start = k /\ p.start < p.end /\ p.end = end
  BY <1>4, <1>6, <1>7, <1>9, RunsAreCounted DEF Piecewise
<1> HIDE DEF p
<1>12. CASE end < u.end
  <2>1. search' = From(end, u) /\ UNCHANGED <<pc, units>>
    BY <1>2, <1>12
  <2>2. /\ search' = [start |-> end, low |-> end + 1, high |-> u.end, best |-> end]
        /\ search'.start = end /\ search'.low = end + 1 /\ search'.high = u.end /\ search'.best = end
    BY <2>1 DEF From
  <2>3. Searched(file, search', u.end)
    BY <1>6, <1>8, <1>9, <1>12, <2>2 DEF Searched
  <2>4. /\ Head(units') = u /\ units' = units /\ pc' = "search"
    BY <1>1, <2>1 DEF u
  <2>5. u.start <= search'.start
    BY <1>3, <1>6, <1>7, <1>9, <2>2
  <2>6. QED BY <1>1, <1>3, <1>4, <1>10, <1>11, <2>2, <2>3, <2>4, <2>5, PieceStep
<1>13. CASE ~(end < u.end)
  <2>1. end = u.end /\ pc' = "split" /\ units' = Tail(units)
    BY <1>2, <1>6, <1>9, <1>13
  <2>2. \A i \in 1 .. Len(units') : UnitIsSound(file, units'[i])
    BY <1>3, <1>5, <2>1
  <2>3. QED BY <1>1, <1>4, <1>5, <1>10, <1>11, <2>1, <2>2, PieceStep
<1>14. QED BY <1>12, <1>13

\* Some pieces are taken, and they fit.
LEMMA PackedIs ==
  ASSUME pieces \in Seq(Piecewise), pieces # <<>>, pieces[1].tokens <= file.maximum
  PROVE  Packed \in 1 .. Len(pieces) /\ Tokens(Packed) <= file.maximum
<1> DEFINE fits(n) == Tokens(n) <= file.maximum /\ \A k \in 1 .. n - 1 : Tokens(k) < file.minimum
           sizes == {n \in 0 .. Len(pieces) : \A k \in 1 .. n : fits(k)}
           g == Greatest(sizes)
<1>1. Packed = g
  BY DEF Packed
<1>2. Len(pieces) \in Nat /\ 1 \in 1 .. Len(pieces) /\ pieces[1] \in Piecewise
  OBVIOUS
<1>3. Tokens(1) <= file.maximum
  <2>1. Tokens(0) = 0 /\ Tokens(1) = Tokens(1 - 1) + pieces[1].tokens
    BY <1>2, TokensAdd
  <2>2. Tokens(1) = pieces[1].tokens
    BY <1>2, <2>1 DEF Piecewise
  <2>3. QED BY <2>2
<1>4. 1 \in sizes
  <2>1. \A k \in 1 .. 1 : k = 1
    OBVIOUS
  <2>2. 1 .. 1 - 1 = {}
    OBVIOUS
  <2>3. fits(1)
    BY <1>3, <2>2
  <2>4. \A k \in 1 .. 1 : fits(k)
    BY <2>1, <2>3
  <2>5. QED BY <1>2, <2>4
<1>5. sizes \subseteq 0 .. Len(pieces)
  OBVIOUS
<1>6. g \in sizes /\ \A k \in sizes : k <= g
  <2> HIDE DEF sizes
  <2>1. QED BY <1>2, <1>4, <1>5, GreatestIsIn
<1>7. g \in 0 .. Len(pieces) /\ \A k \in 1 .. g : fits(k)
  <2> HIDE DEF g, fits
  <2>1. QED BY <1>6
<1>8. 1 <= g
  BY <1>4, <1>6
<1> HIDE DEF g
<1>9. g \in 1 .. Len(pieces) /\ g \in 1 .. g
  BY <1>2, <1>7, <1>8
<1>10. QED BY <1>1, <1>7, <1>9

LEMMA LineAtIsNat == ASSUME NEW offset \in Nat PROVE LineAt(offset) \in Nat
<1> DEFINE S == {i \in 0 .. offset - 1 : Byte(file.content, i) = "n"}
<1>1. IsFiniteSet(0 .. offset - 1) /\ S \subseteq 0 .. offset - 1
  BY FS_Interval
<1>2. Cardinality(S) \in Nat
  <2> HIDE DEF S
  <2>1. QED BY <1>1, FS_Subset, FS_CardinalityType
<1>3. QED BY <1>2 DEF LineAt

\* A row of sound pieces that fits is a sound chunk.
LEMMA RowIsSound ==
  ASSUME NEW f, Given(f.content, f.symbols), Accepted(f),
         NEW items \in Seq(Piecewise), Len(items) # 0, NEW start, NEW end, Chain(items, start, end),
         \A i \in 1 .. Len(items) : PieceIsSound(f, items[i]),
         NEW c, c.start = start, c.end = end, c.symbols = JoinedSymbols(items), c.tokens <= f.maximum
  PROVE  ChunkIsSound(f, c)
<1>1. start \in Nat /\ end \in Nat /\ 1 \in 1 .. Len(items) /\ items[1].start = start
  BY DEF Chain
<1>2. Boundary(f.content, c.start)
  BY <1>1 DEF PieceIsSound
<1>3. ASSUME NEW i \in DOMAIN f.symbols, Covers(c, f.symbols[i])
      PROVE  /\ f.symbols[i].symbol # NoSymbol => f.symbols[i].symbol \in ToSet(c.symbols)
             /\ Small(f, f.symbols[i]) => c.start <= f.symbols[i].start /\ f.symbols[i].end <= c.end
  <2> DEFINE symbol == f.symbols[i]
             x == IF start <= symbol.start THEN symbol.start ELSE start
  <2>1. symbol \in Units
    BY DEF Given
  <2>2. symbol.start \in Nat /\ symbol.end \in Nat
    BY <2>1 DEF Units
  <2>3. symbol.start < symbol.end
    BY DEF Accepted, SymbolsFit
  <2>4. start < symbol.end /\ symbol.start < end
    BY <1>3 DEF Covers
  <2>5. start < end
    <3>1. start <= items[1].start /\ items[1].end <= end /\ items[1].start < items[1].end
          /\ items[1].start \in Nat /\ items[1].end \in Nat
      BY <1>1, ChainOrder DEF Chain
    <3>2. QED BY <1>1, <3>1
  <2> HIDE DEF symbol
  <2>6. x \in Nat /\ start <= x /\ x < end /\ symbol.start <= x /\ x < symbol.end
    BY <1>1, <2>2, <2>3, <2>4, <2>5
  <2> HIDE DEF x
  <2>7. PICK j \in 1 .. Len(items) : items[j].start <= x /\ x < items[j].end
    BY <2>6, ChainCovers
  <2> DEFINE p == items[j]
  <2>8. p \in Piecewise /\ PieceIsSound(f, p) /\ p.start \in Nat /\ p.end \in Nat
    <3>1. p \in Piecewise /\ PieceIsSound(f, p)
      OBVIOUS
    <3> HIDE DEF p
    <3>2. QED BY <3>1 DEF Piecewise
  <2>9. start <= p.start /\ p.end <= end
    BY ChainOrder
  <2>10. p.symbol # NoSymbol => p.symbol \in ToSet(c.symbols)
    <3>1. \A q \in Piecewise : q.symbol \in Names
      BY DEF Piecewise
    <3>2. \A k \in 1 .. Len(items) : items[k] \in Piecewise
      OBVIOUS
    <3>3. \A k \in 1 .. Len(items) : items[k].symbol \in Names
      BY <3>1, <3>2
    <3>4. QED BY <3>3, JoinedNames
  <2>11. Covers(p, symbol)
    BY <2>2, <2>6, <2>7, <2>8 DEF Covers
  <2>12. p.symbol = symbol.symbol /\ (Small(f, symbol) => p.start = symbol.start /\ p.end = symbol.end)
    BY <2>8, <2>11 DEF PieceIsSound, symbol
  <2> HIDE DEF p
  <2>13. symbol.symbol # NoSymbol => symbol.symbol \in ToSet(c.symbols)
    BY <2>10, <2>12
  <2>14. Small(f, symbol) => c.start <= symbol.start /\ symbol.end <= c.end
    BY <2>9, <2>12
  <2>15. QED BY <2>13, <2>14 DEF symbol
<1>4. QED BY <1>2, <1>3 DEF ChunkIsSound

LEMMA PackStep == ASSUME ChunkInv, Pack PROVE ChunkInv'
<1> DEFINE n == Packed
           items == SubSeq(pieces, 1, n)
           rest == SubSeq(pieces, n + 1, Len(pieces))
           start == pieces[1].start
           end == pieces[n].end
           last == IF start >= end - 1 THEN start ELSE end - 1
           c == [start |-> start, end |-> end, symbols |-> JoinedSymbols(items),
                 lines |-> LineAt(start) .. LineAt(last), tokens |-> Count(file.content, start, end)]
<1>1. pc = "split" /\ units = <<>> /\ pieces # <<>> /\ UNCHANGED <<file, units, search>>
  BY DEF Pack
<1>2. /\ pieces \in Seq(Piecewise) /\ chunks \in Seq(Chunk) /\ Given(file.content, file.symbols) /\ Accepted(file)
      /\ file.maximum \in Nat \ {0}
      /\ \A i \in 1 .. Len(pieces) : PieceIsSound(file, pieces[i])
      /\ \A i \in 1 .. Len(chunks) : ChunkIsSound(file, chunks[i])
  BY <1>1 DEF ChunkInv, CallTypes, Stages, PartsAreSound
<1>3. PICK m, k \in Nat : Chain(chunks, 0, m) /\ Chain(pieces, m, k) /\ Chain(units, k, Len(file.content))
  BY <1>1 DEF ChunkInv, LaidOut
<1>4. 1 \in 1 .. Len(pieces) /\ Len(pieces) \in Nat
  BY <1>1, <1>2
<1>5. n \in 1 .. Len(pieces) /\ Tokens(n) <= file.maximum
  <2>1. pieces[1].tokens <= file.maximum
    BY <1>2, <1>4 DEF PieceIsSound
  <2>2. QED BY <1>1, <1>2, <2>1, PackedIs
<1>6. chunks' = Append(chunks, c) /\ pieces' = rest /\ UNCHANGED pc
  <2>1. Packed # 0
    BY <1>4, <1>5
  <2>2. QED BY <2>1 DEF Pack
<1> HIDE DEF n
<1>7. Chain(items, m, end) /\ Chain(rest, end, k)
  BY <1>2, <1>3, <1>5, ChainSplits
<1>8. start = m /\ start \in Nat /\ end \in Nat /\ start < end
  <2>1. start = m
    BY <1>3, <1>4 DEF Chain
  <2>2. \A i \in 1 .. Len(pieces) : pieces[i].start \in Nat /\ pieces[i].end \in Nat /\ pieces[i].start < pieces[i].end
    BY <1>3 DEF Chain
  <2>3. n # 1 => pieces[1].end <= pieces[n].start
    BY <1>2, <1>3, <1>4, <1>5, ChainOrder
  <2>4. QED BY <1>4, <1>5, <2>1, <2>2, <2>3
<1>9. Count(file.content, start, end) <= file.maximum /\ Count(file.content, start, end) \in Nat
  <2>1. Tokens(n) \in Nat /\ Count(file.content, start, end) <= Tokens(n)
    <3>1. \A i \in 1 .. Len(pieces) : pieces[i].tokens = Count(file.content, pieces[i].start, pieces[i].end)
      BY <1>2 DEF PieceIsSound
    <3>2. QED BY <1>2, <1>3, <1>5, <3>1, CountOfPieces
  <2>2. Count(file.content, start, end) \in Nat
    BY <1>8, RunsAreCounted
  <2> DEFINE w == Count(file.content, start, end)
  <2>3. w \in Nat /\ w <= Tokens(n)
    BY <2>1, <2>2
  <2> HIDE DEF w, start, end
  <2>4. w <= file.maximum
    BY <1>2, <1>5, <2>1, <2>3
  <2>5. QED BY <2>3, <2>4 DEF w
<1>10. /\ items \in Seq(Piecewise) /\ rest \in Seq(Piecewise) /\ Len(items) = n /\ n # 0
       /\ \A i \in 1 .. n : i \in 1 .. Len(pieces) /\ items[i] = pieces[i]
       /\ \A i \in 1 .. Len(rest) : n + i \in 1 .. Len(pieces) /\ rest[i] = pieces[n + i]
  BY <1>2, <1>5
<1> HIDE DEF items, rest, start, end
<1>11. c.start = start /\ c.end = end /\ c.symbols = JoinedSymbols(items) /\ c.tokens = Count(file.content, start, end)
  OBVIOUS
<1>12. c \in Chunk
  <2>1. JoinedSymbols(items) \in Seq(Names)
    <3>1. \A p \in Piecewise : p.symbol \in Names
      BY DEF Piecewise
    <3>2. \A i \in 1 .. Len(items) : items[i] \in Piecewise
      BY <1>10
    <3>3. \A i \in 1 .. Len(items) : items[i].symbol \in Names
      BY <3>1, <3>2
    <3>4. QED BY <1>10, <3>3, JoinedNames
  <2>2. last \in Nat
    BY <1>8
  <2>3. LineAt(start) .. LineAt(last) \in SUBSET Nat
    <3> HIDE DEF last
    <3>1. LineAt(start) \in Nat /\ LineAt(last) \in Nat
      BY <1>8, <2>2, LineAtIsNat
    <3>2. QED BY <3>1
  <2> HIDE DEF last
  <2>4. QED BY <1>8, <1>9, <2>1, <2>3 DEF Chunk
<1> HIDE DEF c
<1>13. ChunkIsSound(file, c)
  <2>1. \A i \in 1 .. Len(items) : PieceIsSound(file, items[i])
    BY <1>2, <1>10
  <2>2. Chain(items, start, end)
    BY <1>7, <1>8
  <2>3. QED BY <1>2, <1>9, <1>10, <1>11, <2>1, <2>2, RowIsSound
<1>14. /\ chunks' \in Seq(Chunk) /\ Chain(chunks', 0, end)
       /\ \A i \in 1 .. Len(chunks') : (i \in 1 .. Len(chunks) /\ chunks'[i] = chunks[i]) \/ chunks'[i] = c
  BY <1>2, <1>3, <1>6, <1>8, <1>11, <1>12, ChainAppends
<1>15. CallTypes'
  BY <1>1, <1>6, <1>10, <1>14 DEF ChunkInv, CallTypes
<1>16. Stages'
  BY <1>1, <1>6 DEF ChunkInv, Stages
<1>17. LaidOut'
  BY <1>1, <1>3, <1>6, <1>7, <1>8, <1>14 DEF LaidOut
<1>18. PartsAreSound'
  <2>1. \A i \in 1 .. Len(units') : UnitIsSound(file', units'[i])
    BY <1>1
  <2>2. \A i \in 1 .. Len(pieces') : PieceIsSound(file', pieces'[i])
    BY <1>1, <1>2, <1>6, <1>10
  <2>3. \A i \in 1 .. Len(chunks') : ChunkIsSound(file', chunks'[i])
    BY <1>1, <1>2, <1>13, <1>14
  <2>4. QED BY <2>1, <2>2, <2>3 DEF PartsAreSound
<1>19. SearchIsSound'
  BY <1>1, <1>6 DEF SearchIsSound
<1>20. QED BY <1>15, <1>16, <1>17, <1>18, <1>19 DEF ChunkInv

LEMMA ChunkedStep == ASSUME ChunkInv, Chunked PROVE ChunkInv'
<1>1. pc = "split" /\ units = <<>> /\ pieces = <<>> /\ pc' = "done" /\ UNCHANGED <<file, units, pieces, chunks, search>>
  BY DEF Chunked
<1>2. CallTypes' /\ Stages'
  BY <1>1 DEF ChunkInv, CallTypes, Stages
<1>3. LaidOut'
  BY <1>1 DEF ChunkInv, LaidOut
<1>4. PartsAreSound' /\ SearchIsSound'
  BY <1>1 DEF ChunkInv, PartsAreSound, SearchIsSound
<1>5. QED BY <1>2, <1>3, <1>4 DEF ChunkInv

LEMMA ChunkStepInv == ASSUME ChunkInv, [ChunkNext]_chunkVars PROVE ChunkInv'
<1>1. CASE UNCHANGED chunkVars
  <2>1. UNCHANGED <<file, pc, units, pieces, chunks, search>>
    BY <1>1 DEF chunkVars
  <2>2. QED BY <2>1 DEF ChunkInv, CallTypes, Stages, LaidOut, PartsAreSound, SearchIsSound
<1>2. QED BY <1>1, MakeUnitsStep, SplitUnitStep, ProbeStep, TakePieceStep, PackStep, ChunkedStep DEF ChunkNext

\* When all is packed, what the parts are says what the chunks are.
LEMMA ChunksAreRebuilt == ASSUME ChunkInv PROVE ChunksRebuildContent
<1>1. ASSUME pc = "refused"
      PROVE  ~SymbolsFit(file.content, file.symbols) \/ file.minimum > file.maximum
  BY <1>1 DEF ChunkInv, Stages, Accepted, CallTypes
<1>2. ASSUME pc = "done"
      PROVE  LET n == Len(chunks) IN
             /\ file.content # <<>> => n > 0 /\ chunks[1].start = 0 /\ chunks[n].end = Len(file.content)
             /\ \A i \in 2..n : chunks[i].start = chunks[i - 1].end
             /\ \A i \in 1..n : /\ chunks[i].start < chunks[i].end
                                /\ chunks[i].tokens <= file.maximum
                                /\ RuneStart(chunks[i].start)
             /\ \A symbol \in ToSet(file.symbols) :
                  LET around == {i \in 1..n : Covers(chunks[i], symbol)}
                  IN /\ symbol.symbol # NoSymbol => \A i \in around : symbol.symbol \in ToSet(chunks[i].symbols)
                     /\ Count(file.content, symbol.start, symbol.end) <= file.maximum => Cardinality(around) = 1
  <2> DEFINE n == Len(chunks)
             content == file.content
  <2>1. /\ chunks \in Seq(Chunk) /\ Given(content, file.symbols) /\ Accepted(file)
        /\ units = <<>> /\ pieces = <<>>
        /\ \A i \in 1 .. n : ChunkIsSound(file, chunks[i])
    BY <1>2 DEF ChunkInv, CallTypes, Stages, PartsAreSound
  <2>2. Chain(chunks, 0, Len(content))
    <3>1. PICK m, k \in Nat : Chain(chunks, 0, m) /\ Chain(pieces, m, k) /\ Chain(units, k, Len(content))
      BY <1>2 DEF ChunkInv, LaidOut
    <3>2. m = k /\ k = Len(content)
      BY <2>1, <3>1 DEF Chain
    <3>3. QED BY <3>1, <3>2
  <2>3. content \in Text /\ Len(content) \in Nat /\ (content # <<>> => Len(content) # 0)
    BY <2>1 DEF Given, UTF8, Text
  <2>4. content # <<>> => n > 0 /\ chunks[1].start = 0 /\ chunks[n].end = Len(content)
    BY <2>1, <2>2, <2>3 DEF Chain
  <2>5. \A i \in 2 .. n : chunks[i].start = chunks[i - 1].end
    BY <2>2 DEF Chain
  <2>6. ASSUME NEW i \in 1 .. n
        PROVE  /\ chunks[i].start < chunks[i].end /\ chunks[i].tokens <= file.maximum /\ RuneStart(chunks[i].start)
    <3>1. chunks[i].start < chunks[i].end /\ chunks[i].start \in Nat /\ chunks[i].end \in Nat
      BY <2>2 DEF Chain
    <3>2. chunks[i].end <= Len(content)
      BY <2>1, <2>2, ChainOrder
    <3>3. chunks[i].tokens <= file.maximum /\ Boundary(content, chunks[i].start)
      BY <2>1 DEF ChunkIsSound
    <3>4. chunks[i].start < Len(content)
      BY <2>3, <3>1, <3>2
    <3>5. QED BY <3>1, <3>3, <3>4 DEF Boundary, RuneStart, Byte
  <2>7. ASSUME NEW symbol \in ToSet(file.symbols)
        PROVE  LET around == {i \in 1..n : Covers(chunks[i], symbol)}
               IN /\ symbol.symbol # NoSymbol => \A i \in around : symbol.symbol \in ToSet(chunks[i].symbols)
                  /\ Count(content, symbol.start, symbol.end) <= file.maximum => Cardinality(around) = 1
    <3> DEFINE around == {i \in 1 .. n : Covers(chunks[i], symbol)}
    <3>1. PICK j \in DOMAIN file.symbols : file.symbols[j] = symbol
      BY DEF ToSet
    <3>2. \A i \in around : /\ symbol.symbol # NoSymbol => symbol.symbol \in ToSet(chunks[i].symbols)
                            /\ Small(file, symbol) => chunks[i].start <= symbol.start /\ symbol.end <= chunks[i].end
      BY <2>1, <3>1 DEF ChunkIsSound
    <3>3. symbol \in Units
      BY <2>1, <3>1 DEF Given
    <3>4. /\ symbol.start \in Nat /\ symbol.end \in Nat /\ symbol.start < symbol.end /\ symbol.end <= Len(content)
      BY <2>1, <3>1, <3>3 DEF Accepted, SymbolsFit, Units
    <3>5. ASSUME Small(file, symbol)
          PROVE  Cardinality(around) = 1
      <4>1. PICK i \in 1 .. n : chunks[i].start <= symbol.start /\ symbol.start < chunks[i].end
        <5>1. symbol.start \in Nat /\ 0 <= symbol.start /\ symbol.start < Len(content)
          BY <2>3, <3>4
        <5> DEFINE x == symbol.start
        <5>2. x \in Nat /\ 0 <= x /\ x < Len(content)
          BY <5>1
        <5> HIDE DEF x
        <5>3. \E k \in 1 .. Len(chunks) : chunks[k].start <= x /\ x < chunks[k].end
          BY <2>1, <2>2, <5>2, ChainCovers
        <5>4. QED BY <5>3 DEF x
      <4>2. i \in around
        <5>1. chunks[i].start \in Nat
          BY <2>2 DEF Chain
        <5>2. QED BY <3>4, <4>1, <5>1 DEF Covers
      <4>3. ASSUME NEW o \in around
            PROVE  o = i
        <5>1. /\ chunks[i].start <= symbol.start /\ symbol.end <= chunks[i].end
              /\ chunks[o].start <= symbol.start /\ symbol.end <= chunks[o].end
          BY <3>2, <3>5, <4>2, <4>3
        <5>2. o \in 1 .. n
          OBVIOUS
        <5>3. {chunks[i].start, chunks[i].end, chunks[o].start, chunks[o].end} \subseteq Nat
          BY <2>2, <5>2 DEF Chain
        <5>4. Covers(chunks[o], chunks[i])
          BY <3>4, <5>1, <5>3 DEF Covers
        <5>5. QED BY <2>1, <2>2, <5>2, <5>4, ChainIsDisjoint
      <4>4. around = {i}
        BY <4>2, <4>3
      <4>5. QED BY <4>4, FS_Singleton
    <3>6. QED BY <3>2, <3>5 DEF Small
  <2>8. QED BY <2>4, <2>5, <2>6, <2>7
<1>3. QED BY <1>1, <1>2 DEF ChunksRebuildContent

\* What Chunk returns is the file, cut within the limit, between characters and
\* around the symbols that fit, and what it refuses has symbols that overlap or
\* contradictory limits.
THEOREM ChunksRebuild == ChunkSpec => []ChunksRebuildContent
<1>1. ChunkSpec => []ChunkInv
  BY ChunkInitInv, ChunkStepInv, PTL DEF ChunkSpec
<1>2. QED BY <1>1, ChunksAreRebuilt, PTL

=============================================================================
