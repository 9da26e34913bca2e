------------------------ MODULE RepositoryIndexProofs ------------------------
(***************************************************************************)
(* Proofs about RepositoryIndex, for every set of paths, contents, trees   *)
(* and workers and every limit: IndexInv is inductive.  The heart is what  *)
(* one mutation does: planned on any inventory it leaves no edge that the  *)
(* stored contents do not have (RelinkedIsSound), and planned on the       *)
(* stored inventory it leaves exactly the head's files and all of their    *)
(* edges (ReplacedIsCurrent, RelinkedIsFull).  The second half is about    *)
(* the limits, which a recursion over the sorted paths applies.            *)
(***************************************************************************)
EXTENDS RepositoryIndex, FiniteSetTheorems, WellFoundedInduction, TLAPS

\* What the limits leave of a tree is a tree.
LEMMA LimitedType == ASSUME NEW t \in Tree PROVE Limited(t) \in Tree
BY DEF Limited, Tree

\* What a replacement leaves in the index is a tree.
LEMMA ReplacedType ==
  ASSUME NEW prev \in Tree, NEW current \in Tree, files \in Tree
  PROVE  Replaced(prev, current) \in Tree
BY DEF Replaced, Tree, Upsert, Present

(* Deleting before replacing and relinking: no edge is stale, whatever      *)
(* inventory the plan was computed on.                                      *)
LEMMA RelinkedIsSound ==
  ASSUME NEW prev, NEW current, NEW known, GraphIsSound
  PROVE  Relinked(prev, current, known) \subseteq Links(Replaced(prev, current))
<1> SUFFICES ASSUME NEW e \in edges,
                    e[1] \notin Changed(prev, current), e[2] \notin Changed(prev, current)
             PROVE  e \in Links(Replaced(prev, current))
  BY DEF Relinked
<1>1. e \in Links(files)
  BY DEF GraphIsSound
<1>2. /\ e \in Paths \X Paths
      /\ Replaced(prev, current)[e[1]] = files[e[1]]
      /\ Replaced(prev, current)[e[2]] = files[e[2]]
  BY <1>1 DEF Links, Changed, Replaced
<1>3. QED
  BY <1>1, <1>2 DEF Links

(* A plan computed on the stored inventory installs the planned files.      *)
LEMMA ReplacedIsCurrent ==
  ASSUME NEW current \in Tree, files \in Tree
  PROVE  Replaced(files, current) = current
BY DEF Replaced, Tree, Upsert, Delete, Present

(* ... and, with the importers of the stored inventory, all their edges.    *)
LEMMA RelinkedIsFull ==
  ASSUME NEW current \in Tree, files \in Tree, edges = Links(files)
  PROVE  Links(current) \subseteq Relinked(files, current, ImportersOf(files))
<1> DEFINE relink == Relink(files, current, ImportersOf(files))
<1> SUFFICES ASSUME NEW e \in Links(current), e[1] \notin relink
             PROVE  /\ e \in edges
                    /\ e[1] \notin Changed(files, current)
                    /\ e[2] \notin Changed(files, current)
  BY ReplacedIsCurrent DEF Relinked
<1>1. /\ e \in Paths \X Paths /\ e[1] \in Paths /\ e[2] \in Paths
      /\ current[e[1]] # NoBlob /\ current[e[2]] # NoBlob
      /\ e[2] \in Imports[current[e[1]]]
  BY DEF Links
<1>2. files[e[1]] = current[e[1]] /\ e[1] \notin Changed(files, current)
  BY <1>1 DEF Relink, Upsert, Changed, Delete, Present
<1>3. e[2] \notin Changed(files, current)
  (* Otherwise the unchanged source would be one of its importers.          *)
  <2>1. e[1] \in ImportersOf(files)[e[2]]
    BY <1>1, <1>2 DEF ImportersOf, Present
  <2>2. QED
    BY <1>1, <2>1 DEF Relink
<1>4. files[e[2]] = current[e[2]]
  BY <1>1, <1>3 DEF Changed, Upsert, Present
<1>5. QED
  BY <1>1, <1>2, <1>3, <1>4 DEF Links

-----------------------------------------------------------------------------

\* The invariant holds for an empty index.
LEMMA IndexInitInv == Init => IndexInv
<1> SUFFICES ASSUME Init PROVE IndexInv
  OBVIOUS
<1> USE DEF Init
<1>1. Empty \in Tree
  BY DEF Empty, Tree
<1>2. pushes \in 0 .. MaxPushes
  BY PushesAssumption
<1>3. TypeOK
  BY <1>1, <1>2 DEF TypeOK, Place
<1>4. Links(files) = {}
  BY DEF Links, Empty
<1>5. GraphIsSound /\ PlansKnowTheirAge
  BY DEF GraphIsSound, PlansKnowTheirAge
<1>6. SerialIndex
  BY <1>4 DEF SerialIndex, LastPushIsNotLost
<1>7. QED
  BY <1>3, <1>5, <1>6 DEF IndexInv

\* A push changes what is to be indexed and nothing that is.
LEMMA PushInv ==
  ASSUME IndexInv, NEW t \in Trees, Push(t) PROVE IndexInv'
<1> USE DEF IndexInv, Push, repoVars, storeVars, workerVars, ghostVars
<1>1. t \in Tree
  BY TreesAssumption
<1>2. TypeOK'
  BY <1>1, PushesAssumption DEF TypeOK
<1>3. GraphIsSound' /\ PlansKnowTheirAge'
  BY DEF GraphIsSound, PlansKnowTheirAge, TypeOK
<1>4. queued' > 0 /\ (SerialIndex => SerialIndex')
  BY DEF TypeOK, SerialIndex, LastPushIsNotLost
<1>5. overtaken' = overtaken
  OBVIOUS
<1>6. QED
  BY <1>2, <1>3, <1>4, <1>5

\* A clone reads the head and writes nothing.
LEMMA CloneInv ==
  ASSUME IndexInv, NEW w \in Workers, Clone(w) PROVE IndexInv'
<1> USE DEF IndexInv, Clone, repoVars, storeVars
<1>1. TypeOK'
  BY DEF TypeOK, Place
<1>2. GraphIsSound' /\ PlansKnowTheirAge'
  BY DEF GraphIsSound, PlansKnowTheirAge, TypeOK
<1>3. at'[w] # "idle" /\ head'[w] = branch'
  BY DEF TypeOK
<1>4. SerialIndex => SerialIndex'
  BY <1>3 DEF SerialIndex, LastPushIsNotLost
<1>5. overtaken' = overtaken
  OBVIOUS
<1>6. QED
  BY <1>1, <1>2, <1>4, <1>5

\* Reading the previous state writes nothing.
LEMMA ReadInv ==
  ASSUME IndexInv, NEW w \in Workers, Read(w) PROVE IndexInv'
<1> USE DEF IndexInv, Read, repoVars, storeVars
<1>1. ImportersOf(files) \in [Paths -> SUBSET Paths]
  BY DEF ImportersOf, Present
<1>2. TypeOK'
  BY <1>1 DEF TypeOK, Place
<1>3. GraphIsSound' /\ PlansKnowTheirAge'
  BY DEF GraphIsSound, PlansKnowTheirAge, TypeOK
<1>4. SerialIndex => SerialIndex'
  BY DEF SerialIndex, LastPushIsNotLost, TypeOK, Place
<1>5. overtaken' = overtaken
  OBVIOUS
<1>6. QED
  BY <1>2, <1>3, <1>4, <1>5

\* A job that is retried starts from nothing.
LEMMA RetryInv ==
  ASSUME IndexInv, NEW w \in Workers, Retry(w) PROVE IndexInv'
<1> USE DEF IndexInv, Retry, repoVars, storeVars, ghostVars
<1>1. TypeOK'
  BY DEF TypeOK, Place
<1>2. GraphIsSound' /\ PlansKnowTheirAge'
  BY DEF GraphIsSound, PlansKnowTheirAge, TypeOK
<1>3. queued' > 0 /\ (SerialIndex => SerialIndex')
  BY DEF TypeOK, SerialIndex, LastPushIsNotLost
<1>4. overtaken' = overtaken
  OBVIOUS
<1>5. QED
  BY <1>1, <1>2, <1>3, <1>4

\* A replacement writes the files of the head it cloned.
LEMMA ApplyInv ==
  ASSUME IndexInv, NEW w \in Workers, Apply(w) PROVE IndexInv'
<1> DEFINE current == Limited(head[w])
<1> USE DEF IndexInv, repoVars
<1>1. current \in Tree /\ files \in Tree /\ previous[w] \in Tree
  BY LimitedType DEF TypeOK
<1>2. files' \in Tree
  BY <1>1, ReplacedType DEF Apply
<1>3. GraphIsSound'
  BY RelinkedIsSound DEF Apply, GraphIsSound, Links
<1>4. TypeOK'
  <2>1. edges' \subseteq Paths \X Paths
    BY <1>3 DEF GraphIsSound, Links
  <2>2. QED
    BY <1>2, <2>1 DEF Apply, TypeOK, Place
<1>5. version' = version + 1 /\ version \in Nat
  BY DEF Apply, TypeOK
<1>6. PlansKnowTheirAge'
  BY <1>5 DEF PlansKnowTheirAge, Apply, TypeOK
<1>7. ASSUME ~overtaken' PROVE SerialIndex'
  <2>1. ~overtaken /\ cloned[w] = version
    BY <1>7, Zenon DEF Apply
  <2>2. previous[w] = files /\ importers[w] = ImportersOf(files)
    <3>1. /\ at[w] = "planned"
          /\ read[w] \in Nat /\ cloned[w] \in Nat /\ version \in Nat
      BY DEF Apply, TypeOK
    <3>2. cloned[w] <= read[w] /\ read[w] <= version
      BY <3>1, Zenon DEF PlansKnowTheirAge
    <3>3. read[w] = version
      BY <2>1, <3>1, <3>2
    <3>4. QED
      BY <3>1, <3>3, Zenon DEF PlansKnowTheirAge
  <2>3. files' = current /\ indexed' = head[w]
    BY <1>1, <2>2, ReplacedIsCurrent DEF Apply
  <2>4. edges' = Links(files')
    <3>1. edges = Links(files)
      BY <2>1 DEF SerialIndex
    <3>2. Links(files') \subseteq edges'
      BY <1>1, <2>2, <2>3, <3>1, RelinkedIsFull DEF Apply
    <3>3. QED
      BY <1>3, <3>2 DEF GraphIsSound
  <2>5. LastPushIsNotLost'
    (* Every other job was cloned before this mutation.                     *)
    <3>1. \A o \in Workers : at'[o] # "idle" => at[o] # "idle" /\ o # w /\ cloned'[o] < version'
      BY <1>5 DEF Apply, PlansKnowTheirAge, TypeOK
    <3>2. CASE head[w] = branch
      BY <2>3, <3>1, <3>2 DEF LastPushIsNotLost, Apply
    <3>3. CASE head[w] # branch
      <4>1. LastPushIsNotLost
        BY <2>1 DEF SerialIndex
      <4>2. ~(\A o \in Workers : at[o] # "idle" => cloned[o] < version)
        BY <2>1, <1>5 DEF Apply
      <4>3. QED
        BY <3>3, <4>1, <4>2 DEF LastPushIsNotLost, Apply, TypeOK
    <3>4. QED
      BY <3>2, <3>3
  <2>6. (indexed # NoTree => files = Limited(indexed))'
    BY <2>3
  <2>7. QED
    BY <2>4, <2>5, <2>6 DEF SerialIndex
<1>8. QED
  BY <1>3, <1>4, <1>6, <1>7

\* Every step keeps the invariant.
LEMMA IndexStepInv == IndexInv /\ [Next]_vars => IndexInv'
<1> SUFFICES ASSUME IndexInv, [Next]_vars PROVE IndexInv'
  OBVIOUS
<1>1. CASE UNCHANGED vars
  BY <1>1 DEF vars, repoVars, storeVars, workerVars, ghostVars, IndexInv, TypeOK,
     GraphIsSound, PlansKnowTheirAge, SerialIndex, LastPushIsNotLost
<1>2. QED
  BY <1>1, PushInv, CloneInv, ReadInv, RetryInv, ApplyInv DEF Next

\* The invariant holds in every behaviour of the index.
THEOREM IndexInvariance == Spec => []IndexInv
BY IndexInitInv, IndexStepInv, PTL DEF Spec

(* No interleaving of jobs leaves a stale edge in the graph.                *)
THEOREM IndexGraphIsSound == Spec => []GraphIsSound
<1>1. IndexInv => GraphIsSound
  BY DEF IndexInv
<1>2. QED
  BY <1>1, IndexInvariance, PTL

(* Without overtaking, the incremental index is the full index of its head. *)
THEOREM IndexSerialIsFull == Spec => []SerialIndexIsFull
<1>1. IndexInv => SerialIndexIsFull
  BY DEF IndexInv, SerialIndex, SerialIndexIsFull
<1>2. QED
  BY <1>1, IndexInvariance, PTL

(* Without overtaking, an idle indexer has indexed the last push.           *)
THEOREM IndexSerialIsCurrent == Spec => []SerialIndexIsCurrent
<1>1. IndexInv => SerialIndexIsCurrent
  BY DEF IndexInv, SerialIndex, SerialIndexIsCurrent, LastPushIsNotLost, TypeOK
<1>2. QED
  BY <1>1, IndexInvariance, PTL

(* A job that plans on what is stored repairs the files, after any history. *)
THEOREM IndexFilesSelfHeal == Spec => FilesSelfHeal
<1>1. IndexInv /\ [Next]_vars =>
        [\A w \in Workers : Apply(w) /\ read[w] = version => files' = Limited(head[w])]_vars
  <2> SUFFICES ASSUME IndexInv, NEW w \in Workers, Apply(w), read[w] = version
               PROVE  files' = Limited(head[w])
    OBVIOUS
  <2>1. Limited(head[w]) \in Tree /\ files \in Tree /\ previous[w] = files
    BY LimitedType DEF IndexInv, TypeOK, PlansKnowTheirAge, Apply
  <2>2. QED
    BY <2>1, ReplacedIsCurrent DEF Apply
<1>2. QED
  BY <1>1, IndexInvariance, PTL DEF Spec, FilesSelfHeal

-----------------------------------------------------------------------------
(* What the limits keep is within them.                                     *)

(* A set of finite sets has one with no smaller one in the set: induction   *)
(* over finite sets is argued through a smallest counterexample.            *)
LEMMA SmallestSet ==
  ASSUME NEW U, NEW T, T \subseteq FiniteSubsetsOf(U), T # {}
  PROVE  \E s \in T : \A t \in T : t \subseteq s => t = s
<1>1. PICK s \in T : \A t \in T : <<t, s>> \notin StrictSubsetOrdering(U)
  <2>1. IsWellFoundedOn(StrictSubsetOrdering(U), FiniteSubsetsOf(U))
    BY FS_StrictSubsetOrderingWellFounded
  <2>2. QED BY <2>1, WFMin
<1>2. \A t \in T : t \in SUBSET U
  BY DEF FiniteSubsetsOf
<1>3. QED BY <1>1, <1>2 DEF StrictSubsetOrdering

(* The recursive function behind Bytes: it takes one path after another,   *)
(* in the order of the choice Any.                                          *)
Any(S) == CHOOSE x \in S : TRUE
IsSum(h, S, t) ==
  h = [s \in SUBSET S |-> IF s = {} THEN 0 ELSE Size[t[Any(s)]] + h[s \ {Any(s)}]]
Summed(S, t) == CHOOSE h : IsSum(h, S, t)

LEMMA BytesUnfold == ASSUME NEW t, NEW S PROVE Bytes(t, S) = Summed(S, t)[S]
BY DEF Bytes, MapThenSumSet, MapThenFoldSet, Summed, IsSum, Any

(* Sums taken over two sets agree on what is in both.                       *)
LEMMA SumsAgree ==
  ASSUME NEW t \in Tree, NEW S, NEW V, IsFiniteSet(V), V \subseteq S,
         NEW g, NEW h, IsSum(g, S, t), IsSum(h, V, t)
  PROVE  g[V] = h[V]
<1> DEFINE Apart == {s \in FiniteSubsetsOf(V) : g[s] # h[s]}
<1>1. SUFFICES ASSUME Apart # {} PROVE FALSE
  BY DEF FiniteSubsetsOf
<1>2. PICK s \in Apart : \A q \in Apart : q \subseteq s => q = s
  <2>1. Apart \subseteq FiniteSubsetsOf(V) /\ Apart # {}
    BY <1>1
  <2> HIDE DEF Apart
  <2>2. QED BY <2>1, SmallestSet
<1>3. s \in SUBSET V /\ s \in SUBSET S /\ IsFiniteSet(s) /\ g[s] # h[s]
  BY DEF FiniteSubsetsOf
<1>4. s # {}
  BY <1>3 DEF IsSum
<1>5. Any(s) \in s
  BY <1>4 DEF Any
<1>6. s \ {Any(s)} \in FiniteSubsetsOf(V)
  BY <1>3, FS_RemoveElement DEF FiniteSubsetsOf
<1>7. g[s \ {Any(s)}] = h[s \ {Any(s)}]
  BY <1>2, <1>5, <1>6
<1>8. /\ g[s] = Size[t[Any(s)]] + g[s \ {Any(s)}]
      /\ h[s] = Size[t[Any(s)]] + h[s \ {Any(s)}]
  BY <1>3, <1>4 DEF IsSum
<1>9. QED BY <1>3, <1>7, <1>8

(* Every finite set has its sum.                                            *)
LEMMA SumExists ==
  ASSUME NEW t \in Tree, NEW S, IsFiniteSet(S)
  PROVE  IsSum(Summed(S, t), S, t)
<1> DEFINE Without == {s \in FiniteSubsetsOf(S) : ~ \E h : IsSum(h, s, t)}
<1>1. SUFFICES ASSUME Without # {} PROVE FALSE
  BY DEF FiniteSubsetsOf, Summed
<1>2. PICK s \in Without : \A q \in Without : q \subseteq s => q = s
  <2>1. Without \subseteq FiniteSubsetsOf(S) /\ Without # {}
    BY <1>1
  <2> HIDE DEF Without
  <2>2. QED BY <2>1, SmallestSet
<1>3. s \in SUBSET S /\ IsFiniteSet(s) /\ ~ \E h : IsSum(h, s, t)
  BY DEF FiniteSubsetsOf
<1>4. \A q \in SUBSET s : q # s => IsFiniteSet(q) /\ IsSum(Summed(q, t), q, t)
  <2>1. \A q \in SUBSET s : q \in FiniteSubsetsOf(S)
    BY <1>3, FS_Subset DEF FiniteSubsetsOf
  <2>2. QED BY <1>2, <2>1 DEF Summed, FiniteSubsetsOf
<1> DEFINE h == [q \in SUBSET s |-> IF q = {} THEN 0
                   ELSE Size[t[Any(q)]] + Summed(q \ {Any(q)}, t)[q \ {Any(q)}]]
<1>5. ASSUME NEW q \in SUBSET s, q # {}
      PROVE  h[q \ {Any(q)}] = Summed(q \ {Any(q)}, t)[q \ {Any(q)}]
  <2> DEFINE u == q \ {Any(q)}
             v == u \ {Any(u)}
  <2>1. Any(q) \in q /\ u \in SUBSET s /\ u # s
    BY <1>5 DEF Any
  <2>2. IsFiniteSet(u) /\ IsSum(Summed(u, t), u, t)
    BY <1>4, <2>1
  <2>3. CASE u = {}
    BY <2>1, <2>2, <2>3 DEF IsSum
  <2>4. CASE u # {}
    <3>1. Any(u) \in u /\ v \in SUBSET u /\ v \in SUBSET s /\ v # s
      BY <2>1, <2>4 DEF Any
    <3>2. IsFiniteSet(v) /\ IsSum(Summed(v, t), v, t)
      BY <1>4, <3>1
    <3>3. Summed(u, t)[v] = Summed(v, t)[v]
      BY <2>2, <3>1, <3>2, SumsAgree
    <3>4. Summed(u, t)[u] = Size[t[Any(u)]] + Summed(u, t)[v]
      BY <2>2, <2>4 DEF IsSum
    <3>5. h[u] = Size[t[Any(u)]] + Summed(v, t)[v]
      BY <2>1, <2>4
    <3>6. QED BY <3>3, <3>4, <3>5
  <2>5. QED BY <2>3, <2>4
<1>6. h = [q \in SUBSET s |-> IF q = {} THEN 0 ELSE Size[t[Any(q)]] + h[q \ {Any(q)}]]
  BY <1>5
<1>7. IsSum(h, s, t)
  BY <1>6 DEF IsSum
<1>8. QED BY <1>3, <1>7

(* The sum takes the chosen path off.                                       *)
LEMMA BytesOfNone == ASSUME NEW t \in Tree PROVE Bytes(t, {}) = 0
BY FS_EmptySet, SumExists, BytesUnfold DEF IsSum

LEMMA BytesOfSome ==
  ASSUME NEW t \in Tree, NEW S, IsFiniteSet(S), S # {}
  PROVE  Bytes(t, S) = Size[t[Any(S)]] + Bytes(t, S \ {Any(S)})
<1> DEFINE V == S \ {Any(S)}
<1>1. IsFiniteSet(V) /\ V \subseteq S
  BY FS_RemoveElement
<1>2. IsSum(Summed(S, t), S, t) /\ IsSum(Summed(V, t), V, t)
  BY <1>1, SumExists
<1>3. Summed(S, t)[V] = Summed(V, t)[V]
  BY <1>1, <1>2, SumsAgree
<1>4. Summed(S, t)[S] = Size[t[Any(S)]] + Summed(S, t)[V]
  BY <1>2 DEF IsSum
<1>5. QED BY <1>3, <1>4, BytesUnfold

(* Sizes add up to a number, whichever path is taken off first.             *)
LEMMA BytesAreInt ==
  ASSUME NEW t \in Tree, NEW S, IsFiniteSet(S), S \subseteq Present(t)
  PROVE  Bytes(t, S) \in Int
<1> DEFINE Bad == {s \in FiniteSubsetsOf(S) : Bytes(t, s) \notin Int}
<1>1. SUFFICES ASSUME Bad # {} PROVE FALSE
  BY DEF FiniteSubsetsOf
<1>2. PICK s \in Bad : \A q \in Bad : q \subseteq s => q = s
  <2>1. Bad \subseteq FiniteSubsetsOf(S) /\ Bad # {}
    BY <1>1
  <2> HIDE DEF Bad
  <2>2. QED BY <2>1, SmallestSet
<1>3. s \in SUBSET S /\ IsFiniteSet(s) /\ Bytes(t, s) \notin Int
  BY DEF FiniteSubsetsOf
<1>4. s # {} /\ Any(s) \in s
  BY <1>3, BytesOfNone DEF Any
<1>5. s \ {Any(s)} \in FiniteSubsetsOf(S)
  BY <1>3, FS_RemoveElement DEF FiniteSubsetsOf
<1>6. Bytes(t, s \ {Any(s)}) \in Int
  BY <1>2, <1>4, <1>5
<1>7. Size[t[Any(s)]] \in Int
  BY <1>3, <1>4, LimitsAssumption DEF Present, Tree
<1>8. QED BY <1>3, <1>4, <1>6, <1>7, BytesOfSome

LEMMA BytesWithout ==
  ASSUME NEW t \in Tree, NEW S, IsFiniteSet(S), S \subseteq Present(t), NEW e \in S
  PROVE  Bytes(t, S) = Size[t[e]] + Bytes(t, S \ {e})
<1> DEFINE Bad == {s \in FiniteSubsetsOf(S) :
                     \E x \in s : Bytes(t, s) # Size[t[x]] + Bytes(t, s \ {x})}
<1>1. SUFFICES ASSUME Bad # {} PROVE FALSE
  BY DEF FiniteSubsetsOf
<1>2. PICK s \in Bad : \A q \in Bad : q \subseteq s => q = s
  <2>1. Bad \subseteq FiniteSubsetsOf(S) /\ Bad # {}
    BY <1>1
  <2> HIDE DEF Bad
  <2>2. QED BY <2>1, SmallestSet
<1>3. s \in SUBSET S /\ IsFiniteSet(s)
  BY DEF FiniteSubsetsOf
<1>4. PICK x \in s : Bytes(t, s) # Size[t[x]] + Bytes(t, s \ {x})
  OBVIOUS
<1>5. Any(s) \in s
  BY <1>4 DEF Any
<1> DEFINE y == Any(s)
           r == (s \ {x}) \ {y}
<1>6. Bytes(t, s) = Size[t[y]] + Bytes(t, s \ {y})
  BY <1>3, <1>4, BytesOfSome
<1>7. x # y
  BY <1>4, <1>6
<1>8. /\ s \ {x} \in FiniteSubsetsOf(S) /\ s \ {y} \in FiniteSubsetsOf(S)
      /\ IsFiniteSet(r) /\ r \subseteq Present(t)
      /\ r = (s \ {y}) \ {x}
  BY <1>3, FS_RemoveElement DEF FiniteSubsetsOf
<1>9. s \ {x} \notin Bad /\ s \ {y} \notin Bad
  BY <1>2, <1>4, <1>5
<1>10. Bytes(t, s \ {x}) = Size[t[y]] + Bytes(t, r)
  BY <1>5, <1>7, <1>8, <1>9
<1>11. Bytes(t, s \ {y}) = Size[t[x]] + Bytes(t, r)
  BY <1>4, <1>7, <1>8, <1>9
<1>12. Size[t[x]] \in Int /\ Size[t[y]] \in Int /\ Bytes(t, r) \in Int
  BY <1>3, <1>4, <1>5, <1>8, BytesAreInt, LimitsAssumption DEF Present, Tree
<1>13. QED BY <1>4, <1>6, <1>10, <1>11, <1>12

(* One more path adds its size.                                             *)
LEMMA BytesAdd ==
  ASSUME NEW t \in Tree, NEW S, IsFiniteSet(S), S \subseteq Present(t),
         NEW e \in Present(t), e \notin S
  PROVE  Bytes(t, S \union {e}) = Bytes(t, S) + Size[t[e]]
<1>1. (S \union {e}) \ {e} = S /\ IsFiniteSet(S \union {e}) /\ S \union {e} \subseteq Present(t)
  BY FS_AddElement
<1>2. Bytes(t, S \union {e}) = Size[t[e]] + Bytes(t, S)
  BY <1>1, BytesWithout
<1>3. Bytes(t, S) \in Int /\ Size[t[e]] \in Int
  BY <1>1, BytesAreInt, LimitsAssumption DEF Present, Tree
<1>4. QED BY <1>2, <1>3

(* Two trees with the same contents at some paths agree on their bytes.     *)
LEMMA BytesAgree ==
  ASSUME NEW t \in Tree, NEW u \in Tree, NEW S, IsFiniteSet(S),
         \A p \in S : t[p] = u[p]
  PROVE  Bytes(t, S) = Bytes(u, S)
<1> DEFINE Apart == {s \in FiniteSubsetsOf(S) : Bytes(t, s) # Bytes(u, s)}
<1>1. SUFFICES ASSUME Apart # {} PROVE FALSE
  BY DEF FiniteSubsetsOf
<1>2. PICK s \in Apart : \A q \in Apart : q \subseteq s => q = s
  <2>1. Apart \subseteq FiniteSubsetsOf(S) /\ Apart # {}
    BY <1>1
  <2> HIDE DEF Apart
  <2>2. QED BY <2>1, SmallestSet
<1>3. s \in SUBSET S /\ IsFiniteSet(s) /\ Bytes(t, s) # Bytes(u, s)
  BY DEF FiniteSubsetsOf
<1>4. s # {} /\ Any(s) \in s
  BY <1>3, BytesOfNone DEF Any
<1>5. s \ {Any(s)} \in FiniteSubsetsOf(S)
  BY <1>3, FS_RemoveElement DEF FiniteSubsetsOf
<1>6. Bytes(t, s \ {Any(s)}) = Bytes(u, s \ {Any(s)})
  BY <1>2, <1>4, <1>5
<1>7. QED BY <1>3, <1>4, <1>6, BytesOfSome

(* A set of numbers has a smallest one.                                     *)
LEMMA SmallestNumber ==
  ASSUME NEW T, T \subseteq Nat, T # {}
  PROVE  \E n \in T : \A m \in T : n <= m
<1>1. PICK n \in T : \A m \in T : <<m, n>> \notin OpToRel(<, Nat)
  BY NatLessThanWellFounded, WFMin
<1>2. \A m \in T : ~(m < n)
  BY <1>1 DEF OpToRel
<1>3. QED BY <1>2

(* The recursive function behind Kept, up to the mth path.                  *)
Keeps(k, t, m) ==
  k = [n \in 0 .. m |->
         IF n = 0 THEN {}
         ELSE IF PathOrder[n] \in Present(t) /\ Fits(t, k[n - 1], PathOrder[n])
              THEN k[n - 1] \union {PathOrder[n]}
              ELSE k[n - 1]]

LEMMA KeptUnfold ==
  ASSUME NEW t
  PROVE  Kept(t) = (CHOOSE k : Keeps(k, t, Len(PathOrder)))[Len(PathOrder)]
BY DEF Kept, Keeps

LEMMA KeepsExists ==
  ASSUME NEW t, NEW m \in Nat
  PROVE  \E k : Keeps(k, t, m)
<1> DEFINE Bad == {n \in Nat : ~ \E k : Keeps(k, t, n)}
<1>1. SUFFICES ASSUME Bad # {} PROVE FALSE
  OBVIOUS
<1>2. PICK n \in Bad : \A q \in Bad : n <= q
  <2>1. Bad \subseteq Nat /\ Bad # {}
    BY <1>1
  <2> HIDE DEF Bad
  <2>2. QED BY <2>1, SmallestNumber
<1>3. n \in Nat /\ ~ \E k : Keeps(k, t, n)
  OBVIOUS
<1>4. CASE n = 0
  <2>1. Keeps([i \in 0 .. 0 |-> {}], t, 0)
    BY DEF Keeps
  <2>2. QED BY <1>3, <1>4, <2>1
<1>5. CASE n # 0
  <2>1. n - 1 \in Nat /\ ~(n <= n - 1)
    BY <1>3, <1>5
  <2>2. PICK k : Keeps(k, t, n - 1)
    BY <1>2, <2>1
  <2> DEFINE Step(j, i) == IF PathOrder[i] \in Present(t) /\ Fits(t, j, PathOrder[i])
                            THEN j \union {PathOrder[i]} ELSE j
             h == [i \in 0 .. n |-> IF i = n THEN Step(k[n - 1], n) ELSE k[i]]
  <2>3. \A i \in 0 .. n - 1 : k[i] = IF i = 0 THEN {} ELSE Step(k[i - 1], i)
    BY <2>2 DEF Keeps
  <2>4. \A i \in 0 .. n : i # 0 => i - 1 \in 0 .. n - 1 /\ i - 1 # n /\ i - 1 \in 0 .. n
    BY <1>3
  <2>5. \A i \in 0 .. n : i # 0 => h[i - 1] = k[i - 1]
    BY <2>4
  <2> HIDE DEF Step
  <2>6. \A i \in 0 .. n : h[i] = IF i = 0 THEN {} ELSE Step(h[i - 1], i)
    <3>1. \A i \in 0 .. n : i # n => i \in 0 .. n - 1
      BY <1>3
    <3>2. QED BY <1>5, <2>3, <2>5, <3>1
  <2>7. h = [i \in 0 .. n |-> IF i = 0 THEN {} ELSE Step(h[i - 1], i)]
    BY <2>6
  <2>8. Keeps(h, t, n)
    BY <2>7 DEF Keeps, Step
  <2>9. QED BY <1>3, <2>8
<1>6. QED BY <1>4, <1>5

(* What the limits keep of a tree is within them.                           *)
LEMMA KeptIsLimited ==
  ASSUME NEW t \in Tree
  PROVE  /\ Kept(t) \subseteq Present(t) /\ IsFiniteSet(Kept(t))
         /\ Cardinality(Kept(t)) <= MaxFiles
         /\ Bytes(t, Kept(t)) <= MaxBytes
<1> DEFINE m == Len(PathOrder)
           k == CHOOSE h : Keeps(h, t, m)
           Within(S) == /\ S \subseteq Present(t) /\ IsFiniteSet(S)
                        /\ Cardinality(S) <= MaxFiles /\ Bytes(t, S) <= MaxBytes
           Bad == {n \in 0 .. m : ~Within(k[n])}
<1>1. m \in Nat
  BY OrderAssumption
<1>2. Keeps(k, t, m)
  BY <1>1, KeepsExists
<1> HIDE DEF k, m
<1>3. SUFFICES ASSUME Bad # {} PROVE FALSE
  BY <1>1, KeptUnfold DEF m, k
<1>4. PICK n \in Bad : \A q \in Bad : n <= q
  <2>1. Bad \subseteq Nat /\ Bad # {}
    BY <1>1, <1>3
  <2> HIDE DEF Bad
  <2>2. QED BY <2>1, SmallestNumber
<1>5. n \in 0 .. m /\ ~Within(k[n])
  OBVIOUS
<1>6. Within({})
  BY FS_EmptySet, BytesOfNone, LimitsAssumption
<1>7. n # 0
  <2>1. n = 0 => k[n] = {}
    BY <1>2, <1>5 DEF Keeps
  <2>2. QED BY <1>5, <1>6, <2>1
<1>8. Within(k[n - 1])
  <2>1. n - 1 \in 0 .. m /\ ~(n <= n - 1)
    BY <1>1, <1>5, <1>7
  <2>2. QED BY <1>4, <2>1
<1> DEFINE p == PathOrder[n]
           S == k[n - 1]
<1>9. k[n] = IF p \in Present(t) /\ Fits(t, S, p) THEN S \union {p} ELSE S
  BY <1>2, <1>5, <1>7 DEF Keeps
<1>10. p \in Present(t) /\ Fits(t, S, p) /\ k[n] = S \union {p} /\ p \notin S
  <2>1. p \in S => S \union {p} = S
    OBVIOUS
  <2>2. QED BY <1>5, <1>8, <1>9, <2>1
<1> HIDE DEF S, p
<1>11. Cardinality(S \union {p}) <= MaxFiles
  <2>1. IsFiniteSet(S)
    BY <1>8 DEF S
  <2>2. Cardinality(S) \in Nat /\ Cardinality(S \union {p}) = Cardinality(S) + 1
    BY <1>10, <2>1, FS_AddElement, FS_CardinalityType
  <2>3. Cardinality(S) < MaxFiles
    BY <1>10 DEF Fits
  <2>4. QED BY <2>2, <2>3, LimitsAssumption
<1>12. Bytes(t, S \union {p}) <= MaxBytes
  BY <1>8, <1>10, BytesAdd DEF Fits, S
<1>13. IsFiniteSet(S \union {p}) /\ S \union {p} \subseteq Present(t)
  BY <1>8, <1>10, FS_AddElement DEF S
<1>14. QED BY <1>5, <1>10, <1>11, <1>12, <1>13

(* Nothing is stored before the first job is applied.                       *)
NothingIndexedYet == indexed = NoTree => files = Empty

LEMMA NothingIndexedStep ==
  ASSUME IndexInv, NothingIndexedYet, [Next]_vars
  PROVE  NothingIndexedYet'
<1>1. ASSUME NEW w \in Workers, Apply(w) PROVE NothingIndexedYet'
  <2>1. head[w] \in Tree /\ indexed' = head[w]
    BY <1>1 DEF Apply, IndexInv, TypeOK
  <2>2. QED
    BY <2>1, NoTreeAssumption DEF NothingIndexedYet
<1>2. CASE UNCHANGED storeVars
  BY <1>2 DEF NothingIndexedYet, storeVars, Empty
<1>3. QED
  BY <1>1, <1>2 DEF Next, Push, Clone, Read, Retry, vars, storeVars

(* Without overtaking the index stays within the limits: it is what the     *)
(* limits keep of one head.  A mixture of two heads, each within them, need *)
(* not be.                                                                  *)
THEOREM IndexSerialIsLimited == Spec => []SerialIndexIsLimited
<1>1. Init => NothingIndexedYet
  BY DEF Init, NothingIndexedYet
<1>2. IndexInv /\ NothingIndexedYet /\ [Next]_vars => NothingIndexedYet'
  BY NothingIndexedStep
<1>3. IndexInv /\ NothingIndexedYet => SerialIndexIsLimited
  <2> SUFFICES ASSUME IndexInv, NothingIndexedYet, ~overtaken
               PROVE  /\ Cardinality(Present(files)) <= MaxFiles
                      /\ Bytes(files, Present(files)) <= MaxBytes
    BY DEF SerialIndexIsLimited
  <2>1. CASE indexed = NoTree
    <3>1. files \in Tree /\ Present(files) = {}
      BY <2>1 DEF NothingIndexedYet, Empty, Present, IndexInv, TypeOK
    <3>2. QED
      BY <3>1, FS_EmptySet, BytesOfNone, LimitsAssumption
  <2>2. CASE indexed # NoTree
    <3>1. indexed \in Tree /\ files \in Tree /\ files = Limited(indexed)
      BY <2>2 DEF IndexInv, TypeOK, SerialIndex
    <3>2. /\ Kept(indexed) \subseteq Present(indexed) /\ IsFiniteSet(Kept(indexed))
          /\ Cardinality(Kept(indexed)) <= MaxFiles
          /\ Bytes(indexed, Kept(indexed)) <= MaxBytes
      BY <3>1, KeptIsLimited
    <3>3. Present(files) = Kept(indexed) /\ \A p \in Kept(indexed) : files[p] = indexed[p]
      BY <3>1, <3>2 DEF Limited, Present
    <3>4. Bytes(files, Kept(indexed)) = Bytes(indexed, Kept(indexed))
      BY <3>1, <3>2, <3>3, BytesAgree
    <3>5. QED
      BY <3>2, <3>3, <3>4
  <2>3. QED
    BY <2>1, <2>2
<1>4. QED
  BY <1>1, <1>2, <1>3, IndexInvariance, PTL DEF Spec

=============================================================================
