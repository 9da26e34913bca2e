--------------------------- MODULE RepositoryIndex ---------------------------
(***************************************************************************)
(* The incremental index of a repository's default branch:                 *)
(* internal/hosted/indexer/limits.go and reindex.go and                    *)
(* internal/hosted/graph/incremental.go.  Every push queues a job.  A job  *)
(* clones the branch, reads what is indexed, plans the difference and      *)
(* applies it in one transaction.  Several indexer processes take jobs     *)
(* (docs/HOSTED_ARCHITECTURE.md), so between the steps of one job another  *)
(* job may run; nothing in a plan or its mutation says on which inventory  *)
(* it was computed.                                                        *)
(*                                                                         *)
(* Abstractions.  A commit is the tree it points to, a blob is a model     *)
(* value that says which paths it imports.  All edges between the symbols  *)
(* of two files are one edge between the files.  The inventory and the     *)
(* symbol graph are one store: the mutation of reindex.go is the first     *)
(* half of the one of incremental.go.  The store itself is not in the      *)
(* repository; it does what its interface and the foreign keys of          *)
(* migrations/0005_symbol_graph.up.sql say.                                *)
(***************************************************************************)
EXTENDS Naturals, Sequences, FiniteSets, FiniteSetsExt

CONSTANTS
  Paths,       \* file paths
  PathOrder,   \* the same paths, sorted
  Blobs,       \* file contents
  NoBlob,      \* no such file
  Imports,     \* the paths a blob imports or calls into
  Size,        \* the size of a blob
  Trees,       \* the trees that are pushed
  NoTree,      \* nothing is indexed
  Workers,     \* indexer processes
  MaxFiles,    \* RepositoryLimits.MaxFiles
  MaxBytes,    \* RepositoryLimits.MaxBytes
  MaxPushes    \* bound on the pushes

Tree == [Paths -> Blobs \union {NoBlob}]

ASSUME NoBlobAssumption  == NoBlob \notin Blobs
ASSUME NoTreeAssumption  == NoTree \notin Tree
ASSUME ImportsAssumption == Imports \in [Blobs -> SUBSET Paths]
ASSUME TreesAssumption   == Trees \subseteq Tree
ASSUME PushesAssumption  == MaxPushes \in Nat
ASSUME OrderAssumption   == PathOrder \in Seq(Paths)
ASSUME LimitsAssumption  ==
  MaxFiles \in Nat /\ MaxBytes \in Nat /\ Size \in [Blobs -> Nat]

VARIABLES
  branch,     \* the tree of the default branch
  pushes,     \* pushes so far
  queued,     \* jobs nobody works on
  files,      \* table files: the indexed inventory
  edges,      \* table symbol_edges: resolved edges, source and target path
  indexed,    \* repositories.indexed_head_sha
  at,         \* where each worker is
  head,       \* the tree a worker cloned
  previous,   \* the inventory a worker read
  importers,  \* the importers a worker read
  version,    \* ghost: mutations applied so far
  cloned,     \* ghost: the version when a worker cloned
  read,       \* ghost: the version when a worker read
  overtaken   \* ghost: some job was applied although another one was since its clone

repoVars   == <<branch, pushes>>
storeVars  == <<files, edges, indexed>>
workerVars == <<at, head, previous, importers>>
ghostVars  == <<version, cloned, read, overtaken>>
vars == <<repoVars, queued, storeVars, workerVars, ghostVars>>

Empty == [p \in Paths |-> NoBlob]
Place == {"idle", "cloned", "planned"}

Init ==
  /\ branch = Empty /\ pushes = 0
  /\ queued = 0
  /\ files = Empty /\ edges = {} /\ indexed = NoTree
  /\ at = [w \in Workers |-> "idle"]
  /\ head = [w \in Workers |-> Empty]
  /\ previous = [w \in Workers |-> Empty]
  /\ importers = [w \in Workers |-> [p \in Paths |-> {}]]
  /\ version = 0
  /\ cloned = [w \in Workers |-> 0] /\ read = [w \in Workers |-> 0]
  /\ overtaken = FALSE

(* The paths of a tree or of an inventory.                                  *)
Present(t) == {p \in Paths : t[p] # NoBlob}

(* The edges a complete resolution of an inventory has.                     *)
Links(t) ==
  {e \in Paths \X Paths : t[e[1]] # NoBlob /\ t[e[2]] # NoBlob /\ e[2] \in Imports[t[e[1]]]}

-----------------------------------------------------------------------------

Bytes(t, paths) == MapThenSumSet(LAMBDA p : Size[t[p]], paths)

(* Mutant: the comparison with the file limit is off by one.                *)
FitsOneTooMany(t, kept, p) ==
  Cardinality(kept) <= MaxFiles /\ Bytes(t, kept) + Size[t[p]] <= MaxBytes

(* limits.go, line 50.                                                      *)
Fits(t, kept, p) ==
  Cardinality(kept) < MaxFiles /\ Bytes(t, kept) + Size[t[p]] <= MaxBytes

(* ApplyRepositoryLimits, limits.go 34-62: in the order of the paths every  *)
(* file that still fits is kept; a file that does not fit is skipped, later *)
(* and smaller ones are not.                                                *)
Kept(t) ==
  LET kept[n \in 0 .. Len(PathOrder)] ==
        IF n = 0 THEN {}
        ELSE IF PathOrder[n] \in Present(t) /\ Fits(t, kept[n - 1], PathOrder[n])
             THEN kept[n - 1] \union {PathOrder[n]}
             ELSE kept[n - 1]
  IN  kept[Len(PathOrder)]

Limited(t) == [p \in Paths |-> IF p \in Kept(t) THEN t[p] ELSE NoBlob]

(* PlanReindex, reindex.go 22-52.                                           *)
Upsert(prev, current) == {p \in Present(current) : prev[p] # current[p]}

(* Mutant: without lines 44-48.                                             *)
DeleteNothing(prev, current) == {}

Delete(prev, current) == Present(prev) \ Present(current)

(* PlanIncremental, incremental.go 50-90: changed files are deleted before  *)
(* they are replaced, and relinked together with the importers of every     *)
(* changed and every deleted file.  Mutant: without lines 68-71.            *)
ChangedWithoutDeleted(prev, current) == Upsert(prev, current)

Changed(prev, current) == Upsert(prev, current) \union Delete(prev, current)

(* Mutants: without lines 77-81; without lines 74-76.                       *)
RelinkReplacedOnly(prev, current, known)  == Upsert(prev, current)
RelinkImportersOnly(prev, current, known) == UNION {known[p] : p \in Changed(prev, current)}

Relink(prev, current, known) ==
  Upsert(prev, current) \union UNION {known[p] : p \in Changed(prev, current)}

-----------------------------------------------------------------------------

Push(t) ==
  /\ pushes < MaxPushes
  /\ branch' = t
  /\ pushes' = pushes + 1
  /\ queued' = queued + 1
  /\ UNCHANGED <<storeVars, workerVars, ghostVars>>

(* A worker takes a job and clones the branch as it is now; a clone that    *)
(* fails removes its directory and changes nothing, and the job comes back. *)
Clone(w) ==
  /\ at[w] = "idle" /\ queued > 0
  /\ queued' = queued - 1
  /\ at' = [at EXCEPT ![w] = "cloned"]
  /\ head' = [head EXCEPT ![w] = branch]
  /\ cloned' = [cloned EXCEPT ![w] = version]
  /\ UNCHANGED <<repoVars, storeVars, previous, importers, version, read, overtaken>>

(* Who imports a path, of the files of an inventory.                        *)
ImportersOf(t) == [q \in Paths |-> {p \in Present(t) : q \in Imports[t[p]]}]

(* It reads the inventory and who is known to import what: the two          *)
(* arguments previous and importers of PlanIncremental.                     *)
Read(w) ==
  /\ at[w] = "cloned"
  /\ at' = [at EXCEPT ![w] = "planned"]
  /\ previous' = [previous EXCEPT ![w] = files]
  /\ importers' = [importers EXCEPT ![w] = ImportersOf(files)]
  /\ read' = [read EXCEPT ![w] = version]
  /\ UNCHANGED <<repoVars, queued, storeVars, head, version, cloned, overtaken>>

(* The rows of files: replaced, deleted, left alone.                        *)
Replaced(prev, current) ==
  [p \in Paths |-> IF p \in Upsert(prev, current) THEN current[p]
                   ELSE IF p \in Delete(prev, current) THEN NoBlob ELSE files[p]]

(* Deleting a symbol deletes the edges from it and to it (0005, 34-35); a   *)
(* relinked file gets the edges its content has into what is now stored.    *)
Relinked(prev, current, known) ==
  LET gone   == Changed(prev, current)
      relink == Relink(prev, current, known)
  IN  {e \in edges : e[1] \notin gone /\ e[2] \notin gone /\ e[1] \notin relink}
      \union {e \in Links(Replaced(prev, current)) : e[1] \in relink}

(* Mutant: the new head is not part of the transaction.                     *)
ApplyWithoutHead(w) ==
  LET current == Limited(head[w]) IN
  /\ at[w] = "planned"
  /\ files' = Replaced(previous[w], current)
  /\ edges' = Relinked(previous[w], current, importers[w])
  /\ at' = [at EXCEPT ![w] = "idle"]
  /\ version' = version + 1
  /\ overtaken' = (overtaken \/ cloned[w] # version)
  /\ UNCHANGED <<repoVars, queued, indexed, head, previous, importers, cloned, read>>

(* ApplyIncremental, incremental.go 92-100, with ApplyReindex, reindex.go   *)
(* 66-74: one transaction for the mutation and the new head.  It does not   *)
(* look at what is stored now.                                              *)
Apply(w) ==
  LET current == Limited(head[w]) IN
  /\ at[w] = "planned"
  /\ files' = Replaced(previous[w], current)
  /\ edges' = Relinked(previous[w], current, importers[w])
  /\ indexed' = head[w]
  /\ at' = [at EXCEPT ![w] = "idle"]
  /\ version' = version + 1
  /\ overtaken' = (overtaken \/ cloned[w] # version)
  /\ UNCHANGED <<repoVars, queued, head, previous, importers, cloned, read>>

(* The process dies, a blob cannot be parsed, the store fails: the job goes *)
(* back to the queue and is done again from the start.                      *)
Retry(w) ==
  /\ at[w] # "idle"
  /\ at' = [at EXCEPT ![w] = "idle"]
  /\ queued' = queued + 1
  /\ UNCHANGED <<repoVars, storeVars, head, previous, importers, ghostVars>>

Next ==
  \/ \E t \in Trees : Push(t)
  \/ \E w \in Workers : Clone(w) \/ Read(w) \/ Apply(w) \/ Retry(w)

Spec == Init /\ [][Next]_vars

-----------------------------------------------------------------------------

TypeOK ==
  /\ branch \in Tree /\ pushes \in 0 .. MaxPushes
  /\ queued \in Nat
  /\ files \in Tree
  /\ edges \subseteq Paths \X Paths
  /\ indexed \in Tree \union {NoTree}
  /\ at \in [Workers -> Place]
  /\ head \in [Workers -> Tree]
  /\ previous \in [Workers -> Tree]
  /\ importers \in [Workers -> [Paths -> SUBSET Paths]]
  /\ version \in Nat
  /\ cloned \in [Workers -> Nat] /\ read \in [Workers -> Nat]
  /\ overtaken \in BOOLEAN

(* The graph never invents: whatever plans were computed on an inventory    *)
(* that is gone, every stored edge is one the stored contents have, between *)
(* two files that are stored (the order of incremental.go 64-71: delete,    *)
(* replace, relink).                                                        *)
GraphIsSound == edges \subseteq Links(files)

(* As long as no job is applied that another one overtook, the index is     *)
(* what a full index of the recorded head would be: its files up to the     *)
(* limits, and every edge between them - also the edges from files that did *)
(* not change into files that did, came or went.                            *)
SerialIndexIsFull ==
  ~overtaken /\ indexed # NoTree => files = Limited(indexed) /\ edges = Links(files)

(* ... and once no job is left, the recorded head is the branch.            *)
SerialIndexIsCurrent ==
  ~overtaken /\ queued = 0 /\ pushes > 0 /\ (\A w \in Workers : at[w] = "idle")
    => indexed = branch

(* The index stays within the limits of the repository, which a mixture of  *)
(* two heads need not (limits.go 50).                                       *)
SerialIndexIsLimited ==
  ~overtaken =>
    /\ Cardinality(Present(files)) <= MaxFiles
    /\ Bytes(files, Present(files)) <= MaxBytes

(* Whatever mixture earlier jobs left in the inventory, a job that plans on *)
(* the inventory it finds and is applied to it repairs it: the files are    *)
(* those of its head (reindex.go compares every path, 28-48).               *)
FilesSelfHeal ==
  [][\A w \in Workers : Apply(w) /\ read[w] = version => files' = Limited(head[w])]_vars

-----------------------------------------------------------------------------
(* The inductive invariant behind the safety properties but for the limits. *)

(* A plan on which no mutation was applied since it was read is a plan on   *)
(* what is stored.                                                          *)
PlansKnowTheirAge ==
  \A w \in Workers :
    /\ at[w] # "idle" => cloned[w] <= version
    /\ at[w] = "planned" /\ read[w] = version =>
         previous[w] = files /\ importers[w] = ImportersOf(files)
    /\ at[w] = "planned" => cloned[w] <= read[w] /\ read[w] <= version

(* The last push is queued, being worked on, or indexed; then any job that  *)
(* still has an older head has been overtaken.                              *)
LastPushIsNotLost ==
  \/ pushes = 0
  \/ queued > 0
  \/ \E w \in Workers : at[w] # "idle" /\ head[w] = branch
  \/ /\ indexed = branch
     /\ \A w \in Workers : at[w] # "idle" => cloned[w] < version

SerialIndex ==
  /\ indexed # NoTree => files = Limited(indexed)
  /\ edges = Links(files)
  /\ LastPushIsNotLost

IndexInv ==
  /\ TypeOK
  /\ GraphIsSound
  /\ PlansKnowTheirAge
  /\ ~overtaken => SerialIndex

-----------------------------------------------------------------------------

(* "The store applies file/chunk mutations and the new indexed head in one  *)
(* transaction, so a retry cannot expose a head SHA with only part of its   *)
(* mutations" (docs/INCREMENTAL_REINDEX.md:6-7).                            *)
IndexedHeadIsComplete == indexed # NoTree => files = Limited(indexed)

=============================================================================
