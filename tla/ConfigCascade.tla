---------------------------- MODULE ConfigCascade ----------------------------
(***************************************************************************)
(* The cascade of .px1/config.json files (config_cascade.go): for a file   *)
(* of the repository every configuration from the root down to the file's  *)
(* directory applies, in that order.  The files are given as a sequence,   *)
(* one entry for each directory on the way, Absent where there is none.    *)
(***************************************************************************)
EXTENDS Naturals, FiniteSets, SequencesExt

CONSTANTS
  Files,          \* the configurations that parse, with what they leave out Absent
  Cascades,       \* the files on the way to a target, from the root
  MaxRepos,       \* context.repos in one file and in the result, 10 in the code
  Absent          \* no file in a directory, no value in a file

ASSUME CascadesAssumption ==
  /\ MaxRepos \in Nat
  /\ \A file \in Files : file.failOnP0 \in BOOLEAN /\ IsFiniteSet(file.repos)
  /\ Cascades \subseteq Seq(Files \cup {Absent})

VARIABLES cascade, resolved

cascadeVars == <<cascade, resolved>>

Undecided == [ok |-> FALSE]
Defaults == [ok |-> TRUE, strictness |-> 2, failOnP0 |-> FALSE, maxInline |-> 15,
             types |-> {"logic", "security", "style", "syntax"}, disabled |-> {}, repos |-> {}]

\* decodeConfig: one value out of range refuses the file, and with it the
\* whole cascade.
Decodes(file) ==
  /\ file.version = 1
  /\ file.strictness = Absent \/ file.strictness \in 1..3
  /\ file.maxInline = Absent \/ file.maxInline \in 1..50
  /\ file.types = Absent \/ file.types \subseteq Defaults.types
  /\ Cardinality(file.repos) <= MaxRepos

\* Mutant: a file further down sets the strictness to what it likes.
ApplyLast(config, file) ==
  IF file = Absent \/ ~config.ok THEN config
  ELSE IF ~Decodes(file) THEN Undecided
  ELSE [config EXCEPT
          !.strictness = IF file.strictness # Absent THEN file.strictness ELSE @,
          !.failOnP0   = @ \/ file.failOnP0,
          !.maxInline  = IF file.maxInline # Absent THEN file.maxInline ELSE @,
          !.types      = IF file.types # Absent THEN file.types ELSE @,
          !.disabled   = @ \cup file.disabled,
          !.repos      = @ \cup file.repos]

Apply(config, file) ==
  IF file = Absent \/ ~config.ok THEN config
  ELSE IF ~Decodes(file) THEN Undecided
  ELSE [config EXCEPT
          !.strictness = IF file.strictness # Absent /\ file.strictness > @ THEN file.strictness ELSE @,
          !.failOnP0   = @ \/ file.failOnP0,
          !.maxInline  = IF file.maxInline # Absent THEN file.maxInline ELSE @,
          !.types      = IF file.types # Absent THEN file.types ELSE @,
          !.disabled   = @ \cup file.disabled,
          !.repos      = @ \cup file.repos]

\* resolveCascadingConfig; the union of the repositories has a limit, too.
ResolveConfig(files) ==
  LET config == FoldLeft(Apply, Defaults, files)
  IN IF config.ok /\ Cardinality(config.repos) > MaxRepos THEN Undecided ELSE config

CascadeInit == cascade \in Cascades /\ resolved = <<>>

\* One directory further down each time: what px1 would say of a file there.
ResolveCascade ==
  /\ Len(resolved) <= Len(cascade)
  /\ resolved' = Append(resolved, ResolveConfig(SubSeq(cascade, 1, Len(resolved))))
  /\ UNCHANGED cascade

CascadeSpec == CascadeInit /\ [][ResolveCascade]_cascadeVars

\* On the way down to a file what gates its review only becomes stricter
\* (config_cascade.go 41-42): the strictness never falls and failing on a P0
\* stays on.  A rule that is switched off and a repository that is read stay so,
\* what is refused stays refused, and what is decided has passed every check of
\* each of its files.  The number of inline comments and their types are the
\* last configuration's: they may change either way, and nothing is said of them.
ConfigOnlyTightens ==
  \A i, j \in DOMAIN resolved : i < j =>
    \/ ~resolved[j].ok
    \/ /\ resolved[i].ok
       /\ resolved[i].strictness <= resolved[j].strictness
       /\ resolved[i].failOnP0 => resolved[j].failOnP0
       /\ resolved[i].disabled \subseteq resolved[j].disabled
       /\ resolved[i].repos \subseteq resolved[j].repos
       /\ Cardinality(resolved[j].repos) <= MaxRepos
       /\ \A k \in 1..(j - 1) : cascade[k] # Absent => Decodes(cascade[k])
=============================================================================
