---------------------------- MODULE ReviewExport ----------------------------
(***************************************************************************)
(* The command line of the repository (export.go, explanation_generate.go, *)
(* explanations.go, verification.go, privacy.go, summary_comment.go) and   *)
(* the workflow of action.yml that runs its commands one after another:    *)
(* generate-explanations asks a model about a commit and writes a file,    *)
(* export-review reads that file and those of other tools and writes a     *)
(* bundle of three files, privacy-check reads one of them, sha256sum       *)
(* compares the three, and summary-comment reads one again.                *)
(*                                                                         *)
(* Between two steps anything may happen that happens to files and refs:   *)
(* the head is pushed to, a tool replaces its file, another export writes  *)
(* into the same directory, a process dies in the middle of a write.       *)
(***************************************************************************)
EXTENDS Naturals, FiniteSets

CONSTANTS
  Commit,         \* the commits the head ref may point to, in the order pushed
  Changed,        \* the paths that differ from the base at each commit
  Rules,          \* .px1/rules.json at each commit: "none", "valid", "invalid"
  Committed,      \* .px1/verification.json at each commit, or Nothing
  Risky,          \* sensitive paths, and paths with the signature of a secret
  Excluded,       \* paths that --exclude-glob keeps from the model
  Verifications,  \* what a file of GitHub Actions results may hold
  FindingSets,    \* what a file of hosted findings may hold
  ExplanationSets,\* what a file of explanations, or the model's answer, may hold
  MaxItems,       \* explanationMaxItems, the limit on hosted findings
  MaxSteps,       \* bound: pushes and files replaced by other tools
  MaxExports,     \* bound: exports that are started
  Process,        \* the workflow and people who export into its directory
  Workflow,
  Nothing

ASSUME ExportAssumption ==
  /\ Commit \subseteq Nat
  /\ Workflow \in Process
  \* a file in a commit cannot name the hash of that commit
  /\ \A c \in Commit : Committed[c] # Nothing => Committed[c].revision # c

VARIABLES
  ref,       \* the commit the head ref points to
  disk,      \* the three files the export may attach
  proc,      \* each process: where it is, the head it resolved, what it has
  out,       \* the bundle's files: index.html, review.json, checksums.sha256
  snapshot,  \* the file of --snapshot-out
  comment,   \* the file of summary-comment
  checked,   \* the last bundle that passed sha256sum --check
  disturbed, \* somebody else wrote into the directory since the last export of the workflow
  steps, exports

exportVars == <<ref, disk, proc, out, snapshot, comment, checked, disturbed, steps, exports>>

(* ------------------------------ evidence ------------------------------- *)

\* validateVerificationReport: source, revision and links; anything else is
\* shown as unavailable and never ends the export.
ValidVerification(v, head) == v.source = "github-actions" /\ v.revision = head /\ v.wellFormed

\* Mutant: whatever is given counts as available.
VerificationAsGiven(v, head) ==
  IF v = Nothing THEN [state |-> "not-attached", revision |-> Nothing]
  ELSE [state |-> "available", revision |-> v.revision]

VerificationFrom(v, head) ==
  IF v = Nothing THEN [state |-> "not-attached", revision |-> Nothing]
  ELSE [state    |-> IF ValidVerification(v, head) THEN "available" ELSE "unavailable",
        revision |-> v.revision]

\* Mutant: without the comparison of the revision.
FindingsOfAnyHead(f, head) ==
  /\ f # Nothing
  /\ Cardinality(f.items) <= MaxItems
  /\ \A i \in f.items : i.wellFormed /\ i.path \in Changed[head]

\* hostedFindingsAtFile: one bad finding, or another revision, ends the export.
ValidFindings(f, head) ==
  /\ f # Nothing
  /\ f.revision = head
  /\ Cardinality(f.items) <= MaxItems
  /\ \A i \in f.items : i.wellFormed /\ i.path \in Changed[head]

\* validateStaticExplanations: also for what the model has just answered.
ValidItems(items, changed) ==
  /\ Cardinality(items) <= MaxItems
  /\ \A i \in items : i.wellFormed /\ i.path \in changed
  /\ \A i, j \in items : i.id = j.id => i = j

\* Mutant: without the comparison of the revision.
ExplanationsOfAnyHead(f, head) ==
  /\ f # Nothing
  /\ f.version = 1
  /\ ValidItems(f.items, Changed[head])

ValidExplanations(f, head) ==
  /\ f # Nothing
  /\ f.version = 1
  /\ f.revision = head
  /\ ValidItems(f.items, Changed[head])

Source(id, state, revision) == [id |-> id, state |-> state, revision |-> revision]

\* staticEvidence: one entry for each kind of evidence, attached or not.  For
\* findings and explanations it names the head whatever their file declares, and
\* the analysis may also be "limited" (ReviewArtifact).
StaticEvidence(r) ==
  {Source("human", "browser-local", r.head),
   Source("automated", "available", r.head),
   IF "explanations" \in r.asked THEN Source("ai", "available", r.head)
                                 ELSE Source("ai", "not-attached", Nothing),
   IF "findings" \in r.asked THEN Source("hosted-ai", "available", r.head)
                             ELSE Source("hosted-ai", "not-attached", Nothing),
   Source("ci", r.verification.state, r.verification.revision)}

(* ------------------------------- commands ------------------------------ *)

Idle == [pc |-> "idle", head |-> Nothing, asked |-> {}, verification |-> Nothing,
         findings |-> Nothing, explanations |-> Nothing]

\* What the process exports; generateStaticReviewWithOptions has read it all. A
\* report carries the items of findings and explanations; the revision that their
\* file declares is kept beside them here, to tell what they were made for.
Report(p) == [kind |-> "report", head |-> p.head, asked |-> p.asked, files |-> Changed[p.head],
              verification |-> p.verification, findings |-> p.findings,
              explanations |-> p.explanations]

\* A file that is not there, and one whose write was cut off.
NoFile == [kind |-> "none"]
Partial == [kind |-> "partial"]
Readable(file) == file.kind \notin {"none", "partial"}

ExportInit ==
  /\ ref = CHOOSE c \in Commit : \A d \in Commit : c <= d
  /\ disk \in [verification : Verifications \cup {Nothing}, findings : FindingSets \cup {Nothing},
               explanations : {Nothing}]
  /\ proc = [e \in Process |-> Idle]
  /\ out = [html |-> NoFile, json |-> NoFile, sums |-> NoFile]
  /\ snapshot = NoFile
  /\ comment = NoFile
  /\ checked = NoFile
  /\ disturbed = FALSE
  /\ steps = 0
  /\ exports = 0

At(e, pc) == proc[e].pc = pc
Goto(e, pc) == proc' = [proc EXCEPT ![e].pc = pc]
Exit(e) == proc' = [proc EXCEPT ![e] = Idle]

\* What generate-explanations writes about a head.
Explaining(head, items) == [version |-> 1, revision |-> head, items |-> items]

\* resolveCommit pins the head; the ref may move from here on. A diff without
\* a path to explain writes a file with no explanation and asks nobody.
GenerateExplanations(e) ==
  /\ At(e, "idle")
  /\ e = Workflow
  /\ proc' = [proc EXCEPT ![e] = [Idle EXCEPT
       !.head = ref, !.explanations = Explaining(ref, {}),
       !.pc = IF Changed[ref] \subseteq Excluded THEN "publish" ELSE "ask"]]
  /\ UNCHANGED <<ref, disk, out, snapshot, comment, checked, disturbed, steps, exports>>

\* request and validateStaticExplanations: the paths that were sent are the
\* only ones an explanation may name.
ModelAnswers(e) ==
  /\ At(e, "ask")
  /\ \E answer \in ExplanationSets :
       IF ValidItems(answer.items, Changed[proc[e].head] \ Excluded)
       THEN proc' = [proc EXCEPT ![e].pc = "publish", ![e].explanations = Explaining(proc[e].head, answer.items)]
       ELSE Exit(e)
  /\ UNCHANGED <<ref, disk, out, snapshot, comment, checked, disturbed, steps, exports>>

\* No answer, an HTTP error, a refusal, an incomplete or oversized answer.
ModelFails(e) ==
  /\ At(e, "ask")
  /\ Exit(e)
  /\ UNCHANGED <<ref, disk, out, snapshot, comment, checked, disturbed, steps, exports>>

\* writeExplanationFile renames a finished temporary file. The workflow goes
\* on with the export of the ref, which may have moved.
PublishExplanations(e) ==
  /\ At(e, "publish")
  /\ disk' = [disk EXCEPT !.explanations = proc[e].explanations]
  /\ Exit(e)
  /\ UNCHANGED <<ref, out, snapshot, comment, checked, disturbed, steps, exports>>

\* runExportReview: the ref is resolved, the team rules are read at the commit.
StartExport(e, asked) ==
  /\ At(e, "idle")
  /\ exports < MaxExports
  /\ exports' = exports + 1
  /\ IF Rules[ref] = "invalid" THEN Exit(e)
     ELSE proc' = [proc EXCEPT ![e] = [Idle EXCEPT !.head = ref, !.asked = asked, !.pc = "verification"]]
  /\ UNCHANGED <<ref, disk, out, snapshot, comment, checked, disturbed, steps>>

\* The committed file is read first; a file that was asked for replaces it, and
\* only that file's absence is an error.
ReadVerification(e) ==
  /\ At(e, "verification")
  /\ LET p == proc[e]
         v == IF "verification" \in p.asked THEN disk.verification ELSE Committed[p.head]
     IN IF "verification" \in p.asked /\ v = Nothing THEN Exit(e)
        ELSE proc' = [proc EXCEPT ![e].pc = "findings", ![e].verification = VerificationFrom(v, p.head)]
  /\ UNCHANGED <<ref, disk, out, snapshot, comment, checked, disturbed, steps, exports>>

ReadFindings(e) ==
  /\ At(e, "findings")
  /\ IF "findings" \notin proc[e].asked THEN Goto(e, "explanations")
     ELSE IF ValidFindings(disk.findings, proc[e].head)
          THEN proc' = [proc EXCEPT ![e].pc = "explanations", ![e].findings = disk.findings]
          ELSE Exit(e)
  /\ UNCHANGED <<ref, disk, out, snapshot, comment, checked, disturbed, steps, exports>>

ReadExplanations(e) ==
  /\ At(e, "explanations")
  /\ IF "explanations" \notin proc[e].asked THEN Goto(e, "html")
     ELSE IF ValidExplanations(disk.explanations, proc[e].head)
          THEN proc' = [proc EXCEPT ![e].pc = "html", ![e].explanations = disk.explanations]
          ELSE Exit(e)
  /\ UNCHANGED <<ref, disk, out, snapshot, comment, checked, disturbed, steps, exports>>

\* Who writes into the directory disturbs what the workflow does with it; the
\* workflow's own page is the start of a bundle nobody has touched yet.
Touch(e) == disturbed' = IF e = Workflow THEN disturbed ELSE TRUE

(* --------------------------- the three files --------------------------- *)

WriteHTML(e) ==
  /\ At(e, "html")
  /\ out' = [out EXCEPT !.html = Report(proc[e])]
  /\ disturbed' = (e # Workflow)
  /\ Goto(e, "json")
  /\ UNCHANGED <<ref, disk, snapshot, comment, checked, steps, exports>>

WriteJSON(e) ==
  /\ At(e, "json")
  /\ out' = [out EXCEPT !.json = Report(proc[e])]
  /\ Touch(e)
  /\ Goto(e, "sums")
  /\ UNCHANGED <<ref, disk, snapshot, comment, checked, steps, exports>>

WriteSumsOfFiles(e) ==
  /\ At(e, "sums")
  /\ out' = [out EXCEPT !.sums = [kind |-> "sums", html |-> out.html, json |-> out.json]]
  /\ Touch(e)
  /\ Goto(e, IF e = Workflow THEN "privacy" ELSE "snapshot")
  /\ UNCHANGED <<ref, disk, snapshot, comment, checked, steps, exports>>

\* The manifest is computed from what was rendered, not from what is on disk.
WriteSums(e) ==
  /\ At(e, "sums")
  /\ out' = [out EXCEPT !.sums = [kind |-> "sums", html |-> Report(proc[e]), json |-> Report(proc[e])]]
  /\ Touch(e)
  /\ Goto(e, IF e = Workflow THEN "privacy" ELSE "snapshot")
  /\ UNCHANGED <<ref, disk, snapshot, comment, checked, steps, exports>>

WriteSnapshot(e) ==
  /\ At(e, "snapshot")
  /\ snapshot' = Report(proc[e])
  /\ Exit(e)
  /\ UNCHANGED <<ref, disk, out, comment, checked, disturbed, steps, exports>>

\* The process dies. A file that was being written is truncated first.
Crash(e) ==
  /\ ~At(e, "idle")
  /\ \/ UNCHANGED <<out, disturbed>>
     \/ /\ proc[e].pc \in {"html", "json", "sums"}
        /\ out' = [out EXCEPT ![proc[e].pc] = Partial]
        /\ Touch(e)
  /\ Exit(e)
  /\ UNCHANGED <<ref, disk, snapshot, comment, checked, steps, exports>>

(* ---------------------- what the workflow does next -------------------- *)

\* findPrivacyRisks looks at the paths and at the encoded report.
PrivacyRisks(r) == r.files \cap Risky

PrivacyCheck ==
  /\ At(Workflow, "privacy")
  /\ IF Readable(out.json) /\ PrivacyRisks(out.json) = {} THEN Goto(Workflow, "verify") ELSE Exit(Workflow)
  /\ UNCHANGED <<ref, disk, out, snapshot, comment, checked, disturbed, steps, exports>>

\* sha256sum --check: the bundle goes out as it is.
VerifyBundle ==
  /\ At(Workflow, "verify")
  /\ IF Readable(out.sums) /\ out.sums.html = out.html /\ out.sums.json = out.json
     THEN /\ checked' = [kind |-> "bundle", html |-> out.html, json |-> out.json, alone |-> ~disturbed]
          /\ Goto(Workflow, "comment")
     ELSE Exit(Workflow) /\ UNCHANGED checked
  /\ UNCHANGED <<ref, disk, out, snapshot, comment, disturbed, steps, exports>>

\* summary-comment reads review.json again and names its head.
SummaryComment ==
  /\ At(Workflow, "comment")
  /\ comment' = IF Readable(out.json) THEN [kind |-> "comment", head |-> out.json.head, verification |-> out.json.verification]
                ELSE comment
  /\ Exit(Workflow)
  /\ UNCHANGED <<ref, disk, out, snapshot, checked, disturbed, steps, exports>>

(* ------------------------------ the others ----------------------------- *)

Push ==
  /\ steps < MaxSteps
  /\ ref + 1 \in Commit
  /\ ref' = ref + 1
  /\ steps' = steps + 1
  /\ UNCHANGED <<disk, proc, out, snapshot, comment, checked, disturbed, exports>>

\* Another tool, or a person, replaces one of the files.
Supply ==
  /\ steps < MaxSteps
  /\ steps' = steps + 1
  /\ \/ \E v \in Verifications : disk' = [disk EXCEPT !.verification = v]
     \/ \E f \in FindingSets : disk' = [disk EXCEPT !.findings = f]
     \/ \E x \in ExplanationSets : disk' = [disk EXCEPT !.explanations = x]
  /\ UNCHANGED <<ref, proc, out, snapshot, comment, checked, disturbed, exports>>

Asked == {{}, {"verification", "explanations"}, {"verification", "findings", "explanations"}}

Command(e) ==
  \/ GenerateExplanations(e) \/ ModelAnswers(e) \/ ModelFails(e) \/ PublishExplanations(e)
  \/ \E asked \in Asked : StartExport(e, asked)
  \/ ReadVerification(e) \/ ReadFindings(e) \/ ReadExplanations(e)
  \/ WriteHTML(e) \/ WriteJSON(e) \/ WriteSums(e) \/ WriteSnapshot(e) \/ Crash(e)

ExportNext ==
  \/ \E e \in Process : Command(e)
  \/ PrivacyCheck \/ VerifyBundle \/ SummaryComment
  \/ Push \/ Supply

ExportSpec == ExportInit /\ [][ExportNext]_exportVars

(* ------------------------------ properties ----------------------------- *)

Reports == {r \in {out.html, out.json, snapshot} : Readable(r)}

\* What was made by another tool was made for this head and its changes.
IsMadeFor(f, head) == f # Nothing => f.revision = head /\ \A i \in f.items : i.path \in Changed[head]

\* The evidence of a report is about its head, and what was asked for is there.
IsOfItsHead(r) ==
  /\ \A s \in StaticEvidence(r) : s.state = "available" => s.revision = r.head
  /\ IsMadeFor(r.findings, r.head) /\ IsMadeFor(r.explanations, r.head)
  /\ "verification" \in r.asked => r.verification.state # "not-attached"
  /\ "findings" \in r.asked => r.findings # Nothing
  /\ "explanations" \in r.asked => r.explanations # Nothing

\* Whatever a report shows as evidence of its head - verification that counts as
\* available, findings, explanations - was made for this very head and names files
\* that it changes, although each file was read at another moment than the head was
\* resolved; evidence that was asked for is in the report, or is there as
\* unavailable, and never silently absent (generateStaticReviewWithOptions,
\* staticEvidence, summary-comment).
EvidenceIsOfTheHead ==
  /\ \A r \in Reports : IsOfItsHead(r)
  /\ Readable(comment) /\ comment.verification.state = "available" =>
       comment.verification.revision = comment.head

\* A bundle that passed sha256sum shows one report: the page and the data come
\* from the same export, also if several exports wrote into the directory at
\* once or died in it. If nobody else wrote there, that report is the one the
\* privacy check has seen (writeStaticReviewReport, action.yml).
CheckedBundleIsClean ==
  Readable(checked) =>
    /\ Readable(checked.html) /\ checked.html = checked.json
    /\ checked.alone => PrivacyRisks(checked.html) = {}
=============================================================================
