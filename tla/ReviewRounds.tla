---------------------------- MODULE ReviewRounds ----------------------------
(***************************************************************************)
(* The review rounds of one pull request.  Each run takes what the model   *)
(* reported (review/finding.go), has it verified (verifier.go), suppresses *)
(* noise (learning/suppression.go), drops what people dismissed and finds  *)
(* the threads that were fixed (rereview.go), anchors the rest on the diff *)
(* (line_map.go), ranks and caps it (rank.go), posts one review            *)
(* (githubapp/review.go) and concludes a check run (githubapp/checks.go).  *)
(* Commands of people (githubapp/commands.go) arrive in between, two runs  *)
(* may overlap, requests get lost and a worker may die at any time.        *)
(*                                                                         *)
(* src/ has these functions and no caller of them: the order in which a    *)
(* run calls them is that of ROADMAP.md 60-79, and what the caller keeps   *)
(* between runs is PriorFinding.                                           *)
(*                                                                         *)
(* Abstractions.  A path is a number, a title a set of words, a confidence *)
(* a number of per cent; fingerprints are ordered as the titles are.  The  *)
(* order in which a review lists its comments is left out.                 *)
(***************************************************************************)
EXTENDS Naturals, FiniteSets, SequencesExt

CONSTANTS
  Workers,      \* processes that run reviews
  Findings,     \* what the model may report
  Histories,    \* the feedback the suppression may be given
  Diffs,        \* the changed ranges a run may be given, as sets of ranges
  Scope,        \* the paths SuppressionConfig.PathGlob matches, all of them for "**"
  MaxFindings,  \* DecodeFindings' limit, 100 in the code
  MaxInline,    \* DefaultMaxInlineComments and MaxInlineReviewComments, 15
  Threshold,    \* SuppressionConfig.Threshold, at least 3
  Window,       \* SuppressionConfig.Window
  FailOnP0,     \* whether a P0 fails the check
  MaxRuns,      \* bound on the runs
  MaxHeads      \* bound on the pushes

Severities == {"P0", "P1", "P2"}
Types      == {"logic", "syntax", "style", "security"}

ASSUME FindingsAssumption ==
  \A f \in Findings : {f.path, f.first, f.last, f.fp, f.confidence} \subseteq Nat

ASSUME HistoriesAssumption == \A history \in Histories : IsFiniteSet(DOMAIN history)

ASSUME RoundsAssumption ==
  /\ MaxInline \in Nat \ {0} /\ Threshold \in Nat \ {0} /\ MaxRuns \in Nat /\ MaxHeads \in Nat \ {0}
  /\ FailOnP0 \in BOOLEAN
  /\ \A f, g \in Findings :
       f.fp = g.fp => f = g \/ <<f.path, f.first, f.last>> # <<g.path, g.first, g.last>>

VARIABLES
  head,      \* the head of the pull request
  reviewed,  \* the head reviewed last, which the caller keeps
  runs,      \* runs begun so far
  rows,      \* the PriorFindings the caller keeps
  at,        \* where each worker is
  run,       \* the number of its run
  target,    \* the head it reviews
  check,     \* the ID of its check run, 0 for none
  plan,      \* what its analysis found, until it is posted
  conclusion,\* the conclusion of its check run
  posts,     \* GitHub: the reviews on the pull request
  checks,    \* GitHub: the check runs, by ID
  lost,      \* ghost: check runs with an unanswered or refused request
  abandoned, \* ghost: check runs whose worker died
  owed,      \* ghost: what the verifier supported in a run, unless its review
             \* was refused or its worker died before it could be posted
  silenced   \* ghost: the runs begun when a fingerprint was dismissed first

workerVars == <<at, run, target, check, plan, conclusion>>
githubVars == <<posts, checks>>
ghostVars  == <<lost, abandoned, owed, silenced>>
vars == <<head, reviewed, runs, rows, workerVars, githubVars, ghostVars>>

Fingerprints == {f.fp : f \in Findings}
Silence == [fp \in Fingerprints |-> MaxRuns + 1]

-----------------------------------------------------------------------------
(* The analysis.                                                            *)

Valid(f) ==
  /\ f.first > 0 /\ f.last >= f.first
  /\ f.severity \in Severities /\ f.type \in Types
  /\ f.confidence \in 0 .. 100

Decodes(reported) ==
  /\ IsFiniteSet(reported) /\ Cardinality(reported) <= MaxFindings
  /\ \A f \in reported : Valid(f)

(* The findings the verifier is asked about; the others are dropped.        *)
Eligible(reported) == {f \in reported : f.evidence}

Protected(f) == f.severity = "P0" \/ f.type \in {"security", "logic"}

Noise(f, e) ==
  /\ e.category = f.type /\ e.age \in 0 .. Window /\ e.kind \in {"ignored", "thumbs_down"}
  /\ e.path \in Scope

(* Mutant: without the test of seen[event.ID].                              *)
SuppressedByRepetition(f, history) ==
  /\ ~Protected(f) /\ f.path \in Scope
  /\ Cardinality({i \in DOMAIN history : Noise(f, history[i])}) >= Threshold

(* suppression.go: distinct events in the scope decide, and only about what *)
(* is in the scope and may be suppressed at all.                            *)
Suppressed(f, history) ==
  /\ ~Protected(f) /\ f.path \in Scope
  /\ Cardinality({history[i].id : i \in {j \in DOMAIN history : Noise(f, history[j])}}) >= Threshold

Overlap(a, b) == a.path = b.path /\ a.first <= b.last /\ b.first <= a.last

(* Mutant: a finding is recognised by its place.                            *)
DismissedByPlace(f) == \E r \in rows : r.status = "dismissed" /\ r.fp = f.fp /\ Overlap(r, f)

Dismissed(f) == \E r \in rows : r.status = "dismissed" /\ r.fp = f.fp

(* PlanReReview: the threads that are resolved.                             *)
Fixed(changed, proposed) ==
  {r \in rows : /\ r.status = "open"
                /\ ~ \E f \in proposed : f.fp = r.fp
                /\ \E span \in changed : Overlap(r, span)}

(* MapFindingsToDiff: the whole range within one changed range.             *)
Anchored(f, changed) ==
  \E span \in changed : f.path = span.path /\ f.first >= span.first /\ f.last <= span.last

Rank == [P0 |-> 0, P1 |-> 1, P2 |-> 2]

(* The first component in which two keys differ decides.                    *)
Before(a, b) ==
  \E i \in DOMAIN a : a[i] < b[i] /\ \A j \in 1 .. i - 1 : a[j] = b[j]

(* Mutant: the confidence counts more than the severity.                    *)
StrongerByConfidence(f, g) ==
  Before(<<100 - f.confidence, Rank[f.severity], f.path, f.first, f.last, f.fp>>,
         <<100 - g.confidence, Rank[g.severity], g.path, g.first, g.last, g.fp>>)

Strength(f) == <<Rank[f.severity], 100 - f.confidence, f.path, f.first, f.last, f.fp>>

Stronger(f, g) == Before(Strength(f), Strength(g))

(* sameFinding: titleSimilarity is at least 0.6.                            *)
SameFinding(f, g) ==
  /\ Overlap(f, g)
  /\ f.title # {} /\ g.title # {}
  /\ 5 * Cardinality(f.title \cap g.title) >= 3 * Cardinality(f.title \cup g.title)

(* The loop takes the findings from the strongest on.  It passes over those *)
(* that are the same as one it kept, and breaks when it is full.            *)
Kept(f, kept) ==
  /\ ~ \E g \in kept : Stronger(g, f) /\ SameFinding(g, f)
  /\ Cardinality({g \in kept : Stronger(g, f)}) < MaxInline

RankAndCap(findings) ==
  CHOOSE kept \in SUBSET findings : \A f \in findings : f \in kept <=> Kept(f, kept)

NoPlan == [supported |-> {}, history |-> <<>>, shown |-> {}, summary |-> {}, fixed |-> {}]

PlanOf(supported, history, changed) ==
  LET verified == {f \in supported : ~Suppressed(f, history)}
      kept     == {f \in verified : ~Dismissed(f)}
      inline   == {f \in kept : Anchored(f, changed)}
  IN  [supported |-> supported, history |-> history,
       shown |-> RankAndCap(inline),
       summary |-> kept \ inline, fixed |-> Fixed(changed, verified)]

(* Mutant: a check without a blocking finding is a success.                 *)
ReviewConclusionSuccess(findings) ==
  IF FailOnP0 /\ \E f \in findings : f.severity = "P0" THEN "failure" ELSE "success"

ReviewConclusion(findings) ==
  IF FailOnP0 /\ \E f \in findings : f.severity = "P0" THEN "failure" ELSE "neutral"

-----------------------------------------------------------------------------

Init ==
  /\ head = 1 /\ reviewed = 0 /\ runs = 0 /\ rows = {}
  /\ at = [w \in Workers |-> "idle"]
  /\ run = [w \in Workers |-> 0]
  /\ target = [w \in Workers |-> 0]
  /\ check = [w \in Workers |-> 0]
  /\ plan = [w \in Workers |-> NoPlan]
  /\ conclusion = [w \in Workers |-> "none"]
  /\ posts = {} /\ checks = <<>>
  /\ lost = {} /\ abandoned = {} /\ owed = {} /\ silenced = Silence

Go(w, place) == at' = [at EXCEPT ![w] = place]

End(w) ==
  /\ Go(w, "idle")
  /\ run' = [run EXCEPT ![w] = 0]
  /\ target' = [target EXCEPT ![w] = 0]
  /\ check' = [check EXCEPT ![w] = 0]
  /\ plan' = [plan EXCEPT ![w] = NoPlan]
  /\ conclusion' = [conclusion EXCEPT ![w] = "none"]

Push ==
  /\ head < MaxHeads
  /\ head' = head + 1
  /\ UNCHANGED <<reviewed, runs, rows, workerVars, githubVars, ghostVars>>

(* A job for a head that was not reviewed yet: PlanReReview wants two SHAs. *)
Begin(w) ==
  /\ at[w] = "idle" /\ runs < MaxRuns /\ reviewed # head
  /\ runs' = runs + 1
  /\ run' = [run EXCEPT ![w] = runs']
  /\ target' = [target EXCEPT ![w] = head]
  /\ Go(w, "starting")
  /\ UNCHANGED <<head, reviewed, rows, check, plan, conclusion, githubVars, ghostVars>>

InProgress(w) == [head |-> target[w], run |-> run[w], status |-> "in_progress", conclusion |-> "none"]

(* Start: the ID of the check run is in the answer.                         *)
StartCheck(w) ==
  /\ at[w] = "starting"
  /\ checks' = Append(checks, InProgress(w))
  /\ check' = [check EXCEPT ![w] = Len(checks')]
  /\ Go(w, "analysing")
  /\ UNCHANGED <<head, reviewed, runs, rows, run, target, plan, conclusion, posts, ghostVars>>

(* GitHub refuses it, or creates it and the answer is lost.                 *)
StartFails(w) ==
  /\ at[w] = "starting"
  /\ \/ UNCHANGED <<checks, lost>>
     \/ /\ checks' = Append(checks, InProgress(w))
        /\ lost' = lost \cup {Len(checks')}
  /\ End(w)
  /\ UNCHANGED <<head, reviewed, runs, rows, posts, abandoned, owed, silenced>>

(* The model's answer does not decode or the verifier's does not name       *)
(* exactly the eligible findings: nothing is published.                     *)
AnalysisFails(w, reported, decided) ==
  /\ at[w] = "analysing"
  /\ ~Decodes(reported) \/ decided # Eligible(reported)
  /\ conclusion' = [conclusion EXCEPT ![w] = ReviewConclusion({})]
  /\ Go(w, "completing")
  /\ UNCHANGED <<head, reviewed, runs, rows, run, target, check, plan, githubVars, ghostVars>>

Analyse(w, reported, supported, history, changed) ==
  /\ at[w] = "analysing"
  /\ Decodes(reported) /\ supported \subseteq Eligible(reported)
  /\ reviewed # target[w]
  /\ plan' = [plan EXCEPT ![w] = PlanOf(supported, history, changed)]
  /\ conclusion' = [conclusion EXCEPT ![w] = ReviewConclusion(plan'[w].shown \cup plan'[w].summary)]
  /\ owed' = owed \cup {[run |-> run[w], supported |-> supported, history |-> history]}
  /\ Go(w, "posting")
  /\ UNCHANGED <<head, reviewed, runs, rows, run, target, check, githubVars, lost, abandoned, silenced>>

(* The other run of an overlapping pair has already reviewed this head.     *)
AlreadyReviewed(w) ==
  /\ at[w] = "analysing" /\ reviewed = target[w]
  /\ conclusion' = [conclusion EXCEPT ![w] = ReviewConclusion({})]
  /\ Go(w, "completing")
  /\ UNCHANGED <<head, reviewed, runs, rows, run, target, check, plan, githubVars, ghostVars>>

(* One review: the findings inline, the others in its body (review.go 26).  *)
Posted(w) == posts \cup {[id |-> Cardinality(posts) + 1, run |-> run[w], head |-> target[w],
                         shown |-> plan[w].shown, summary |-> plan[w].summary]}

(* The rows of a run: one per finding, on GitHub when it is inline.         *)
RowsOf(w) ==
  {[fp |-> f.fp, path |-> f.path, first |-> f.first, last |-> f.last,
    status |-> "open", thread |-> run[w]] : f \in plan[w].shown}

Resolve(fixed) == {IF r \in fixed THEN [r EXCEPT !.status = "resolved"] ELSE r : r \in rows}

Forget(w) == {o \in owed : o.run # run[w]}

(* Mutant: without the test of the status, review.go 92.                    *)
PostUnchecked(w) ==
  /\ at[w] = "posting" /\ Cardinality(plan[w].shown) <= MaxInline
  /\ posts' \in {posts, Posted(w)}
  /\ rows' = Resolve(plan[w].fixed) \cup RowsOf(w)
  /\ reviewed' = target[w]
  /\ plan' = [plan EXCEPT ![w] = NoPlan]
  /\ Go(w, "completing")
  /\ UNCHANGED <<head, runs, run, target, check, conclusion, checks, ghostVars>>

(* Create, which is not repeated.  With the answer the caller resolves the  *)
(* threads that were fixed and keeps the new ones.                          *)
Post(w) ==
  /\ at[w] = "posting" /\ Cardinality(plan[w].shown) <= MaxInline
  /\ posts' = Posted(w)
  /\ rows' = Resolve(plan[w].fixed) \cup RowsOf(w)
  /\ reviewed' = target[w]
  /\ plan' = [plan EXCEPT ![w] = NoPlan]
  /\ Go(w, "completing")
  /\ UNCHANGED <<head, runs, run, target, check, conclusion, checks, ghostVars>>

(* Mutant: a POST is repeated when its answer is lost.                      *)
PostFailsRepeating(w) ==
  /\ at[w] = "posting"
  /\ posts' = Posted(w)
  /\ UNCHANGED <<head, reviewed, runs, rows, workerVars, checks, ghostVars>>

(* Refused, or posted and the answer lost: the caller keeps nothing.        *)
PostFails(w) ==
  /\ at[w] = "posting"
  /\ \/ posts' = Posted(w) /\ UNCHANGED owed
     \/ UNCHANGED posts /\ owed' = Forget(w)
  /\ plan' = [plan EXCEPT ![w] = NoPlan]
  /\ Go(w, "completing")
  /\ UNCHANGED <<head, reviewed, runs, rows, run, target, check, conclusion, checks,
                 lost, abandoned, silenced>>

(* Mutant: the conclusion is not sent.                                      *)
CompleteCheckStatusOnly(w) ==
  /\ at[w] = "completing"
  /\ checks' = [checks EXCEPT ![check[w]].status = "completed"]
  /\ End(w)
  /\ UNCHANGED <<head, reviewed, runs, rows, posts, ghostVars>>

(* Complete refuses a conclusion it does not know before it sends anything. *)
CompleteCheck(w) ==
  /\ at[w] = "completing"
  /\ checks' = IF conclusion[w] \in {"neutral", "failure"}
               THEN [checks EXCEPT ![check[w]].status = "completed",
                                   ![check[w]].conclusion = conclusion[w]]
               ELSE checks
  /\ End(w)
  /\ UNCHANGED <<head, reviewed, runs, rows, posts, ghostVars>>

(* The PATCH is not repeated either: client.go 126.                         *)
CompleteFails(w) ==
  /\ at[w] = "completing"
  /\ lost' = lost \cup {check[w]}
  /\ End(w)
  /\ UNCHANGED <<head, reviewed, runs, rows, githubVars, abandoned, owed, silenced>>

(* The process dies, or the job is cancelled, wherever it is.  Whatever was *)
(* on its way then is a lost request before it.  A head that does not count *)
(* as reviewed is begun again, with a check run of its own.                 *)
Die(w) ==
  /\ at[w] # "idle"
  /\ abandoned' = abandoned \cup ({check[w]} \ {0})
  /\ owed' = IF at[w] = "posting" THEN Forget(w) ELSE owed
  /\ End(w)
  /\ UNCHANGED <<head, reviewed, runs, rows, githubVars, lost, silenced>>

(* CommandAuthorizer: the first line of a comment is one command, and its   *)
(* author may write.  "ignore" dismisses the finding of the thread.         *)
Authorized(command, permission) ==
  command \in {"review", "ignore", "why", "explain", "remember", "forget"}
  /\ permission \in {"write", "maintain", "admin"}

Command(command, permission, r) ==
  /\ Authorized(command, permission) /\ command = "ignore" /\ r.status = "open"
  /\ rows' = (rows \ {r}) \cup {[r EXCEPT !.status = "dismissed"]}
  /\ silenced' = [silenced EXCEPT ![r.fp] = IF @ <= runs THEN @ ELSE runs]
  /\ UNCHANGED <<head, reviewed, runs, workerVars, githubVars, lost, abandoned, owed>>

Worker(w) ==
  \/ Begin(w) \/ StartCheck(w) \/ StartFails(w)
  \/ /\ at[w] = "analysing"   \* spares TLC the sets everywhere else
     /\ \E reported \in SUBSET Findings :
          \/ AnalysisFails(w, reported, {})
          \/ \E supported \in SUBSET reported, history \in Histories, changed \in Diffs :
               Analyse(w, reported, supported, history, changed)
  \/ AlreadyReviewed(w) \/ Post(w) \/ PostFails(w) \/ CompleteCheck(w) \/ CompleteFails(w)
  \/ Die(w)

Next ==
  \/ Push
  \/ \E w \in Workers : Worker(w)
  \/ \E r \in rows, permission \in {"read", "write"} : Command("ignore", permission, r)

Spec == Init /\ [][Next]_vars

-----------------------------------------------------------------------------
Row == [fp : Fingerprints, path : Nat, first : Nat, last : Nat,
        status : {"open", "resolved", "dismissed"}, thread : 1 .. MaxRuns]

(* Reviews carry at most MaxInline findings, and a worker that knows a      *)
(* check run knows its own.                                                 *)
TypeOK ==
  /\ head \in 1 .. MaxHeads /\ reviewed \in 0 .. head /\ runs \in 0 .. MaxRuns
  /\ rows \subseteq Row
  /\ \A w \in Workers :
       /\ at[w] \in {"idle", "starting", "analysing", "posting", "completing"}
       /\ Cardinality(plan[w].shown) <= MaxInline
       /\ at[w] \notin {"idle", "starting"} => checks[check[w]].run = run[w]
  /\ \A p \in posts : p.head <= head /\ Cardinality(p.shown) <= MaxInline
  /\ \A i \in DOMAIN checks : (checks[i].status = "completed") = (checks[i].conclusion # "none")

(* Why a finding may be shown neither inline nor in the summary of a review *)
(* p.  These are the promises of the pipeline's parts taken together; in    *)
(* particular the one finding that stands for it is at least as strong and  *)
(* really is on the pull request.                                           *)
Complaints(f, history) ==
  \E picked \in SUBSET DOMAIN history :
    /\ Cardinality(picked) >= Threshold
    /\ \A i \in picked :
         /\ history[i].category = f.type /\ history[i].age <= Window /\ history[i].path \in Scope
         /\ \A j \in picked \ {i} : history[i].id # history[j].id
Excused(f, history, p) ==
  \/ /\ f.severity # "P0" /\ f.type \in {"syntax", "style"} /\ f.path \in Scope
     /\ Complaints(f, history)
  \/ \E r \in rows : r.fp = f.fp /\ r.status = "dismissed"
  \/ \E g \in p.shown : SameFinding(g, f) /\ Rank[g.severity] <= Rank[f.severity]
  \/ /\ Cardinality(p.shown) = MaxInline
     /\ \A g \in p.shown : Rank[g.severity] <= Rank[f.severity]

Accounts(o, p) ==
  \A f \in o.supported : f \in p.shown \cup p.summary \/ Excused(f, o.history, p)

(* No finding gets lost between the verifier and the pull request: what it  *)
(* supports in a run is in the review of that run on the pull request,      *)
(* inline or in the summary, or there is a reason that can be seen there -  *)
(* also when the answer to the POST is lost, the worker dies afterwards or  *)
(* another run overlaps.  A review that GitHub refused, or that was never   *)
(* sent because the worker died, is owed nobody; ReviewedIsPosted says that *)
(* its head does not count as reviewed then.                                *)
NothingLost ==
  \A o \in owed :
    \/ \E w \in Workers : run[w] = o.run /\ at[w] = "posting"
    \/ \E p \in posts : p.run = o.run /\ Accounts(o, p)

Fps(findings) == {f.fp : f \in findings}

(* What the caller keeps is on the pull request, whatever was lost, refused *)
(* or overtaken: a head counts as reviewed only with a review of it, a row  *)
(* is about a finding that the review of its run shows inline, and a run    *)
(* has one review at most ("Post one review per run", ROADMAP.md 72).       *)
ReviewedIsPosted ==
  /\ reviewed # 0 => \E p \in posts : p.head = reviewed
  /\ \A r \in rows : \E p \in posts : p.run = r.thread /\ r.fp \in Fps(p.shown)
  /\ \A p, q \in posts : p.run = q.run => p = q

(* What was dismissed before a run began is not in its review, neither      *)
(* inline nor in the summary, even if it was found elsewhere since and      *)
(* whatever overlaps or gets lost.                                          *)
DismissedStaysSilent ==
  \A p \in posts : \A f \in p.shown \cup p.summary : p.run <= silenced[f.fp]

(* A P0 that is verified and not dismissed fails the check, if it is        *)
(* concluded at all: neither ranking nor merging hides it.                  *)
P0FailsTheCheck ==
  FailOnP0 =>
    \A w \in Workers : \A f \in plan[w].supported :
        f.severity = "P0" =>
          \/ conclusion[w] = "failure"
          \/ \E r \in rows : r.fp = f.fp /\ r.status = "dismissed"

(* A run that is not cut short completes its check run, whichever way it    *)
(* goes: one that nobody works on any more is completed, unless a request   *)
(* about it was lost or refused or its worker died.  In these cases nothing *)
(* in the code ever completes it: the next run opens one of its own.        *)
ChecksComplete ==
  \A i \in DOMAIN checks :
    \/ checks[i].status = "completed"
    \/ i \in lost \cup abandoned
    \/ \E w \in Workers : check[w] = i
=============================================================================
