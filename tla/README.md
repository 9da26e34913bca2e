# px1: models, checks and proofs

px1 explains and reviews pull requests. One half of the repository is a command
that turns a diff into a static report (package `main` and `static_report/`); the
other half, `internal/hosted/`, is the service behind a GitHub App: it indexes
repositories, reviews pull requests with a language model, publishes to GitHub,
learns rules from feedback and bills credits. This directory models both halves
where the order of things or the number of cases matters, checks the models with
TLC on small instances and proves the main results with TLAPS for all instances.

`PROJECT.json` lists the components, runs, hazards, theorems, and which lines
each definition translates.

## 1. Inventory

Every hosted component is a library behind interfaces: the program `cmd/px1d`
only serves health checks and shuts down, and PostgreSQL (stores), River (job
queue), GitHub, the model providers and object storage are behind interfaces or
HTTP. Concurrency therefore comes from goroutines that share a
`CachedTokenSource`, from several worker processes that work on the same rows,
from people, from redelivered jobs and webhooks, and from crashes between two
calls of an interface.

| Component (under `internal/hosted/` unless a path is given) | State | Operations | What makes it hard | What makes it correct | Here |
| --- | --- | --- | --- | --- | --- |
| `githubapp/client.go` | token cache, mints in flight; loop state of `Do` | `Token`, `Do` | minting and checking outside the mutex, cancellation, lost answers, rate limits | one mint per installation, nobody waits for nothing, only fresh tokens, no repeated POST, `Do` ends | `TokenSource`, `GitHubClient` |
| `billing/ledger.go`, `gate.go`, `oss.go`, `migrations/0011`, `0013` | ledger rows, balance, applications | grant, reserve, settle, refund, authorize, apply, decide | the gate does not hold what it read; redelivery, several workers, other estimates | a balance is overdrawn only by overruns; one closing per reservation; approval equals grant | `CreditLedger`, `Billing` |
| `learning/proposal_queue.go` | proposal row, pull request | edit, reject, accept | every call is several round trips; takeover, ignored errors | accepted means published, and published means the accepted text | `ProposalQueue` |
| `indexer/limits.go`, `reindex.go`, `graph/incremental.go`, `migrations/0001`, `0005` | files, symbol edges, indexed head | push, clone (`repository/clone.go`), plan, apply, retry | plans without a base, relinking importers, limits that shift | incremental equals full | `RepositoryIndex` |
| `githubapp/summary.go` | the summary comment | find, create, edit | find-then-write over pages that shift, quotes of the marker, late requests | one summary, the confirmed one, nobody else's comment | `StickySummary` |
| `review/finding.go`, `verifier.go`, `rank.go`, `line_map.go`, `rereview.go`, `learning/suppression.go`, `githubapp/review.go`, `checks.go`, `commands.go` | findings of earlier rounds; reviews and check runs at GitHub | start a check, decode, verify, suppress, anchor, rank, post, conclude; dismiss | POSTs and PATCHes without retry, two runs of one pull request, findings that move | no verified finding disappears without a reason, what is kept is on the pull request, what was dismissed stays silent, a P0 fails the check, no check is left running but by a lost request or a dead worker | `ReviewRounds` |
| `llm/gateway.go`, `providers.go` | prompt cache, call records | complete | concurrent misses, retries, failing cache, rejected answers | one payment per prompt, recorded costs are the real ones | `LLMGateway` |
| `billing/margin.go`, `learning/inference.go`, `replies.go`, `onboarding/demo.go`, `githubapp/reactions.go`, `indexer/embed.go`, `summary.go`, `analytics/events.go`, `report/publish.go`, `webhook/handler.go` | marks of what was done | a loop over rows, with an effect elsewhere | record-then-act, act-then-record, retries that overlap, first error ends the loop | the promise each order of steps allows; nothing reachable starves | `BackgroundJobs`, `Delivery` |
| `graph/overlay.go`, `tools.go`, `resolve.go`, `review/blast_radius.go` | none (functions) | overlay, walks, links, blast radius | IDs that are replaced, limits, ambiguous names | no edge to nowhere, exact up to a named limit | `CodeGraph` |
| `indexer/chunk.go` | none | cut a file into chunks | binary search over characters of several bytes | every byte once, within the limits, ends | `Chunker` |
| `config_cascade.go` | none | resolve the configurations on a path | merging, limits across files | going down only tightens | `ConfigCascade` |
| `export.go`, `export_render.go`, `explanation_generate.go`, `explanations.go`, `verification.go`, `privacy.go`, `summary_comment.go`, `artifact_*.go`, `attention.go`, `inspection_questions.go`, `review_blocks.go`, `action.yml` | refs, input files, the files of the bundle | the commands; the workflow that runs them in turn | inputs replaced and refs moved between two steps, several exports into one directory, deaths in a write; limits and two ways to number lines | evidence is of the head it is shown for, a checked bundle is one report, what was computed from the diff is shown | `ReviewExport`, `ReviewArtifact` |
| `static_report/report.js`, `report/access.go`, `dashboard/*`, `integrations/*`, `gitlab/`, `scm/`, `repository/`, `eval/`, `runtime/`, `cmd/px1d`, rest of `review/*`, of `learning/*` and of `graph/*` | little or none | single requests, I/O, arithmetic, wording | nothing between two steps | - | not modelled, see section 6 |

The components meet in these places. Every publisher and poller talks to GitHub
through `Client.Do`, which calls the shared `Token` before each attempt: that
composition is `GitHubClient`. The gate, the ledger and the open-source
programme work on one table: that composition is `Billing`. A push becomes an
index job, a limited file list, a plan and a mutation of two stores: that is
`RepositoryIndex`. Suppression, ranking, anchoring, reviews, checks and commands
meet in a round: that is `ReviewRounds`. The jobs that ask a model do so through
the gateway they share: `BackgroundJobs` extends `LLMGateway`. The commands of
the exporter meet in files, and the action runs them in turn: `ReviewExport`.

## 2. Modules

| Module | Role |
| --- | --- |
| `TokenSource` | `CachedTokenSource` on its own: `TokenSpec` |
| `GitHubClient` | `Client.Do`, extends and composes `TokenSource` |
| `CreditLedger` | operators of the ledger and its table |
| `Billing` | gate, ledger, open-source programme and tenants, extends `CreditLedger` |
| `ProposalQueue` | one proposal and its reviewers |
| `RepositoryIndex` | branch, job queue, index workers and the stores |
| `StickySummary` | the summary comment of a pull request |
| `ReviewRounds` | the rounds of review of one pull request |
| `LLMGateway` | the prompt cache, the attempts and the accounting of model calls |
| `Delivery` | abstract: what a job promises about its effects |
| `BackgroundJobs` | ten kinds of jobs and the webhook, extends `LLMGateway`, implements `Delivery` |
| `ReviewExport` | the commands of the exporter and the workflow around them |
| `ReviewArtifact` | what a report is computed to contain |
| `ConfigCascade` | the resolution of the configurations on a path |
| `CodeGraph` | operators: questions to the symbol graph |
| `Chunker` | cutting a file into chunks, loop by loop |
| `MC*` and `*.cfg` | instances for TLC |
| `*Proofs` | theorems |

Conventions. An action is what the code does between two points where another
actor can run: a section under the mutex, one call of a store, one request. The
comment of an action names the lines. A variable marked "ghost" is not read by
any guard; it exists for a property. Definitions called "Mutant" are plausible
mistakes, placed before the definition they would replace; nothing in a
specification uses them. They document which mistake each property would reveal.

### TokenSource and GitHubClient (`githubapp/client.go`)

`token`, `inflight` are the two maps; `phase` is where a goroutine is in
`Token`. `Hit`, `Join`, `Lead` are the branches of the first section under the
mutex, `MintReturns` is lines 85-88 outside it, `Publish` the second section.
A token is its expiry and `clock` is `now()`. Both `select` cases of a follower
are actions (`Receive`, `GiveUp`); after the channel is closed both can be
chosen. `GitHubClient` adds the loop: `at`, `attempt`, `retryable`; GitHub
carries out a request or not, answers or not, and asks for a delay or not
(`Execute`, `TransportFails`, `Respond`). The ghost `executed` counts how often
it was carried out.

What a reader may not expect: a follower inherits the leader's error, also when
that is the end of the leader's own context; and a token is fresh relative to
the moment the producing call began, not the moment a follower joined it
(`ReturnedTokenFresh`). Go panics inside `Mint` are not modelled (no deferred
cleanup exists: the call would stay in flight).

### CreditLedger and Billing (`billing/`, `migrations/0011`)

`ledger` is the set of rows, `Balance` what `LedgerStore.Balance` answers: the
sum of a tenant's rows, since no table keeps another. The
table's constraints are `Recorded` (unique idempotency key) and
`BreaksConstraint` (one reservation and one terminal row per review, sign
check). A worker is a review job: `Allow` or `Skip` (the gate), `Reserve`,
`Finish` or `Fail` (settle or refund), and `Drop` when it dies or gets an error.
`try` in a key lets a redelivered job use the same or a new key, with an
estimate of its own. Deleting a tenant is modelled by what the cascade and the
trigger do together (`DeletionJob`): it takes effect only while the ledger has no
row of the tenant. The documents promise the erasure within 30 days
(`docs/PRIVACY_POLICY.md:28-29`, `docs/DATA_RETENTION.md:15-18`), which this code
cannot keep for a tenant that ever had a credit transaction; that follows from the
guard and is in no run. Not modelled: the Stripe event that leads to
`Purchase`, and how an uninstallation reaches the database.

### ProposalQueue (`learning/proposal_queue.go`)

One proposal (they share nothing). `at` is where each reviewer's call is; each
call of the store or the publisher is an action. What the store promises is
read off its method names and comments: "Pending" methods act on a pending
proposal; complete and release may or may not take effect in another state than
`publishing` (`Leave`). `disturbed` records the four things that make the queue
inconsistent (overlapping accepts, an edit between a load and its claim, a
crash, a publication that happened although it reported failure).

### RepositoryIndex (`indexer/`, `graph/incremental.go`)

A tree maps paths to blobs; a blob imports paths and has a size. `Push` queues a
job; a worker does `Clone`, `Read`, `Apply`; `Retry` puts the job back at any
point. `Limited` is `ApplyRepositoryLimits`, `Upsert`/`Delete` are
`PlanReindex`, `Changed`/`Relink` are `PlanIncremental`, `Replaced`/`Relinked`
are what the mutation does to the rows and, by the foreign keys, to the edges.
The store is not in the repository: `Relinked` follows the mutation's fields and
the cascades of 0005. `version`, `cloned`, `read` and `overtaken` are ghosts that
say whether another mutation came in between. How the job reads the inventory
and the importers is the orchestrator's affair, which is not in the repository
either; both are read in one step here.

### StickySummary (`githubapp/summary.go`)

`comments` is the list GitHub answers, in its order, of the publisher ("bot") and
of everybody else; `marked` says whether the text contains the marker. One
request is one action: `Find`, `FindNothing`, `NextPage` and `ReachLimit` are what
one page leads to; `Write`, `Refused` and `GiveUp` are what a write leads to.
After `GiveUp` the request is in `flying` and may still be carried out (`Land`).
People add and delete comments at any time. `disturbed` records the cases in
which the search and the write may miss each other (`Disturb`): without them the
publisher keeps one summary, with them it does not and cannot, since GitHub
offers no conditional request. Not modelled: people with write access who edit
the publisher's comment, and pages larger than the 2 MiB that line 99 reads.

### ReviewRounds (`review/`, `githubapp/review.go`, `checks.go`, `commands.go`)

A worker goes through `Begin`, `StartCheck`, `Analyse`, `Post`, `CompleteCheck`;
each request can also be refused, or carried out without an answer
(`StartFails`, `PostFails`, `CompleteFails`: none of them is repeated by the
client), and a worker can die wherever it is (`Die`), which leaves its check run
open for good and its head to another run. `Analyse` is everything between two requests: `Decodes`, `Eligible`,
`Suppressed`, `Dismissed`, `Fixed`, `Anchored`, `RankAndCap`, composed in
`PlanOf`. `RankAndCap` says of each finding whether the loop over the sorted
findings keeps it (`Kept`: nothing stronger that is kept is the same finding, and
fewer than the cap are stronger); that this is what the loop returns is
`LoopAssumption` of `MCReviewRounds`, which TLC evaluates for every set of findings. `Command` is a person's "ignore". Nothing in `src/` calls these
functions: their order is that of `ROADMAP.md` 60-79, and what is kept between
rounds (`rows`, `reviewed`) is `PriorFinding` and the two SHAs of
`PlanReReview`. The order in which a review lists its comments is left out. A review that was posted without an answer is on the pull request (`posts`)
and leaves the caller nothing; another run may then post the same findings again.
`owed` records what the verifier supported in a run, until GitHub refuses its review
or its worker dies before it is sent: `NothingLost` holds the reviews on the pull
request against it. `Scope` is what the path pattern of a suppression matches. Titles are sets of words and confidences per cent, as `SameFinding` compares them.

### LLMGateway, BackgroundJobs and Delivery

A call of `Complete` is `CacheHit` or `CacheMiss`, attempts (`ProviderAnswers`,
`ProviderFails`, `Wake`), and `AcceptAnswer` or `RejectAnswer`; no lock connects
two calls. `paid` counts what the provider charges (`Payments`: one element for
each charge), `recorded` what the deferred
call record says. `disturbed` is set when a prompt may be paid twice for a
reason the code accepts: an expired entry, two misses at once, a failure.

A behaviour of `BackgroundJobs` is about one kind of job; the kinds share nothing
but their shape. A worker takes the items of a `list` in order; what matters of an
item is whether it wants an effect (`good`), is valid without one (`quiet`) or is
refused by the loop's validation (`bad`). Every step of every job has its
action: the row, the mark, the effect, the question to the model. `StepFails` lets
any of them fail before or after it has taken effect, also by the death of the
worker. That a job is tried again, from its first item and perhaps while the
former try is still running, is what the queue does; River is not in the
repository and this is external.

`Delivery` says what can be promised about marks and effects, and `PromiseOf`
which promise each kind makes, by the order of its two steps: the margin alert at
most once and perhaps never, an inferred rule's pull request at least once, a
demo review and a webhook delivery once, a reply never before it is stored.

### ReviewExport (`export.go`, `explanation_generate.go`, `action.yml`, ...)

A process is a command: `GenerateExplanations`, `ModelAnswers`,
`PublishExplanations`; `StartExport`, three reads, three writes, and, for other
processes than the workflow, `WriteSnapshot`. The workflow goes on with
`PrivacyCheck`, `VerifyBundle` (`sha256sum --check`) and `SummaryComment`. The
head is resolved at the start (`head` of the process) and every file is read
later; `Push` and `Supply` move the ref and replace the files at any time, `Crash`
ends a process and may leave a file cut off (`Partial`). A file is a record of
what it says; its bytes are equal when the records are. The committed results of
a commit never name that commit, since a file cannot contain its own hash
(`ExportAssumption`). `disturbed` says that another process wrote into the
workflow's directory. Findings and explanations stay in the report with the revision
that their file declares, which the JSON of the code drops once it is compared.
The input `privacy-check` of the action is taken as its default, true; that a
workflow may switch the check off (`action.yml:112-114`) is not modelled, and then no
claim is made of the contents.

### ReviewArtifact (`export.go`, `export_render.go`, `attention.go`, `inspection_questions.go`, `review_blocks.go`)

`Analysis` maps a comparison to hunks, rule hits, attention flags, inspection
questions, related blocks and the state of the report. A path is a number, a
file has one hunk, the text of a line is a class: a public declaration, a hit of a
rule, a line that looks like a header of git once the sign of the diff stands before
it (`++` when added, `--` when removed), or one that contains `diff --git `. Whether git names a path
plainly, in quotes or with a tab at its end is its `name`, and `Diff` what
`staticDiffPath` finds of it: nothing in quotes, and for a path with a space a second
entry whose path ends with a tab (`IsListed`). The last two classes
make the two readings of a diff (`Hunk`, `Numbered`) differ, as in the code. A
number is counted from the positions a reading counts (`NumberedLine`). A list of
the report is a set with the order of the code (`HitBefore`, `RaisedBefore`,
`QuestionBefore`), and a limit keeps what has fewer than that before it (`First`);
the budget of bytes is a walk over the files, for what fits depends on what was read
before (`AttentionCandidates`). `Groups` joins the roots file by file, as the code
does. The instance is `MCReviewArtifact`; `MCOfflineTools` runs `Analyse` as it is.

### ConfigCascade, CodeGraph, Chunker

`ResolveConfig` folds `Apply` over the files from the root; `ResolveCascade` asks
it for each directory on the way down, and is the one step of `CascadeSpec`.
`Files` are the contents a file may have. `MCOfflineTools` runs `CascadeSpec` as it
is, next to the other tools. A question to `CodeGraph` is a record, its
answer what the function returns; a symbol's signature and lines are one value. A
graph is the sequence in which a store returns its edges, and a loop that collects
up to a limit is `FirstOf`: what stands where fewer different things were found
before. `Answer` is the one step of `GraphSpec`, which `MCOfflineTools` runs as it is.
What a question may hold is `QuestionsAssumption`.
The outgoing edges of a changed file that the parser no longer returns stay in the
overlay if their ends still exist: `Overlay` has them as the code does, and no
property says they are current. `Chunker` is `Chunk` with its loops as actions:
units (`MakeUnits`), the binary search (`Probe`, `TakePiece`), packing (`Pack`).
A byte is a class: word character, first or following byte of a character,
separator, newline; tokens are counted as `approximateCounter` does. That a file is
UTF-8 is the first check of `Chunk`; that a symbol begins and ends between two
characters is true of the parsers' nodes. `MCOfflineTools` runs `ChunkNext` as it is.

## 3. Runs

| Run | Instance | States | Shows |
| --- | --- | --- | --- |
| `github_client` | 3 goroutines, 1 installation, 1 retry, expiry up to 3 | 219,658 | the properties below |
| `billing` | 2 workers, 2 reviews, 2 tries, 1 tenant, 1 purchase, 1 application | 1,078,306 | the properties below |
| `proposals` | 3 reviewers, 2 texts, 1 crash | 96,882 | the properties below |
| `index` | 3 paths, 3 blobs, 4 trees, 2 workers, 3 pushes, 2 files and 3 bytes | 36,679 | the properties below |
| `sticky_summary` | 2 publishers, 2 pages of 2, 6 comments, 3 upserts | 1,252,315 | the properties below |
| `review_rounds` | 2 runs that may overlap, 2 heads, 5 findings in reports of up to 3, 2 histories, 1 diff, 2 comments inline | 2,235,968 | the properties below |
| `background_jobs` | 10 kinds, 7 lists of up to 2 items, 2 overlapping tries, 2 faults, 1 retry of a call, expiry after 1 | 142,742 | the properties below |
| `offline_tools` | one tool at a time: 3 commits, 2 processes, 2 exports, 2 replacements; every diff of up to 3 lines, every choice of up to 4 of 13 files, among them one in quotes, one with a space and one that is a test by its name only; every cascade of 2 files; 4 kinds of questions to graphs of up to 7 edges; every file of up to 7 bytes, 4 limits | 3,728,901 | the properties below |
| `proposal_stale_text` | 2 reviewers | | a counterexample, see findings |
| `index_race` | 2 workers, 2 pushes | | a counterexample, see findings |
| `report_silent` | the comparisons of `offline_tools`, 2 hits | | a counterexample, see findings |
| `chunker_utf8` | 2 files, one with a character of two bytes | | a counterexample, see findings |

Properties, with the mistake that would break each:

- `SingleFlight` - no two mints at once for an installation (a call that is not
  registered). `NoOrphanedFollower` - whoever waits waits on a live leader (a
  call that is not removed). `ReturnedTokenFresh` - no returned token is within
  the skew of its call (an unchecked mint). `CacheOnlyRenewed` - line 95
  overwrites without looking, and still the cache never goes back.
- `PostAtMostOnce` - a request that is not idempotent is carried out once at most
  (a retry of anything); another one `MaxRetries + 1` times, which is part of
  `TypeOK` and the theorem `ClientRetryBudget`. `DoReturns` - every call comes back
  (a channel that is not closed).
- `OnlyOverrunsGoNegative`, `ReservationClosedOnce`, `ApprovalMatchesGrant` - the ledger under redelivery and races.
- `AcceptedIsPublished`, `UndisturbedIsConsistent`, `NeverStuckPublishing` - the
  queue under failures; the second says precisely under which use it is right.
- `GraphIsSound` - no interleaving leaves an edge the contents do not have.
  `SerialIndexIsFull`, `SerialIndexIsCurrent`, `SerialIndexIsLimited` - without
  overtaking, incremental is full, current, and within the limits.
  `FilesSelfHeal` - a later job repairs whatever mixture it finds.
- `OneSticky` - one summary, also when the search is cut off (a limit that ends
  the loop without an error). `ConfirmedIsShown` - what GitHub confirmed is there
  (a status that is not looked at). `OthersUntouched` - under any interleaving
  (a marker that is trusted without its author).
- `NothingLost` - every finding the verifier supports is on the pull request, or was
  suppressed by enough distinct complaints, dismissed, merged into one as strong that
  is really there, or crowded out by others there that are at least as severe;
  nobody is owed a review that was refused or not sent (a refusal taken for success).
  `ReviewedIsPosted` - a head counts as reviewed and a row is kept only with the
  review on the pull request that they are about, one per run (a POST that is
  repeated when its answer is lost).
  `DismissedStaysSilent` - also when the finding moved and two runs overlap
  (recognition by place). `P0FailsTheCheck` - no ranking or merging hides it
  (confidence before severity). `ChecksComplete` - only a lost or refused request or
  a dead worker leaves a check open (a conclusion that `Complete` refuses).
- `PaidOnce` - a retried job does not pay again (an answer that is not cached).
  `CostIsRecorded` - the records never exceed the charges and fall short only
  after a failure (a hit that is charged). `DeliversAsPromised` - each kind of job
  implements `Delivery` (an alert for a row that was there). `EveryItemServed` -
  once the faults end, each good item that no bad one shuts out is dealt with
  (an error where there is nothing to do).
- `EvidenceIsOfTheHead` - verification that counts as available, findings and
  explanations declare the head of the report as their revision and speak of its
  files, although inputs change between the steps (findings whose revision is not
  compared). The report keeps the files with the revision they declare, so a
  comparison that is left out is seen: `FindingsOfAnyHead`,
  `ExplanationsOfAnyHead`, `VerificationAsGiven`.
  `CheckedBundleIsClean` - what passes the checksums is one report, and the one the
  privacy check saw unless somebody else wrote there (a manifest of what is on
  disk). `ReportShowsWhatItRead` - a report that calls its analysis available has
  every flag and question, also for a file that only one of the two notions of a test
  (`IsTestFile`, `IsTestPath`) takes for one; the hits of a file whose diff is found
  and has no line that looks like git's own are lines of the page, and complete unless
  the limit cut them; blocks are the connected components (lines numbered by
  position). Of the other diffs and of what was cut it says nothing, as the report
  does: `SkippedAnalysisIsVisible`, under findings. `ConfigOnlyTightens` - strictness and failing on a P0 only
  become stricter on the way down, the rest only accumulates; the number and the
  types of inline comments are free (last value wins).
  `GraphAnswersAreExact` (an edge whose target is not replaced).
  `ChunksRebuildContent` - each byte in one chunk, in order, within the limits, and
  the symbols whole and named; only overlapping symbols and contradictory limits are
  refused (a tail that is left out).

The type invariants of the index, the summary and the queue are conjuncts of
proved inductive invariants and are in no run.

Why the bounds are enough. Token: a leader, a follower and a latecomer are all
roles there are, and installations share nothing but the mutex; `MaxTime` 1 with
`Skew` 1 and expiries to 3 has tokens that are expired, within the skew, fresh
and expiring while cached. One retry distinguishes a first, a last and a
forbidden attempt. Billing: two workers meet on one review or compete on two;
credits up to 2 give estimates below, at and above the balance and a settlement
beyond its reservation; two tries give a repeated and a new key. Proposals: two
accept and a third edits or rejects. Index: an edge needs two paths and a
third lets files shift under a limit of two; two overlapping jobs and a third
push to repair what they left. Summary: six comments fill
both pages and leave the summary behind the limit; three upserts create, lose and
repair; two publishers are symmetric. Rounds: two runs overlap at every step or
follow each other with a push and a dismissal between; of the findings, two are
not alike but like a third, one moved to a file out of scope, one is a P0 less sure
than what it is merged with; the diff anchors some and splits a range of another. Jobs: an item in front
of and behind each quality; two tries overlap anywhere, the faults hit one try
twice or both, and there is another try when they are over. Exporter: three
commits give results of this head, of another and none, and rules that do not
decode; two replacements fall between any two reads. Operators: every limit is
smaller than the largest input, so each is met and exceeded; seven bytes give a
unit that is split twice. The proofs remove the bounds for the
properties they cover.

Deadlock is checked in `github_client`. The other systems may stop: a
proposal that is decided, an index that is up to date, a tenant that is gone, a
round that is concluded, a job that has returned, a tool that has ended.

Fairness. `DoReturns` assumes that a goroutine that can run does, that a mint and
an exchange end (the HTTP transport answers or breaks) and that timers fire;
not that a context is ever cancelled. `NeverStuckPublishing` assumes that a call
that has begun goes on, and that somebody accepts again a proposal found
`publishing`: nothing in the code does that by itself. `EveryItemServed` assumes that a worker that can go on does, that the faults are
finitely many, and that the queue tries a job again until it returns without an
error. `EveryFileIsChunked` assumes that the one goroutine of `Chunk` runs.

## 4. Findings

- `proposal_stale_text`: an edit that falls between the load and the claim of
  `Accept` is stored and shown as accepted, and is not what the pull request
  contains.
- `index_race`: one transaction per mutation
  (`docs/INCREMENTAL_REINDEX.md:5-7`) is not enough for a recorded head to have
  its files, because a mutation does not say which inventory it changes. It
  takes two overlapping jobs of one repository; a queue that runs them one at a
  time would rule it out, and nothing in the repository asks for that.
- `report_silent`: `SkippedAnalysisIsVisible` says that a report which calls its
  analysis available has a hit for every added line a rule matches, with the number of
  that line; `ROADMAP.md:233-235` says that "skipped or bounded analysis and missing
  inputs are visible". `staticDiffPath` (`export.go:486-497`) does not find a path that
  git puts in quotes, as it does by default with letters outside ASCII: the file is
  listed without its diff, no rule looks at it, and the analysis is "available". Three
  other causes violate the property when such files are taken out of `Comparisons`: an
  added line that begins with `++` is not counted (`export.go:529`), so the hits below
  it have wrong numbers; what follows an added `diff --git ` belongs to no file
  (line 425); and hits end at 500 (line 700) without a word. Over the other files it
  holds, which `ReportShowsWhatItRead` says in detail.
- `chunker_utf8`: `boundedEnd` (`indexer/chunk.go:145-165`) moves the middle of its
  binary search back to the start of a character; when that is below `low` and the
  prefix fits, the next round is the same as this one, for ever.
  `docs/INDEX_CHUNKING.md:4-6` promises that oversized symbols are split at
  UTF-8-safe boundaries. The chunker has no caller outside its tests, which split
  ASCII only; over characters of one byte it does what is promised
  (`ChunksRebuildContent`).

## 5. Proofs

All theorems hold for every value of the constants that satisfies the named
assumptions (`SkewAssumption`, `CreditAssumption`, `TreesAssumption`, ...), and
`tlapm` checks them to the last leaf. Each proof module has one lemma per action
and one theorem that combines them.

- **Tokens** (`GitHubClientProofs`). `SingleFlight` is not inductive: that two
  goroutines are not both minting follows from `InflightIsLeader` (`inflight`
  names exactly the leaders). `CacheOnlyRenewed` needs `LeaderSawStale`: while a
  refresh is in flight the cached token stays the one its leader found too old,
  and by `OutcomeFresh` what it publishes is younger. Together: `TokenInv`.
- **Client** (`GitHubClientProofs`). `ClientImplementsTokenSource`: every step of
  the client is a step of `TokenSpec` or a stutter, so the theorems about tokens
  carry over without a second proof (`ClientTokenSafety`,
  `ClientCacheOnlyRenewed`, `ClientNoOrphanedFollower`, `ClientReturnedTokenFresh`,
  `ClientTypes`). `ClientInv` counts: before attempt n at most n copies of the
  request were carried out.
- **Billing** (`BillingProofs`). `BillingInv`: keys name rows and say what wrote
  them, the unique indexes hold, a running worker's reservation is in the
  ledger, and a terminal row matches its reservation. The overdraft bound then
  follows action by action: a row that is new changes the sum by its credits
  (`CreditsAdd`, over any finite ledger), one that is refused by nothing
  (`AppendBalance`). `BillingTypes`.
- **Proposals** (`ProposalQueueProofs`). `QueueInv`; its core is `OneAcceptor`,
  which without a disturbance ties the state `publishing` to the one call that
  holds the claim.
- **Index** (`RepositoryIndexProofs`). Three lemmas about one mutation: planned on
  any inventory it leaves no stale edge (`RelinkedIsSound`); planned on the
  stored one it leaves the planned files (`ReplacedIsCurrent`) and all of their
  edges (`RelinkedIsFull`). `IndexInv` adds that a plan knows its age and that the
  last push is queued, in work, or indexed. `IndexSerialIsLimited` is the limits
  themselves: along the sorted paths, what is kept so far never exceeds either
  (`KeptIsLimited`), whatever is skipped; and what is stored undisturbed is what
  the limits leave of the recorded head (`SerialIndexIsFull`).
- **Summary** (`StickySummaryProofs`). `SummaryInv`. Unconditionally, whatever a
  request is aimed at is the publisher's own (`TargetsAreOwn`), hence
  `OthersUntouched`. Undisturbed, there is one call or one late request
  (`OneAtATime`), the pages it has read hold no summary (`ReadIsWithout`), so what
  it writes without a target is the first (`CreatesTheFirst`). Three lemmas say
  what an append, an edit and a deletion do to the list.

- **Jobs** (`BackgroundJobsProofs`). `JobsDeliverAsPromised`: `BackgroundJobs`
  implements `Delivery` (`INSTANCE Delivery WITH promise <- PromiseOf, ...`), for any
  number of workers, items, retries and faults. Every step, of whatever job, is
  first shown to be silent, a mark, an effect, or a mark that is the effect
  (`Classified`, one lemma per group of jobs). `JobsInv` then only concerns the
  classes; its core for the margin is that the worker that alerts made the mark
  and no other will (`MarginInv`), for inference that a mark follows an effect
  (`InferenceInv`), for replies the opposite (`ReplyInv`). `PaidOnceHolds`:
  until something disturbs it, one call at a time asks for a prompt, asks only when
  nothing was paid, and what was paid is in the cache or in that call's hands
  (`PaymentInv`: `OneAsks`, `UnpaidIsAsked`, `PaidIsKept`). `GatewayCostIsRecorded`
  holds disturbed or not: each payment is recorded, still being checked, or fell to
  a failure (`CostInv`). `JobsTypes` bounds the effects, for which each way to
  repeat one has to be counted (`Repeats`): a pull request of the inference that is
  not marked is about to be, or fell to a failure (`InferenceTries`); a reply ends
  the job, so only the tries that overlap it reply as well (`ReplyTries`); the
  others act once (`OneTry`).
- **Rounds** (`ReviewRoundsProofs`). `RoundsDismissedStaysSilent`, for any workers,
  runs, findings, histories and diffs: a row that dismisses is never taken away,
  since what a plan resolves was open and rows are never reopened
  (`SilencedIsDismissed`, `FixedIsOpen`), and a plan shows nothing that was silenced
  before its run began (`PlansAreAudible`). `RoundsChecksComplete`: a worker has a
  check run of its own and a conclusion that `Complete` accepts before it tries to
  complete it (`ChecksAreOwned`), and one that dies abandons it. `RoundsNothingLost` and `RoundsP0FailsTheCheck` are
  about what ranking keeps. The order `Stronger` is total and strict (`StrongerOrder`)
  and a finite set has a weakest member (`Weakest`), so the set that `RankAndCap`
  describes exists (`RankAndCapKeeps`); what it drops is the same as something
  kept, or the cap is full, and what is kept is at least as severe
  (`RankAndCapExcuses`). With the suppressions
  (`SuppressedHasComplaints`) each finding of a plan is shown or excused
  (`PlanExcuses`), and no later step takes an excuse away (`ExcuseStays`). From the
  plan it gets to the pull request because runs belong to one worker each and one that
  has not posted has no review yet (`OwnRuns`), so what is owed for it is what its plan
  accounts for (`PlansAccount`) until it is posted, refused or given up
  (`PostingMoves`); `RoundsReviewedIsPosted` rests on the same facts. A P0 can
  only be excused by another P0, or it is dismissed. `RoundsTypes`: a worker's check
  run is its own run's (`OwnChecks`), plans and posts are within the cap
  (`PlansFit`, `PostsFit`), and the completed check runs are those with a conclusion
  (`Concluded`).
- **Exporter** (`OfflineToolsProofs`). `ExportInv`: what a process has read is about
  the head it resolved (`ProcessesAreSound`), a manifest speaks of one report
  whatever the files are by now (`ManifestIsOfOneReport`), and between the privacy
  check and the comparison nobody but a disturber writes (`CheckedIsWhatIsThere`).
  From it `EvidenceOfEveryHead` and `EveryCheckedBundleIsClean`, for any commits,
  inputs and processes.
- **Configurations** (`OfflineToolsProofs`). `ConfigCascadeOnlyTightens`, for cascades
  of any length. What a prefix comes to is its last file applied to what the files
  above it come to (`AfterSteps`); applying a file tightens or refuses
  (`ApplyTightens`); tightening is transitive (`TighterAgain`), so every directory is
  at least as strict as each one above it (`CascadeTightens`). Disabled rules and
  repositories only accumulate; nothing is claimed of the inline limit and the types.

- **Reports** (`OfflineToolsProofs`). `ReportsShowWhatTheyRead`, for any comparison, rules
  and limits. `ReportInv` only says that the report is `Analysis` of the comparison;
  the work is in three lemmas. What was cut had as many before it as the limit, so a
  loop that kept fewer kept everything (`FirstIsFull`): this gives the flags, the
  questions (`ReportIsComplete`) and the hits that were not cut. Where the diff is found
  and no line looks like git's own both readings number alike, so a hit and its context are on the page
  (`HitsShown`). For the blocks, what has one root is connected and whatever the files
  joined so far share has one root (`Together`), which each join keeps (`JoinedStep`);
  after the last file the roots are the components (`BlocksAre`).
- **Graph** (`OfflineToolsProofs`). `GraphIsAnsweredExactly`, for any graph, question
  and limit, one lemma per kind of question. A walk is told level by level
  (`LevelIsSound`): as long as the limit is not reached, what was found is what is
  within the distance, and what lies beyond the earlier levels was found as well;
  once it is reached, the number is the limit. The blast radius adds that an item
  is only left out when the list is full (`BlastsAreHonest`), overlays that a
  replacement is the last symbol of the head with the key of the last one of the base
  (`OverlaysAreClosed`).

- **Chunks** (`OfflineToolsProofs`). `ChunksRebuild`, for files, symbols and limits of
  any size. At any moment the chunks, the pieces not yet packed, the one being
  searched for and the units not yet split are chains that meet end to end over the
  file (`LaidOut`). A piece is within the limit because the search only remembers
  middles that are (`SearchIsSound`) and one character has one word at most
  (`CountOfRune`); a chunk is, because cutting a text loses no word (`CountSplits`,
  `CountOfPieces`). A unit that overlaps a symbol is that symbol, a piece of it has
  its name (`PartsAreSound`), and a place in a chain is in one part of it
  (`ChainCovers`, `ChainIsDisjoint`). The theorem is about what is returned; that
  the search need not end is the finding of `chunker_utf8`.

Sums, folds and the recursion over sorted paths are taken apart without the
induction theorems of the library, which have an operator as a parameter: the
recursive function is unfolded once (`CreditsUnfold`, `BytesUnfold`, `KeptUnfold`,
`FoldUnfold`), shown to exist and to be determined, and a claim about all finite
sets, or all numbers, is proved by looking at a smallest one for which it fails
(`SmallestSet`, `SmallestNumber`).

Assumptions on the constants beyond their types: the findings and the issues of a
history are finite sets (`FindingsAssumption`, `HistoriesAssumption`), so are the
workers of the jobs; the sorted paths are a sequence of paths
(`OrderAssumption`); a configuration file lists finitely many repositories
(`CascadesAssumption`); applicants, plans and amounts of the ledger are well-formed
(`ApplicantAssumption`, `CreditAssumption`); the files of a comparison are sorted and
have distinct paths (`ComparisonsAssumption`: they are the keys of a map, sorted); a
question is one the functions take (`QuestionsAssumption`: `BuildOverlay` and
`Resolve` return an error for IDs that are zero or repeated and for edges from nowhere;
that the stored rows have unique IDs and edges with both ends is the schema's, that a
symbol lies in the file it was parsed from is the parser's); the limits of the report and
of the blast radius are natural numbers (`ReportLimitsAssumption`, `ItemsAssumption`)
and the rules are a sequence (`TeamRulesAssumption`); a file is UTF-8, its symbols begin and end
between characters, and the limits are not zero (`ContentsAssumption`,
`LimitsAssumption`: `Chunk` checks the first and replaces a limit of zero). The bounds of clocks, pushes, runs and
faults are arbitrary numbers.

Only model-checked:

- the liveness properties `DoReturns`, `NeverStuckPublishing`, `EveryItemServed`:
  they need fairness and `ENABLED`, which this prover does not decide;
- `AcceptedTextIsPublished`, `IndexedHeadIsComplete`, `EveryFileIsChunked` and
  `SkippedAnalysisIsVisible`, which do not hold (section 4).

## 6. Not modelled

- Text and scores: prompts, rendering of HTML and diagrams, weights of confidence,
  wording of summaries, `review/context.go`, `cross_repo.go`, `provenance.go`,
  `reference_files.go`, `requirements.go`, `addressed.go`, weekly metrics, evaluation. Each
  is arithmetic or concatenation over one input, without a step between which
  anything could happen; what bounds the exporter's output is in `ReviewArtifact`.
- Parsers: tree-sitter, SCIP, language detection, the syntax of rules and globs
  and the two commands that validate a file.
- Single requests: signed report links (`report/access.go`), Stripe signatures,
  sessions and settings of the dashboard, Slack, issue trackers, GitLab and `scm`,
  remember and forget. What follows a Stripe event is not in the
  repository.
- `static_report/report.js`: state of one page in the browser's storage.
- The runtime: `cmd/px1d` serves health checks and wires nothing together, so there
  is no composition of the hosted components to be faithful to beyond those of
  section 1.

Worth doing next: the browser's acknowledgements with two tabs, three overlapping
rounds.
