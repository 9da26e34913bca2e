--------------------------- MODULE BackgroundJobs ---------------------------
(***************************************************************************)
(* The jobs that work off a list and have effects elsewhere.  A behaviour  *)
(* is about one kind of job: the margin alerts (billing/margin.go), rule   *)
(* inference (learning/inference.go), replies (learning/replies.go), demo  *)
(* reviews (onboarding/demo.go), reaction polls (githubapp/reactions.go),  *)
(* embeddings and summaries (indexer/embed.go, summary.go), daily metrics  *)
(* (analytics/events.go), reports (report/publish.go), or the webhook that *)
(* starts all of them (webhook/handler.go).  A worker may fail or die      *)
(* between any two steps, the answer of a step that was done may be lost,  *)
(* the job is tried again from its first item, and a retry may overlap the *)
(* try before it.  Replies and summaries go through the model gateway.     *)
(*                                                                         *)
(* Abstractions.  An item is its position in the list; what matters of it  *)
(* is its quality.  The retry of a job is the queue's and not in src/.     *)
(***************************************************************************)
EXTENDS LLMGateway, Sequences

CONSTANTS
  Kinds,      \* the kinds of jobs of this instance
  Qualities   \* the lists a job may get: sequences of qualities


(* good: wants the effect.  quiet: valid, but there is nothing to send.     *)
(* bad: refused by the validation of the loop.                              *)
Quality == {"good", "quiet", "bad"}

ASSUME JobsAssumption ==
  \A q \in Qualities : q \in Seq(Quality) /\ q # <<>> /\ DOMAIN q \subseteq Prompts

VARIABLES
  kind,
  list,      \* the qualities of the items
  at,        \* where each worker is
  item,      \* the item it works on
  marked,    \* items the job's store has
  effects,   \* the effects each item has had
  finished   \* whether a try of the job has returned without an error

jobVars == <<kind, list, at, item, marked, effects, finished>>
vars == <<gatewayVars, jobVars>>

Place == {"idle", "item", "fetch", "ask", "mark", "effect"}

PromiseOf ==
  CASE kind = "margin"              -> "at_most_once"
    [] kind = "inference"           -> "at_least_once"
    [] kind \in {"demo", "webhook"} -> "once"
    [] kind = "reply"               -> "after_mark"
    [] OTHER                        -> "none"

Items == Prompts

Init ==
  /\ GatewayInit
  /\ kind \in Kinds /\ list \in Qualities
  /\ Len(list) = 1 <=> kind \in {"reply", "rollup"}  \* these get one item each
  /\ at = [w \in Workers |-> "idle"]
  /\ item = [w \in Workers |-> 1]
  /\ marked = {} /\ effects = [i \in Items |-> 0]
  /\ finished = FALSE

At(w, k, place) == kind = k /\ at[w] = place
Go(w, place) == at' = [at EXCEPT ![w] = place]
Is(w, quality) == list[item[w]] = quality

(* A new try starts at the first item: no job keeps its position.           *)
Begin(w) ==
  /\ at[w] = "idle" /\ ~finished
  /\ Go(w, "item") /\ item' = [item EXCEPT ![w] = 1]
  /\ UNCHANGED <<gatewayVars, kind, list, marked, effects, finished>>

Advance(w) ==
  IF item[w] = Len(list)
  THEN Go(w, "idle") /\ finished' = TRUE /\ UNCHANGED item
  ELSE Go(w, "item") /\ item' = [item EXCEPT ![w] = @ + 1] /\ UNCHANGED finished

(* The job returns an error, or the worker dies.                            *)
Stop(w) == Go(w, "idle") /\ UNCHANGED <<item, finished>>

Fail(w) == Stop(w) /\ Fault /\ UNCHANGED <<clock, cache, callVars, paid, recorded, disturbed>>

Proceed(w, place) == Go(w, place) /\ UNCHANGED <<gatewayVars, item, finished>>
Leave(w) == Advance(w) /\ UNCHANGED gatewayVars
Refuse(w) == Stop(w) /\ UNCHANGED gatewayVars

Keep == UNCHANGED <<kind, list, marked, effects>>

(* The store's write, which may replace what is there.                      *)
Mark(w) ==
  /\ marked' = marked \cup {item[w]}
  /\ UNCHANGED <<kind, list, effects>>

Effect(w) ==
  /\ effects' = [effects EXCEPT ![item[w]] = @ + 1]
  /\ UNCHANGED <<kind, list, marked>>

(* An insert that does nothing if the key is there.                         *)
MarkOnce(w) ==
  /\ marked' = marked \cup {item[w]}
  /\ effects' = IF item[w] \in marked THEN effects ELSE [effects EXCEPT ![item[w]] = @ + 1]
  /\ UNCHANGED <<kind, list>>

-----------------------------------------------------------------------------
(* margin.go: the rows of a week.  The first bad row ends the job.          *)

MarginRow(w) ==
  /\ At(w, "margin", "item") /\ Keep
  /\ IF Is(w, "bad") THEN Refuse(w) ELSE Proceed(w, "mark")

(* Mutant: an alert is sent whether the row was new or not.                 *)
RecordMarginAlways(w) ==
  /\ At(w, "margin", "mark") /\ Mark(w)
  /\ IF Is(w, "good") THEN Proceed(w, "effect") ELSE Leave(w)

RecordMargin(w) ==
  /\ At(w, "margin", "mark") /\ Mark(w)
  /\ IF item[w] \notin marked /\ Is(w, "good") THEN Proceed(w, "effect") ELSE Leave(w)

AlertLowMargin(w) == At(w, "margin", "effect") /\ Effect(w) /\ Leave(w)

(* inference.go: clusters with too little evidence are passed over.         *)

RuleProposalExists(w) ==
  /\ At(w, "inference", "item") /\ Keep
  /\ IF Is(w, "good") /\ item[w] \notin marked THEN Proceed(w, "effect") ELSE Leave(w)

OpenRulesPullRequest(w) == At(w, "inference", "effect") /\ Effect(w) /\ Proceed(w, "mark")

MarkRuleProposal(w) == At(w, "inference", "mark") /\ Mark(w) /\ Leave(w)

(* demo.go: a repository without a merged pull request is passed over, an   *)
(* invalid one or an invalid pull request ends the job.                     *)

(* Mutant: nothing to review is an error.                                   *)
LatestMergedPullOrFail(w) ==
  /\ At(w, "demo", "item") /\ Keep
  /\ IF Is(w, "good") THEN Proceed(w, "mark") ELSE Refuse(w)

LatestMergedPull(w) ==
  /\ At(w, "demo", "item") /\ Keep
  /\ IF Is(w, "bad") THEN Refuse(w) ELSE IF Is(w, "quiet") THEN Leave(w) ELSE Proceed(w, "mark")

EnqueueDemoReview(w) == At(w, "demo", "mark") /\ MarkOnce(w) /\ Leave(w)

(* handler.go: what is not a signed delivery of a known event is refused,   *)
(* a delivery that is there already is acknowledged.                        *)

ServeHTTP(w) ==
  /\ At(w, "webhook", "item") /\ Keep
  /\ IF Is(w, "good") THEN Proceed(w, "mark") ELSE Leave(w)

Accept(w) == At(w, "webhook", "mark") /\ MarkOnce(w) /\ Leave(w)

(* reactions.go: a comment past its window is closed without a last look;   *)
(* an invalid one, or one with too many pages, ends the poll.               *)

PollReactions(w) ==
  /\ At(w, "reactions", "item") /\ Keep
  /\ IF Is(w, "bad") THEN Refuse(w)
     ELSE IF Is(w, "quiet") THEN Proceed(w, "mark") ELSE Proceed(w, "fetch")

FetchReactions(w) == At(w, "reactions", "fetch") /\ Keep /\ Proceed(w, "mark")

SaveReactionPoll(w) == At(w, "reactions", "mark") /\ Mark(w) /\ Leave(w)

(* embed.go: an item is a batch.                                            *)

NextBatch(w) ==
  /\ At(w, "embeddings", "item") /\ Keep
  /\ IF Is(w, "bad") THEN Refuse(w) ELSE Proceed(w, "fetch")

Embed(w) == At(w, "embeddings", "fetch") /\ Keep /\ Proceed(w, "mark")

UpsertEmbeddings(w) == At(w, "embeddings", "mark") /\ Mark(w) /\ Leave(w)

(* events.go: one invalid or repeated event and the day is not rolled up.   *)

EventsForDay(w) ==
  /\ At(w, "rollup", "item") /\ Keep
  /\ IF Is(w, "bad") THEN Refuse(w) ELSE Proceed(w, "mark")

ReplaceDailyMetrics(w) == At(w, "rollup", "mark") /\ Mark(w) /\ Leave(w)

(* publish.go: all files are read and measured before the first is put.     *)

Export(w) ==
  /\ At(w, "report", "item") /\ Keep
  /\ IF \E i \in DOMAIN list : list[i] = "bad" THEN Refuse(w) ELSE Proceed(w, "mark")

PutObject(w) == At(w, "report", "mark") /\ Mark(w) /\ Leave(w)

(* summary.go and replies.go: the model is asked, its answer stored; a      *)
(* question is then answered on GitHub.                                     *)

Asks == kind \in {"summary", "reply"}

Prepare(w) ==
  /\ Asks /\ at[w] = "item" /\ Keep
  /\ IF Is(w, "bad") THEN Refuse(w)
     ELSE IF kind = "summary" /\ Is(w, "quiet") THEN Leave(w) ELSE Proceed(w, "ask")

Ask(w) ==
  /\ Asks /\ at[w] = "ask" /\ Complete(w, item[w])
  /\ Go(w, "fetch") /\ UNCHANGED <<kind, list, item, marked, effects, finished>>

Hang(w) == Enter(w, "idle") /\ UNCHANGED <<clock, cache, prompt, attempts, paid, recorded, failures, disturbed>>

ModelFails(w) == Asks /\ at[w] = "fetch" /\ phase[w] = "failed" /\ Keep /\ Hang(w) /\ Stop(w)

ModelAnswers(w) ==
  /\ Asks /\ at[w] = "fetch" /\ phase[w] = "answered" /\ Keep /\ Hang(w)
  /\ Go(w, "mark") /\ UNCHANGED <<item, finished>>

UpsertFileSummary(w) == At(w, "summary", "mark") /\ Mark(w) /\ Leave(w)

SaveReplyClassification(w) ==
  /\ At(w, "reply", "mark") /\ Mark(w)
  /\ IF Is(w, "good") THEN Proceed(w, "effect") ELSE Leave(w)

ReplyToComment(w) == At(w, "reply", "effect") /\ Effect(w) /\ Leave(w)

-----------------------------------------------------------------------------

(* A step that fails before it has done anything, a crash between two steps *)
(* and, with Mark, MarkOnce or Effect, a step whose answer is lost.         *)
StepFails(w) ==
  /\ at[w] # "idle" /\ phase[w] = "idle" /\ Fail(w)
  /\ \/ Keep
     \/ at[w] = "mark" /\ IF PromiseOf = "once" THEN MarkOnce(w) ELSE Mark(w)
     \/ at[w] = "effect" /\ Effect(w)

Calling(w) == Call(w) /\ UNCHANGED jobVars

Step(w) ==
  \/ MarginRow(w) \/ RecordMargin(w) \/ AlertLowMargin(w)
  \/ RuleProposalExists(w) \/ OpenRulesPullRequest(w) \/ MarkRuleProposal(w)
  \/ LatestMergedPull(w) \/ EnqueueDemoReview(w)
  \/ ServeHTTP(w) \/ Accept(w)
  \/ PollReactions(w) \/ FetchReactions(w) \/ SaveReactionPoll(w)
  \/ NextBatch(w) \/ Embed(w) \/ UpsertEmbeddings(w)
  \/ EventsForDay(w) \/ ReplaceDailyMetrics(w)
  \/ Export(w) \/ PutObject(w)
  \/ Prepare(w) \/ Ask(w) \/ ModelFails(w) \/ ModelAnswers(w)
  \/ UpsertFileSummary(w) \/ SaveReplyClassification(w) \/ ReplyToComment(w)

Worker(w) == Begin(w) \/ Step(w) \/ Calling(w)

(* Expiry only matters while a job may ask again.                           *)
Time == Asks /\ Tick /\ UNCHANGED jobVars

Next == Time \/ \E w \in Workers : Worker(w) \/ StepFails(w)

(* The queue tries a job again until it returns without an error.           *)
Spec == Init /\ [][Next]_vars /\ \A w \in Workers : WF_vars(Worker(w))

-----------------------------------------------------------------------------
(* The effects of an item are bounded by the tries there are: nothing       *)
(* repeats it within one.                                                   *)
TypeOK ==
  /\ GatewayTypeOK
  /\ kind \in Kinds /\ list \in Qualities
  /\ at \in [Workers -> Place] /\ item \in [Workers -> DOMAIN list]
  /\ marked \subseteq DOMAIN list /\ finished \in BOOLEAN
  /\ effects \in [Items -> 0 .. Cardinality(Workers) + MaxFailures]

(* What each kind of job promises about its effects, whatever fails between *)
(* its steps, however often it is tried again and whoever overlaps.         *)
Promised == INSTANCE Delivery WITH promise <- PromiseOf, marked <- marked, effects <- effects
DeliversAsPromised == Promised!Spec

(* Where a bad item ends the job, the items behind it are not reached.      *)
Reachable(i) ==
  \/ kind \in {"inference", "webhook"}
  \/ kind = "report" /\ \A j \in DOMAIN list : list[j] # "bad"
  \/ kind # "report" /\ \A j \in 1 .. i : list[j] # "bad"

(* After the last failure every good item that no bad one shuts out is      *)
(* dealt with: no overlap of tries and no lost answer leaves one behind.    *)
(* An alert may be lost for good with the failure after its mark, so for    *)
(* the margins this is only the mark.                                       *)
EveryItemServed ==
  \A i \in Items :
    (i \in DOMAIN list /\ list[i] = "good" /\ Reachable(i)) ~>
      (i \in marked /\ (kind \in {"inference", "reply"} => effects[i] > 0))
=============================================================================
