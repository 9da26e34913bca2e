------------------------ MODULE BackgroundJobsProofs ------------------------
(***************************************************************************)
(* Every kind of background job delivers as promised, for any number of    *)
(* workers, items, faults and retries: BackgroundJobs implements Delivery. *)
(* The step of a job is classified first by what it does to the marks and  *)
(* the effects; the rest of the proof only looks at the four classes.  The *)
(* calls of the gateway are paid once and recorded, and what repeats an    *)
(* effect is counted.                                                      *)
(***************************************************************************)
EXTENDS BackgroundJobs, FiniteSetTheorems, TLAPS

Positions == DOMAIN list

TypeInv ==
  /\ list \in Seq(Quality) /\ list # <<>> /\ DOMAIN list \subseteq Items
  /\ at \in [Workers -> Place]
  /\ item \in [Workers -> Positions]
  /\ marked \subseteq Items
  /\ effects \in [Items -> Nat]

(* The margin: the worker that alerts is the one that made the mark, and    *)
(* nobody else has alerted or will.                                         *)
MarginInv ==
  kind = "margin" =>
    /\ \A i \in Items \ marked : effects[i] = 0
    /\ \A w \in Workers : at[w] = "effect" =>
         /\ item[w] \in marked /\ effects[item[w]] = 0
         /\ \A v \in Workers \ {w} : at[v] = "effect" => item[v] # item[w]

InferenceInv ==
  kind = "inference" => \A w \in Workers : at[w] = "mark" => effects[item[w]] > 0

ReplyInv ==
  kind = "reply" => \A w \in Workers : at[w] = "effect" => item[w] \in marked

EffectInv ==
  \A w \in Workers : at[w] = "effect" => kind \in {"margin", "inference", "reply"}

JobsInv == TypeInv /\ MarginInv /\ InferenceInv /\ ReplyInv /\ EffectInv

-----------------------------------------------------------------------------
(* The four classes of steps.                                               *)

Moves(w) ==
  /\ kind' = kind /\ list' = list
  /\ at' = [at EXCEPT ![w] = at'[w]] /\ at'[w] \in Place
  /\ item' = [item EXCEPT ![w] = item'[w]] /\ item'[w] \in Positions

Silent(w) ==
  /\ marked' = marked /\ effects' = effects
  /\ at'[w] = "effect" => kind = "inference"
  /\ at'[w] = "mark" => kind # "inference"

Marking(w) ==
  /\ at[w] = "mark" /\ kind \notin {"demo", "webhook"}
  /\ marked' = marked \cup {item[w]} /\ effects' = effects
  /\ at'[w] # "mark"
  /\ at'[w] = "effect" =>
       /\ item'[w] = item[w]
       /\ kind = "reply" \/ (kind = "margin" /\ item[w] \notin marked)

Acting(w) ==
  /\ at[w] = "effect"
  /\ marked' = marked /\ effects' = [effects EXCEPT ![item[w]] = @ + 1]
  /\ at'[w] # "effect"
  /\ at'[w] = "mark" => item'[w] = item[w]

MarkingOnce(w) ==
  /\ kind \in {"demo", "webhook"}
  /\ marked' = marked \cup {item[w]}
  /\ effects' = IF item[w] \in marked THEN effects ELSE [effects EXCEPT ![item[w]] = @ + 1]
  /\ at'[w] \notin {"mark", "effect"}

Classified(w) == Moves(w) /\ (Silent(w) \/ Marking(w) \/ Acting(w) \/ MarkingOnce(w))

(* Advancing stays on the list.                                             *)
LEMMA AdvanceMoves ==
  ASSUME TypeInv, NEW w \in Workers, Advance(w)
  PROVE  /\ at' = [at EXCEPT ![w] = at'[w]] /\ at'[w] \in {"idle", "item"}
         /\ item' = [item EXCEPT ![w] = item'[w]] /\ item'[w] \in Positions
  BY SMTT(30) DEF TypeInv, Advance, Go, Positions, Quality, Place

\* A worker that stops is idle.
LEMMA StopMoves ==
  ASSUME TypeInv, NEW w \in Workers, Stop(w)
  PROVE  /\ at' = [at EXCEPT ![w] = at'[w]] /\ at'[w] = "idle"
         /\ item' = [item EXCEPT ![w] = item'[w]] /\ item'[w] \in Positions
  BY DEF TypeInv, Stop, Go, Positions, Place

\* A worker that proceeds stays at its item.
LEMMA ProceedMoves ==
  ASSUME TypeInv, NEW w \in Workers, NEW place \in Place, Proceed(w, place)
  PROVE  /\ at' = [at EXCEPT ![w] = at'[w]] /\ at'[w] = place
         /\ item' = [item EXCEPT ![w] = item'[w]] /\ item'[w] = item[w] /\ item'[w] \in Positions
  BY DEF TypeInv, Proceed, Go, Positions, Place

-----------------------------------------------------------------------------
(* Each kind's steps are of these classes.                                  *)

\* The guardrails of the margin (margin.go): an alert only after a new mark.
LEMMA MarginSteps ==
  ASSUME TypeInv, NEW w \in Workers, MarginRow(w) \/ RecordMargin(w) \/ AlertLowMargin(w)
  PROVE  Classified(w)
<1>1. CASE MarginRow(w)
  BY <1>1, StopMoves, ProceedMoves
  DEF MarginRow, At, Keep, Refuse, Classified, Moves, Silent, Place
<1>2. CASE RecordMargin(w)
  BY <1>2, AdvanceMoves, ProceedMoves
  DEF RecordMargin, At, Mark, Leave, Classified, Moves, Marking, Place
<1>3. CASE AlertLowMargin(w)
  BY <1>3, AdvanceMoves DEF AlertLowMargin, At, Effect, Leave, Classified, Moves, Acting, Place
<1>4. QED BY <1>1, <1>2, <1>3

\* Rule inference (inference.go): a proposal is marked after its pull request.
LEMMA InferenceSteps ==
  ASSUME TypeInv, NEW w \in Workers,
         RuleProposalExists(w) \/ OpenRulesPullRequest(w) \/ MarkRuleProposal(w)
  PROVE  Classified(w)
<1>1. CASE RuleProposalExists(w)
  BY <1>1, AdvanceMoves, ProceedMoves
  DEF RuleProposalExists, At, Keep, Leave, Classified, Moves, Silent, Place
<1>2. CASE OpenRulesPullRequest(w)
  BY <1>2, ProceedMoves DEF OpenRulesPullRequest, At, Effect, Classified, Moves, Acting, Place
<1>3. CASE MarkRuleProposal(w)
  BY <1>3, AdvanceMoves DEF MarkRuleProposal, At, Mark, Leave, Classified, Moves, Marking, Place
<1>4. QED BY <1>1, <1>2, <1>3

\* The demo review (demo.go) and the webhook (handler.go) insert once.
LEMMA OnceSteps ==
  ASSUME TypeInv, NEW w \in Workers,
         LatestMergedPull(w) \/ EnqueueDemoReview(w) \/ ServeHTTP(w) \/ Accept(w)
  PROVE  Classified(w)
<1>1. CASE LatestMergedPull(w)
  BY <1>1, AdvanceMoves, StopMoves, ProceedMoves
  DEF LatestMergedPull, At, Keep, Leave, Refuse, Classified, Moves, Silent, Place
<1>2. CASE ServeHTTP(w)
  BY <1>2, AdvanceMoves, ProceedMoves
  DEF ServeHTTP, At, Keep, Leave, Classified, Moves, Silent, Place
<1>3. CASE EnqueueDemoReview(w) \/ Accept(w)
  BY <1>3, AdvanceMoves
  DEF EnqueueDemoReview, Accept, At, MarkOnce, Leave, Classified, Moves, MarkingOnce, Place
<1>4. QED BY <1>1, <1>2, <1>3

\* The jobs that only store (reactions.go, embed.go, events.go, publish.go).
LEMMA StoreSteps ==
  ASSUME TypeInv, NEW w \in Workers,
         \/ PollReactions(w) \/ FetchReactions(w) \/ SaveReactionPoll(w)
         \/ NextBatch(w) \/ Embed(w) \/ UpsertEmbeddings(w)
         \/ EventsForDay(w) \/ ReplaceDailyMetrics(w)
         \/ Export(w) \/ PutObject(w)
  PROVE  Classified(w)
<1>1. CASE PollReactions(w) \/ NextBatch(w) \/ EventsForDay(w) \/ Export(w)
  BY <1>1, StopMoves, ProceedMoves
  DEF PollReactions, NextBatch, EventsForDay, Export, At, Keep, Refuse, Classified, Moves, Silent, Place
<1>2. CASE FetchReactions(w) \/ Embed(w)
  BY <1>2, ProceedMoves DEF FetchReactions, Embed, At, Keep, Classified, Moves, Silent, Place
<1>3. CASE SaveReactionPoll(w) \/ UpsertEmbeddings(w) \/ ReplaceDailyMetrics(w) \/ PutObject(w)
  BY <1>3, AdvanceMoves
  DEF SaveReactionPoll, UpsertEmbeddings, ReplaceDailyMetrics, PutObject, At, Mark, Leave,
      Classified, Moves, Marking, Place
<1>4. QED BY <1>1, <1>2, <1>3

\* The jobs that ask the model (summary.go, replies.go).
LEMMA ModelSteps ==
  ASSUME TypeInv, NEW w \in Workers,
         \/ Prepare(w) \/ Ask(w) \/ ModelFails(w) \/ ModelAnswers(w)
         \/ UpsertFileSummary(w) \/ SaveReplyClassification(w) \/ ReplyToComment(w)
  PROVE  Classified(w)
<1>1. CASE Prepare(w)
  BY <1>1, AdvanceMoves, StopMoves, ProceedMoves
  DEF Prepare, Asks, Keep, Leave, Refuse, Classified, Moves, Silent, Place
<1>2. CASE Ask(w) \/ ModelAnswers(w)
  BY <1>2 DEF Ask, ModelAnswers, Asks, Keep, Go, Classified, Moves, Silent, TypeInv, Place, Positions
<1>3. CASE ModelFails(w)
  BY <1>3, StopMoves DEF ModelFails, Asks, Keep, Classified, Moves, Silent, Place
<1>4. CASE UpsertFileSummary(w)
  BY <1>4, AdvanceMoves DEF UpsertFileSummary, At, Mark, Leave, Classified, Moves, Marking, Place
<1>5. CASE SaveReplyClassification(w)
  BY <1>5, AdvanceMoves, ProceedMoves
  DEF SaveReplyClassification, At, Mark, Leave, Classified, Moves, Marking, Place
<1>6. CASE ReplyToComment(w)
  BY <1>6, AdvanceMoves DEF ReplyToComment, At, Effect, Leave, Classified, Moves, Acting, Place
<1>7. QED BY <1>1, <1>2, <1>3, <1>4, <1>5, <1>6

(* A failing step does what the step does, or nothing, and ends the try.    *)
LEMMA FailureSteps ==
  ASSUME TypeInv, NEW w \in Workers, StepFails(w)
  PROVE  Classified(w)
<1>1. /\ at' = [at EXCEPT ![w] = at'[w]] /\ at'[w] = "idle" /\ at'[w] \in Place
      /\ item' = [item EXCEPT ![w] = item'[w]] /\ item'[w] \in Positions
  BY StopMoves DEF StepFails, Fail, Place
<1>2. PromiseOf = "once" <=> kind \in {"demo", "webhook"}
  BY DEF PromiseOf
<1>3. CASE Keep
  BY <1>1, <1>3 DEF Keep, Classified, Moves, Silent
<1>4. CASE at[w] = "mark" /\ IF PromiseOf = "once" THEN MarkOnce(w) ELSE Mark(w)
  BY <1>1, <1>2, <1>4 DEF MarkOnce, Mark, Classified, Moves, Marking, MarkingOnce
<1>5. CASE at[w] = "effect" /\ Effect(w)
  BY <1>1, <1>5 DEF Effect, Classified, Moves, Acting
<1>6. QED BY <1>3, <1>4, <1>5 DEF StepFails

\* A try starts at the first item and promises nothing.
LEMMA BeginSteps ==
  ASSUME TypeInv, NEW w \in Workers, Begin(w)
  PROVE  Classified(w)
<1>1. 1 \in Positions
  BY DEF TypeInv, Positions
<1>2. QED BY <1>1 DEF Begin, Go, Classified, Moves, Silent, TypeInv, Place

(* The steps of the gateway and of the clock leave the jobs alone.          *)
LEMMA NextSteps ==
  ASSUME TypeInv, [Next]_vars
  PROVE  UNCHANGED jobVars \/ \E w \in Workers : Classified(w)
<1>1. CASE Time \/ UNCHANGED vars
  BY <1>1 DEF Time, vars
<1>2. ASSUME NEW w \in Workers, Worker(w) \/ StepFails(w)
      PROVE  UNCHANGED jobVars \/ Classified(w)
  <2>1. CASE Calling(w)
    BY <2>1 DEF Calling
  <2>2. CASE Step(w)
    BY <2>2, MarginSteps, InferenceSteps, OnceSteps, StoreSteps, ModelSteps DEF Step
  <2>3. QED BY <1>2, <2>1, <2>2, BeginSteps, FailureSteps DEF Worker
<1>3. QED BY <1>1, <1>2 DEF Next

-----------------------------------------------------------------------------
(* The invariant.                                                           *)

\* The invariant holds before the first try.
LEMMA InitInv ==
  ASSUME Init
  PROVE  JobsInv
<1>1. list \in Seq(Quality) /\ list # <<>> /\ DOMAIN list \subseteq Items
  BY JobsAssumption DEF Init, Items
<1>2. 1 \in DOMAIN list
  BY <1>1
<1>3. TypeInv
  BY <1>1, <1>2 DEF Init, TypeInv, Positions, Place
<1>4. QED BY <1>3 DEF Init, JobsInv, MarginInv, InferenceInv, ReplyInv, EffectInv

\* A step of any of those kinds keeps the types.
LEMMA TypeStep ==
  ASSUME TypeInv, NEW w \in Workers, Classified(w)
  PROVE  TypeInv'
<1>1. item[w] \in Items
  BY DEF TypeInv, Positions
<1>2. list' = list /\ at' \in [Workers -> Place] /\ item' \in [Workers -> Positions]
  BY DEF TypeInv, Classified, Moves
<1>3. marked' \subseteq Items /\ effects' \in [Items -> Nat]
  <2>1. CASE Silent(w)
    BY <2>1 DEF Silent, TypeInv
  <2>2. CASE Marking(w)
    BY <1>1, <2>2 DEF Marking, TypeInv
  <2>3. CASE Acting(w)
    BY <1>1, <2>3 DEF Acting, TypeInv
  <2>4. CASE MarkingOnce(w)
    BY <1>1, <2>4 DEF MarkingOnce, TypeInv
  <2>5. QED BY <2>1, <2>2, <2>3, <2>4 DEF Classified
<1>4. QED BY <1>2, <1>3 DEF TypeInv, Positions

(* What another worker sees of a step.                                      *)
LEMMA OthersStay ==
  ASSUME TypeInv, NEW w \in Workers, Moves(w)
  PROVE  /\ \A v \in Workers \ {w} : at'[v] = at[v] /\ item'[v] = item[v]
         /\ \A v \in Workers : item[v] \in Items
         /\ kind' = kind
  BY DEF TypeInv, Moves, Positions

\* It keeps what is known of margins: no alert without its mark.
LEMMA MarginStep ==
  ASSUME TypeInv, MarginInv, NEW w \in Workers, Classified(w)
  PROVE  MarginInv'
<1> SUFFICES ASSUME kind = "margin"
             PROVE  /\ \A i \in Items \ marked' : effects'[i] = 0
                    /\ \A u \in Workers : at'[u] = "effect" =>
                         /\ item'[u] \in marked' /\ effects'[item'[u]] = 0
                         /\ \A v \in Workers \ {u} : at'[v] = "effect" => item'[v] # item'[u]
  BY OthersStay DEF MarginInv, Classified, Items
<1>1. /\ \A v \in Workers \ {w} : at'[v] = at[v] /\ item'[v] = item[v]
      /\ \A v \in Workers : item[v] \in Items
  BY OthersStay DEF Classified
<1>2. CASE Silent(w)
  BY <1>1, <1>2 DEF Silent, MarginInv
<1>3. CASE Marking(w)
  <2>1. \A i \in Items \ marked' : effects'[i] = 0
    BY <1>3 DEF Marking, MarginInv
  <2>2. \A u \in Workers : at'[u] = "effect" => item'[u] \in marked' /\ effects'[item'[u]] = 0
    BY <1>1, <1>3 DEF Marking, MarginInv
  <2>3. \A u \in Workers : at'[u] = "effect" =>
          \A v \in Workers \ {u} : at'[v] = "effect" => item'[v] # item'[u]
    BY <1>1, <1>3 DEF Marking, MarginInv
  <2>4. QED BY <2>1, <2>2, <2>3
<1>4. CASE Acting(w)
  BY <1>1, <1>4 DEF Acting, MarginInv, TypeInv
<1>5. CASE MarkingOnce(w)
  BY <1>5 DEF MarkingOnce
<1>6. QED BY <1>2, <1>3, <1>4, <1>5 DEF Classified

\* It keeps what is known of inference: no mark without its pull request.
LEMMA InferenceStep ==
  ASSUME TypeInv, InferenceInv, NEW w \in Workers, Classified(w)
  PROVE  InferenceInv'
<1> SUFFICES ASSUME kind = "inference", NEW u \in Workers, at'[u] = "mark"
             PROVE  effects'[item'[u]] > 0
  BY OthersStay DEF InferenceInv, Classified
<1>1. /\ u # w => at'[u] = at[u] /\ item'[u] = item[u]
      /\ item[u] \in Items /\ item[w] \in Items
  BY OthersStay DEF Classified
<1>2. CASE Silent(w)
  BY <1>1, <1>2 DEF Silent, InferenceInv
<1>3. CASE Marking(w)
  BY <1>1, <1>3 DEF Marking, InferenceInv
<1>4. CASE Acting(w)
  BY <1>1, <1>4 DEF Acting, InferenceInv, TypeInv
<1>5. CASE MarkingOnce(w)
  BY <1>5 DEF MarkingOnce
<1>6. QED BY <1>2, <1>3, <1>4, <1>5 DEF Classified

\* It keeps what is known of replies: no answer without its classification.
LEMMA ReplyStep ==
  ASSUME TypeInv, ReplyInv, EffectInv, NEW w \in Workers, Classified(w)
  PROVE  ReplyInv' /\ EffectInv'
<1>1. /\ \A v \in Workers \ {w} : at'[v] = at[v] /\ item'[v] = item[v]
      /\ kind' = kind
  BY OthersStay DEF Classified
<1>2. CASE Silent(w)
  BY <1>1, <1>2 DEF Silent, ReplyInv, EffectInv
<1>3. CASE Marking(w)
  BY <1>1, <1>3 DEF Marking, ReplyInv, EffectInv
<1>4. CASE Acting(w)
  BY <1>1, <1>4 DEF Acting, ReplyInv, EffectInv
<1>5. CASE MarkingOnce(w)
  BY <1>1, <1>5 DEF MarkingOnce, ReplyInv, EffectInv
<1>6. QED BY <1>2, <1>3, <1>4, <1>5 DEF Classified

\* Every step keeps the invariant.
LEMMA NextInv ==
  ASSUME JobsInv, [Next]_vars
  PROVE  JobsInv'
<1>1. CASE UNCHANGED jobVars
  BY <1>1 DEF jobVars, JobsInv, TypeInv, MarginInv, InferenceInv, ReplyInv, EffectInv, Positions, Items
<1>2. ASSUME NEW w \in Workers, Classified(w)
      PROVE  JobsInv'
  BY <1>2, TypeStep, MarginStep, InferenceStep, ReplyStep DEF JobsInv
<1>3. QED BY <1>1, <1>2, NextSteps DEF JobsInv

(* JobsInv holds in every reachable state.                                  *)
THEOREM JobsInvariance == Spec => []JobsInv
BY InitInv, NextInv, PTL DEF Spec

-----------------------------------------------------------------------------
(* The refinement.                                                          *)

\* A state before the first try is one before any delivery.
LEMMA InitRefines ==
  ASSUME Init
  PROVE  Promised!Init
BY DEF Init, Promised!Init, PromiseOf, Promised!Promises

\* A step delivers what was promised, or does not change what was delivered.
LEMMA StepRefines ==
  ASSUME JobsInv, NEW w \in Workers, Classified(w)
  PROVE  [Promised!Next]_Promised!vars
<1> DEFINE i == item[w]
<1>1. i \in Items
  BY DEF JobsInv, TypeInv, Positions
<1>2. PromiseOf' = PromiseOf
  BY DEF PromiseOf, Classified, Moves
<1>3. CASE Silent(w)
  BY <1>2, <1>3 DEF Silent, Promised!vars
<1>4. CASE Marking(w)
  <2>1. PromiseOf # "once"
    BY <1>4 DEF Marking, PromiseOf
  <2>2. PromiseOf = "at_least_once" => effects[i] > 0
    BY <1>4 DEF Marking, PromiseOf, JobsInv, InferenceInv
  <2>3. Promised!Mark(i)
    BY <1>2, <1>4, <2>1, <2>2 DEF Marking, Promised!Mark
  <2>4. QED BY <1>1, <2>3 DEF Promised!Next
<1>5. CASE Acting(w)
  <2>1. PromiseOf = "at_most_once" => i \in marked /\ effects[i] = 0
    BY <1>5 DEF Acting, PromiseOf, JobsInv, MarginInv
  <2>2. PromiseOf = "after_mark" => i \in marked
    BY <1>5 DEF Acting, PromiseOf, JobsInv, ReplyInv
  <2>3. PromiseOf \notin {"once", "none"}
    BY <1>5 DEF Acting, PromiseOf, JobsInv, EffectInv
  <2>4. Promised!Effect(i)
    BY <1>2, <1>5, <2>1, <2>2, <2>3 DEF Acting, Promised!Effect
  <2>5. QED BY <1>1, <2>4 DEF Promised!Next
<1>6. CASE MarkingOnce(w)
  <2>1. PromiseOf = "once"
    BY <1>6 DEF MarkingOnce, PromiseOf
  <2>2. Promised!Mark(i)
    BY <1>2, <1>6, <2>1 DEF MarkingOnce, Promised!Mark
  <2>3. QED BY <1>1, <2>2 DEF Promised!Next
<1>7. QED BY <1>3, <1>4, <1>5, <1>6 DEF Classified

(* BackgroundJobs implements Delivery: every behaviour of every job, with   *)
(* all its retries, overlaps and lost answers, keeps the job's promise.     *)
THEOREM JobsDeliverAsPromised == Spec => DeliversAsPromised
<1>1. Init => Promised!Init
  BY InitRefines
<1>2. JobsInv /\ [Next]_vars => [Promised!Next]_Promised!vars
  <2> SUFFICES ASSUME JobsInv, [Next]_vars
               PROVE  [Promised!Next]_Promised!vars
    OBVIOUS
  <2>1. CASE UNCHANGED jobVars
    BY <2>1 DEF jobVars, Promised!vars, PromiseOf
  <2>2. QED BY <2>1, NextSteps, StepRefines DEF JobsInv
<1>3. QED BY <1>1, <1>2, JobsInvariance, PTL DEF Spec, DeliversAsPromised, Promised!Spec

-----------------------------------------------------------------------------
(* What the gateway pays.                                                   *)

Asking(w) == phase[w] \in {"attempt", "sleep", "check"}

GatewayTypes ==
  /\ clock \in Nat /\ cache \in [Prompts -> Nat] /\ paid \in [Prompts -> Nat]
  /\ phase \in [Workers -> Phase] /\ prompt \in [Workers -> Prompts]
  /\ disturbed \in BOOLEAN

(* As long as nothing disturbs, one call asks for a prompt, it does so only *)
(* if the prompt was never paid, and what was paid is cached or about to.   *)
OneAsks ==
  \A w, v \in Workers : Asking(w) /\ Asking(v) /\ prompt[w] = prompt[v] => w = v

UnpaidIsAsked ==
  \A w \in Workers : phase[w] \in {"attempt", "sleep"} => phase[w] # "sleep" /\ paid[prompt[w]] = 0

PaidIsKept ==
  \A k \in Prompts : paid[k] # 0 =>
    paid[k] = 1 /\ (cache[k] > 0 \/ \E w \in Workers : phase[w] = "check" /\ prompt[w] = k)

PaymentInv ==
  GatewayTypes /\ (~disturbed => OneAsks /\ UnpaidIsAsked /\ PaidIsKept)

\* No step of a job but these touches the gateway: a call begins or is over.
Turns(w) ==
  /\ phase[w] \notin {"attempt", "sleep", "check"} /\ phase'[w] \in {"idle", "lookup"}
  /\ phase' = [phase EXCEPT ![w] = phase'[w]]
  /\ prompt' = [prompt EXCEPT ![w] = prompt'[w]] /\ prompt'[w] \in Prompts
  /\ UNCHANGED <<clock, cache, attempts, paid, recorded, failures, disturbed>>

Steady ==
  /\ UNCHANGED <<clock, cache, phase, prompt, attempts, paid, recorded, disturbed>>
  /\ UNCHANGED failures \/ Fault

\* The ways in which the jobs go on leave the gateway alone.
LEMMA GoingOnIsSteady ==
  ASSUME NEW w \in Workers, NEW place,
         Proceed(w, place) \/ Leave(w) \/ Refuse(w) \/ Fail(w)
  PROVE  Steady
BY DEF Proceed, Leave, Refuse, Fail, Steady, gatewayVars, callVars

\* The steps of the jobs that ask nobody.
LEMMA ListSteps ==
  ASSUME NEW w \in Workers,
         \/ MarginRow(w) \/ RecordMargin(w) \/ AlertLowMargin(w)
         \/ RuleProposalExists(w) \/ OpenRulesPullRequest(w) \/ MarkRuleProposal(w)
         \/ LatestMergedPull(w) \/ EnqueueDemoReview(w) \/ ServeHTTP(w) \/ Accept(w)
         \/ PollReactions(w) \/ FetchReactions(w) \/ SaveReactionPoll(w)
         \/ NextBatch(w) \/ Embed(w) \/ UpsertEmbeddings(w)
         \/ EventsForDay(w) \/ ReplaceDailyMetrics(w) \/ Export(w) \/ PutObject(w)
         \/ Prepare(w) \/ UpsertFileSummary(w) \/ SaveReplyClassification(w) \/ ReplyToComment(w)
  PROVE  Steady
<1>1. CASE MarginRow(w) \/ RecordMargin(w) \/ AlertLowMargin(w)
  BY <1>1, GoingOnIsSteady DEF MarginRow, RecordMargin, AlertLowMargin
<1>2. CASE RuleProposalExists(w) \/ OpenRulesPullRequest(w) \/ MarkRuleProposal(w)
  BY <1>2, GoingOnIsSteady DEF RuleProposalExists, OpenRulesPullRequest, MarkRuleProposal
<1>3. CASE LatestMergedPull(w) \/ EnqueueDemoReview(w) \/ ServeHTTP(w) \/ Accept(w)
  BY <1>3, GoingOnIsSteady DEF LatestMergedPull, EnqueueDemoReview, ServeHTTP, Accept
<1>4. CASE PollReactions(w) \/ FetchReactions(w) \/ SaveReactionPoll(w)
  BY <1>4, GoingOnIsSteady DEF PollReactions, FetchReactions, SaveReactionPoll
<1>5. CASE NextBatch(w) \/ Embed(w) \/ UpsertEmbeddings(w)
  BY <1>5, GoingOnIsSteady DEF NextBatch, Embed, UpsertEmbeddings
<1>6. CASE EventsForDay(w) \/ ReplaceDailyMetrics(w) \/ Export(w) \/ PutObject(w)
  BY <1>6, GoingOnIsSteady DEF EventsForDay, ReplaceDailyMetrics, Export, PutObject
<1>7. CASE Prepare(w) \/ UpsertFileSummary(w) \/ SaveReplyClassification(w) \/ ReplyToComment(w)
  BY <1>7, GoingOnIsSteady DEF Prepare, UpsertFileSummary, SaveReplyClassification, ReplyToComment
<1>8. QED BY <1>1, <1>2, <1>3, <1>4, <1>5, <1>6, <1>7

\* The steps that begin or end a call.
LEMMA AskSteps ==
  ASSUME JobsInv, GatewayTypes, NEW w \in Workers, Ask(w) \/ ModelFails(w) \/ ModelAnswers(w)
  PROVE  Turns(w)
<1>1. CASE Ask(w)
  <2>1. item[w] \in Prompts
    BY DEF JobsInv, TypeInv, Positions, Items
  <2>2. QED BY <1>1, <2>1 DEF Ask, Complete, Enter, Turns, GatewayTypes
<1>2. CASE ModelFails(w) \/ ModelAnswers(w)
  BY <1>2 DEF ModelFails, ModelAnswers, Hang, Enter, Turns, GatewayTypes
<1>3. QED BY <1>1, <1>2

\* Every step is one of the gateway or leaves what it pays for alone.
LEMMA PaymentSteps ==
  ASSUME JobsInv, GatewayTypes, [Next]_vars
  PROVE  Steady \/ Tick \/ \E w \in Workers : Call(w) \/ Turns(w)
<1>1. CASE Time \/ UNCHANGED vars
  BY <1>1 DEF Time, vars, gatewayVars, callVars, Steady
<1>2. ASSUME NEW w \in Workers, Worker(w) \/ StepFails(w)
      PROVE  Steady \/ Call(w) \/ Turns(w)
  <2>1. CASE Begin(w)
    BY <2>1 DEF Begin, gatewayVars, callVars, Steady
  <2>2. CASE Calling(w)
    BY <2>2 DEF Calling
  <2>3. CASE StepFails(w)
    BY <2>3, GoingOnIsSteady DEF StepFails
  <2>4. CASE Step(w)
    BY <2>4, ListSteps, AskSteps DEF Step
  <2>5. QED BY <1>2, <2>1, <2>2, <2>3, <2>4 DEF Worker
<1>3. QED BY <1>1, <1>2 DEF Next

\* Neither the other steps nor the clock make anybody ask or pay.
LEMMA OthersPayNothing ==
  ASSUME PaymentInv, Steady \/ Tick \/ \E w \in Workers : Turns(w)
  PROVE  PaymentInv'
<1>1. CASE Steady
  BY <1>1 DEF Steady, PaymentInv, GatewayTypes, OneAsks, UnpaidIsAsked, PaidIsKept, Asking
<1>2. CASE Tick
  BY <1>2 DEF Tick, callVars, PaymentInv, GatewayTypes, OneAsks, UnpaidIsAsked, PaidIsKept, Asking
<1>3. ASSUME NEW w \in Workers, Turns(w)
      PROVE  PaymentInv'
  <2>1. GatewayTypes'
    BY <1>3 DEF Turns, PaymentInv, GatewayTypes, Phase
  <2>2. \A v \in Workers : phase'[v] \in {"attempt", "sleep", "check"} =>
          v # w /\ phase'[v] = phase[v] /\ prompt'[v] = prompt[v]
    BY <1>3 DEF Turns, PaymentInv, GatewayTypes
  <2>3. \A v \in Workers : phase[v] = "check" =>
          phase'[v] = "check" /\ prompt'[v] = prompt[v]
    BY <1>3 DEF Turns, PaymentInv, GatewayTypes
  <2>4. disturbed' = disturbed /\ paid' = paid /\ cache' = cache
    BY <1>3 DEF Turns
  <2>5. QED BY <2>1, <2>2, <2>3, <2>4 DEF PaymentInv, OneAsks, UnpaidIsAsked, PaidIsKept, Asking
<1>4. QED BY <1>1, <1>2, <1>3

\* A step of a call keeps the types.
LEMMA CallTypes ==
  ASSUME GatewayTypes, NEW w \in Workers, Call(w)
  PROVE  GatewayTypes'
<1>1. CASE CacheHit(w) \/ CacheMiss(w) \/ CacheReadFails(w)
  <2>1. disturbed' \in BOOLEAN
    BY <1>1, Zenon DEF GatewayTypes, CacheHit, CacheMiss, CacheReadFails
  <2>2. cache' \in [Prompts -> Nat] /\ UNCHANGED <<clock, prompt, paid>>
    BY <1>1 DEF GatewayTypes, CacheHit, CacheMiss, CacheReadFails
  <2>3. phase' \in [Workers -> Phase]
    BY <1>1 DEF GatewayTypes, Phase, CacheHit, CacheMiss, CacheReadFails, Enter
  <2>4. QED BY <2>1, <2>2, <2>3 DEF GatewayTypes
<1>2. CASE ProviderAnswers(w) \/ \E temporary \in BOOLEAN : ProviderFails(w, temporary)
  <2>1. disturbed' \in BOOLEAN /\ UNCHANGED <<clock, cache, prompt>>
    BY <1>2 DEF GatewayTypes, ProviderAnswers, ProviderFails
  <2>2. paid' \in {paid, [paid EXCEPT ![prompt[w]] = @ + 1]}
    BY <1>2 DEF ProviderAnswers, ProviderFails
  <2>3. paid' \in [Prompts -> Nat]
    BY <2>2 DEF GatewayTypes
  <2>4. phase' \in [Workers -> Phase]
    BY <1>2 DEF GatewayTypes, Phase, ProviderAnswers, ProviderFails, Enter
  <2>5. QED BY <2>1, <2>3, <2>4 DEF GatewayTypes
<1>3. CASE Wake(w) \/ SleepCancelled(w) \/ RejectAnswer(w)
  BY <1>3 DEF GatewayTypes, Phase, Wake, SleepCancelled, RejectAnswer, Enter
<1>4. CASE AcceptAnswer(w)
  <2>1. clock + TTL \in Nat /\ prompt[w] \in Prompts
    BY GatewayAssumption DEF GatewayTypes
  <2>2. cache' \in [Prompts -> Nat] /\ disturbed' \in BOOLEAN
    <3>1. CASE cache' = [cache EXCEPT ![prompt[w]] = clock + TTL] /\ UNCHANGED <<failures, disturbed>>
      BY <2>1, <3>1 DEF GatewayTypes
    <3>2. CASE Fault /\ disturbed' = TRUE /\ UNCHANGED cache
      BY <3>2 DEF GatewayTypes
    <3>3. QED BY <1>4, <3>1, <3>2 DEF AcceptAnswer, Put
  <2>3. QED BY <1>4, <2>2 DEF GatewayTypes, Phase, AcceptAnswer, Enter
<1>5. QED BY <1>1, <1>2, <1>3, <1>4 DEF Call

\* Whoever misses first finds the prompt unpaid; the answer is paid once and
\* goes into the cache; everything else disturbs.
LEMMA CallPays ==
  ASSUME PaymentInv, NEW w \in Workers, Call(w)
  PROVE  PaymentInv'
<1> DEFINE k == prompt[w]
<1>1. GatewayTypes /\ GatewayTypes'
  BY CallTypes DEF PaymentInv
<1>2. SUFFICES ASSUME ~disturbed'
               PROVE  OneAsks' /\ UnpaidIsAsked' /\ PaidIsKept'
  BY <1>1 DEF PaymentInv
<1>3. ~disturbed
  BY <1>2 DEF Call, CacheHit, CacheMiss, CacheReadFails, ProviderAnswers, ProviderFails, Wake,
              SleepCancelled, RejectAnswer, AcceptAnswer, Put
<1>4. OneAsks /\ UnpaidIsAsked /\ PaidIsKept
  BY <1>3 DEF PaymentInv
<1>5. k \in Prompts /\ prompt' = prompt
  BY <1>1 DEF GatewayTypes, Call, CacheHit, CacheMiss, CacheReadFails, ProviderAnswers,
              ProviderFails, Wake, SleepCancelled, RejectAnswer, AcceptAnswer
<1>6. CASE CacheHit(w)
  <2>1. /\ phase' = [phase EXCEPT ![w] = "answered"] /\ phase[w] = "lookup"
        /\ cache' = cache /\ paid' = paid
    BY <1>6 DEF CacheHit, Enter
  <2>2. QED BY <1>1, <1>4, <1>5, <2>1 DEF GatewayTypes, OneAsks, UnpaidIsAsked, PaidIsKept, Asking
<1>7. CASE CacheMiss(w)
  <2>1. /\ phase' = [phase EXCEPT ![w] = "attempt"] /\ phase[w] = "lookup"
        /\ cache' = [cache EXCEPT ![k] = 0] /\ paid' = paid
    BY <1>7 DEF CacheMiss, Enter
  <2>2. cache[k] = 0 /\ \A v \in Workers : Asking(v) => prompt[v] # k
    <3>1. ~(cache[k] > 0) /\ \A v \in Workers : ~(prompt[v] = k /\ Asking(v))
      BY <1>2, <1>7, Zenon DEF CacheMiss, Asking
    <3>2. cache[k] \in Nat
      BY <1>1, <1>5 DEF GatewayTypes
    <3>3. QED BY <3>1, <3>2
  <2>3. paid[k] = 0
    BY <1>1, <1>4, <1>5, <2>2 DEF PaidIsKept, Asking, GatewayTypes
  <2>4. OneAsks' /\ UnpaidIsAsked'
    BY <1>1, <1>4, <1>5, <2>1, <2>2, <2>3 DEF GatewayTypes, OneAsks, UnpaidIsAsked, Asking
  <2>5. PaidIsKept'
    BY <1>1, <1>4, <1>5, <2>1, <2>3 DEF GatewayTypes, PaidIsKept
  <2>6. QED BY <2>4, <2>5
<1>8. CASE ProviderAnswers(w)
  <2>1. /\ phase' = [phase EXCEPT ![w] = "check"] /\ phase[w] = "attempt"
        /\ cache' = cache /\ paid' = [paid EXCEPT ![k] = @ + 1]
    BY <1>8 DEF ProviderAnswers, Enter
  <2>2. paid[k] = 0 /\ paid'[k] = 1
    BY <1>1, <1>4, <1>5, <2>1 DEF UnpaidIsAsked, GatewayTypes
  <2>3. \A v \in Workers \ {w} : Asking(v) => prompt[v] # k
    BY <1>4, <2>1 DEF OneAsks, Asking
  <2>4. OneAsks' /\ UnpaidIsAsked'
    BY <1>1, <1>4, <1>5, <2>1, <2>3 DEF GatewayTypes, OneAsks, UnpaidIsAsked, Asking
  <2>5. PaidIsKept'
    BY <1>1, <1>4, <1>5, <2>1, <2>2 DEF GatewayTypes, PaidIsKept
  <2>6. QED BY <2>4, <2>5
<1>9. CASE Wake(w) \/ SleepCancelled(w)
  BY <1>4, <1>9 DEF Wake, SleepCancelled, UnpaidIsAsked
<1>10. CASE AcceptAnswer(w)
  <2>1. /\ phase' = [phase EXCEPT ![w] = "answered"] /\ phase[w] = "check"
        /\ cache' = [cache EXCEPT ![k] = clock + TTL] /\ paid' = paid
    BY <1>2, <1>10 DEF AcceptAnswer, Put, Enter
  <2>2. cache'[k] > 0
    BY <1>1, <1>5, <2>1, GatewayAssumption DEF GatewayTypes
  <2>3. OneAsks' /\ UnpaidIsAsked'
    BY <1>1, <1>4, <1>5, <2>1 DEF GatewayTypes, OneAsks, UnpaidIsAsked, Asking
  <2>4. PaidIsKept'
    BY <1>1, <1>4, <1>5, <2>1, <2>2 DEF GatewayTypes, PaidIsKept
  <2>5. QED BY <2>3, <2>4
<1>11. ~CacheReadFails(w) /\ ~RejectAnswer(w) /\ \A temporary \in BOOLEAN : ~ProviderFails(w, temporary)
  BY <1>2 DEF CacheReadFails, RejectAnswer, ProviderFails
<1>12. QED BY <1>6, <1>7, <1>8, <1>9, <1>10, <1>11 DEF Call

\* Nothing is asked or paid before the first try.
LEMMA InitPaysNothing ==
  ASSUME Init
  PROVE  PaymentInv
<1>1. 1 \in Prompts
  BY InitInv DEF JobsInv, TypeInv, Items
<1>2. (CHOOSE k \in Prompts : TRUE) \in Prompts
  BY <1>1
<1>3. QED BY <1>2 DEF Init, GatewayInit, PaymentInv, GatewayTypes, Phase, OneAsks, UnpaidIsAsked, PaidIsKept, Asking

(* No prompt is paid twice, by however many jobs, workers and tries, unless *)
(* its entry expired, two calls asked for it at once or something failed.   *)
THEOREM PaidOnceHolds == Spec => []PaidOnce
<1>1. Init => PaymentInv
  BY InitPaysNothing
<1>2. JobsInv /\ PaymentInv /\ [Next]_vars => PaymentInv'
  BY PaymentSteps, OthersPayNothing, CallPays DEF PaymentInv
<1>3. PaymentInv => PaidOnce
  BY DEF PaymentInv, GatewayTypes, PaidIsKept, PaidOnce
<1>4. QED BY <1>1, <1>2, <1>3, JobsInvariance, PTL DEF Spec

-----------------------------------------------------------------------------
(* What is recorded of it.                                                  *)

Checking == {w \in Workers : phase[w] = "check"}

\* The bounds of the clock, of the retries and of the faults.
Bounds ==
  /\ clock \in 0 .. MaxClock /\ cache \in [Prompts -> 0 .. MaxClock + TTL]
  /\ attempts \in [Workers -> 0 .. MaxRetries]
  /\ recorded \in Nat /\ failures \in 0 .. MaxFailures

(* Every payment is recorded, still checked, or fell to a failure.          *)
CostInv ==
  /\ IsFiniteSet(Payments)
  /\ recorded + Cardinality(Checking) <= Cardinality(Payments)
  /\ failures = 0 => recorded + Cardinality(Checking) = Cardinality(Payments)

\* A step of a call keeps the bounds.
LEMMA CallBounds ==
  ASSUME GatewayTypes, Bounds, NEW w \in Workers, Call(w)
  PROVE  Bounds'
<1>1. /\ clock + TTL \in 0 .. MaxClock + TTL /\ 0 \in 0 .. MaxClock + TTL
      /\ prompt[w] \in Prompts /\ failures + 1 \in Nat /\ 0 \in 0 .. MaxRetries
  BY GatewayAssumption DEF Bounds, GatewayTypes
<1>2. CASE CacheHit(w) \/ CacheMiss(w) \/ CacheReadFails(w)
  BY <1>1, <1>2, GatewayAssumption DEF Bounds, CacheHit, CacheMiss, CacheReadFails, Record, Fault
<1>3. CASE ProviderAnswers(w)
  BY <1>3 DEF Bounds, ProviderAnswers
<1>4. ASSUME NEW temporary, ProviderFails(w, temporary)
      PROVE  Bounds'
  BY <1>1, <1>4, GatewayAssumption DEF Bounds, ProviderFails, MayRetry, Record, Fault
<1>5. CASE Wake(w) \/ SleepCancelled(w) \/ RejectAnswer(w)
  BY <1>1, <1>5, GatewayAssumption DEF Bounds, Wake, SleepCancelled, RejectAnswer, Record, Fault
<1>6. CASE AcceptAnswer(w)
  <2>1. cache' \in [Prompts -> 0 .. MaxClock + TTL] /\ failures' \in 0 .. MaxFailures
    BY <1>1, <1>6, GatewayAssumption DEF Bounds, AcceptAnswer, Put, Fault
  <2>2. QED BY <1>1, <1>6, <2>1 DEF Bounds, AcceptAnswer, Record
<1>7. QED BY <1>2, <1>3, <1>4, <1>5, <1>6 DEF Call

\* Every step keeps the bounds.
LEMMA BoundsStep ==
  ASSUME JobsInv, GatewayTypes, Bounds, [Next]_vars
  PROVE  Bounds'
<1>1. CASE Steady
  BY <1>1, GatewayAssumption DEF Steady, Fault, Bounds
<1>2. CASE Tick
  BY <1>2, GatewayAssumption DEF Tick, callVars, Bounds
<1>3. ASSUME NEW w \in Workers, Turns(w)
      PROVE  Bounds'
  BY <1>3 DEF Turns, Bounds
<1>4. QED BY <1>1, <1>2, <1>3, CallBounds, PaymentSteps

\* An answer that is charged for is one more payment.
LEMMA PaymentsGrow ==
  ASSUME GatewayTypes, IsFiniteSet(Payments), NEW k \in Prompts, paid' = [paid EXCEPT ![k] = @ + 1]
  PROVE  IsFiniteSet(Payments') /\ Cardinality(Payments') = Cardinality(Payments) + 1
<1> DEFINE new == <<k, paid[k] + 1>>
<1>1. paid[k] \in Nat /\ paid' \in [Prompts -> Nat] /\ paid'[k] = paid[k] + 1
      /\ \A i \in Prompts : i # k => paid'[i] = paid[i]
  BY DEF GatewayTypes
<1>2. \A x : x \in Payments <=> \E i \in Prompts : \E n \in 1 .. paid[i] : x = <<i, n>>
  BY DEF Payments
<1>3. \A x : x \in Payments' <=> \E i \in Prompts : \E n \in 1 .. paid'[i] : x = <<i, n>>
  BY DEF Payments
<1>4. ASSUME NEW x
      PROVE  x \in Payments' <=> x \in Payments \/ x = new
  <2>1. ASSUME NEW i \in Prompts, NEW n
        PROVE  n \in 1 .. paid'[i] <=> n \in 1 .. paid[i] \/ (i = k /\ n = paid[k] + 1)
    <3>1. CASE i = k
      BY <1>1, <3>1
    <3>2. CASE i # k
      BY <1>1, <3>2
    <3>3. QED BY <3>1, <3>2
  <2>2. QED BY <1>2, <1>3, <2>1
<1>5. Payments' = Payments \cup {new}
  BY <1>4
<1>6. new \notin Payments
  <2>1. ~(paid[k] + 1 \in 1 .. paid[k])
    BY <1>1
  <2>2. QED BY <1>2, <2>1
<1>7. QED BY <1>5, <1>6, FS_AddElement

\* How many checks there are after a step of one of the workers.
LEMMA CheckingMoves ==
  ASSUME GatewayTypes, NEW w \in Workers, NEW p \in Phase, Enter(w, p)
  PROVE  /\ IsFiniteSet(Checking) /\ Cardinality(Checking) \in Nat
         /\ phase[w] # "check" /\ p # "check" => Checking' = Checking
         /\ phase[w] # "check" /\ p = "check" => Cardinality(Checking') = Cardinality(Checking) + 1
         /\ phase[w] = "check" /\ p # "check" => Cardinality(Checking') = Cardinality(Checking) - 1
<1>1. IsFiniteSet(Checking) /\ Cardinality(Checking) \in Nat
  BY GatewayAssumption, FS_Subset, FS_CardinalityType DEF Checking
<1>2. phase' = [phase EXCEPT ![w] = p] /\ phase \in [Workers -> Phase]
  BY DEF Enter, GatewayTypes
<1>3. phase[w] # "check" /\ p # "check" => Checking' = Checking
  BY <1>2 DEF Checking
<1>4. phase[w] # "check" /\ p = "check" => Checking' = Checking \cup {w} /\ w \notin Checking
  BY <1>2 DEF Checking
<1>5. phase[w] = "check" /\ p # "check" => Checking' = Checking \ {w} /\ w \in Checking
  BY <1>2 DEF Checking
<1>6. QED BY <1>1, <1>3, <1>4, <1>5, FS_AddElement, FS_RemoveElement

\* A step of a call accounts for what it pays.
LEMMA CallCosts ==
  ASSUME GatewayTypes, Bounds, CostInv, NEW w \in Workers, Call(w)
  PROVE  CostInv'
<1>1. /\ recorded \in Nat /\ failures \in Nat
      /\ IsFiniteSet(Payments) /\ Cardinality(Payments) \in Nat
      /\ IsFiniteSet(Checking) /\ Cardinality(Checking) \in Nat
  BY GatewayAssumption, FS_Subset, FS_CardinalityType DEF Bounds, CostInv, Checking
<1>2. Phase = {"idle", "lookup", "attempt", "sleep", "check", "answered", "failed"}
  BY DEF Phase
<1>3. ASSUME UNCHANGED paid
      PROVE  Payments' = Payments
  BY <1>3 DEF Payments
<1>4. CASE CacheHit(w) \/ CacheMiss(w) \/ CacheReadFails(w) \/ Wake(w) \/ SleepCancelled(w)
  <2>1. UNCHANGED <<paid, recorded>> /\ failures' \in {failures, failures + 1}
    BY <1>1, <1>4 DEF CacheHit, CacheMiss, CacheReadFails, Wake, SleepCancelled, Record, Fault
  <2>2. \E p \in Phase \ {"check"} : Enter(w, p) /\ phase[w] # "check"
    BY <1>2, <1>4 DEF CacheHit, CacheMiss, CacheReadFails, Wake, SleepCancelled
  <2>3. Checking' = Checking
    BY <2>2, CheckingMoves
  <2>4. QED BY <1>1, <1>3, <2>1, <2>3 DEF CostInv
<1>5. CASE ProviderAnswers(w)
  <2>1. /\ Enter(w, "check") /\ phase[w] = "attempt" /\ paid' = [paid EXCEPT ![prompt[w]] = @ + 1]
        /\ UNCHANGED <<recorded, failures>> /\ prompt[w] \in Prompts
    BY <1>5 DEF ProviderAnswers, GatewayTypes
  <2>2. Cardinality(Checking') = Cardinality(Checking) + 1
    BY <1>2, <2>1, CheckingMoves
  <2>3. IsFiniteSet(Payments') /\ Cardinality(Payments') = Cardinality(Payments) + 1
    BY <1>1, <2>1, PaymentsGrow
  <2>4. QED BY <1>1, <2>1, <2>2, <2>3 DEF CostInv
<1>6. ASSUME NEW temporary, ProviderFails(w, temporary)
      PROVE  CostInv'
  <2>1. /\ UNCHANGED recorded /\ failures' = failures + 1 /\ phase[w] = "attempt" /\ prompt[w] \in Prompts
        /\ paid' \in {paid, [paid EXCEPT ![prompt[w]] = @ + 1]}
    BY <1>1, <1>6 DEF ProviderFails, Record, Fault, GatewayTypes
  <2>2. \E p \in Phase \ {"check"} : Enter(w, p)
    BY <1>2, <1>6 DEF ProviderFails
  <2>3. Checking' = Checking
    BY <2>1, <2>2, CheckingMoves
  <2>4. IsFiniteSet(Payments') /\ Cardinality(Payments') \in {Cardinality(Payments), Cardinality(Payments) + 1}
    BY <1>1, <1>3, <2>1, PaymentsGrow
  <2>5. QED BY <1>1, <2>1, <2>3, <2>4 DEF CostInv
<1>7. CASE RejectAnswer(w)
  <2>1. /\ Enter(w, "failed") /\ phase[w] = "check" /\ UNCHANGED <<paid, recorded>> /\ failures' = failures + 1
    BY <1>1, <1>7 DEF RejectAnswer, Record, Fault
  <2>2. Cardinality(Checking') = Cardinality(Checking) - 1
    BY <1>2, <2>1, CheckingMoves
  <2>3. QED BY <1>1, <1>3, <2>1, <2>2 DEF CostInv
<1>8. CASE AcceptAnswer(w)
  <2>1. /\ Enter(w, "answered") /\ phase[w] = "check" /\ UNCHANGED paid /\ recorded' = recorded + 1
        /\ failures' \in {failures, failures + 1}
    BY <1>8 DEF AcceptAnswer, Put, Record, Fault
  <2>2. Cardinality(Checking') = Cardinality(Checking) - 1
    BY <1>2, <2>1, CheckingMoves
  <2>3. QED BY <1>1, <1>3, <2>1, <2>2 DEF CostInv
<1>9. QED BY <1>4, <1>5, <1>6, <1>7, <1>8 DEF Call

\* Every step accounts for what it pays.
LEMMA CostStep ==
  ASSUME JobsInv, GatewayTypes, Bounds, CostInv, [Next]_vars
  PROVE  CostInv'
<1>1. ASSUME UNCHANGED <<paid, recorded>>, failures' = 0 => failures = 0, Checking' = Checking
      PROVE  CostInv'
  <2>1. Payments' = Payments
    BY <1>1 DEF Payments
  <2>2. QED BY <1>1, <2>1 DEF CostInv
<1>2. failures \in Nat
  BY DEF Bounds
<1>3. CASE Steady
  BY <1>1, <1>2, <1>3 DEF Steady, Fault, Checking
<1>4. CASE Tick
  BY <1>1, <1>4 DEF Tick, callVars, Checking
<1>5. ASSUME NEW w \in Workers, Turns(w)
      PROVE  CostInv'
  <2>1. Checking' = Checking
    BY <1>5 DEF Turns, Checking, GatewayTypes
  <2>2. QED BY <1>1, <1>5, <2>1 DEF Turns
<1>6. QED BY <1>3, <1>4, <1>5, CallCosts, PaymentSteps

\* Before the first call nothing is paid or recorded.
LEMMA InitCosts ==
  ASSUME Init
  PROVE  Bounds /\ CostInv
<1>1. Bounds
  BY GatewayAssumption DEF Init, GatewayInit, Bounds
<1>2. Payments = {}
  BY DEF Init, GatewayInit, Payments
<1>3. Checking = {}
  BY DEF Init, GatewayInit, Checking
<1>4. recorded = 0 /\ failures = 0
  BY DEF Init, GatewayInit
<1>5. QED BY <1>1, <1>2, <1>3, <1>4, FS_EmptySet DEF CostInv

CostsInv == JobsInv /\ PaymentInv /\ Bounds /\ CostInv

\* What the bounds and the costs rest on.
LEMMA CostsInvariant == Spec => []CostsInv
<1>1. Init => CostsInv
  BY InitInv, InitPaysNothing, InitCosts DEF CostsInv
<1>2. CostsInv /\ [Next]_vars => CostsInv'
  <2>1. PaymentInv => GatewayTypes
    BY DEF PaymentInv
  <2>2. QED BY <2>1, NextInv, PaymentSteps, OthersPayNothing, CallPays, BoundsStep, CostStep DEF CostsInv
<1>3. QED BY <1>1, <1>2, PTL DEF Spec

(* The recorded costs never exceed what the provider charges, and they fall *)
(* short of it only after a failure (llm/gateway.go), whoever calls.        *)
THEOREM GatewayCostIsRecorded == Spec => []CostIsRecorded
<1>1. CostsInv => CostIsRecorded
  <2> SUFFICES ASSUME CostsInv
               PROVE  CostIsRecorded
    OBVIOUS
  <2>1. /\ recorded \in Nat /\ Cardinality(Payments) \in Nat /\ Cardinality(Checking) \in Nat
    BY GatewayAssumption, FS_Subset, FS_CardinalityType DEF CostsInv, Bounds, CostInv, Checking
  <2>2. Checking = {w \in Workers : phase[w] = "check"}
    BY DEF Checking
  <2>3. QED BY <2>1, <2>2 DEF CostsInv, CostInv, CostIsRecorded
<1>2. QED BY <1>1, CostsInvariant, PTL

-----------------------------------------------------------------------------
(* How often an effect is repeated.                                         *)

Of(place, i) == {v \in Workers : at[v] = place /\ item[v] = i}

Busy == {v \in Workers : at[v] # "idle"}

(* Inference: until the proposal is marked, every pull request for it is    *)
(* about to be marked or fell to a failure; those who saw no mark may still *)
(* open theirs.                                                             *)
InferenceTries ==
  \A i \in Items :
    /\ i \notin marked => effects[i] <= failures + Cardinality(Of("mark", i))
    /\ effects[i] + Cardinality(Of("effect", i)) <= failures + Cardinality(Workers)

(* Reply: a try that answers ends the job, and only the tries that overlap  *)
(* it may answer as well.                                                   *)
ReplyTries ==
  \A i \in Items :
    /\ ~finished => effects[i] <= failures
    /\ finished => effects[i] + Cardinality(Busy) <= failures + Cardinality(Workers)

OneTry ==
  \A i \in Items : effects[i] <= 1 /\ (kind # "margin" /\ i \notin marked => effects[i] = 0)

Repeats ==
  /\ kind = "inference" => InferenceTries
  /\ kind = "reply" => ReplyTries
  /\ kind \notin {"inference", "reply"} => OneTry
  /\ kind \notin {"margin", "demo", "webhook", "inference", "reply"} \/ Workers = {} =>
       \A i \in Items : effects[i] = 0

(* What a job is about does not change, and it marks what is on its list.   *)
Listed ==
  /\ kind \in Kinds /\ list \in Qualities
  /\ kind = "reply" => Len(list) = 1
  /\ marked \subseteq Positions /\ finished \in BOOLEAN

\* Faults are never taken back.
LEMMA FailuresGrow ==
  ASSUME JobsInv, GatewayTypes, Bounds, [Next]_vars
  PROVE  failures \in Nat /\ failures' \in {failures, failures + 1}
<1>1. failures \in Nat
  BY DEF Bounds
<1>2. CASE Steady
  BY <1>1, <1>2 DEF Steady, Fault
<1>5. CASE Tick \/ \E w \in Workers : Turns(w)
  BY <1>1, <1>5 DEF Tick, Turns
<1>3. ASSUME NEW w \in Workers, Call(w)
      PROVE  failures' \in {failures, failures + 1}
  BY <1>3 DEF Call, CacheHit, CacheMiss, CacheReadFails, ProviderAnswers, ProviderFails, Wake, SleepCancelled,
              RejectAnswer, AcceptAnswer, Put, Fault
<1>4. QED BY <1>1, <1>2, <1>3, <1>5, PaymentSteps

\* How many workers are at an item after a step of one of them.
LEMMA OfMoves ==
  ASSUME TypeInv, NEW w \in Workers, Moves(w), NEW place, NEW i
  PROVE  /\ Cardinality(Of(place, i)) \in Nat
         /\ Cardinality(Of(place, i)') =
              IF at'[w] = place /\ item'[w] = i
              THEN IF at[w] = place /\ item[w] = i THEN Cardinality(Of(place, i)) ELSE Cardinality(Of(place, i)) + 1
              ELSE IF at[w] = place /\ item[w] = i THEN Cardinality(Of(place, i)) - 1 ELSE Cardinality(Of(place, i))
<1>1. IsFiniteSet(Of(place, i)) /\ Cardinality(Of(place, i)) \in Nat
  BY GatewayAssumption, FS_Subset, FS_CardinalityType DEF Of
<1>2. \A v \in Workers \ {w} : at'[v] = at[v] /\ item'[v] = item[v]
  BY OthersStay
<1>3. Of(place, i)' = IF at'[w] = place /\ item'[w] = i THEN Of(place, i) \cup {w} ELSE Of(place, i) \ {w}
  BY <1>2 DEF Of
<1>4. w \in Of(place, i) <=> at[w] = place /\ item[w] = i
  BY DEF Of
<1>5. w \in Of(place, i) => Of(place, i) \cup {w} = Of(place, i)
  OBVIOUS
<1>6. w \notin Of(place, i) => Of(place, i) \ {w} = Of(place, i)
  OBVIOUS
<1>7. QED BY <1>1, <1>3, <1>4, <1>5, <1>6, FS_AddElement, FS_RemoveElement

\* Nobody is at two places.
LEMMA TwoPlaces ==
  ASSUME NEW M \in SUBSET Workers, NEW E \in SUBSET Workers, M \cap E = {}
  PROVE  /\ Cardinality(M) \in Nat /\ Cardinality(E) \in Nat /\ Cardinality(Workers) \in Nat
         /\ Cardinality(M) + Cardinality(E) <= Cardinality(Workers)
<1>1. IsFiniteSet(M) /\ IsFiniteSet(E) /\ IsFiniteSet(M \cup E)
  BY GatewayAssumption, FS_Subset
<1>2. Cardinality(M \cup E) = Cardinality(M) + Cardinality(E) - Cardinality(M \cap E)
  BY <1>1, FS_Union
<1>3. Cardinality(M \cap E) = 0
  BY FS_EmptySet
<1>4. Cardinality(M \cup E) <= Cardinality(Workers)
  BY GatewayAssumption, FS_Subset
<1>5. Cardinality(M) \in Nat /\ Cardinality(E) \in Nat /\ Cardinality(Workers) \in Nat
  BY <1>1, GatewayAssumption, FS_CardinalityType
<1>6. QED BY <1>2, <1>3, <1>4, <1>5

\* The steps an inference job takes.
LEMMA InferenceOnly ==
  ASSUME kind = "inference", NEW w \in Workers, Step(w)
  PROVE  RuleProposalExists(w) \/ OpenRulesPullRequest(w) \/ MarkRuleProposal(w)
BY DEF Step, MarginRow, RecordMargin, AlertLowMargin, LatestMergedPull, EnqueueDemoReview, ServeHTTP, Accept,
       PollReactions, FetchReactions, SaveReactionPoll, NextBatch, Embed, UpsertEmbeddings,
       EventsForDay, ReplaceDailyMetrics, Export, PutObject, Prepare, Ask, ModelFails, ModelAnswers,
       UpsertFileSummary, SaveReplyClassification, ReplyToComment, At, Asks

\* The steps a reply takes.
LEMMA ReplyOnly ==
  ASSUME kind = "reply", NEW w \in Workers, Step(w)
  PROVE  \/ Prepare(w) \/ Ask(w) \/ ModelFails(w) \/ ModelAnswers(w)
         \/ SaveReplyClassification(w) \/ ReplyToComment(w)
BY DEF Step, MarginRow, RecordMargin, AlertLowMargin, LatestMergedPull, EnqueueDemoReview, ServeHTTP, Accept,
       PollReactions, FetchReactions, SaveReactionPoll, NextBatch, Embed, UpsertEmbeddings,
       EventsForDay, ReplaceDailyMetrics, Export, PutObject, RuleProposalExists, OpenRulesPullRequest,
       MarkRuleProposal, UpsertFileSummary, At

\* A step of an inference job, by what it does to an item.
InferenceMove(w) ==
  LET i == item[w] IN
  \/ \* nothing
     /\ at[w] \notin {"mark", "effect"} /\ at'[w] \notin {"mark", "effect"}
     /\ UNCHANGED <<marked, effects, failures>>
  \/ \* an item that is not marked
     /\ at[w] = "item" /\ at'[w] = "effect" /\ item'[w] = i /\ i \notin marked
     /\ UNCHANGED <<marked, effects, failures>>
  \/ \* the pull request
     /\ at[w] = "effect" /\ at'[w] = "mark" /\ item'[w] = i
     /\ effects' = [effects EXCEPT ![i] = @ + 1] /\ UNCHANGED <<marked, failures>>
  \/ \* the mark
     /\ at[w] = "mark" /\ at'[w] \notin {"mark", "effect"}
     /\ marked' = marked \cup {i} /\ UNCHANGED <<effects, failures>>
  \/ \* a failure, with or without the effect or the mark
     /\ at'[w] = "idle" /\ failures' = failures + 1 /\ marked \subseteq marked'
     /\ effects' = effects \/ (at[w] = "effect" /\ effects' = [effects EXCEPT ![i] = @ + 1])

\* A step of an inference job is one of these.
LEMMA InferenceMoves ==
  ASSUME TypeInv, Bounds, kind = "inference", NEW w \in Workers, Begin(w) \/ Step(w) \/ StepFails(w)
  PROVE  InferenceMove(w)
<1>1. CASE Begin(w)
  BY <1>1 DEF Begin, Go, gatewayVars, InferenceMove, TypeInv
<1>2. CASE RuleProposalExists(w)
  BY <1>2, AdvanceMoves, ProceedMoves DEF RuleProposalExists, At, Keep, Leave, Proceed, gatewayVars, InferenceMove, Place
<1>3. CASE OpenRulesPullRequest(w)
  BY <1>3, ProceedMoves DEF OpenRulesPullRequest, At, Effect, Proceed, gatewayVars, InferenceMove, Place
<1>4. CASE MarkRuleProposal(w)
  BY <1>4, AdvanceMoves DEF MarkRuleProposal, At, Mark, Leave, gatewayVars, InferenceMove
<1>5. CASE StepFails(w)
  <2>1. at'[w] = "idle" /\ failures' = failures + 1
    BY <1>5, StopMoves DEF StepFails, Fail, Fault
  <2>2. PromiseOf # "once"
    BY DEF PromiseOf
  <2>3. Keep \/ Mark(w) \/ (at[w] = "effect" /\ Effect(w))
    BY <1>5, <2>2 DEF StepFails
  <2>4. CASE Keep \/ Mark(w)
    <3>1. effects' = effects /\ marked \subseteq marked'
      BY <2>4 DEF Keep, Mark
    <3>2. QED BY <2>1, <3>1 DEF InferenceMove
  <2>5. CASE at[w] = "effect" /\ Effect(w)
    <3>1. effects' = [effects EXCEPT ![item[w]] = @ + 1] /\ marked \subseteq marked'
      BY <2>5 DEF Effect
    <3>2. QED BY <2>1, <2>5, <3>1 DEF InferenceMove
  <2>6. QED BY <2>3, <2>4, <2>5
<1>6. QED BY <1>1, <1>2, <1>3, <1>4, <1>5, InferenceOnly

\* An inference job repeats what fails, and what overlaps.
LEMMA InferenceTriesStep ==
  ASSUME TypeInv, kind = "inference", InferenceTries, failures \in Nat,
         NEW w \in Workers, Moves(w), InferenceMove(w)
  PROVE  InferenceTries'
<1> SUFFICES ASSUME NEW i \in Items
             PROVE  /\ i \notin marked' => effects'[i] <= failures' + Cardinality(Of("mark", i)')
                    /\ effects'[i] + Cardinality(Of("effect", i)') <= failures' + Cardinality(Workers)
  BY DEF InferenceTries, Items
<1> DEFINE m == Cardinality(Of("mark", i))
           e == Cardinality(Of("effect", i))
           m1 == Cardinality(Of("mark", i)')
           e1 == Cardinality(Of("effect", i)')
           here == item[w] = i
           there == item'[w] = i
<1>1. /\ m1 = IF at'[w] = "mark" /\ there THEN IF at[w] = "mark" /\ here THEN m ELSE m + 1
              ELSE IF at[w] = "mark" /\ here THEN m - 1 ELSE m
      /\ e1 = IF at'[w] = "effect" /\ there THEN IF at[w] = "effect" /\ here THEN e ELSE e + 1
              ELSE IF at[w] = "effect" /\ here THEN e - 1 ELSE e
  BY OfMoves
<1>2. m \in Nat /\ e \in Nat /\ Cardinality(Workers) \in Nat /\ m + e <= Cardinality(Workers)
  <2>1. Of("mark", i) \cap Of("effect", i) = {} /\ {Of("mark", i), Of("effect", i)} \subseteq SUBSET Workers
    BY DEF Of
  <2>2. QED BY <2>1, TwoPlaces
<1>3. m1 \in Nat /\ e1 \in Nat /\ m1 + e1 <= Cardinality(Workers)
  <2>1. Of("mark", i)' \cap Of("effect", i)' = {} /\ {Of("mark", i)', Of("effect", i)'} \subseteq SUBSET Workers
    BY DEF Of
  <2>2. QED BY <2>1, TwoPlaces
<1>4. /\ i \notin marked => effects[i] <= failures + m
      /\ effects[i] + e <= failures + Cardinality(Workers)
  BY DEF InferenceTries
<1>5. effects \in [Items -> Nat] /\ effects[i] \in Nat /\ item[w] \in Items
  BY DEF TypeInv, Positions
<1> HIDE DEF m, e, m1, e1
<1> SUFFICES /\ i \notin marked' => effects'[i] <= failures' + m1
             /\ effects'[i] + e1 <= failures' + Cardinality(Workers)
  BY DEF m1, e1
<1>6. CASE /\ at[w] \notin {"mark", "effect"} /\ at'[w] \notin {"mark", "effect"}
           /\ UNCHANGED <<marked, effects, failures>>
  BY <1>1, <1>4, <1>6
<1>7. CASE /\ at[w] = "item" /\ at'[w] = "effect" /\ item'[w] = item[w] /\ item[w] \notin marked
           /\ UNCHANGED <<marked, effects, failures>>
  BY <1>1, <1>2, <1>3, <1>4, <1>5, <1>7
<1>8. CASE /\ at[w] = "effect" /\ at'[w] = "mark" /\ item'[w] = item[w]
           /\ effects' = [effects EXCEPT ![item[w]] = @ + 1] /\ UNCHANGED <<marked, failures>>
  <2>1. CASE here
    BY <1>1, <1>2, <1>4, <1>5, <1>8, <2>1
  <2>2. CASE ~here
    BY <1>1, <1>2, <1>4, <1>5, <1>8, <2>2
  <2>3. QED BY <2>1, <2>2
<1>9. CASE /\ at[w] = "mark" /\ at'[w] \notin {"mark", "effect"}
           /\ marked' = marked \cup {item[w]} /\ UNCHANGED <<effects, failures>>
  BY <1>1, <1>2, <1>4, <1>5, <1>9
<1>10. CASE /\ at'[w] = "idle" /\ failures' = failures + 1 /\ marked \subseteq marked'
            /\ effects' = effects \/ (at[w] = "effect" /\ effects' = [effects EXCEPT ![item[w]] = @ + 1])
  <2>1. CASE here
    BY <1>1, <1>2, <1>4, <1>5, <1>10, <2>1
  <2>2. CASE ~here
    BY <1>1, <1>2, <1>4, <1>5, <1>10, <2>2
  <2>3. QED BY <2>1, <2>2
<1>11. QED BY <1>6, <1>7, <1>8, <1>9, <1>10 DEF InferenceMove

\* A step of a reply: a try that answers ends the job, if it does not fail,
\* and none begins after that.
ReplyMove(w) ==
  /\ at[w] = "idle" => ~finished'
  /\ finished => finished'
  /\ failures' \in {failures, failures + 1}
  /\ \/ UNCHANGED effects
     \/ /\ effects' = [effects EXCEPT ![item[w]] = @ + 1]
        /\ at[w] # "idle" /\ at'[w] = "idle"
        /\ finished' \/ failures' = failures + 1

\* A step of a reply is such a step.
LEMMA ReplyMoves ==
  ASSUME TypeInv, Bounds, Listed, kind = "reply", NEW w \in Workers, Begin(w) \/ Step(w) \/ StepFails(w)
  PROVE  ReplyMove(w)
<1>1. failures \in Nat /\ item[w] = Len(list)
  BY DEF Bounds, Listed, TypeInv, Positions
<1>2. Advance(w) <=> at' = [at EXCEPT ![w] = "idle"] /\ finished' = TRUE /\ UNCHANGED item
  BY <1>1 DEF Advance, Go
<1>3. CASE Begin(w)
  BY <1>3 DEF Begin, gatewayVars, ReplyMove
<1>4. CASE Prepare(w)
  BY <1>4 DEF Prepare, Keep, Refuse, Stop, Proceed, gatewayVars, ReplyMove
<1>5. CASE Ask(w)
  BY <1>5 DEF Ask, Complete, ReplyMove
<1>6. CASE ModelFails(w) \/ ModelAnswers(w)
  BY <1>6 DEF ModelFails, ModelAnswers, Keep, Hang, Stop, ReplyMove
<1>7. CASE SaveReplyClassification(w)
  BY <1>2, <1>7 DEF SaveReplyClassification, At, Mark, Leave, Proceed, gatewayVars, ReplyMove
<1>8. CASE ReplyToComment(w)
  <2>1. /\ effects' = [effects EXCEPT ![item[w]] = @ + 1] /\ at[w] = "effect" /\ UNCHANGED failures
        /\ at' = [at EXCEPT ![w] = "idle"] /\ finished' = TRUE
    BY <1>2, <1>8 DEF ReplyToComment, At, Effect, Leave, gatewayVars
  <2>2. QED BY <2>1 DEF ReplyMove, TypeInv
<1>9. CASE StepFails(w)
  <2>1. /\ at[w] # "idle" /\ at'[w] = "idle" /\ failures' = failures + 1 /\ UNCHANGED finished
    BY <1>9, StopMoves DEF StepFails, Fail, Fault, Stop
  <2>2. PromiseOf # "once"
    BY DEF PromiseOf
  <2>3. UNCHANGED effects \/ effects' = [effects EXCEPT ![item[w]] = @ + 1]
    BY <1>9, <2>2 DEF StepFails, Keep, Mark, Effect
  <2>4. QED BY <2>1, <2>3 DEF ReplyMove
<1>10. QED BY <1>3, <1>4, <1>5, <1>6, <1>7, <1>8, <1>9, ReplyOnly

\* A reply repeats what fails, and what overlaps.
LEMMA ReplyTriesStep ==
  ASSUME TypeInv, ReplyTries, failures \in Nat, finished \in BOOLEAN, finished' \in BOOLEAN,
         NEW w \in Workers, Moves(w), ReplyMove(w)
  PROVE  ReplyTries'
<1> SUFFICES ASSUME NEW i \in Items
             PROVE  /\ ~finished' => effects'[i] <= failures'
                    /\ finished' => effects'[i] + Cardinality(Busy') <= failures' + Cardinality(Workers)
  BY DEF ReplyTries, Items
<1> DEFINE b == Cardinality(Busy)
           b1 == Cardinality(Busy')
           n == Cardinality(Workers)
<1>1. \A v \in Workers \ {w} : at'[v] = at[v]
  BY OthersStay
<1>2. IsFiniteSet(Busy) /\ b \in Nat /\ n \in Nat /\ b <= n /\ b1 \in Nat /\ b1 <= n
  BY GatewayAssumption, FS_Subset, FS_CardinalityType DEF Busy
<1>3. at'[w] = "idle" => Busy' = Busy \ {w}
  BY <1>1 DEF Busy
<1>4. (at'[w] = "idle" <=> at[w] = "idle") => Busy' = Busy
  BY <1>1 DEF Busy
<1>5. /\ at[w] # "idle" /\ at'[w] = "idle" => b1 = b - 1
      /\ at[w] # "idle" => b1 <= b
      /\ at[w] # "idle" => b >= 1
  <2>1. at[w] # "idle" => w \in Busy
    BY DEF Busy
  <2>2. at[w] # "idle" => Cardinality(Busy \ {w}) = b - 1 /\ b - 1 \in Nat
    <3>1. IsFiniteSet(Busy \ {w}) /\ Cardinality(Busy \ {w}) \in Nat
      BY <1>2, FS_Subset, FS_CardinalityType
    <3>2. w \in Busy => Cardinality(Busy \ {w}) = Cardinality(Busy) - 1
      BY <1>2, FS_RemoveElement
    <3>3. QED BY <2>1, <3>1, <3>2
  <2>3. QED BY <1>2, <1>3, <1>4, <2>2
<1>6. /\ ~finished => effects[i] <= failures
      /\ finished => effects[i] + b <= failures + n
      /\ effects[i] \in Nat /\ effects \in [Items -> Nat] /\ item[w] \in Items
  BY DEF ReplyTries, TypeInv, Positions
<1>7. /\ at[w] = "idle" => ~finished'
      /\ finished => finished'
      /\ failures' \in {failures, failures + 1}
      /\ effects'[i] = effects[i] \/ (/\ effects'[i] = effects[i] + 1
                                      /\ at[w] # "idle" /\ at'[w] = "idle"
                                      /\ finished' \/ failures' = failures + 1)
  BY <1>6 DEF ReplyMove
<1> HIDE DEF b, b1, n
<1>8. ASSUME ~finished'
      PROVE  effects'[i] <= failures'
  BY <1>6, <1>7, <1>8
<1>9. ASSUME finished'
      PROVE  effects'[i] + b1 <= failures' + n
  <2>1. CASE finished
    BY <1>2, <1>5, <1>6, <1>7, <1>9, <2>1
  <2>2. CASE ~finished
    BY <1>2, <1>5, <1>6, <1>7, <1>9, <2>2
  <2>3. QED BY <2>1, <2>2
<1>10. QED BY <1>8, <1>9 DEF b1, n

\* The other kinds have each effect once at most.
LEMMA OneTryStep ==
  ASSUME JobsInv, kind \notin {"inference", "reply"}, OneTry, NEW w \in Workers, Classified(w)
  PROVE  /\ OneTry'
         /\ kind \notin {"margin", "demo", "webhook"} => UNCHANGED effects
<1>1. /\ item[w] \in Items /\ effects \in [Items -> Nat] /\ kind' = kind
      /\ at[w] = "effect" => kind = "margin" /\ effects[item[w]] = 0
  BY DEF JobsInv, TypeInv, Positions, EffectInv, MarginInv, Classified, Moves
<1>2. CASE Silent(w)
  BY <1>1, <1>2 DEF Silent, OneTry, Items
<1>3. CASE Marking(w)
  BY <1>1, <1>3 DEF Marking, OneTry, Items
<1>4. CASE Acting(w)
  BY <1>1, <1>4 DEF Acting, OneTry, Items
<1>5. CASE MarkingOnce(w)
  <2>1. CASE item[w] \in marked
    BY <1>1, <1>5, <2>1 DEF MarkingOnce, OneTry, Items
  <2>2. CASE item[w] \notin marked
    BY <1>1, <1>5, <2>2 DEF MarkingOnce, OneTry, Items
  <2>3. QED BY <1>5, <2>1, <2>2 DEF MarkingOnce
<1>6. QED BY <1>2, <1>3, <1>4, <1>5 DEF Classified

\* What a job is about stays, and it marks items of its list.
LEMMA ListedStep ==
  ASSUME JobsInv, Listed, [Next]_vars
  PROVE  Listed'
<1>1. CASE UNCHANGED jobVars
  BY <1>1 DEF jobVars, Listed, Positions
<1>2. ASSUME NEW w \in Workers, Classified(w)
      PROVE  UNCHANGED <<kind, list>> /\ marked' \subseteq Positions
  <2>1. item[w] \in Positions
    BY DEF JobsInv, TypeInv
  <2>2. marked' \in {marked, marked \cup {item[w]}}
    BY <1>2 DEF Classified, Silent, Marking, Acting, MarkingOnce
  <2>3. QED BY <1>2, <2>1, <2>2 DEF Classified, Moves, Listed
<1>3. ASSUME NEW w \in Workers, Worker(w) \/ StepFails(w)
      PROVE  finished' \in BOOLEAN
  <2>1. \/ UNCHANGED finished \/ finished' = TRUE
    BY <1>3 DEF Worker, Begin, Calling, jobVars, StepFails, Fail, Stop, Step,
                MarginRow, RecordMargin, AlertLowMargin, LatestMergedPull, EnqueueDemoReview, ServeHTTP, Accept,
                PollReactions, FetchReactions, SaveReactionPoll, NextBatch, Embed, UpsertEmbeddings,
                EventsForDay, ReplaceDailyMetrics, Export, PutObject, Prepare, Ask, ModelFails, ModelAnswers,
                UpsertFileSummary, SaveReplyClassification, ReplyToComment,
                RuleProposalExists, OpenRulesPullRequest, MarkRuleProposal, Proceed, Leave, Refuse, Advance
  <2>2. QED BY <2>1 DEF Listed
<1>4. finished' \in BOOLEAN
  BY <1>3 DEF Next, Time, jobVars, vars, Listed
<1>5. QED BY <1>1, <1>2, <1>4, NextSteps DEF JobsInv, Listed, Positions

\* Every step keeps the bounds on the repeats.
LEMMA RepeatsStep ==
  ASSUME JobsInv, GatewayTypes, Bounds, Listed, Repeats, [Next]_vars
  PROVE  Repeats'
<1>1. failures \in Nat /\ failures' \in {failures, failures + 1}
  BY FailuresGrow
<1>2. TypeInv /\ finished \in BOOLEAN /\ finished' \in BOOLEAN
  BY ListedStep DEF JobsInv, Listed
<1>3. CASE UNCHANGED jobVars
  <2>1. UNCHANGED <<kind, marked, effects, finished>> /\ \A p, i : Of(p, i)' = Of(p, i)
    BY <1>3 DEF jobVars, Of
  <2>2. Busy' = Busy
    BY <1>3 DEF jobVars, Busy
  <2>3. \A i \in Items : effects[i] \in Nat
    BY <1>2 DEF TypeInv
  <2>4. \A i \in Items : /\ Cardinality(Of("mark", i)) \in Nat /\ Cardinality(Of("effect", i)) \in Nat
                         /\ Cardinality(Workers) \in Nat /\ Cardinality(Busy) \in Nat
    BY GatewayAssumption, FS_Subset, FS_CardinalityType DEF Of, Busy
  <2>5. InferenceTries => InferenceTries'
    BY <1>1, <2>1, <2>3, <2>4 DEF InferenceTries, Items
  <2>6. ReplyTries => ReplyTries'
    BY <1>1, <2>1, <2>2, <2>3, <2>4 DEF ReplyTries, Items
  <2>7. QED BY <2>1, <2>5, <2>6 DEF Repeats, OneTry, Items
<1>4. ASSUME NEW w \in Workers, Classified(w), Begin(w) \/ Step(w) \/ StepFails(w)
      PROVE  Repeats'
  <2>1. kind' = kind /\ Moves(w)
    BY <1>4 DEF Classified, Moves
  <2>2. CASE kind = "inference"
    BY <1>1, <1>2, <1>4, <2>1, <2>2, InferenceMoves, InferenceTriesStep DEF Repeats
  <2>3. CASE kind = "reply"
    BY <1>1, <1>2, <1>4, <2>1, <2>3, ReplyMoves, ReplyTriesStep DEF Repeats
  <2>4. CASE kind \notin {"inference", "reply"}
    BY <1>4, <2>1, <2>4, OneTryStep DEF Repeats, Items
  <2>5. QED BY <2>2, <2>3, <2>4
<1>5. CASE \E w \in Workers : Worker(w) \/ StepFails(w)
  <2>1. PICK w \in Workers : Worker(w) \/ StepFails(w)
    BY <1>5
  <2>2. CASE Calling(w)
    BY <1>3, <2>2 DEF Calling
  <2>3. CASE Begin(w) \/ Step(w) \/ StepFails(w)
    <3>1. Classified(w)
      BY <1>2, <2>3, BeginSteps, MarginSteps, InferenceSteps, OnceSteps, StoreSteps, ModelSteps, FailureSteps DEF Step
    <3>2. QED BY <1>4, <2>3, <3>1
  <2>4. QED BY <2>1, <2>2, <2>3 DEF Worker
<1>6. QED BY <1>3, <1>5 DEF Next, Time, vars

\* Before the first try there are no repeats.
LEMMA InitRepeats ==
  ASSUME Init
  PROVE  Listed /\ Repeats
<1>1. Listed
  BY DEF Init, Listed
<1>2. failures = 0 /\ finished = FALSE /\ \A i \in Items : effects[i] = 0 /\ Of("effect", i) = {} /\ Of("mark", i) = {}
  BY DEF Init, GatewayInit, Of
<1>3. Cardinality({}) = 0 /\ Cardinality(Workers) \in Nat
  BY FS_EmptySet, FS_CardinalityType, GatewayAssumption
<1>4. QED BY <1>1, <1>2, <1>3 DEF Repeats, InferenceTries, ReplyTries, OneTry

(* The effects of an item are bounded by the tries there are: nothing       *)
(* repeats it within one, and the gateway keeps within its retries.         *)
THEOREM JobsTypes == Spec => []TypeOK
<1>1. Init => Listed /\ Repeats
  BY InitRepeats
<1>2. CostsInv /\ Listed /\ Repeats /\ [Next]_vars => (Listed /\ Repeats)'
  <2>1. CostsInv => JobsInv /\ GatewayTypes /\ Bounds
    BY DEF CostsInv, PaymentInv
  <2>2. QED BY <2>1, ListedStep, RepeatsStep
<1>3. CostsInv /\ Listed /\ Repeats => TypeOK
  <2> SUFFICES ASSUME CostsInv, Listed, Repeats
               PROVE  TypeOK
    OBVIOUS
  <2>1. TypeInv /\ GatewayTypes /\ Bounds
    BY DEF CostsInv, JobsInv, PaymentInv
  <2>2. GatewayTypeOK
    BY <2>1, Zenon DEF GatewayTypes, Bounds, GatewayTypeOK
  <2>3. ASSUME NEW i \in Items
        PROVE  effects[i] \in 0 .. Cardinality(Workers) + MaxFailures
    <3>1. /\ effects[i] \in Nat /\ failures \in 0 .. MaxFailures /\ finished \in BOOLEAN
          /\ Cardinality(Workers) \in Nat /\ MaxFailures \in Nat
          /\ Cardinality(Of("effect", i)) \in Nat /\ Cardinality(Busy) \in Nat
      BY <2>1, GatewayAssumption, FS_Subset, FS_CardinalityType DEF TypeInv, Bounds, Listed, Of, Busy
    <3>2. CASE kind = "inference"
      BY <3>1, <3>2 DEF Repeats, InferenceTries
    <3>3. CASE kind = "reply"
      BY <3>1, <3>3 DEF Repeats, ReplyTries
    <3>4. CASE kind \notin {"inference", "reply"}
      <4>1. Workers = {} \/ Cardinality(Workers) >= 1
        BY <3>1, GatewayAssumption, FS_EmptySet
      <4>2. QED BY <3>1, <3>4, <4>1 DEF Repeats, OneTry
    <3>5. QED BY <3>2, <3>3, <3>4
  <2>4. QED BY <2>1, <2>2, <2>3 DEF TypeInv, Listed, Positions, TypeOK
<1>4. QED BY <1>1, <1>2, <1>3, CostsInvariant, PTL DEF Spec
=============================================================================
