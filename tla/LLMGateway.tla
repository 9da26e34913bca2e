----------------------------- MODULE LLMGateway -----------------------------
(***************************************************************************)
(* The model gateway: internal/hosted/llm/gateway.go with the errors of    *)
(* providers.go and the MemoryCache.  A call looks into the prompt cache,  *)
(* asks the provider up to MaxRetries + 1 times, checks the answer, caches *)
(* it and records what it cost.  Calls of several goroutines share the     *)
(* cache, and nothing keeps two of them from asking for the same prompt.   *)
(*                                                                         *)
(* Abstractions.  A prompt stands for its promptKey.  Every answer costs   *)
(* one unit.  The seconds slept between the attempts are not counted.      *)
(***************************************************************************)
EXTENDS Naturals, FiniteSets

CONSTANTS
  Workers,      \* goroutines
  Prompts,      \* what they may ask
  MaxRetries,   \* Gateway.MaxRetries, 2 unless set: 0 cannot be set
  TTL,          \* Gateway.CacheTTL
  MaxFailures,  \* bound on the faults of a behaviour
  MaxClock      \* bound on the clock

ASSUME GatewayAssumption ==
  /\ MaxRetries \in Nat \ {0} /\ TTL \in Nat \ {0} /\ MaxFailures \in Nat /\ MaxClock \in Nat
  /\ IsFiniteSet(Workers)

VARIABLES
  clock,
  cache,      \* when the entry of a prompt expires, 0 for none
  phase,      \* where the call of each goroutine is
  prompt,     \* what it asks
  attempts,   \* how often it asked the provider before
  paid,       \* the answers the provider has charged for, by prompt
  recorded,   \* the sum of the costs in the call records
  failures,   \* faults so far
  disturbed   \* ghost: a prompt may have been paid twice for a reason

callVars == <<phase, prompt, attempts>>
gatewayVars == <<clock, cache, callVars, paid, recorded, failures, disturbed>>

Phase == {"idle", "lookup", "attempt", "sleep", "check", "answered", "failed"}

GatewayInit ==
  /\ clock = 0
  /\ cache = [k \in Prompts |-> 0]
  /\ phase = [w \in Workers |-> "idle"]
  /\ prompt = [w \in Workers |-> CHOOSE k \in Prompts : TRUE]
  /\ attempts = [w \in Workers |-> 0]
  /\ paid = [k \in Prompts |-> 0]
  /\ recorded = 0 /\ failures = 0 /\ disturbed = FALSE

Enter(w, p) == phase' = [phase EXCEPT ![w] = p]

Fault == failures < MaxFailures /\ failures' = failures + 1

(* The deferred record: the usage of the response that is returned, and no  *)
(* cost if it was cached.                                                   *)
Record(w, usage) ==
  /\ recorded' = recorded + usage
  /\ attempts' = [attempts EXCEPT ![w] = 0]

Complete(w, k) ==
  /\ phase[w] = "idle"
  /\ prompt' = [prompt EXCEPT ![w] = k]
  /\ Enter(w, "lookup")
  /\ UNCHANGED <<clock, cache, attempts, paid, recorded, failures, disturbed>>

Cached(k) == cache[k] > clock

(* Mutant: the response of a hit is charged like any other.                 *)
CacheHitCharged(w) ==
  /\ phase[w] = "lookup" /\ Cached(prompt[w])
  /\ Record(w, 1) /\ Enter(w, "answered")
  /\ UNCHANGED <<clock, cache, prompt, paid, failures, disturbed>>

CacheHit(w) ==
  /\ phase[w] = "lookup" /\ Cached(prompt[w])
  /\ Record(w, 0) /\ Enter(w, "answered")
  /\ UNCHANGED <<clock, cache, prompt, paid, failures, disturbed>>

(* MemoryCache.Get removes what has expired.  Two misses of the same prompt *)
(* at once both ask the provider.                                           *)
CacheMiss(w) ==
  /\ phase[w] = "lookup" /\ ~Cached(prompt[w])
  /\ cache' = [cache EXCEPT ![prompt[w]] = 0]
  /\ disturbed' = (disturbed \/ cache[prompt[w]] > 0 \/
       \E v \in Workers : prompt[v] = prompt[w] /\ phase[v] \in {"attempt", "sleep", "check"})
  /\ Enter(w, "attempt")
  /\ UNCHANGED <<clock, prompt, attempts, paid, recorded, failures>>

(* A cache that cannot be read is a miss.                                   *)
CacheReadFails(w) ==
  /\ phase[w] = "lookup" /\ Fault
  /\ Enter(w, "attempt") /\ disturbed' = TRUE
  /\ UNCHANGED <<clock, cache, prompt, attempts, paid, recorded>>

ProviderAnswers(w) ==
  /\ phase[w] = "attempt"
  /\ paid' = [paid EXCEPT ![prompt[w]] = @ + 1]
  /\ Enter(w, "check")
  /\ UNCHANGED <<clock, cache, prompt, attempts, recorded, failures, disturbed>>

(* Mutant: an off-by-one in the loop.                                       *)
MayRetryOnceMore(w, temporary) == temporary /\ attempts[w] <= MaxRetries

(* postJSON: 429, 5xx and a timeout of the attempt are temporary, a decode  *)
(* error and the other statuses are not.                                    *)
MayRetry(w, temporary) == temporary /\ attempts[w] < MaxRetries

(* The attempt fails; one that timed out may have been charged for.         *)
ProviderFails(w, temporary) ==
  /\ phase[w] = "attempt" /\ Fault /\ disturbed' = TRUE
  /\ paid' \in {paid, [paid EXCEPT ![prompt[w]] = @ + 1]}
  /\ \/ /\ MayRetry(w, temporary) /\ Enter(w, "sleep")
        /\ attempts' = [attempts EXCEPT ![w] = @ + 1]
        /\ UNCHANGED recorded
     \/ ~MayRetry(w, temporary) /\ Enter(w, "failed") /\ Record(w, 0)
  /\ UNCHANGED <<clock, cache, prompt>>

Wake(w) ==
  /\ phase[w] = "sleep" /\ Enter(w, "attempt")
  /\ UNCHANGED <<clock, cache, prompt, attempts, paid, recorded, failures, disturbed>>

SleepCancelled(w) ==
  /\ phase[w] = "sleep" /\ Fault /\ Record(w, 0) /\ Enter(w, "failed")
  /\ UNCHANGED <<clock, cache, prompt, paid, disturbed>>

(* An empty text or an invalid usage: the empty Response that is returned   *)
(* is also the one whose usage is recorded.                                 *)
RejectAnswer(w) ==
  /\ phase[w] = "check" /\ Fault /\ Record(w, 0) /\ Enter(w, "failed") /\ disturbed' = TRUE
  /\ UNCHANGED <<clock, cache, prompt, paid>>

(* Mutant: the answer is not put into the cache.                            *)
PutNothing(k) == UNCHANGED <<cache, failures, disturbed>>

(* A cache that cannot be written does not fail the call.                   *)
Put(k) ==
  \/ cache' = [cache EXCEPT ![k] = clock + TTL] /\ UNCHANGED <<failures, disturbed>>
  \/ Fault /\ disturbed' = TRUE /\ UNCHANGED cache

AcceptAnswer(w) ==
  /\ phase[w] = "check" /\ Put(prompt[w]) /\ Record(w, 1) /\ Enter(w, "answered")
  /\ UNCHANGED <<clock, prompt, paid>>

Tick ==
  /\ clock < MaxClock /\ clock' = clock + 1
  /\ UNCHANGED <<cache, callVars, paid, recorded, failures, disturbed>>

Call(w) ==
  \/ CacheHit(w) \/ CacheMiss(w) \/ CacheReadFails(w)
  \/ ProviderAnswers(w) \/ \E temporary \in BOOLEAN : ProviderFails(w, temporary)
  \/ Wake(w) \/ SleepCancelled(w) \/ RejectAnswer(w) \/ AcceptAnswer(w)

-----------------------------------------------------------------------------
GatewayTypeOK ==
  /\ clock \in 0 .. MaxClock /\ cache \in [Prompts -> 0 .. MaxClock + TTL]
  /\ phase \in [Workers -> Phase] /\ prompt \in [Workers -> Prompts]
  /\ attempts \in [Workers -> 0 .. MaxRetries]
  /\ paid \in [Prompts -> Nat] /\ recorded \in Nat
  /\ failures \in 0 .. MaxFailures /\ disturbed \in BOOLEAN

(* A job that is tried again does not pay again for what it asked before,   *)
(* unless the entry expired, two calls asked at once or something failed.   *)
PaidOnce == ~disturbed => \A k \in Prompts : paid[k] <= 1

Payments == UNION {{k} \X (1 .. paid[k]) : k \in Prompts}

(* The margin job relies on the recorded costs: they never exceed what the  *)
(* provider charges, and they fall short of it only after a failure.        *)
CostIsRecorded ==
  /\ recorded <= Cardinality(Payments)
  /\ failures = 0 =>
       Cardinality(Payments) = recorded + Cardinality({w \in Workers : phase[w] = "check"})
=============================================================================
