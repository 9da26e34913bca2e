---------------------------- MODULE GitHubClient ----------------------------
(***************************************************************************)
(* Client.Do of internal/hosted/githubapp/client.go, lines 116-220: the    *)
(* retrying HTTP client every GitHub publisher uses, composed with the     *)
(* token source it calls before every attempt.                             *)
(*                                                                         *)
(* A goroutine is a member of TokenSource's Callers.  One Do call at a     *)
(* time: ask for a token, send, and either return or sleep and try again.  *)
(* Requests are retryable or not (line 140); what GitHub did with a        *)
(* request - executed it or not, answered it or not, asked to come back    *)
(* later or not - is outside the process and nondeterministic.             *)
(***************************************************************************)
EXTENDS TokenSource

CONSTANT MaxRetries   \* Client.MaxRetries, 3 when it is not set

ASSUME MaxRetriesAssumption == MaxRetries \in Nat

VARIABLES
  at,         \* where each goroutine is inside Do
  retryable,  \* line 140: a safe method, or the request carries a key
  attempt,    \* the loop variable of line 142
  executed    \* ghost: how often GitHub carried out this goroutine's request

clientVars == <<at, retryable, attempt, executed>>
vars == <<tokenVars, clientVars>>

Place == {"outside", "token", "wire", "sleep"}

Init ==
  /\ TokenInit
  /\ at = [r \in Callers |-> "outside"]
  /\ retryable = [r \in Callers |-> FALSE]
  /\ attempt = [r \in Callers |-> 0]
  /\ executed = [r \in Callers |-> 0]

(* Lines 116-142: a request comes in; its body, if any, is read once.        *)
Do(r, i, safe) ==
  /\ at[r] = "outside"
  /\ at' = [at EXCEPT ![r] = "token"]
  /\ retryable' = [retryable EXCEPT ![r] = safe]
  /\ attempt' = [attempt EXCEPT ![r] = 0]
  /\ executed' = [executed EXCEPT ![r] = 0]
  /\ Ask(r, i)

(* Line 143: c.Tokens.Token runs inside Do.                                  *)
CallToken(r) ==
  /\ at[r] = "token"
  /\ TokenStep(r)
  /\ UNCHANGED clientVars

(* Line 143, with the request's context ending while Do waits for a mint.    *)
TokenWaitCancelled(r) ==
  /\ at[r] = "token"
  /\ GiveUp(r)
  /\ UNCHANGED clientVars

(* Lines 144-146: Token failed; Do gives up at once, whatever is left to try. *)
TokenFailed(r) ==
  /\ at[r] = "token"
  /\ result[r] = NoToken
  /\ Return(r)
  /\ at' = [at EXCEPT ![r] = "outside"]
  /\ UNCHANGED <<retryable, attempt, executed>>

(* Lines 147-156: a clone of the request goes out with this attempt's token.  *)
Send(r) ==
  /\ at[r] = "token"
  /\ result[r] # NoToken
  /\ Return(r)
  /\ at' = [at EXCEPT ![r] = "wire"]
  /\ UNCHANGED <<retryable, attempt, executed>>

(* GitHub carried the request out or did not, and we need not learn which.    *)
Execute(r) ==
  \E n \in {executed[r], executed[r] + 1} : executed' = [executed EXCEPT ![r] = n]

(* Mutants of MayRetry: the method is not looked at; one attempt too many;    *)
(* the attempts are never counted.                                            *)
RetryAnything(r)    == attempt[r] < MaxRetries
RetryOnceTooMany(r) == retryable[r] /\ attempt[r] <= MaxRetries
RetryForever(r)     == retryable[r]

(* Lines 158 and 167.                                                         *)
MayRetry(r) == retryable[r] /\ attempt[r] < MaxRetries

(* Lines 156-165: the transport fails, before or after GitHub carried the     *)
(* request out; sleep and retry, or return the error.                         *)
TransportFails(r) ==
  /\ at[r] = "wire"
  /\ Execute(r)
  /\ at' = [at EXCEPT ![r] = IF MayRetry(r) THEN "sleep" ELSE "outside"]
  /\ UNCHANGED <<tokenVars, retryable, attempt>>

Status == {"success", "clientError", "forbidden", "tooMany", "serverError"}

(* Lines 178-199, retryDelay: "delayed" says that the response carries a      *)
(* usable Retry-After or an exhausted X-RateLimit.                            *)
Limited(status, delayed) ==
  \/ status \in {"tooMany", "serverError"}
  \/ status = "forbidden" /\ delayed

(* Lines 166-171: a response.  A success was carried out, a refusal was not,  *)
(* a server error says nothing about it.                                      *)
Respond(r, status, delayed) ==
  /\ at[r] = "wire"
  /\ IF status = "serverError"
     THEN Execute(r)
     ELSE executed' = [executed EXCEPT ![r] = IF status = "success" THEN @ + 1 ELSE @]
  /\ at' = [at EXCEPT ![r] = IF Limited(status, delayed) /\ MayRetry(r)
                             THEN "sleep" ELSE "outside"]
  /\ UNCHANGED <<tokenVars, retryable, attempt>>

(* Lines 161, 172 and 142: the delay is over, the loop goes round.            *)
Wake(r) ==
  /\ at[r] = "sleep"
  /\ at' = [at EXCEPT ![r] = "token"]
  /\ attempt' = [attempt EXCEPT ![r] = @ + 1]
  /\ UNCHANGED <<tokenVars, retryable, executed>>

(* Lines 161-163, 172-174: the context ends during the delay.                 *)
SleepCancelled(r) ==
  /\ at[r] = "sleep"
  /\ at' = [at EXCEPT ![r] = "outside"]
  /\ UNCHANGED <<tokenVars, retryable, attempt, executed>>

Exchange(r) ==
  \/ TransportFails(r)
  \/ \E status \in Status, delayed \in BOOLEAN : Respond(r, status, delayed)

Next ==
  \/ Tick /\ UNCHANGED clientVars
  \/ \E r \in Callers :
       \/ \E i \in Installations, safe \in BOOLEAN : Do(r, i, safe)
       \/ CallToken(r) \/ TokenWaitCancelled(r) \/ TokenFailed(r) \/ Send(r)
       \/ Exchange(r) \/ Wake(r) \/ SleepCancelled(r)

(* A goroutine that can run is scheduled, a mint and an exchange end (the     *)
(* peer answers or the connection breaks), a timer fires.  Nobody has to make *)
(* a request, and no context has to end.                                      *)
Fairness ==
  \A r \in Callers :
    /\ WF_vars(CallToken(r)) /\ WF_vars(TokenFailed(r)) /\ WF_vars(Send(r))
    /\ WF_vars(Exchange(r)) /\ WF_vars(Wake(r))

Spec == Init /\ [][Next]_vars /\ Fairness

-----------------------------------------------------------------------------

TypeOK ==
  /\ TokenTypeOK
  /\ at \in [Callers -> Place]
  /\ retryable \in [Callers -> BOOLEAN]
  /\ attempt \in [Callers -> 0 .. MaxRetries]
  /\ executed \in [Callers -> 0 .. MaxRetries + 1]

(* A request GitHub might not treat as idempotent is carried out at most      *)
(* once, whatever is lost, limited or cancelled on the way: the publishers    *)
(* rely on it ("does not retry POSTs", review.go:51-52).                      *)
PostAtMostOnce ==
  \A r \in Callers : ~retryable[r] => executed[r] <= 1

(* A retryable request is tried at most MaxRetries times again, transport     *)
(* errors and rate limits counted together (lines 158 and 167).               *)
RetryBudget ==
  \A r \in Callers : executed[r] <= MaxRetries + 1

(* Every Do returns: through a failed mint, as a leader or a follower, after  *)
(* any mixture of transport errors and rate limits.                           *)
DoReturns ==
  \A r \in Callers : at[r] # "outside" ~> at[r] = "outside"

(* The inductive form of PostAtMostOnce and RetryBudget: before attempt n     *)
(* goes out, at most n copies of the request were carried out, and a request  *)
(* that is not retryable is never tried again.                                *)
ClientInv ==
  \A r \in Callers :
    /\ at[r] \in {"token", "wire"} => executed[r] <= attempt[r]
    /\ executed[r] <= attempt[r] + 1
    /\ ~retryable[r] => attempt[r] = 0 /\ at[r] # "sleep"
    /\ attempt[r] <= MaxRetries
    /\ at[r] = "sleep" => attempt[r] < MaxRetries
    /\ at[r] # "token" => phase[r] = "idle"

=============================================================================
