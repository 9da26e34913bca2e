-------------------------- MODULE GitHubClientProofs --------------------------
(***************************************************************************)
(* Proofs about TokenSource and GitHubClient, for every set of goroutines  *)
(* and installations, every skew, every bound and every number of retries. *)
(* TokenInv is inductive and has the safety properties of the token source *)
(* on its own.  The client that composes it implements TokenSpec, so all   *)
(* of that holds inside the client as well; ClientInv is inductive, too,   *)
(* and bounds how often GitHub carries a request out.                      *)
(***************************************************************************)
EXTENDS GitHubClient, TLAPS


(* The initial state satisfies the inductive invariant: nothing is cached,  *)
(* nothing is in flight, nobody is inside Token.                            *)
LEMMA TokenInitInv == TokenInit => TokenInv
<1> SUFFICES ASSUME TokenInit PROVE TokenInv
  OBVIOUS
<1>1. TokenTypeOK
  BY DEF TokenInit, TokenTypeOK, Phase, NoToken
<1>2. InflightIsLeader
  BY NoCallerAssumption DEF TokenInit, InflightIsLeader, Leaders
<1>3. LeaderSawStale /\ BeganInThePast /\ OutcomeFresh /\ FollowerHasLeader
  BY DEF TokenInit, LeaderSawStale, BeganInThePast, OutcomeFresh, FollowerHasLeader
<1>4. QED
  BY <1>1, <1>2, <1>3 DEF TokenInv

(* Every step preserves the types.                                          *)
LEMMA TokenStepType == TokenTypeOK /\ [TokenNext]_tokenVars => TokenTypeOK'
<1> SUFFICES ASSUME TokenTypeOK, [TokenNext]_tokenVars PROVE TokenTypeOK'
  OBVIOUS
<1> USE DEF TokenTypeOK, Phase, NoToken
<1>1. CASE Tick
  BY <1>1 DEF Tick
<1>2. ASSUME NEW c \in Callers, Hit(c) \/ Join(c) \/ Lead(c) PROVE TokenTypeOK'
  BY <1>2, NoCallerAssumption DEF Hit, Join, Lead
<1>3. ASSUME NEW c \in Callers, Mint(c) PROVE TokenTypeOK'
  BY <1>3, BoundsAssumption DEF Mint, MintReturns, Expiry
<1>4. ASSUME NEW c \in Callers, Publish(c) PROVE TokenTypeOK'
  BY <1>4 DEF Publish, Store, Close
<1>5. ASSUME NEW c \in Callers, Receive(c) \/ GiveUp(c) \/ Return(c) PROVE TokenTypeOK'
  BY <1>5 DEF Receive, GiveUp, Return
<1>6. ASSUME NEW c \in Callers, NEW i \in Installations, Ask(c, i) PROVE TokenTypeOK'
  BY <1>6 DEF Ask
<1>7. CASE UNCHANGED tokenVars
  BY <1>7 DEF tokenVars
<1>8. QED
  BY <1>1, <1>2, <1>3, <1>4, <1>5, <1>6, <1>7 DEF TokenNext, TokenStep

(* Every step preserves the inductive invariant.                            *)
LEMMA TokenStepInv == TokenInv /\ [TokenNext]_tokenVars => TokenInv'
<1> SUFFICES ASSUME TokenInv, [TokenNext]_tokenVars
             PROVE  /\ InflightIsLeader' /\ LeaderSawStale' /\ BeganInThePast'
                    /\ OutcomeFresh' /\ FollowerHasLeader'
  BY TokenStepType DEF TokenInv
<1> DEFINE Goal == /\ InflightIsLeader /\ LeaderSawStale /\ BeganInThePast
                   /\ OutcomeFresh /\ FollowerHasLeader
<1>0. TokenTypeOK /\ Goal
  BY DEF TokenInv
<1>1. CASE Tick
  (* Time passes: only the ghosts' distance to the clock changes.           *)
  BY <1>0, <1>1 DEF Tick, TokenTypeOK, InflightIsLeader, Leaders, LeaderSawStale,
     BeganInThePast, OutcomeFresh, FollowerHasLeader
<1>2. ASSUME NEW c \in Callers, Hit(c) PROVE Goal'
  <2>1. InflightIsLeader' /\ FollowerHasLeader'
    BY <1>0, <1>2 DEF Hit, TokenTypeOK, InflightIsLeader, Leaders, FollowerHasLeader
  <2>2. LeaderSawStale' /\ BeganInThePast'
    BY <1>0, <1>2 DEF Hit, TokenTypeOK, LeaderSawStale, BeganInThePast
  <2>3. OutcomeFresh'
    BY <1>0, <1>2, SkewAssumption DEF Hit, Fresh, TokenTypeOK, OutcomeFresh
  <2>4. QED  BY <2>1, <2>2, <2>3
<1>3. ASSUME NEW c \in Callers, Join(c) PROVE Goal'
  <2>1. inflight[want[c]] \in Callers /\ inflight[want[c]] # c
    BY <1>0, <1>3 DEF Join, TokenTypeOK, InflightIsLeader, Leaders
  <2>2. InflightIsLeader' /\ LeaderSawStale'
    BY <1>0, <1>3 DEF Join, TokenTypeOK, InflightIsLeader, Leaders, LeaderSawStale
  <2>3. BeganInThePast' /\ OutcomeFresh'
    BY <1>0, <1>3, <2>1 DEF Join, TokenTypeOK, BeganInThePast, OutcomeFresh, NoToken
  <2>4. FollowerHasLeader'
    BY <1>0, <1>3, <2>1
       DEF Join, TokenTypeOK, FollowerHasLeader, InflightIsLeader, Leaders
  <2>5. QED  BY <2>2, <2>3, <2>4
<1>4. ASSUME NEW c \in Callers, Lead(c) PROVE Goal'
  (* The cache was stale and nothing was in flight: nobody follows or leads. *)
  <2>1. InflightIsLeader'
    BY <1>0, <1>4, NoCallerAssumption DEF Lead, TokenTypeOK, InflightIsLeader, Leaders
  <2>2. LeaderSawStale' /\ BeganInThePast'
    BY <1>0, <1>4, SkewAssumption
       DEF Lead, Fresh, TokenTypeOK, LeaderSawStale, BeganInThePast
  <2>3. OutcomeFresh'
    BY <1>0, <1>4 DEF Lead, TokenTypeOK, OutcomeFresh
  <2>4. FollowerHasLeader'
    BY <1>0, <1>4, NoCallerAssumption
       DEF Lead, TokenTypeOK, FollowerHasLeader, InflightIsLeader, Leaders
  <2>5. QED  BY <2>1, <2>2, <2>3, <2>4
<1>5. ASSUME NEW c \in Callers, Mint(c) PROVE Goal'
  <2>1. PICK expiry \in Expiry : MintReturns(c, expiry)
    BY <1>5 DEF Mint
  <2>2. InflightIsLeader' /\ FollowerHasLeader'
    BY <1>0, <2>1 DEF MintReturns, TokenTypeOK, InflightIsLeader, Leaders, FollowerHasLeader
  <2>3. LeaderSawStale' /\ BeganInThePast'
    BY <1>0, <2>1 DEF MintReturns, TokenTypeOK, LeaderSawStale, BeganInThePast
  <2>4. OutcomeFresh'
    (* The check of line 86 reads a clock not before the call's beginning.  *)
    BY <1>0, <2>1, SkewAssumption, BoundsAssumption
       DEF MintReturns, Fresh, Expiry, TokenTypeOK, OutcomeFresh, BeganInThePast, NoToken
  <2>5. QED  BY <2>2, <2>3, <2>4
<1>6. ASSUME NEW c \in Callers, Publish(c) PROVE Goal'
  <2>1. inflight[want[c]] = c
    BY <1>0, <1>6 DEF Publish, TokenTypeOK, InflightIsLeader, Leaders
  <2>2. \A f \in Followers(c) : since[f] = since[c]
    BY <1>0, <2>1 DEF Followers, FollowerHasLeader
  <2>3. InflightIsLeader'
    BY <1>0, <1>6, <2>1, NoCallerAssumption
       DEF Publish, Close, Followers, TokenTypeOK, InflightIsLeader, Leaders
  <2>4. LeaderSawStale' /\ BeganInThePast'
    (* The only leader of this installation leaves; the others' are others. *)
    BY <1>0, <1>6, <2>1
       DEF Publish, Store, Close, Followers, TokenTypeOK, LeaderSawStale,
           BeganInThePast, InflightIsLeader, Leaders
  <2>5. OutcomeFresh'
    BY <1>0, <1>6, <2>2 DEF Publish, Close, Followers, TokenTypeOK, OutcomeFresh
  <2>6. FollowerHasLeader'
    BY <1>0, <1>6, <2>1
       DEF Publish, Close, Followers, TokenTypeOK, FollowerHasLeader
  <2>7. QED  BY <2>3, <2>4, <2>5, <2>6
<1>7. ASSUME NEW c \in Callers, Receive(c) \/ GiveUp(c) \/ Return(c) PROVE Goal'
  (* None of these callers leads, and none of them is waited for.           *)
  <2>1. InflightIsLeader' /\ LeaderSawStale'
    BY <1>0, <1>7
       DEF Receive, GiveUp, Return, TokenTypeOK, InflightIsLeader, Leaders, LeaderSawStale
  <2>2. BeganInThePast' /\ OutcomeFresh'
    BY <1>0, <1>7
       DEF Receive, GiveUp, Return, TokenTypeOK, BeganInThePast, OutcomeFresh, NoToken
  <2>3. FollowerHasLeader'
    BY <1>0, <1>7
       DEF Receive, GiveUp, Return, TokenTypeOK, FollowerHasLeader, InflightIsLeader, Leaders
  <2>4. QED  BY <2>1, <2>2, <2>3
<1>8. ASSUME NEW c \in Callers, NEW i \in Installations, Ask(c, i) PROVE Goal'
  BY <1>0, <1>8 DEF Ask, TokenTypeOK, InflightIsLeader, Leaders, LeaderSawStale,
     BeganInThePast, OutcomeFresh, FollowerHasLeader
<1>9. CASE UNCHANGED tokenVars
  BY <1>0, <1>9 DEF tokenVars, InflightIsLeader, Leaders, LeaderSawStale,
     BeganInThePast, OutcomeFresh, FollowerHasLeader
<1>10. QED
  BY <1>1, <1>2, <1>3, <1>4, <1>5, <1>6, <1>7, <1>8, <1>9 DEF TokenNext, TokenStep

(* The inductive invariant holds in every reachable state of the component. *)
THEOREM TokenInvariance == TokenSpec => []TokenInv
<1>1. QED
  BY TokenInitInv, TokenStepInv, PTL DEF TokenSpec

(* The invariant implies the three state properties: at most one mint per   *)
(* installation, no follower without a leader, no stale token returned.     *)
LEMMA TokenInvImplies ==
  TokenInv => SingleFlight /\ NoOrphanedFollower /\ ReturnedTokenFresh
<1> SUFFICES ASSUME TokenInv PROVE SingleFlight /\ NoOrphanedFollower /\ ReturnedTokenFresh
  OBVIOUS
<1>1. SingleFlight
  BY DEF TokenInv, TokenTypeOK, InflightIsLeader, SingleFlight, Leaders
<1>2. NoOrphanedFollower
  BY DEF TokenInv, TokenTypeOK, InflightIsLeader, FollowerHasLeader, NoOrphanedFollower
<1>3. ReturnedTokenFresh
  BY DEF TokenInv, OutcomeFresh, ReturnedTokenFresh
<1>4. QED
  BY <1>1, <1>2, <1>3

(* Under the invariant a step replaces a cached token only by one that      *)
(* expires later: only Publish writes, what it writes outlives its call's   *)
(* beginning by the skew, and what it overwrites does not.                  *)
LEMMA TokenStepRenews ==
  TokenInv /\ [TokenNext]_tokenVars
    => \A i \in Installations : token'[i] # token[i] => token'[i] > token[i]
<1> SUFFICES ASSUME TokenInv, [TokenNext]_tokenVars,
                    NEW i \in Installations, token'[i] # token[i]
             PROVE  token'[i] > token[i]
  OBVIOUS
<1>1. PICK c \in Callers : Publish(c)
  BY DEF TokenNext, TokenStep, tokenVars, Tick, Hit, Join, Lead, Mint, MintReturns,
         Receive, GiveUp, Return, Ask
<1>2. result[c] # NoToken /\ want[c] = i /\ token'[i] = result[c]
  BY <1>1 DEF Publish, Store, TokenInv, TokenTypeOK
<1>3. result[c] > since[c] + Skew
  BY <1>1, <1>2 DEF Publish, TokenInv, OutcomeFresh
<1>4. token[i] <= since[c] + Skew
  BY <1>1, <1>2 DEF Publish, TokenInv, LeaderSawStale
<1>5. QED
  BY <1>2, <1>3, <1>4, SkewAssumption DEF TokenInv, TokenTypeOK

(* Two goroutines never mint for the same installation at the same time.    *)
THEOREM TokenSingleFlight == TokenSpec => []SingleFlight
<1>1. QED
  BY TokenInvariance, TokenInvImplies, PTL

(* The cache only ever moves to a later expiry.                             *)
THEOREM TokenCacheOnlyRenewed == TokenSpec => CacheOnlyRenewed
<1>1. TokenInv /\ [TokenNext]_tokenVars
        => [\A i \in Installations : token'[i] # token[i] => token'[i] > token[i]]_tokenVars
  BY TokenStepRenews
<1>2. QED
  BY <1>1, TokenInvariance, PTL DEF TokenSpec, CacheOnlyRenewed

-----------------------------------------------------------------------------
(* The client.                                                              *)

(* A step of the client is a step of the token source or leaves it alone.   *)
LEMMA ClientStepIsTokenStep == [Next]_vars => [TokenNext]_tokenVars
<1> SUFFICES ASSUME [Next]_vars PROVE [TokenNext]_tokenVars
  OBVIOUS
<1> USE DEF TokenNext
<1>1. CASE Tick /\ UNCHANGED clientVars
  BY <1>1
<1>2. ASSUME NEW r \in Callers, NEW i \in Installations, NEW safe \in BOOLEAN,
             Do(r, i, safe)
      PROVE  TokenNext
  BY <1>2 DEF Do
<1>3. ASSUME NEW r \in Callers, CallToken(r) \/ TokenWaitCancelled(r) PROVE TokenNext
  BY <1>3 DEF CallToken, TokenWaitCancelled
<1>4. ASSUME NEW r \in Callers, TokenFailed(r) \/ Send(r) PROVE TokenNext
  BY <1>4 DEF TokenFailed, Send
<1>5. ASSUME NEW r \in Callers, Exchange(r) \/ Wake(r) \/ SleepCancelled(r)
      PROVE  UNCHANGED tokenVars
  BY <1>5 DEF Exchange, TransportFails, Respond, Wake, SleepCancelled
<1>6. CASE UNCHANGED vars
  BY <1>6 DEF vars
<1>7. QED
  BY <1>1, <1>2, <1>3, <1>4, <1>5, <1>6 DEF Next

(* The client uses the token source as the token source was specified: the  *)
(* retry loop interleaves with the cache only through whole calls of Token. *)
THEOREM ClientImplementsTokenSource == Spec => TokenSpec
<1>1. Init => TokenInit
  BY DEF Init
<1>2. QED
  BY <1>1, ClientStepIsTokenStep, PTL DEF Spec, TokenSpec

(* The types of the client's own variables.                                 *)
ClientTypeOK ==
  /\ at \in [Callers -> Place]
  /\ retryable \in [Callers -> BOOLEAN]
  /\ attempt \in [Callers -> Nat]
  /\ executed \in [Callers -> Nat]

ClientIndInv == ClientTypeOK /\ ClientInv

\* The invariant holds before the first request.
LEMMA ClientInitInv == Init => ClientIndInv
BY MaxRetriesAssumption
   DEF Init, TokenInit, ClientIndInv, ClientTypeOK, ClientInv, Place

(* Every step preserves the client's invariant; the token source's types    *)
(* are needed because its steps run inside Do.                              *)
LEMMA ClientStepInv ==
  TokenTypeOK /\ ClientIndInv /\ [Next]_vars => ClientIndInv'
<1> SUFFICES ASSUME TokenTypeOK, ClientIndInv, [Next]_vars PROVE ClientIndInv'
  OBVIOUS
<1> USE MaxRetriesAssumption
<1> USE DEF ClientIndInv, ClientTypeOK, ClientInv, Place, TokenTypeOK
<1>1. CASE Tick /\ UNCHANGED clientVars
  BY <1>1 DEF Tick, clientVars
<1>2. ASSUME NEW r \in Callers, NEW i \in Installations, NEW safe \in BOOLEAN,
             Do(r, i, safe)
      PROVE  ClientIndInv'
  BY <1>2 DEF Do, Ask
<1>3. ASSUME NEW r \in Callers, CallToken(r) PROVE ClientIndInv'
  (* Whoever moves inside Token is at "token", so nobody else leaves "idle". *)
  <2>1. \A d \in Callers : at[d] # "token" => phase'[d] = "idle"
    BY <1>3 DEF CallToken, TokenStep, Hit, Join, Lead, Mint, MintReturns,
       Publish, Close, Followers, Receive
  <2>2. QED
    BY <1>3, <2>1 DEF CallToken, clientVars
<1>4. ASSUME NEW r \in Callers, TokenWaitCancelled(r) PROVE ClientIndInv'
  BY <1>4 DEF TokenWaitCancelled, GiveUp, clientVars
<1>5. ASSUME NEW r \in Callers, TokenFailed(r) \/ Send(r) PROVE ClientIndInv'
  BY <1>5 DEF TokenFailed, Send, Return
<1>6. ASSUME NEW r \in Callers, TransportFails(r) PROVE ClientIndInv'
  BY <1>6 DEF TransportFails, Execute, MayRetry, tokenVars
<1>7. ASSUME NEW r \in Callers, NEW status \in Status, NEW delayed \in BOOLEAN,
             Respond(r, status, delayed)
      PROVE  ClientIndInv'
  BY <1>7 DEF Respond, Execute, MayRetry, tokenVars
<1>8. ASSUME NEW r \in Callers, Wake(r) \/ SleepCancelled(r) PROVE ClientIndInv'
  BY <1>8 DEF Wake, SleepCancelled, tokenVars
<1>9. CASE UNCHANGED vars
  BY <1>9 DEF vars, clientVars, tokenVars
<1>10. QED
  BY <1>1, <1>2, <1>3, <1>4, <1>5, <1>6, <1>7, <1>8, <1>9 DEF Next, Exchange

\* The invariants of the token source and of the client hold in every behaviour.
THEOREM ClientInvariance == Spec => [](TokenInv /\ ClientIndInv)
<1>1. TokenInv => TokenTypeOK
  BY DEF TokenInv
<1>2. QED
  BY <1>1, ClientInitInv, ClientStepInv, ClientImplementsTokenSource,
     TokenInvariance, PTL DEF Spec

(* A request that is not retryable is carried out at most once by GitHub,   *)
(* whatever is lost, limited or cancelled.                                  *)
THEOREM ClientPostAtMostOnce == Spec => []PostAtMostOnce
<1>1. ClientIndInv => PostAtMostOnce
  BY DEF ClientIndInv, ClientTypeOK, ClientInv, PostAtMostOnce
<1>2. QED
  BY <1>1, ClientInvariance, PTL

(* No request is carried out more than MaxRetries + 1 times.                *)
THEOREM ClientRetryBudget == Spec => []RetryBudget
<1>1. ClientIndInv => RetryBudget
  BY MaxRetriesAssumption DEF ClientIndInv, ClientTypeOK, ClientInv, RetryBudget
<1>2. QED
  BY <1>1, ClientInvariance, PTL

(* The types, and with them the bounds of both counters of a call.          *)
THEOREM ClientTypes == Spec => []TypeOK
<1>1. TokenInv /\ ClientIndInv => TypeOK
  BY MaxRetriesAssumption
     DEF TokenInv, ClientIndInv, ClientTypeOK, ClientInv, TypeOK
<1>2. QED
  BY <1>1, ClientInvariance, PTL

(* Inside the client too, whoever waits for a token waits for a live leader. *)
THEOREM ClientNoOrphanedFollower == Spec => []NoOrphanedFollower
<1>1. QED
  BY ClientInvariance, TokenInvImplies, PTL

(* Inside the client too, a returned token outlives the skew.               *)
THEOREM ClientReturnedTokenFresh == Spec => []ReturnedTokenFresh
<1>1. QED
  BY ClientInvariance, TokenInvImplies, PTL

(* Inside the client too, at most one goroutine mints for an installation,  *)
(* no follower is orphaned and no stale token is returned.                  *)
THEOREM ClientTokenSafety ==
  Spec => [](SingleFlight /\ NoOrphanedFollower /\ ReturnedTokenFresh)
<1>1. QED
  BY ClientInvariance, TokenInvImplies, PTL

(* Inside the client too, the cache only moves to a later expiry.           *)
THEOREM ClientCacheOnlyRenewed == Spec => CacheOnlyRenewed
<1>1. QED
  BY ClientImplementsTokenSource, TokenCacheOnlyRenewed, PTL

=============================================================================
