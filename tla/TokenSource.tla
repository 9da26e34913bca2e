----------------------------- MODULE TokenSource -----------------------------
(***************************************************************************)
(* CachedTokenSource of internal/hosted/githubapp/client.go: the in-memory *)
(* cache of GitHub installation tokens that all goroutines talking to      *)
(* GitHub share.  A call of Token either                                   *)
(*   - hits the cache,                                                     *)
(*   - joins the mint another goroutine has in flight and waits for it, or *)
(*   - leads: registers a mintCall, mints OUTSIDE the mutex, checks the    *)
(*     minted token OUTSIDE the mutex, and then publishes it inside it.    *)
(*                                                                         *)
(* Abstractions.  A token is its expiry time; NoToken is the zero Token,   *)
(* the empty value and every error.  The two sections under the mutex      *)
(* (lines 64-83 and 90-100) are one step each.  A mintCall never changes   *)
(* once it is closed, so closing it hands its outcome to each follower,    *)
(* which has still to be scheduled (phase "ready") to return it.           *)
(*                                                                         *)
(* The names carry the prefix Token so that GitHubClient can extend this   *)
(* module; TokenSpec is the component on its own.                          *)
(***************************************************************************)
EXTENDS Naturals, FiniteSets

CONSTANTS
  Callers,        \* goroutines calling Token, one call at a time each
  Installations,  \* GitHub App installations
  NoCaller,       \* "no call in flight": the nil *mintCall
  Skew,           \* CachedTokenSource.Skew
  MaxTime,        \* bound on the clock
  MaxExpiry       \* bound on the expiry of a minted token

ASSUME SkewAssumption     == Skew \in Nat
ASSUME BoundsAssumption   == MaxTime \in Nat /\ MaxExpiry \in Nat
ASSUME NoCallerAssumption == NoCaller \notin Callers

VARIABLES
  clock,      \* time as now() returns it
  token,      \* s.tokens: the expiry of the cached token per installation
  inflight,   \* s.inflight: the leader of the mint in flight, or NoCaller
  phase,      \* where each caller is inside Token
  want,       \* the installationID argument of each caller's call
  result,     \* the token a caller minted, was handed, or returns
  since       \* ghost: when the call whose outcome this caller returns began

tokenVars == <<clock, token, inflight, phase, want, result, since>>

NoToken == 0
Expiry  == 0 .. MaxExpiry
Phase   == {"idle", "mint", "publish", "wait", "ready", "returned"}

TokenInit ==
  /\ clock = 0
  /\ token = [i \in Installations |-> NoToken]
  /\ inflight = [i \in Installations |-> NoCaller]
  /\ phase = [c \in Callers |-> "idle"]
  /\ want \in [Callers -> Installations]
  /\ result = [c \in Callers |-> NoToken]
  /\ since = [c \in Callers |-> 0]

(* The goroutines minting for an installation.                              *)
Leaders(i) == {c \in Callers : phase[c] \in {"mint", "publish"} /\ want[c] = i}

(* The goroutines waiting on the call.done of leader c.                     *)
Followers(c) == {f \in Callers : phase[f] = "wait" /\ want[f] = want[c]}

(* The test of lines 65 and 86: now().Add(skew) is before the expiry.       *)
Fresh(expiry) == clock + Skew < expiry

(* A caller of Token chooses the installation it asks for.                   *)
Ask(c, i) ==
  /\ phase[c] = "idle"
  /\ want' = [want EXCEPT ![c] = i]
  /\ UNCHANGED <<clock, token, inflight, phase, result, since>>

(* Lines 64-68: a cached token that is fresh is returned.                   *)
Hit(c) ==
  /\ phase[c] = "idle"
  /\ Fresh(token[want[c]])
  /\ phase' = [phase EXCEPT ![c] = "returned"]
  /\ result' = [result EXCEPT ![c] = token[want[c]]]
  /\ since' = [since EXCEPT ![c] = clock]
  /\ UNCHANGED <<clock, token, inflight, want>>

(* Lines 69-71: a mint is in flight, the caller waits for it.               *)
Join(c) ==
  /\ phase[c] = "idle"
  /\ ~Fresh(token[want[c]])
  /\ inflight[want[c]] # NoCaller
  /\ phase' = [phase EXCEPT ![c] = "wait"]
  /\ since' = [since EXCEPT ![c] = since[inflight[want[c]]]]
  /\ result' = [result EXCEPT ![c] = NoToken]
  /\ UNCHANGED <<clock, token, inflight, want>>

(* Mutant: the new call is never put into s.inflight (line 82).             *)
LeadUnregistered(c) ==
  /\ phase[c] = "idle"
  /\ ~Fresh(token[want[c]])
  /\ inflight[want[c]] = NoCaller
  /\ phase' = [phase EXCEPT ![c] = "mint"]
  /\ since' = [since EXCEPT ![c] = clock]
  /\ result' = [result EXCEPT ![c] = NoToken]
  /\ UNCHANGED <<clock, token, inflight, want>>

(* Lines 78-83: nothing is in flight, the caller registers its own call.    *)
Lead(c) ==
  /\ phase[c] = "idle"
  /\ ~Fresh(token[want[c]])
  /\ inflight[want[c]] = NoCaller
  /\ inflight' = [inflight EXCEPT ![want[c]] = c]
  /\ phase' = [phase EXCEPT ![c] = "mint"]
  /\ since' = [since EXCEPT ![c] = clock]
  /\ result' = [result EXCEPT ![c] = NoToken]
  /\ UNCHANGED <<clock, token, want>>

(* Mutant: the minted token is not checked (line 86).                       *)
MintUnchecked(c, expiry) ==
  /\ phase[c] = "mint"
  /\ phase' = [phase EXCEPT ![c] = "publish"]
  /\ result' = [result EXCEPT ![c] = expiry]
  /\ UNCHANGED <<clock, token, inflight, want, since>>

(* Lines 85-88: Minter.Mint returns, with an error (NoToken: GitHub refused, *)
(* the leader's context ended, the value is empty) or with a token; one      *)
(* that expires within the skew is an error too.  The mutex is not held.     *)
MintReturns(c, expiry) ==
  /\ phase[c] = "mint"
  /\ phase' = [phase EXCEPT ![c] = "publish"]
  /\ result' = [result EXCEPT ![c] = IF Fresh(expiry) THEN expiry ELSE NoToken]
  /\ UNCHANGED <<clock, token, inflight, want, since>>

(* Lines 91-96: only a successful mint reaches the cache.                    *)
Store(c) ==
  token' = IF result[c] = NoToken THEN token
           ELSE [token EXCEPT ![want[c]] = result[c]]

(* Lines 97 and 99: the outcome is in the call, and the call is closed.      *)
Close(c) ==
  /\ phase' = [d \in Callers |-> IF d = c THEN "returned"
                                 ELSE IF d \in Followers(c) THEN "ready" ELSE phase[d]]
  /\ result' = [d \in Callers |-> IF d \in Followers(c) THEN result[c] ELSE result[d]]

(* Mutant: the call is left in s.inflight (line 98).                         *)
PublishKeepingCall(c) ==
  /\ phase[c] = "publish"
  /\ Store(c)
  /\ Close(c)
  /\ UNCHANGED <<clock, inflight, want, since>>

(* Mutant: call.done is never closed (line 99).                              *)
PublishWithoutClosing(c) ==
  /\ phase[c] = "publish"
  /\ Store(c)
  /\ inflight' = [inflight EXCEPT ![want[c]] = NoCaller]
  /\ phase' = [phase EXCEPT ![c] = "returned"]
  /\ UNCHANGED <<clock, want, result, since>>

(* Lines 90-101: cache the token unless the mint failed, forget the call,    *)
(* close it for every follower, and return.                                  *)
Publish(c) ==
  /\ phase[c] = "publish"
  /\ Store(c)
  /\ inflight' = [inflight EXCEPT ![want[c]] = NoCaller]
  /\ Close(c)
  /\ UNCHANGED <<clock, want, since>>

(* Lines 74-75: a follower is scheduled and returns its leader's outcome,    *)
(* token or error.                                                           *)
Receive(c) ==
  /\ phase[c] = "ready"
  /\ phase' = [phase EXCEPT ![c] = "returned"]
  /\ UNCHANGED <<clock, token, inflight, want, result, since>>

(* Lines 71-73: the follower's own context ends; the select may choose that  *)
(* case even when call.done is closed already.                               *)
GiveUp(c) ==
  /\ phase[c] \in {"wait", "ready"}
  /\ phase' = [phase EXCEPT ![c] = "returned"]
  /\ result' = [result EXCEPT ![c] = NoToken]
  /\ UNCHANGED <<clock, token, inflight, want, since>>

(* The caller has taken the answer over.                                     *)
Return(c) ==
  /\ phase[c] = "returned"
  /\ phase' = [phase EXCEPT ![c] = "idle"]
  /\ result' = [result EXCEPT ![c] = NoToken]
  /\ since' = [since EXCEPT ![c] = 0]
  /\ UNCHANGED <<clock, token, inflight, want>>

Tick ==
  /\ clock < MaxTime
  /\ clock' = clock + 1
  /\ UNCHANGED <<token, inflight, phase, want, result, since>>

Mint(c) == \E expiry \in Expiry : MintReturns(c, expiry)

(* The steps of one call of Token, from its entry to its return, but for the *)
(* end of its context.                                                       *)
TokenStep(c) ==
  Hit(c) \/ Join(c) \/ Lead(c) \/ Mint(c) \/ Publish(c) \/ Receive(c)

TokenNext ==
  \/ Tick
  \/ \E c \in Callers : TokenStep(c) \/ GiveUp(c) \/ Return(c)
  \/ \E c \in Callers, i \in Installations : Ask(c, i)

TokenSpec == TokenInit /\ [][TokenNext]_tokenVars

-----------------------------------------------------------------------------

TokenTypeOK ==
  /\ clock \in Nat
  /\ token \in [Installations -> Nat]
  /\ inflight \in [Installations -> Callers \union {NoCaller}]
  /\ phase \in [Callers -> Phase]
  /\ want \in [Callers -> Installations]
  /\ result \in [Callers -> Nat]
  /\ since \in [Callers -> Nat]

(* "Coalesces concurrent refreshes for the same installation" (lines 39-40): *)
(* two goroutines are never minting for the same installation, although the  *)
(* mutex is not held while they mint.                                        *)
SingleFlight ==
  \A i \in Installations : \A c, d \in Leaders(i) : c = d

(* Whoever waits on a call waits on one whose leader is still going to close *)
(* it: no follower is left on a call that was replaced in or removed from    *)
(* s.inflight (lines 69-77 against 98-99).                                   *)
NoOrphanedFollower ==
  \A f \in Callers : phase[f] = "wait" => inflight[want[f]] \in Leaders(want[f])

(* A token that is returned outlives, by more than the skew, the moment the  *)
(* call that produced it began - through the cache, as leader or as follower *)
(* (lines 65 and 86).  It need not outlive the moment a follower joined: the *)
(* follower may join between the check (86) and the publication (90).        *)
ReturnedTokenFresh ==
  \A c \in Callers :
    phase[c] = "returned" /\ result[c] # NoToken => result[c] > since[c] + Skew

(* The cache never goes back: an entry is only ever replaced by a token that *)
(* expires later.  Line 95 overwrites unconditionally; that this is right    *)
(* rests on the miss of line 65, the single flight and the check of line 86. *)
CacheOnlyRenewed ==
  [][\A i \in Installations : token'[i] # token[i] => token'[i] > token[i]]_tokenVars

-----------------------------------------------------------------------------
(* The inductive invariant behind the four properties above.                 *)

(* s.inflight names the leader of an installation, and only a leader.        *)
InflightIsLeader ==
  \A i \in Installations : \A c \in Callers : inflight[i] = c <=> c \in Leaders(i)

(* While a refresh is in flight the cached token stays the expiring one its  *)
(* leader saw when the refresh began.                                        *)
LeaderSawStale ==
  \A c \in Callers :
    phase[c] \in {"mint", "publish"} => token[want[c]] <= since[c] + Skew

BeganInThePast == \A c \in Callers : since[c] <= clock

(* What was minted or handed over is fresh relative to the producing call.   *)
OutcomeFresh ==
  \A c \in Callers :
    phase[c] \in {"publish", "ready", "returned"} /\ result[c] # NoToken
      => result[c] > since[c] + Skew

(* A follower has a leader in flight and dates from it.                      *)
FollowerHasLeader ==
  \A f \in Callers : phase[f] = "wait" =>
    /\ inflight[want[f]] \in Callers
    /\ since[f] = since[inflight[want[f]]]

TokenInv ==
  /\ TokenTypeOK
  /\ InflightIsLeader
  /\ LeaderSawStale
  /\ BeganInThePast
  /\ OutcomeFresh
  /\ FollowerHasLeader

=============================================================================
