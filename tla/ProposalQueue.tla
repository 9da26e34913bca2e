---------------------------- MODULE ProposalQueue ----------------------------
(***************************************************************************)
(* The queue of proposed review rules, internal/hosted/learning/           *)
(* proposal_queue.go: reviewers edit, reject and accept a proposal, and    *)
(* accepting opens a pull request with its text.  Proposals share no       *)
(* state; the module is about one of them.                                 *)
(*                                                                         *)
(* Every call is several round trips to the store and the publisher, and   *)
(* the calls of several reviewers interleave between any two of them.      *)
(* The store is behind an interface (lines 30-37).  Its three "Pending"    *)
(* methods act on a pending proposal only.  CompleteProposal and           *)
(* ReleaseProposal promise nothing about the state they find, and the      *)
(* test's store ignores it: outside "publishing" they may take effect or   *)
(* fail here.  OpenProposal is idempotent for the proposal (line 40): the  *)
(* pull request keeps the text it was opened with.                         *)
(***************************************************************************)
EXTENDS Naturals, FiniteSets

CONSTANTS
  Reviewers,   \* people, or retries, calling the queue
  Texts,       \* rule texts
  NoText,      \* no pull request, nothing read
  MaxCrashes   \* bound on calls that die half-way

ASSUME NoTextAssumption == NoText \notin Texts
ASSUME CrashAssumption  == MaxCrashes \in Nat

VARIABLES
  state,      \* the stored ProposalState
  text,       \* the stored RuleText
  pull,       \* the text of the open pull request, or NoText
  at,         \* where each reviewer's call is
  seen,       \* the proposal's text as the call read it
  crashes,    \* calls that died so far
  disturbed   \* ghost: something happened that sequential use rules out

store == <<state, text>>
vars  == <<state, text, pull, at, seen, crashes, disturbed>>

State == {"pending", "publishing", "accepted", "rejected"}
Place == {"idle", "edit", "reject", "claim", "publish", "complete", "release"}

Init ==
  /\ state = "pending"
  /\ text \in Texts
  /\ pull = NoText
  /\ at = [r \in Reviewers |-> "idle"]
  /\ seen = [r \in Reviewers |-> NoText]
  /\ crashes = 0
  /\ disturbed = FALSE

(* The calls of Accept under way; between its load and its claim.           *)
Accepting == {r \in Reviewers : at[r] \in {"claim", "publish", "complete", "release"}}
Claiming  == {r \in Reviewers : at[r] = "claim"}

Goto(r, place) == at' = [at EXCEPT ![r] = place]

(* Lines 49-52 and 60-63: Edit and Reject first read the proposal and go on *)
(* only if it is pending (validate, lines 101-115).                         *)
BeginChange(r, call) ==
  /\ at[r] = "idle" /\ call \in {"edit", "reject"}
  /\ state = "pending"
  /\ Goto(r, call)
  /\ UNCHANGED <<store, pull, seen, crashes, disturbed>>

(* Mutant: the update takes effect in any state.                            *)
UpdateAnyState(r, new) ==
  /\ at[r] = "edit"
  /\ text' = new
  /\ disturbed' = (disturbed \/ Claiming # {})
  /\ Goto(r, "idle")
  /\ UNCHANGED <<state, pull, seen, crashes>>

(* Line 57.  Editing what somebody has loaded in order to accept it is a    *)
(* disturbance: the claim does not look at the text again.                  *)
UpdatePending(r, new) ==
  /\ at[r] = "edit"
  /\ IF state = "pending"
     THEN text' = new /\ disturbed' = (disturbed \/ Claiming # {})
     ELSE UNCHANGED <<text, disturbed>>
  /\ Goto(r, "idle")
  /\ UNCHANGED <<state, pull, seen, crashes>>

(* Line 64.                                                                 *)
RejectPending(r) ==
  /\ at[r] = "reject"
  /\ state' = IF state = "pending" THEN "rejected" ELSE state
  /\ Goto(r, "idle")
  /\ UNCHANGED <<text, pull, seen, crashes, disturbed>>

(* Mutant: only a pending proposal can be accepted (without line 83).       *)
LoadPendingOnly(r) ==
  /\ at[r] = "idle"
  /\ state = "pending"
  /\ Goto(r, "claim")
  /\ seen' = [seen EXCEPT ![r] = text]
  /\ disturbed' = (disturbed \/ Accepting # {})
  /\ UNCHANGED <<store, pull, crashes>>

(* Lines 71-75 and 83-85: Accept reads the proposal; one that is already    *)
(* publishing is taken over from whoever claimed it, dead or not.           *)
LoadForAccept(r) ==
  /\ at[r] = "idle"
  /\ state \in {"pending", "publishing"}
  /\ Goto(r, IF state = "pending" THEN "claim" ELSE "publish")
  /\ seen' = [seen EXCEPT ![r] = text]
  /\ disturbed' = (disturbed \/ Accepting # {})
  /\ UNCHANGED <<store, pull, crashes>>

(* Lines 76-82: whoever finds the proposal no longer pending returns.       *)
Claim(r) ==
  /\ at[r] = "claim"
  /\ IF state = "pending"
     THEN state' = "publishing" /\ Goto(r, "publish")
     ELSE state' = state /\ Goto(r, "idle")
  /\ UNCHANGED <<text, pull, seen, crashes, disturbed>>

(* The pull request of the proposal, opened now unless it is open already.  *)
Opened(r) == IF pull = NoText THEN seen[r] ELSE pull

(* Line 86, with a usable URL: the text is the one read before the claim.   *)
OpenProposal(r) ==
  /\ at[r] = "publish"
  /\ pull' = Opened(r)
  /\ Goto(r, "complete")
  /\ UNCHANGED <<store, seen, crashes, disturbed>>

(* Lines 86-87 and 91: the publisher fails, or its URL is unusable; the     *)
(* pull request may be open nevertheless.                                   *)
OpenFails(r, opened) ==
  /\ at[r] = "publish"
  /\ pull' = IF opened THEN Opened(r) ELSE pull
  /\ disturbed' = (disturbed \/ opened)
  /\ Goto(r, "release")
  /\ UNCHANGED <<store, seen, crashes>>

(* A store method that means to leave "publishing" for another state.       *)
Leave(new) == state' = new \/ (state # "publishing" /\ state' = state)

(* Mutant: a failed publication completes the proposal.                     *)
CompleteWhenReleasing(r) ==
  /\ at[r] = "release"
  /\ Leave("accepted")
  /\ Goto(r, "idle")
  /\ seen' = [seen EXCEPT ![r] = NoText]
  /\ UNCHANGED <<text, pull, crashes, disturbed>>

(* Lines 88-89 and 92-93: the claim is given back; an error of the store    *)
(* is ignored.                                                              *)
Release(r) ==
  /\ at[r] = "release"
  /\ Leave("pending")
  /\ Goto(r, "idle")
  /\ seen' = [seen EXCEPT ![r] = NoText]
  /\ UNCHANGED <<text, pull, crashes, disturbed>>

(* Lines 95-98.                                                             *)
Complete(r) ==
  /\ at[r] = "complete"
  /\ Leave("accepted")
  /\ Goto(r, "idle")
  /\ seen' = [seen EXCEPT ![r] = NoText]
  /\ UNCHANGED <<text, pull, crashes, disturbed>>

(* The process dies, or a call to the store fails, and the call is over.    *)
Crash(r) ==
  /\ at[r] # "idle"
  /\ crashes < MaxCrashes
  /\ crashes' = crashes + 1
  /\ disturbed' = (disturbed \/ r \in Accepting)
  /\ Goto(r, "idle")
  /\ seen' = [seen EXCEPT ![r] = NoText]
  /\ UNCHANGED <<store, pull>>

Publish(r) == OpenProposal(r) \/ \E opened \in BOOLEAN : OpenFails(r, opened)

Proceed(r) ==
  \/ \E new \in Texts : UpdatePending(r, new)
  \/ RejectPending(r) \/ Claim(r) \/ Publish(r) \/ Release(r) \/ Complete(r)

Next ==
  \E r \in Reviewers :
    \/ \E call \in {"edit", "reject"} : BeginChange(r, call)
    \/ LoadForAccept(r) \/ Proceed(r) \/ Crash(r)

(* A call that runs goes on; and a reviewer who finds the proposal          *)
(* publishing accepts it again - the queue has no timer that would.         *)
Fairness ==
  \A r \in Reviewers :
    /\ WF_vars(Proceed(r))
    /\ WF_vars(state = "publishing" /\ LoadForAccept(r))

Spec == Init /\ [][Next]_vars /\ Fairness

-----------------------------------------------------------------------------

TypeOK ==
  /\ state \in State
  /\ text \in Texts
  /\ pull \in Texts \union {NoText}
  /\ at \in [Reviewers -> Place]
  /\ seen \in [Reviewers -> Texts \union {NoText}]
  /\ crashes \in 0 .. MaxCrashes
  /\ disturbed \in BOOLEAN

(* A proposal is never shown as accepted without a pull request, whoever    *)
(* completes it after whichever failures (lines 86-98).                     *)
AcceptedIsPublished == state = "accepted" => pull # NoText

(* Used by one accepting reviewer at a time, with no edit between a load    *)
(* and its claim, no crash and no publication whose answer is lost, the     *)
(* queue is right: what was accepted is what was published, and what was    *)
(* rejected was not.  Each of these exceptions is needed.                   *)
UndisturbedIsConsistent ==
  ~disturbed =>
    /\ state = "accepted" => pull = text
    /\ state \in {"pending", "rejected"} => pull = NoText

(* A proposal whose publisher died does not stay claimed: accepting again   *)
(* takes it over (line 83) and completes or releases it.                    *)
NeverStuckPublishing == state = "publishing" ~> state # "publishing"

-----------------------------------------------------------------------------
(* The inductive invariant behind the two safety properties.                *)

(* A call that publishes has read the text; one that completes has          *)
(* published.                                                               *)
PublishedBeforeComplete ==
  \A r \in Reviewers :
    /\ at[r] \in {"claim", "publish"} => seen[r] \in Texts
    /\ at[r] = "complete" => pull # NoText

(* Without a disturbance one call of Accept is under way, it holds the      *)
(* claim from its claim to its end, and what it read is still stored.       *)
OneAcceptor ==
  /\ \A r, s \in Accepting : r = s
  /\ state = "publishing" => Accepting \ Claiming # {}
  /\ \A r \in Reviewers :
       /\ at[r] \in {"publish", "complete", "release"} => state = "publishing"
       /\ at[r] \in {"claim", "publish"} => seen[r] = text
       /\ at[r] \in {"publish", "release"} => pull = NoText
       /\ at[r] = "complete" => pull = text

QueueInv ==
  /\ TypeOK
  /\ PublishedBeforeComplete
  /\ AcceptedIsPublished
  /\ UndisturbedIsConsistent
  /\ ~disturbed => OneAcceptor

-----------------------------------------------------------------------------

(* "Let reviewers accept, edit, or reject a proposed rule"                  *)
(* (ROADMAP.md:155-156): the text the store shows as accepted is the one in *)
(* the pull request.                                                        *)
AcceptedTextIsPublished == state = "accepted" => pull = text

=============================================================================
