------------------------- MODULE ProposalQueueProofs -------------------------
(***************************************************************************)
(* Proofs about ProposalQueue, for every number of reviewers, texts and    *)
(* crashes: QueueInv is inductive.  Its last part, OneAcceptor, is what    *)
(* makes UndisturbedIsConsistent inductive: without a disturbance the one  *)
(* call of Accept under way owns the proposal from its claim to its end,   *)
(* and the text it read stays the stored one.                              *)
(***************************************************************************)
EXTENDS ProposalQueue, TLAPS

\* The invariant holds for an empty queue.
LEMMA QueueInitInv == Init => QueueInv
<1> SUFFICES ASSUME Init PROVE QueueInv
  OBVIOUS
<1> USE DEF Init
<1>1. crashes \in 0 .. MaxCrashes
  BY CrashAssumption
<1>2. TypeOK
  BY <1>1 DEF TypeOK, State, Place
<1>3. Accepting = {}
  BY DEF Accepting
<1>4. PublishedBeforeComplete /\ OneAcceptor
  BY <1>3 DEF PublishedBeforeComplete, OneAcceptor
<1>5. AcceptedIsPublished /\ UndisturbedIsConsistent
  BY DEF AcceptedIsPublished, UndisturbedIsConsistent
<1>6. QED
  BY <1>2, <1>4, <1>5 DEF QueueInv

(* The parts that hold with disturbances too.                               *)
LEMMA QueueStepTypes ==
  TypeOK /\ PublishedBeforeComplete /\ AcceptedIsPublished /\ [Next]_vars
    => TypeOK' /\ PublishedBeforeComplete' /\ AcceptedIsPublished'
<1> SUFFICES ASSUME TypeOK, PublishedBeforeComplete, AcceptedIsPublished, [Next]_vars
             PROVE  TypeOK' /\ PublishedBeforeComplete' /\ AcceptedIsPublished'
  OBVIOUS
<1> USE NoTextAssumption, CrashAssumption
<1> USE DEF TypeOK, State, Place, PublishedBeforeComplete, AcceptedIsPublished, Goto, store
<1> DEFINE Goal == TypeOK' /\ PublishedBeforeComplete' /\ AcceptedIsPublished'
<1>1. ASSUME NEW r \in Reviewers, NEW call \in {"edit", "reject"}, BeginChange(r, call)
      PROVE  Goal
  BY <1>1 DEF BeginChange
<1>2. ASSUME NEW r \in Reviewers, LoadForAccept(r) PROVE Goal
  BY <1>2 DEF LoadForAccept
<1>3. ASSUME NEW r \in Reviewers, NEW new \in Texts, UpdatePending(r, new) PROVE Goal
  BY <1>3 DEF UpdatePending
<1>4. ASSUME NEW r \in Reviewers, RejectPending(r) PROVE Goal
  BY <1>4 DEF RejectPending
<1>5. ASSUME NEW r \in Reviewers, Claim(r) PROVE Goal
  BY <1>5 DEF Claim
<1>6. ASSUME NEW r \in Reviewers, OpenProposal(r) PROVE Goal
  BY <1>6 DEF OpenProposal, Opened
<1>7. ASSUME NEW r \in Reviewers, NEW opened \in BOOLEAN, OpenFails(r, opened) PROVE Goal
  BY <1>7 DEF OpenFails, Opened
<1>8. ASSUME NEW r \in Reviewers, Release(r) PROVE Goal
  BY <1>8 DEF Release, Leave
<1>9. ASSUME NEW r \in Reviewers, Complete(r) PROVE Goal
  BY <1>9 DEF Complete, Leave
<1>10. ASSUME NEW r \in Reviewers, Crash(r) PROVE Goal
  BY <1>10 DEF Crash
<1>11. CASE UNCHANGED vars
  BY <1>11 DEF vars
<1>12. QED
  BY <1>1, <1>2, <1>3, <1>4, <1>5, <1>6, <1>7, <1>8, <1>9, <1>10, <1>11
     DEF Next, Proceed, Publish

(* The parts about undisturbed use.                                         *)
LEMMA QueueStepUndisturbed ==
  QueueInv /\ [Next]_vars
    => UndisturbedIsConsistent' /\ (~disturbed' => OneAcceptor')
<1> SUFFICES ASSUME QueueInv, [Next]_vars, ~disturbed'
             PROVE  UndisturbedIsConsistent' /\ OneAcceptor'
  BY DEF UndisturbedIsConsistent
<1> DEFINE Goal == UndisturbedIsConsistent' /\ OneAcceptor'
<1> USE NoTextAssumption
<1> USE DEF QueueInv, TypeOK, State, Place, PublishedBeforeComplete, AcceptedIsPublished,
        UndisturbedIsConsistent, OneAcceptor, Accepting, Claiming, Goto, store
<1>1. ASSUME NEW r \in Reviewers, NEW call \in {"edit", "reject"}, BeginChange(r, call)
      PROVE  Goal
  BY <1>1 DEF BeginChange
<1>2. ASSUME NEW r \in Reviewers, LoadForAccept(r) PROVE Goal
  (* Nobody else is accepting, so the proposal was pending.                 *)
  <2>1. ~disturbed /\ Accepting = {}
    BY <1>2, Zenon DEF LoadForAccept
  <2>2. state = "pending"
    BY <1>2, <2>1 DEF LoadForAccept
  <2>3. Accepting' = {r}
    BY <1>2, <2>1, <2>2 DEF LoadForAccept
  <2>4. QED
    BY <1>2, <2>1, <2>2, <2>3 DEF LoadForAccept
<1>3. ASSUME NEW r \in Reviewers, NEW new \in Texts, UpdatePending(r, new) PROVE Goal
  BY <1>3 DEF UpdatePending
<1>4. ASSUME NEW r \in Reviewers, RejectPending(r) PROVE Goal
  BY <1>4 DEF RejectPending
<1>5. ASSUME NEW r \in Reviewers, Claim(r) PROVE Goal
  BY <1>5 DEF Claim
<1>6. ASSUME NEW r \in Reviewers, OpenProposal(r) PROVE Goal
  BY <1>6 DEF OpenProposal, Opened
<1>7. ASSUME NEW r \in Reviewers, NEW opened \in BOOLEAN, OpenFails(r, opened) PROVE Goal
  BY <1>7 DEF OpenFails, Opened
<1>8. ASSUME NEW r \in Reviewers, Release(r) PROVE Goal
  BY <1>8 DEF Release, Leave
<1>9. ASSUME NEW r \in Reviewers, Complete(r) PROVE Goal
  BY <1>9 DEF Complete, Leave
<1>10. ASSUME NEW r \in Reviewers, Crash(r) PROVE Goal
  (* It was an edit or a rejection that died: no call of Accept changes.    *)
  <2>1. ~disturbed /\ r \notin Accepting
    BY <1>10, Zenon DEF Crash
  <2>2. \A q \in Reviewers : at'[q] # at[q] => q = r /\ at'[q] = "idle"
    BY <1>10 DEF Crash
  <2>3. Accepting' = Accepting /\ Claiming' = Claiming
    BY <2>1, <2>2
  <2>4. QED
    BY <1>10, <2>1, <2>2, <2>3 DEF Crash
<1>11. CASE UNCHANGED vars
  BY <1>11 DEF vars
<1>12. QED
  BY <1>1, <1>2, <1>3, <1>4, <1>5, <1>6, <1>7, <1>8, <1>9, <1>10, <1>11
     DEF Next, Proceed, Publish

\* The invariant holds in every behaviour of the queue.
THEOREM QueueInvariance == Spec => []QueueInv
<1>1. QueueInv /\ [Next]_vars => QueueInv'
  BY QueueStepTypes, QueueStepUndisturbed DEF QueueInv
<1>2. QED
  BY <1>1, QueueInitInv, PTL DEF Spec

(* However the calls of any number of reviewers interleave, fail and die, a *)
(* proposal is shown as accepted only once its pull request is open.        *)
THEOREM QueueAcceptedIsPublished == Spec => []AcceptedIsPublished
<1>1. QueueInv => AcceptedIsPublished
  BY DEF QueueInv
<1>2. QED
  BY <1>1, QueueInvariance, PTL

(* In undisturbed use the decision stored and the pull request agree.       *)
THEOREM QueueUndisturbedIsConsistent == Spec => []UndisturbedIsConsistent
<1>1. QueueInv => UndisturbedIsConsistent
  BY DEF QueueInv
<1>2. QED
  BY <1>1, QueueInvariance, PTL

=============================================================================
