------------------------------- MODULE Billing -------------------------------
(***************************************************************************)
(* The billing of hosted reviews: the credit gate (billing/gate.go), the   *)
(* credit ledger (billing/ledger.go), the open-source programme            *)
(* (billing/oss.go) and the removal of a tenant, working on one ledger.    *)
(*                                                                         *)
(* A worker is a review job in some process: it asks the gate, reserves,   *)
(* runs the review, and settles or refunds.  Jobs are redelivered: several *)
(* workers may handle one review, each with its own estimate and its own   *)
(* outcome, and a worker may die after any step, also between a commit of  *)
(* the store and the answer.                                               *)
(***************************************************************************)
EXTENDS CreditLedger

CONSTANTS
  Workers,          \* processes handling review jobs
  Purchases,        \* grants that were paid for
  Applications,     \* open-source applications, one tenant each
  ApplicantOf,      \* the tenant of an application
  ApprovalCredits,  \* OSSProgramme.ApprovalCredits
  MaxCredits,       \* bound on a purchase and on an estimate
  MaxActual,        \* bound on what a review uses
  None              \* no job, no reservation

ASSUME SourcesAssumption ==
  Sources = Purchases \union Applications /\ Purchases \intersect Applications = {}
ASSUME TriesAssumption == 1 \in Tries
ASSUME ApplicantAssumption == ApplicantOf \in [Applications -> Tenants]
ASSUME CreditAssumption ==
  ApprovalCredits \in Nat \ {0} /\ MaxCredits \in Nat /\ MaxActual \in Nat
ASSUME NoneAssumption == None \notin Entry /\ None \notin Job

VARIABLES
  phase,        \* where each worker is
  job,          \* the review a worker handles
  need,         \* the credits it estimated
  reservation,  \* the entry Ledger.Reserve returned to it
  explained,    \* the jobs whose skip has a published explanation
  tenant,       \* the row of table installations: active, uninstalled, deleted
  application   \* OSSApplication.Status, or "none" before Apply

workerVars == <<phase, job, need, reservation>>
vars == <<ledgerVars, workerVars, explained, tenant, application>>

Phase == {"idle", "allowed", "running", "skipped"}

Init ==
  /\ LedgerInit
  /\ phase = [w \in Workers |-> "idle"]
  /\ job = [w \in Workers |-> None]
  /\ need = [w \in Workers |-> 0]
  /\ reservation = [w \in Workers |-> None]
  /\ explained = {}
  /\ tenant = [t \in Tenants |-> "active"]
  /\ application = [a \in Applications |-> "none"]

(* Every row of a tenant references its row in installations.               *)
Exists(t) == tenant[t] # "deleted"

Estimate == 1 .. MaxCredits

KeyFor(op, of, try) == [op |-> op, of |-> of, try |-> try]

-----------------------------------------------------------------------------

(* A paid purchase is granted, once per key however often it is delivered.  *)
Purchase(p, t, credits) ==
  /\ Exists(t)
  /\ Grant(t, credits, KeyFor("grant", p, 1))
  /\ UNCHANGED <<workerVars, explained, tenant, application>>

(* CreditGate.Authorize, gate.go 53-70, inside CreditEnforcer.Enforce: the   *)
(* balance read here is compared with the estimate and not held.            *)
Allow(w, j, credits) ==
  /\ phase[w] = "idle"
  /\ tenant[j[1]] = "active"
  /\ Balance(j[1]) >= credits
  /\ phase' = [phase EXCEPT ![w] = "allowed"]
  /\ job' = [job EXCEPT ![w] = j]
  /\ need' = [need EXCEPT ![w] = credits]
  /\ reservation' = [reservation EXCEPT ![w] = None]
  /\ UNCHANGED <<ledgerVars, explained, tenant, application>>

(* Mutant: the explanation goes to the job the worker handled before.        *)
SkipExplainingStaleJob(w, j, credits, readable) ==
  /\ phase[w] = "idle"
  /\ tenant[j[1]] = "active"
  /\ readable => Balance(j[1]) < credits
  /\ explained' = explained \union {job[w]}
  /\ phase' = [phase EXCEPT ![w] = "skipped"]
  /\ job' = [job EXCEPT ![w] = j]
  /\ UNCHANGED <<ledgerVars, need, reservation, tenant, application>>

(* Enforce, gate.go 35-50, with a balance that is too small, or that cannot  *)
(* be read (57-66): the explanation is published and the review does not     *)
(* run; with an unreadable balance the caller gets that error as well.  When *)
(* publishing fails the caller only gets errors and nothing has changed, so  *)
(* that is no step.                                                          *)
Skip(w, j, credits, readable) ==
  /\ phase[w] = "idle"
  /\ tenant[j[1]] = "active"
  /\ readable => Balance(j[1]) < credits
  /\ explained' = explained \union {j}
  /\ phase' = [phase EXCEPT ![w] = "skipped"]
  /\ job' = [job EXCEPT ![w] = j]
  /\ UNCHANGED <<ledgerVars, need, reservation, tenant, application>>

(* Ledger.Reserve succeeds; the worker holds the entry the store returned,   *)
(* which for a repeated key is the one recorded before.                      *)
Reserve(w, try) ==
  LET e == Reservation(job[w], need[w], KeyFor("reserve", job[w][2], try)) IN
  /\ phase[w] = "allowed"
  /\ Exists(e.tenant)
  /\ ReserveAtomically(e, need[w])
  /\ UNCHANGED <<overrun, charged>>
  /\ \E o \in ledger' :
       /\ o.tenant = e.tenant /\ o.key = e.key
       /\ reservation' = [reservation EXCEPT ![w] = o]
  /\ phase' = [phase EXCEPT ![w] = "running"]
  /\ UNCHANGED <<job, need, explained, tenant, application>>

(* The worker forgets what it was doing.                                     *)
Idle(w) ==
  /\ phase' = [phase EXCEPT ![w] = "idle"]
  /\ job' = [job EXCEPT ![w] = None]
  /\ need' = [need EXCEPT ![w] = 0]
  /\ reservation' = [reservation EXCEPT ![w] = None]

(* The review ran and used some credits.                                     *)
Finish(w, actual) ==
  /\ phase[w] = "running"
  /\ Exists(reservation[w].tenant)
  /\ Settle(reservation[w], actual, KeyFor("settle", reservation[w].review, 1))
  /\ Idle(w)
  /\ UNCHANGED <<explained, tenant, application>>

(* The review failed.                                                        *)
Fail(w) ==
  /\ phase[w] = "running"
  /\ Exists(reservation[w].tenant)
  /\ Refund(reservation[w], KeyFor("refund", reservation[w].review, 1))
  /\ Idle(w)
  /\ UNCHANGED <<explained, tenant, application>>

(* The worker is killed or gets an error it does not handle (insufficient    *)
(* credits, a constraint, a lost answer); the job is delivered again.        *)
Drop(w) ==
  /\ phase[w] # "idle"
  /\ Idle(w)
  /\ UNCHANGED <<ledgerVars, explained, tenant, application>>

-----------------------------------------------------------------------------

(* OSSProgramme.Apply, oss.go 48-54.                                         *)
Apply(a) ==
  /\ Exists(ApplicantOf[a])
  /\ application[a] = "none"
  /\ application' = [application EXCEPT ![a] = "submitted"]
  /\ UNCHANGED <<ledgerVars, workerVars, explained, tenant>>

(* Mutant: the decision is not conditional on the submitted status.          *)
DecideAgain(a, approve) ==
  /\ Exists(ApplicantOf[a])
  /\ application[a] # "none"
  /\ application' = [application EXCEPT ![a] = IF approve THEN "approved" ELSE "rejected"]
  /\ IF approve
     THEN Grant(ApplicantOf[a], ApprovalCredits, KeyFor("grant", a, 1))
     ELSE UNCHANGED ledgerVars
  /\ UNCHANGED <<workerVars, explained, tenant>>

(* OSSProgramme.Decide, oss.go 56-68, with OSSStore.Decide (39-40): one step *)
(* that takes an application that is still submitted, records the decision   *)
(* and appends the grant.                                                    *)
Decide(a, approve) ==
  /\ Exists(ApplicantOf[a])
  /\ application[a] = "submitted"
  /\ application' = [application EXCEPT ![a] = IF approve THEN "approved" ELSE "rejected"]
  /\ IF approve
     THEN Grant(ApplicantOf[a], ApprovalCredits, KeyFor("grant", a, 1))
     ELSE UNCHANGED ledgerVars
  /\ UNCHANGED <<workerVars, explained, tenant>>

-----------------------------------------------------------------------------

(* The GitHub App is uninstalled.                                            *)
Uninstall(t) ==
  /\ tenant[t] = "active"
  /\ tenant' = [tenant EXCEPT ![t] = "uninstalled"]
  /\ UNCHANGED <<ledgerVars, workerVars, explained, application>>

(* Deleting the row of an uninstalled tenant cascades to its ledger (0011,   *)
(* line 5), where the trigger of lines 22-27 raises an exception for every   *)
(* row: the statement takes effect only when the ledger has none.            *)
DeletionJob(t) ==
  /\ tenant[t] = "uninstalled"
  /\ \A e \in ledger : e.tenant # t
  /\ tenant' = [tenant EXCEPT ![t] = "deleted"]
  /\ application' = [a \in Applications |->
                       IF ApplicantOf[a] = t THEN "none" ELSE application[a]]
  /\ UNCHANGED <<ledgerVars, workerVars, explained>>

Work(w) ==
  \/ \E j \in Job, credits \in Estimate :
       Allow(w, j, credits) \/ \E readable \in BOOLEAN : Skip(w, j, credits, readable)
  \/ \E try \in Tries : Reserve(w, try)
  \/ \E actual \in 0 .. MaxActual : Finish(w, actual)
  \/ Fail(w) \/ Drop(w)

Next ==
  \/ \E w \in Workers : Work(w)
  \/ \E p \in Purchases, t \in Tenants, credits \in Estimate : Purchase(p, t, credits)
  \/ \E a \in Applications : Apply(a)
  \/ \E a \in Applications, approve \in BOOLEAN : Decide(a, approve)
  \/ \E t \in Tenants : Uninstall(t) \/ DeletionJob(t)

Spec == Init /\ [][Next]_vars

-----------------------------------------------------------------------------

TypeOK ==
  /\ ledger \subseteq Entry /\ IsFiniteSet(ledger)
  /\ overrun \in [Tenants -> Nat]
  /\ charged \in [Job -> Nat]
  /\ phase \in [Workers -> Phase]
  /\ job \in [Workers -> Job \union {None}]
  /\ need \in [Workers -> Nat]
  /\ reservation \in [Workers -> Entry \union {None}]
  /\ explained \subseteq Job
  /\ tenant \in [Tenants -> {"active", "uninstalled", "deleted"}]
  /\ application \in [Applications -> {"none", "submitted", "approved", "rejected"}]

(* Reviews that were allowed on the same credits cannot all reserve them: a  *)
(* balance below zero is explained by reviews that settled more than they    *)
(* had reserved, which Settle permits (ledger.go 59 and 63).                 *)
OnlyOverrunsGoNegative ==
  \A t \in Tenants : Balance(t) + overrun[t] >= 0

(* A review's reservation is closed at most once, by a settlement or by a    *)
(* refund, although several workers settle and refund it under different     *)
(* keys; and then the tenant has paid what was used, or nothing - whichever  *)
(* estimate the closing worker made itself.                                  *)
ReservationClosedOnce ==
  \A e \in ledger : e.kind \in Terminal =>
    /\ \A o \in ledger :
         o.kind \in Terminal /\ o.tenant = e.tenant /\ o.review = e.review => o = e
    /\ \E r \in ledger :
         /\ r.kind = "reserve" /\ r.tenant = e.tenant /\ r.review = e.review
         /\ r.credits + e.credits =
              IF e.kind = "refund" THEN 0 ELSE -charged[<<e.tenant, e.review>>]

(* An application is approved exactly when its grant is in the ledger: two   *)
(* deciding at once never leave a grant for a rejected application or an     *)
(* approval without one (oss.go 39-40 and 67).                               *)
ApprovalMatchesGrant ==
  \A a \in Applications :
    application[a] = "approved" <=> \E e \in ledger : e.kind = "grant" /\ e.key.of = a

-----------------------------------------------------------------------------
(* The inductive invariant behind the safety properties.                     *)

(* Within a tenant a key names one row, and says which operation on what     *)
(* wrote it.                                                                 *)
KeysNameRows ==
  /\ \A e, o \in ledger : e.tenant = o.tenant /\ e.key = o.key => e = o
  /\ \A e \in ledger :
       /\ e.key.op = e.kind
       /\ e.kind # "grant" => e.key.of = e.review

(* What the partial unique indexes keep: one reservation and one terminal    *)
(* row per review.                                                           *)
RowsPerReview ==
  \A e, o \in ledger :
    /\ e.tenant = o.tenant /\ e.review = o.review
    /\ (e.kind = "reserve" /\ o.kind = "reserve") \/ (e.kind \in Terminal /\ o.kind \in Terminal)
    => e = o

(* A worker that runs a review holds a reservation that is in the ledger.    *)
HeldIsRecorded ==
  \A w \in Workers :
    /\ phase[w] = "running" => reservation[w] # None
    /\ reservation[w] # None =>
         /\ reservation[w] \in ledger
         /\ reservation[w].kind = "reserve"
         /\ reservation[w].review \in Reviews
    /\ phase[w] = "allowed" => job[w] \in Job

(* A terminal row matches the reservation of its review.                     *)
ClosesReservation ==
  \A e \in ledger : e.kind \in Terminal =>
    \E r \in ledger :
      /\ r.kind = "reserve" /\ r.tenant = e.tenant /\ r.review = e.review
      /\ r.credits + e.credits =
           IF e.kind = "refund" THEN 0 ELSE -charged[<<e.tenant, e.review>>]

(* The grant of an application is its applicant's.                           *)
GrantIsApplicants ==
  \A e \in ledger, a \in Applications :
    e.kind = "grant" /\ e.key.of = a => e.tenant = ApplicantOf[a]

BillingInv ==
  /\ TypeOK
  /\ KeysNameRows
  /\ RowsPerReview
  /\ HeldIsRecorded
  /\ ClosesReservation
  /\ GrantIsApplicants
  /\ ApprovalMatchesGrant
  /\ OnlyOverrunsGoNegative

=============================================================================
