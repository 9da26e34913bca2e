---------------------------- MODULE CreditLedger ----------------------------
(***************************************************************************)
(* The credit ledger of internal/hosted/billing/ledger.go over the table   *)
(* of migrations/0011_credit_ledger.up.sql.  An entry of the ledger is a   *)
(* signed change of a tenant's available balance; entries are appended,    *)
(* never changed.  The operators of this module are the calls of Ledger    *)
(* and LedgerStore as seen by one caller; Billing composes them into the   *)
(* life of a review.                                                       *)
(*                                                                         *)
(* Abstractions.  An entry has no id and no creation time: the table's     *)
(* UNIQUE (installation_id, idempotency_key) identifies it.  A key is what *)
(* a caller builds it from, the operation, what it is about, and the       *)
(* attempt where a caller uses a new key to try again.                     *)
(***************************************************************************)
EXTENDS Integers, FiniteSets, FiniteSetsExt

CONSTANTS
  Tenants,    \* installation ids
  Reviews,    \* review ids
  Sources,    \* what a grant is for: a purchase, an open-source application
  NoReview,   \* the empty review id of a grant
  Tries       \* attempts that use a new idempotency key

ASSUME NoReviewAssumption == NoReview \notin Reviews

VARIABLES
  ledger,     \* table credit_transactions
  overrun,    \* ghost: credits settled beyond their reservation, per tenant
  charged     \* ghost: the actual credits the recorded settlement reported

ledgerVars == <<ledger, overrun, charged>>

Kind  == {"grant", "reserve", "settle", "refund"}
Key   == [op : Kind, of : Reviews \union Sources, try : Tries]
Entry == [tenant : Tenants, review : Reviews \union {NoReview}, key : Key,
          kind : Kind, credits : Int]

(* The unit a reservation is made for: a review of a tenant.                *)
Job == Tenants \X Reviews

LedgerInit ==
  /\ ledger = {}
  /\ overrun = [t \in Tenants |-> 0]
  /\ charged = [j \in Job |-> 0]

(* LedgerStore.Balance: each row is a "signed change to the available        *)
(* balance" (line 26), and no table keeps a balance beside the rows.         *)
Rows(t)    == {e \in ledger : e.tenant = t}
Credits(S) == MapThenSumSet(LAMBDA e : e.credits, S)
Balance(t) == Credits(Rows(t))

(* The row the idempotency key of an entry is already taken by, if any      *)
(* (0011, line 11): the store returns it with created = false.              *)
Recorded(e) == {o \in ledger : o.tenant = e.tenant /\ o.key = e.key}

Terminal == {"settle", "refund"}

(* Mutant: without the index on settle and refund.                          *)
BreaksConstraintButTerminal(e) ==
  \E o \in ledger : o.tenant = e.tenant /\ o.review = e.review
                    /\ o.kind = "reserve" /\ e.kind = "reserve"

(* The two partial unique indexes (0011, lines 16-17) and the CHECK on the  *)
(* sign (line 12).                                                          *)
BreaksConstraint(e) ==
  \/ \E o \in ledger :
       /\ o.tenant = e.tenant /\ o.review = e.review
       /\ \/ o.kind = "reserve" /\ e.kind = "reserve"
          \/ o.kind \in Terminal /\ e.kind \in Terminal
  \/ e.kind = "reserve" /\ e.credits >= 0
  \/ e.kind \in {"grant", "refund"} /\ e.credits <= 0

(* LedgerStore.Append: a repeated key changes nothing, a new one inserts    *)
(* the row or fails on a constraint (then the call is not this step).       *)
Append(e) ==
  \/ Recorded(e) # {} /\ UNCHANGED ledger
  \/ Recorded(e) = {} /\ ~BreaksConstraint(e) /\ ledger' = ledger \union {e}

(* Ledger.Grant, lines 40-45.                                               *)
Grant(t, credits, key) ==
  /\ credits > 0
  /\ Append([tenant |-> t, review |-> NoReview, key |-> key,
             kind |-> "grant", credits |-> credits])
  /\ UNCHANGED <<overrun, charged>>

(* Ledger.Reserve, lines 47-53: the entry it asks the store for.            *)
Reservation(j, credits, key) ==
  [tenant |-> j[1], review |-> j[2], key |-> key, kind |-> "reserve", credits |-> -credits]

(* Mutant: the store does not look at the balance again.                    *)
ReserveUnchecked(e, required) == required > 0 /\ Append(e)

(* LedgerStore.Reserve, lines 32-34: checking the balance and appending are *)
(* one step; a repeated key succeeds without checking.                      *)
ReserveAtomically(e, required) ==
  /\ required > 0
  /\ Recorded(e) # {} \/ Balance(e.tenant) >= required
  /\ Append(e)

(* What a settlement adds to the ghosts when it is recorded.                *)
CountSettlement(e, actual) ==
  IF Recorded(e) # {} THEN UNCHANGED <<overrun, charged>>
  ELSE /\ overrun' = [overrun EXCEPT ![e.tenant] = IF e.credits < 0 THEN @ - e.credits ELSE @]
       /\ charged' = [charged EXCEPT ![<<e.tenant, e.review>>] = actual]

(* Ledger.Settle, lines 55-64: the change is what was reserved less what    *)
(* was used, and what was used is not bounded by what was reserved.         *)
Settle(reservation, actual, key) ==
  LET e == [tenant |-> reservation.tenant, review |-> reservation.review, key |-> key,
            kind |-> "settle", credits |-> -reservation.credits - actual]
  IN  actual >= 0 /\ Append(e) /\ CountSettlement(e, actual)

(* Ledger.Refund, lines 66-74.                                              *)
Refund(reservation, key) ==
  /\ Append([tenant |-> reservation.tenant, review |-> reservation.review, key |-> key,
             kind |-> "refund", credits |-> -reservation.credits])
  /\ UNCHANGED <<overrun, charged>>

=============================================================================
