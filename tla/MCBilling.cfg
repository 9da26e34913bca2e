SPECIFICATION Spec
CONSTANTS
  t1 = t1
  p1 = p1
  a1 = a1
  Tenants = {t1}
  Reviews = {r1, r2}
  Purchases = {p1}
  Applications = {a1}
  Sources <- MCSources
  ApplicantOf <- MCApplicantOf
  NoReview = NoReview
  Tries = {1, 2}
  Workers = {w1, w2}
  ApprovalCredits = 1
  MaxCredits = 2
  MaxActual = 2
  None = None
INVARIANTS
  TypeOK
  OnlyOverrunsGoNegative
  ReservationClosedOnce
  ApprovalMatchesGrant
\* Once the tenant is uninstalled and the workers are idle nothing has to happen.
CHECK_DEADLOCK FALSE
