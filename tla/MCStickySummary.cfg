SPECIFICATION Spec
CONSTANTS
  Publishers = {p1, p2}
  PerPage = 2
  MaxPages = 2
  MaxComments = 6
  MaxUpserts = 3
SYMMETRY PublisherSymmetry
INVARIANTS OneSticky ConfirmedIsShown
PROPERTY OthersUntouched
\* When every upsert has returned nobody has to do anything.
CHECK_DEADLOCK FALSE
