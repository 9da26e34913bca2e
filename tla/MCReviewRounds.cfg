SPECIFICATION Spec
CONSTANTS
  Workers = {w1, w2}
  Findings <- MCFindings
  Histories <- MCHistories
  Diffs <- MCDiffs
  Scope = {1}
  MaxFindings = 3
  MaxInline = 2
  Threshold = 3
  Window = 1
  FailOnP0 = TRUE
  MaxRuns = 2
  MaxHeads = 2
INVARIANTS
  TypeOK
  NothingLost
  ReviewedIsPosted
  DismissedStaysSilent
  P0FailsTheCheck
  ChecksComplete
\* The last run is completed and nobody pushes any more.
CHECK_DEADLOCK FALSE
SYMMETRY Symmetric
