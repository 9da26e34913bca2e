SPECIFICATION MCSpec
CONSTANTS
  Commit <- MCCommit
  Changed <- MCChanged
  Rules <- MCRules
  Committed <- MCCommitted
  Risky = {b}
  Excluded = {a}
  Verifications <- MCVerifications
  FindingSets <- MCFindings
  ExplanationSets <- MCExplanations
  MaxItems = 2
  MaxSteps = 2
  MaxExports = 2
  a = a
  Absent = Absent
  Files <- MCConfigs
  Cascades <- MCCascades
  Comparisons <- MCComparisons
  TeamRules <- MCTeamRules
  MaxHits = 3
  MaxPerKey = 1
  MaxFiles = 3
  MaxFileSize = 3
  MaxContent = 10
  LargeDelta = 3
  MaxFlags = 4
  MaxQuestions = 3
  MaxRelated = 1
  Contents <- MCContents
  Symbols <- MCSymbols
  Limits <- MCLimits
  Questions <- MCQuestions
  MaxBlastRadiusItems = 2
  Names = {"", "f", "g"}
  MaxRepos = 2
  b = b
  dev = dev
  Process = {wf, dev}
  Workflow = wf
  Nothing = Nothing
INVARIANTS
  EvidenceIsOfTheHead
  CheckedBundleIsClean
  ReportShowsWhatItRead
  ConfigOnlyTightens
  GraphAnswersAreExact
  ChunksRebuildContent
\* Every tool ends.
CHECK_DEADLOCK FALSE
