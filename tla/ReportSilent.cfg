CONSTANTS
  Comparisons <- MCComparisons
  TeamRules <- MCTeamRules
  MaxHits = 2
  MaxPerKey = 1
  MaxFiles = 3
  MaxFileSize = 3
  MaxContent = 10
  LargeDelta = 3
  MaxFlags = 4
  MaxQuestions = 3
  MaxRelated = 1

SPECIFICATION ArtifactSpec
INVARIANT SkippedAnalysisIsVisible
\* A report is made once.
CHECK_DEADLOCK FALSE
