SPECIFICATION Spec
CONSTANTS
  Reviewers = {v1, v2}
  Texts = {old, new}
  NoText = NoText
  MaxCrashes = 1
INVARIANTS
  AcceptedTextIsPublished
\* A proposal that is accepted or rejected needs nothing more.
CHECK_DEADLOCK FALSE
