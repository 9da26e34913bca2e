SPECIFICATION Spec
CONSTANTS
  Workers = {w1, w2}
  Prompts <- MCPrompts
  Qualities <- MCQualities
  Kinds = {"margin", "inference", "reply", "demo", "webhook", "reactions", "embeddings", "rollup", "report", "summary"}
  MaxRetries = 1
  TTL = 1
  MaxFailures = 2
  MaxClock = 1
INVARIANTS
  TypeOK
  PaidOnce
  CostIsRecorded
PROPERTIES
  DeliversAsPromised
  EveryItemServed
\* A job that has returned is not tried again.
CHECK_DEADLOCK FALSE
