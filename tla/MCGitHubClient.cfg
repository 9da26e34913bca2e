SPECIFICATION Spec
CONSTANTS
  Callers = {r1, r2, r3}
  Installations = {inst}
  NoCaller = NoCaller
  Skew = 1
  MaxTime = 1
  MaxExpiry = 3
  MaxRetries = 1
INVARIANTS
  TypeOK
  SingleFlight
  NoOrphanedFollower
  ReturnedTokenFresh
  PostAtMostOnce
PROPERTIES
  CacheOnlyRenewed
  DoReturns
