SPECIFICATION FairSpec
CONSTANTS
  c1 = c1
  c2 = c2
  c3 = c3
  c4 = c4
  k1 = k1
  k2 = k2
  Nobody = none
  Callers = {c1, c2, c3, c4}
  LimitingKeys = {k1, k2}
  MaxConcurrency = 1
  MaxQueueLength = 1
INVARIANTS
  TokensAreHeld
PROPERTIES
  ConcurrencyIsLimited
  EveryCallEnds
CHECK_DEADLOCK FALSE
