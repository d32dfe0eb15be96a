SPECIFICATION FairSpec
CONSTANTS
  r1 = r1
  r2 = r2
  k1 = k1
  k2 = k2
  repository = repository
  NoEntry = none
  Requests = {r1, r2}
  Keys = {k1, k2}
  LimitingKeys = {repository}
  LimitingKeyOf <- MCLimitingKeyOf
  Asked <- MCAsked
  Chunks = 2
  MaxConcurrency = 1
  MaxFaults = 2
INVARIANTS
  SuccessIsComplete
  BystandersUnaffected
  NoLostWakeup
PROPERTIES
  EveryRequestEnds
CHECK_DEADLOCK FALSE
