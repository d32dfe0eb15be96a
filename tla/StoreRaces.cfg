SPECIFICATION FairSpec
CONSTANTS
  a = a
  b = b
  c = c
  r1 = r1
  r2 = r2
  NoStorage = none
  Storages = {a, b}
  Requests = {r1, r2}
  MaxFaults = 1
  MaxOperations = 1
INVARIANTS
  LatestHasRecordedWrites
  LatestIsHeld
PROPERTIES
  NoDowngrade
  Converges
CHECK_DEADLOCK FALSE
