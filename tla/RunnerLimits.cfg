SPECIFICATION Spec
CONSTANTS
  w1 = w1
  w2 = w2
  w3 = w3
  Workers <- ThreeWorkers
  NumRunners = 1
  Limits <- LimitedToOneOrTwo
  Expiring = {1}
  RequestConcurrency = 1
  ConcurrentValues = {3}
  Signals = {}
  MaxReloads = 1
  MaxRotations = 1
SYMMETRY Symmetry
INVARIANTS
  LimitHolds
  BuildsHaveOwnDirectory
CHECK_DEADLOCK FALSE
