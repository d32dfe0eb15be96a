SPECIFICATION FairSpec
CONSTANTS
  w1 = w1
  w2 = w2
  w3 = w3
  Workers <- TwoWorkers
  NumRunners = 2
  Limits <- OneLimited
  Expiring = {1}
  RequestConcurrency = 1
  ConcurrentValues = {1, 2}
  Signals = {"quit", "term"}
  MaxReloads = 1
  MaxRotations = 0
PROPERTIES
  ShutdownCompletes
CHECK_DEADLOCK FALSE
