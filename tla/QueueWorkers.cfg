SPECIFICATION FairSpec
CONSTANTS
  l1 = l1
  l2 = l2
  s1 = s1
  s2 = s2
  w1 = w1
  w2 = w2
  Locks = {l1}
  Sources = {s1, s2}
  Workers = {w1, w2}
  Attempts = 2
  BatchSize = 2
  MaxEvents = 3
  MaxWrites = 2
  Deletions = TRUE
  HealthMayFail = FALSE
  SourcesMayLag = TRUE
  SourcesMayVanish = TRUE
INVARIANTS
  LocksMatchJobs
  InProgressIsHeld
  OneWorkerPerRepository
  InsertedIsReplicated
PROPERTIES
  UpdatesDrain
CHECK_DEADLOCK FALSE
