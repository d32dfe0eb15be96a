SPECIFICATION FairSpec
CONSTANTS
  c1 = c1
  c2 = c2
  Clients = {c1, c2}
  RefreshTimeout = 0
  ExpirationTimeout = 1
  RetrievalTimeout = 1
  MaxRetries = 2
  MaxEntries = 3
  MaxTime = 4
INVARIANTS
  ServedIsRecent
PROPERTIES
  ResolveReturns
  OutdatedIsReplaced
CHECK_DEADLOCK FALSE
