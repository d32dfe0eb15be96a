SPECIFICATION FairSpec
CONSTANTS
  r1 = r1
  r2 = r2
  zero = zero
  x = x
  y = y
  p1 = p1
  p2 = p2
  p3 = p3
  none = none
  Refs = {r1, r2}
  Tips = {zero, x, y}
  ZeroOID = zero
  NoTransaction = none
  Transactions <- FewTransactions
  Proposals = {p1, p2, p3}
  MaxRestarts = 2
  DeletesInterrupted = TRUE
PROPERTIES
  LoggedIsApplied
CHECK_DEADLOCK FALSE
