SPECIFICATION Spec
CONSTANTS
  a = a
  b = b
  c1 = c1
  c2 = c2
  c3 = c3
  v = v
  w = w
  Primary = p
  NoVote = nil
  Secondaries = {a, b}
  Votes = {v, w}
  Calls = {c1, c2}
  MaxSubs = 2
SYMMETRY Symmetry
INVARIANTS
  CommittedHasQuorum
  Agreement
  CountsExact
  ToldIsFinal
  WaitsOnlyForOpenOutcome
  OnePathForAll
PROPERTIES
  SettledIsFinal
  VotingKeepsPromise
  ClosedDecidesNothing
CHECK_DEADLOCK FALSE
