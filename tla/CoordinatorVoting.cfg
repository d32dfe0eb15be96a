SPECIFICATION CSpec
CONSTANTS
  a = a
  b = b
  t = t
  c1 = c1
  c2 = c2
  c3 = c3
  v = v
  w = w
  eof = eof
  reset = reset
  Primary = p
  NoVote = nil
  Secondaries = {a, b}
  Votes = {v, w}
  Calls = {c1, c2, c3}
  MaxSubs = 2
  Kinds = {"voting", "single"}
  LostMessages = {eof}
  ClientMayCancel = TRUE
  MaxVotes = 1
  ReplicationTargets = {t}
SYMMETRY Symmetry
INVARIANTS
  LatestHasPrimaryContent
  DivergedHasJob
  SecondariesFollowPrimary
  RequestGoesOn
CHECK_DEADLOCK FALSE
