SPECIFICATION CSpec
CONSTANTS
  a = a
  b = b
  t = t
  c1 = c1
  c2 = c2
  c3 = c3
  v = v
  w = w
  eof = eof
  reset = reset
  Primary = p
  NoVote = nil
  Secondaries = {a}
  Votes = {v}
  Calls = {c1, c2}
  MaxSubs = 2
  Kinds = {"unvoted"}
  LostMessages = {eof, reset}
  ClientMayCancel = FALSE
  MaxVotes = 1
  ReplicationTargets = {t}

INVARIANTS
  UnvotedSuccessIsReplicated
CHECK_DEADLOCK FALSE
