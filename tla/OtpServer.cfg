SPECIFICATION FairSpec
CONSTANTS
  a = a
  b = b
  c = c
  u = u
  v = v
  None = None
  Clients = {a, b, c}
  Users = {u, v}
  Pids = {p1, p2}
  Scenarios <- MCScenarios
  Limit = 2
  MaxTime = 2
INVARIANTS CountNeverUnder OnlyOwnMessages NoSilentLoss OldestFirst
PROPERTIES Answered ZombiesReaped
CHECK_DEADLOCK FALSE
