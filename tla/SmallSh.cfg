SPECIFICATION FairSpec
CONSTANTS
  None = None
  Commands <- MCCommands
  Pids = {p1, p2}
  MaxJobs = 2
  MaxKeys = 2
  ExitCodes = {0, 1}
INVARIANTS StatusIsLastForeground KeysSpareBackground ReapedIsTold RunAsWritten
PROPERTIES WaitEnds ZombiesReaped
CHECK_DEADLOCK FALSE
