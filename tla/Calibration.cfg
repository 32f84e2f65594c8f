SPECIFICATION Spec
CONSTANTS
  NumGroups = 2
  IO_DQS_IN_DELAY_MAX = 2
  IO_DQS_IN_RESERVE = 1
  IO_DQS_OUT_RESERVE = 3
  dtaps_per_ptap = 2
  max_latency = 3
  MEM_T_RL = 1
  DQ_PER_DQS = 1
  Delays <- MCSmall
  Enables <- MCSmall
INVARIANT SettingsInForce
INVARIANT WritesStartFromReserve
INVARIANT FailureIsNamed
PROPERTY GroupsApart
PROPERTY AlwaysReports
