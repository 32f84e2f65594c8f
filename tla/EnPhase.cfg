SPECIFICATION Spec
CONSTANTS
  VFIFO_SIZE = 4
  IO_DQS_EN_PHASE_MAX = 7
  IO_DQS_EN_DELAY_MAX = 31
  IO_DELAY_PER_OPA_TAP = 312
  IO_DELAY_PER_DQS_EN_DCHAIN_TAP = 25
  Windows <- MCWindows
CHECK_DEADLOCK FALSE
INVARIANTS WindowIsUsed TapsAreOfWholePhases
