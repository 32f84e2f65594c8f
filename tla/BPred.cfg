SPECIFICATION Spec
CONSTANTS
  Configs <- MCConfigs
  None = None
INVARIANTS RunIsLearned ReturnsAreKnown
PROPERTY BtbIsLru
CHECK_DEADLOCK FALSE
