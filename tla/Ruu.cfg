SPECIFICATION Spec
CONSTANTS
  FuPool <- MCFuPool
  LoadLats <- MCLoadLats
  MissLats <- MCMissLats
  Simulations <- MCSimulations
  BlockSize = 4
  NA = NA
  Bogus = 99
INVARIANT NeverPanics
INVARIANT ReadyIsExact
INVARIANT LoadsWaitForStores
PROPERTY RetiresTheProgram
PROPERTY Exits
CHECK_DEADLOCK FALSE
