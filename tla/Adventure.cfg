SPECIFICATION FairSpec
CONSTANTS
  N = 4
  Maps <- MCMaps
  MaxSteps = 3
  MaxAsks = 2
  Nobody = Nobody
PROPERTIES IsWalk Served
CHECK_DEADLOCK FALSE
