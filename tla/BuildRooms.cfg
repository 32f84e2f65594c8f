SPECIFICATION Spec
CONSTANTS
  N = 4
  Least = 2
INVARIANTS NeverAborts TwoWay TwoMovesApart
CHECK_DEADLOCK FALSE
