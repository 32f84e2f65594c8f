SPECIFICATION Spec
CONSTANTS
  Pins = {p1, p2}
  DELAY_MAX = 4
  Boards <- MCBoards
CHECK_DEADLOCK FALSE
INVARIANT SuccessIsInTheEye
INVARIANT EyesAreCentred
INVARIANT WidestWindow
