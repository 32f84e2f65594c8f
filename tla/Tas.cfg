SPECIFICATION TasSpec
CONSTANTS
  Ratio = 25
  Bits = 8
  Words = 2
  Burst = 5
  Gap = 40
CHECK_DEADLOCK FALSE
INVARIANT InStep
PROPERTIES OneWriteEach EveryPacketIsWritten
