SPECIFICATION CipherSpec
CONSTANTS
  Files <- MCFiles
  Keys <- MCKeys
  Garbage <- MCGarbage
INVARIANTS SoundIsStored RoundTrip
CHECK_DEADLOCK FALSE
