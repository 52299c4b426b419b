SPECIFICATION Spec
CONSTANTS
  Codes <- MCCodes
  Refresh <- MCRefresh
  MaxSteps = 2
  MaxRaises = 1
  MaxClock = 64
INVARIANT IndexedBitTime
CHECK_DEADLOCK FALSE
