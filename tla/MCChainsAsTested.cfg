SPECIFICATION Spec
CONSTANTS
  Codes <- MCCodes
  Refresh <- MCRefresh
  MaxSteps = 2
  MaxRaises = 1
  MaxClock = 64
INVARIANT ChainsAsTested
CHECK_DEADLOCK FALSE
