SPECIFICATION FairSpec
CONSTANTS
  Codes <- MCCodes
  Refresh <- MCRefresh
  MaxSteps = 2
  MaxRaises = 1
  MaxClock = 64
INVARIANTS
  TypeOK
  TimeAsTabled
  LengthAsTabled
  OperandsIndexed
  IndexInForce
PROPERTIES
  QAsTabled
  StepEnds
\* The host stops calling step().
CHECK_DEADLOCK FALSE
