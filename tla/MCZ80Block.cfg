SPECIFICATION FairSpec
CONSTANTS
  W = 6
  Setups <- MCSetups
  PortData <- MCPortData
  Handler = 2
  MaxInterrupts = 2
INVARIANTS
  TypeOK
  Copied
  Found
  Exchanged
PROPERTIES
  Ends
\* The instruction that is followed ends.
CHECK_DEADLOCK FALSE
