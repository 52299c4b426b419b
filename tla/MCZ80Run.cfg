SPECIFICATION FairSpec
CONSTANTS
  Addresses <- MCAddresses
  DefaultTrap = 2
  InstructionTimes <- MCInstructionTimes
  ResponseTimes <- MCResponseTimes
  CycleArgs <- MCCycleArgs
  CountArgs <- MCCountArgs
  Longest = 23
  IntMax = 127
  Careful = TRUE
PROPERTIES
  RunLength
  CallsReturn
