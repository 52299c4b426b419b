SPECIFICATION HSpec
CONSTANTS
  W = 18
  MainTable <- MCMainTable
  EdTable <- MCEdTable
  Images <- FrameImages
  AccValues <- MCAccValues
  IntData <- MCIntData
  AckVectors <- MCAckVectors
  StackFloor = 290
  MaxNmi = 2
  NestNmi = FALSE
  AckRaises = FALSE
INVARIANTS
  SwitchKept
PROPERTIES
  Transparent
