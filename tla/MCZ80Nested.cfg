SPECIFICATION HSpec
CONSTANTS
  W = 18
  MainTable <- MCMainTable
  EdTable <- MCEdTable
  Images <- FrameImages
  AccValues <- MCAccValues
  IntData <- MCIntData
  AckVectors <- MCAckVectors
  StackFloor = 290
  MaxNmi = 2
  NestNmi = TRUE
  AckRaises = TRUE
INVARIANTS
  EnabledByEi
  StackBounded
  FramesOnStack
PROPERTIES
  ReturnsWhereInterrupted
