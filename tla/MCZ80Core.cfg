SPECIFICATION FairSpec
CONSTANTS
  W = 18
  MainTable <- MCMainTable
  EdTable <- MCEdTable
  Images <- CoreImages
  AccValues <- MCAccValues
  IntData <- MCIntData
  AckVectors <- MCAckVectors
  MaxNmi = 1
INVARIANTS
  TypeOK
  HaltPointsAtHalt
PROPERTIES
  RequestSurvives
  HaltWakes
  NmiAccepted
