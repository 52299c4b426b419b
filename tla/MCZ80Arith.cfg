SPECIFICATION WordsSpec
CONSTANTS
  W = 16
  K = 4
INVARIANTS
  WordsAreTwoBytes
  SpecialCasesAgree
  SumsAreExact
  ComparesOrder
  ShiftsAreArithmetic
  DigitsGoRound
  CopiesAgree
\* The enumeration of the arguments ends.
CHECK_DEADLOCK FALSE
