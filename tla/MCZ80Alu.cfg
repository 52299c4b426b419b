SPECIFICATION Spec
CONSTANTS
  W = 256
  K = 16
  Operands <- MCOperands
  Read <- MCRead
  Tested <- MCTested
INVARIANTS
  QIsCurrent
PROPERTIES
  DecimalResult
