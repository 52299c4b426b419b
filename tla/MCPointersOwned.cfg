SPECIFICATION Spec
CONSTANTS
  Sizes <- MCSizes
  Uniform = FALSE
INVARIANTS
  PointersOwned
