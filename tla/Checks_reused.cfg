SPECIFICATION Spec
CONSTANTS
  Uses <- SizeTwice
INVARIANTS
  VerdictIsOfThisData
