SPECIFICATION Spec
CONSTANTS
  r1 = r1
  r2 = r2
  r3 = r3
  r4 = r4
  Results <- Four
  Priorities <- TwoPriorities
  MaxChildren = 2
INVARIANTS
  MaximaAreWorst
SYMMETRY AnyResult
