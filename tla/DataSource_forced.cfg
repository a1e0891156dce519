SPECIFICATION Spec
CONSTANTS
  t1 = t1
  t2 = t2
  a = a
  b = b
  c = c
  Threads <- Two
  Objects <- Pair
  Kind <- TwoLists
  NumParts = 2
  MaxCalls = 1
INVARIANTS
  ForcedReplacesCache
SYMMETRY AnyThread
