SPECIFICATION Spec
CONSTANTS
  t1 = t1
  t2 = t2
  a = a
  b = b
  c = c
  Threads <- Two
  Objects <- Triple
  Kind <- Structures
  NumParts = 2
  MaxCalls = 2
INVARIANTS
  ForcedReplacesCache
PROPERTIES
  ImplementsCachedData
