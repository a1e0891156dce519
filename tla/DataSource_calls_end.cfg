SPECIFICATION FairSpec
CONSTANTS
  t1 = t1
  t2 = t2
  a = a
  b = b
  c = c
  Threads <- Two
  Objects <- Triple
  Kind <- BenchmarkAndList
  NumParts = 2
  MaxCalls = 1
INVARIANTS
  ClassMutexGivenBack
PROPERTIES
  EveryCallEnds
