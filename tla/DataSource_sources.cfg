SPECIFICATION Spec
CONSTANTS
  t1 = t1
  t2 = t2
  a = a
  b = b
  c = c
  Threads <- Two
  Objects <- Triple
  Kind <- ListRemoteAndAbsent
  NumParts = 2
  MaxCalls = 2
INVARIANTS
  TypeOK
  ReaderBlocksDuringEvaluate
  ExclusiveRunsAlone
  JsonIsOneInstant
  CollectedOnlyOnceUnlessForced
  RwMutexGivenBack
SYMMETRY AnyThread
CHECK_DEADLOCK FALSE
