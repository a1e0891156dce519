SPECIFICATION FairSpec
CONSTANTS
  c1 = c1
  c2 = c2
  Commands <- One
  Timeout = 2
  MaxWrites <- TwoChunks
  Background <- One
  Silent <- None
  Stubborn <- None
INVARIANTS
  OutputComplete
  NothingSurvivesKill
  WaitIsBounded
PROPERTIES
  EveryCommandEnds
