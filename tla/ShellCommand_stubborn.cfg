SPECIFICATION FairSpec
CONSTANTS
  c1 = c1
  c2 = c2
  Commands <- One
  Timeout = 1
  MaxWrites <- TwoChunks
  Background <- None
  Silent <- None
  Stubborn <- One
PROPERTIES
  EveryCommandEnds
