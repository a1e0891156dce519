SPECIFICATION Spec
CONSTANTS
  c1 = c1
  c2 = c2
  Commands <- Two
  Timeout = 1
  MaxWrites <- FirstOneWrites
  Background <- None
  Silent <- One
  Stubborn <- None
INVARIANTS
  TypeOK
  OutputComplete
  NotKilledEarly
