SPECIFICATION ClusterFairSpec
CONSTANTS
  h1 = h1
  h2 = h2
  Hosts <- Two
  Exact <- First
  Says <- OneChunk
  Expectations <- SomeExpectations
INVARIANTS
  TypeOK
  OneChildPerHost
  WorstHostDecides
  MalformedIsNotIgnored
  RemoteTypeOK
  CutShortOnlyLate
  OneEntryPerHost
  NoIssueMeansEveryHostSaidIt
PROPERTIES
  CheckEnds
