SPECIFICATION Spec

CONSTANTS
  c1 = c1
  c2 = c2
  Commands = {c1, c2}
  Streams = {1, 2, 3}
  MaxVersion = 2
  Declared <- SmallDeclared
  Resolver <- SmallResolver
  Batches <- SmallBatches
  Threshold = 2
  MaxRetries = 1

INVARIANTS
  TypeOK
  DecidesOnReplay
  StoredIsReplay

PROPERTIES
  RunsSerially
