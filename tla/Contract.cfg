CONSTANTS
  c1 = c1
  c2 = c2
  Clients = {c1, c2}
  None = None
  Schedules <- MCSchedules
  Backends = {"memory", "postgres", "sqlite"}
  Capacity = 1
  ChunkSize = 2
  Characters <- MCCharacters
  LetterCases <- MCLetterCases
SPECIFICATION FairSpec
INVARIANTS
  SuitePasses
  LogIsAcceptedBatches
PROPERTIES
  EveryTestEnds
