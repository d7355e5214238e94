CONSTANTS
  c1 = c1
  c2 = c2
  c3 = c3
  a = a
  b = b
  Commands = {c1, c2, c3}
  Streams = {a, b}
  None = None
  Declared <- MCDeclared
  Resolver <- MCResolver
  Emits <- MCEmits
  MaxRetries = 1
  ChecksEmptyAppends = TRUE
SPECIFICATION FairSpec
INVARIANTS
  TypeOK
  DiscoveryClosed
  AllOrNothing
  ConflictsAreEarned
PROPERTIES
  SuccessIsCurrent
  RunsSerially
  Termination
