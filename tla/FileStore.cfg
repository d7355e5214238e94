CONSTANTS
  a = a
  b = b
  Copies = {a, b}
  s1 = s1
  s2 = s2
  Streams = {s1, s2}
  Batches <- MCBatches
  Skew <- MCSkew
  Projecting = {a}
  PartialMerges = {a}
  MaxTransactions = 4
  MaxAppends <- MCMaxAppends
  Failing = {a}
  Impatient = {a}
  None = None
SPECIFICATION Spec
CHECK_DEADLOCK FALSE
INVARIANTS
  TypeOK
  IndexIsCanonical
  CursorIsExact
  ForksAreReal
  ConflictsAreByMerges
