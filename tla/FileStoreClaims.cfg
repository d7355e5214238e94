CONSTANTS
  a = a
  b = b
  Copies = {a, b}
  s1 = s1
  s2 = s2
  Streams = {s1, s2}
  Batches <- ClaimsBatches
  Skew <- MCSkew
  Projecting = {}
  PartialMerges = {}
  MaxTransactions = 5
  MaxAppends <- ClaimsMaxAppends
  Failing = {}
  Impatient = {}
  None = None
SPECIFICATION Spec
INVARIANT
  SomeClaimHolds
