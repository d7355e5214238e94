CONSTANTS
  a1 = a1
  a2 = a2
  a3 = a3
  Appends = {a1, a2}
  None = None
  Streams = {1, 2, 3}
  Keys = {1, 2, 3}
  Requests <- SmallRequests
  ChunkSize = 2
SPECIFICATION Spec
PROPERTY
  VisibleInIdOrder
