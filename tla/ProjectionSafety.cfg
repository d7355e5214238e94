CONSTANTS
  Runners = {r1, r2}
  Calls = {"run", "reset", "replay"}
  Modes = {"Batch", "Continuous"}
  Identities = {i1, i2}
  Selected = {3, 4}
  BatchSize = 2
  MaxRetries = 1
  MaxPosition = 4
  None = None
SPECIFICATION Spec
SYMMETRY Interchangeable
INVARIANTS
  TypeOK
  ExactlyOnce
PROPERTIES
  ReportsAreTrue
  DeliversExactlyOnce
