CONSTANTS
  Runners = {1, 2, 3}
  FreeCalls = {1, 2}
  Calls = {"run", "reset", "replay"}
  Modes = {"Batch", "Continuous"}
  Identities = {own, another}
  Own = own
  Another = another
  Selected <- MCSelected
  BatchSize = 2
  MaxRetries = 3
  MaxPosition = 16
  None = None
SPECIFICATION SuiteSpec
INVARIANT SuitePasses
PROPERTIES
  EveryEventDelivered
  BatchReturns
