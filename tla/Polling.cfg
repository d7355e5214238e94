CONSTANTS
  r1 = r1
  r2 = r2
  Runners = {r1, r2}
  None = None
  MaxPosition = 4
  Selected = {1, 2, 3, 4}
  Decodable = {1, 3, 4}
  PageSize = 2
  MaxRetryAttempts = 1
  MaxPollFailures = 1
  GuardsMayVanish = TRUE
SPECIFICATION FairSpec
INVARIANTS
  TypeOK
  CrashRepeatsOne
PROPERTIES
  DeliversAtLeastOnce
  EveryEventHandled
  BatchReturns
