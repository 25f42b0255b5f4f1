CONSTANTS
  WorkID = {"log"}
  LogTriggered = {"log"}
  CheckBlock = {1, 2}
  Event <- MCLogEvent
  PerformLockoutWindow = 1
  None = None
SPECIFICATION FairSpec
INVARIANTS
  RecordsJustified
PROPERTIES
  NeverInFlightForever
  PerformedLogFiltered
