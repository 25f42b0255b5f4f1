CONSTANTS
  Services = 2
  MaxPanics = 2
  Kinds <- MCKinds
  UpkeepID = {"a", "b"}
  BlockKey = {1, 2}
  Unsplit = {"b"}
  MaxAborted = 1
  None = None
SPECIFICATION MCSpec
INVARIANTS
  OneInstance
  ObservedTogether
PROPERTIES
  CloseEndsRunning
  
  CloseEndsObserver
  RecoversFromPanic
CHECK_DEADLOCK FALSE
