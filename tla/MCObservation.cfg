CONSTANTS
  WorkID = {1, 2, 3, 4}
  LogWork = {1, 2, 3}
  Expiry = 0
  ProposalLimit = 2
  SampleLimit = 1
  None = None
  Node = {n1, n2}
  r1 = r1
  r2 = r2
  r3 = r3
  r4 = r4
  ResultID <- MCResultID
  MaxRound = 2
  RoundsPerSource = 2
  Shuffled <- MCShuffled
  ResultSize <- MCResultSize
  BaseSize = {0, 1}
  ObservationPerformablesLimit = 4
  MaxObservationLength = 15
SPECIFICATION MCSpec
INVARIANTS
  KeysMatchValues
  ObservationFits
  SameSubset
PROPERTIES
  
  HookEnds
CHECK_DEADLOCK FALSE
