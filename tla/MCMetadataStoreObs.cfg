CONSTANTS
  WorkID = {1, 2, 3, 4}
  LogWork = {1, 2, 3}
  Expiry = 0
  ProposalLimit = 2
  SampleLimit = 1
  None = None
SPECIFICATION Spec
INVARIANT ObservationValid
