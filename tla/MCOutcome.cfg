CONSTANTS
  Oracle <- MCOracle
  Faulty = {4}
  F = 1
  WorkID = {"a", "b"}
  Data = {1, 2}
  BlockNumber = {1, 2}
  BlockHash = {0, 1, 2}
  UniqueID <- MCUniqueID
  LogTriggered = {"b"}
  Observation <- MCObservation
  OutcomeAgreedPerformablesLimit = 1
  OutcomeSurfacedProposalsLimit = 1
  OutcomeSurfacedProposalsRoundHistoryLimit = 2
  ObservationPerformablesLimit = 2
  ObservationConditionalsProposalsLimit = 1
  ObservationLogRecoveryProposalsLimit = 1
  ObservationBlockHistoryLimit = 2
SPECIFICATION Spec
INVARIANTS
  OutcomeDecodes
  AgreementBacked
  QuorumBlockIsLatest
  PerformedNotProposed
PROPERTY HistoryKept
