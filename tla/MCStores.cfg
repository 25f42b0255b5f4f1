CONSTANTS
  WorkID = {"w"}
  Block = {1, 2}
  Proc = {p1, p2}
  LogBatch = 1
  RetryBatchSize = 1
  WorkerBatchLimit = 1
  Expiration = 0
  RetryInterval = {0}
  StoreTTL = 0
  None = None
  Work = {"log1", "log2"}
  TypeOf <- MCTypeOf
  BlockNumber = {1, 2}
  RoundHistoryLimit = 2
  SurfacedLimit = 2
  ProposalExpiry = 1
  BatchSize = 1
SPECIFICATION MCSpec
INVARIANT RunOnce
PROPERTIES
  BlocksOnlyGrow
  StoreOnlyNewer
