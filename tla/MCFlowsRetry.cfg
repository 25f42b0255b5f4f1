SPECIFICATION Spec
CONSTANTS
  WorkID = {w1, w2}
  Block = {1}
  Proc = {p1}
  LogBatch = 2
  RetryBatchSize = 1
  WorkerBatchLimit = 1
  Expiration = 1
  RetryInterval = {0}
  StoreTTL = 0
  None = None
PROPERTY RetryableQueued
