SPECIFICATION FairSpec
CONSTANTS
  g1 = g1
  g2 = g2
  Group <- MCGroup
  Jobs <- MCJobs
  Cancellable = {g2}
  MaxWorkers = 1
  None = None
INVARIANT WaitCounts
PROPERTIES ImplementsJobRun RunJobsReturns
CHECK_DEADLOCK FALSE
