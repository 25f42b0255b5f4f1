CONSTANTS
  UpkeepID = {"u1", "u2", "u3"}
  Gas = {1, 3, 9, 15}
  PerformablesLimit = 4
  MaxUpkeepBatchSize = 2
  GasLimitPerReport = 5
  GasOverheadPerUpkeep = 1
  UintRange = 16
  GasV2 = {0, 3, 15}
  Oracle = {"o1", "o2", "o3"}
  Faulty = {"o3"}
  BlockKey = {1, 2, 3}
  Ids <- MCIds
  Invalid = Invalid
  ObservationUpkeepsLimit = 2
  ReportKeysLimit = 3
SPECIFICATION MCSpec
INVARIANTS
  ReportsPartition
  ReportsExecutable
  ReportsWithinGas
  
  
  
CHECK_DEADLOCK FALSE
