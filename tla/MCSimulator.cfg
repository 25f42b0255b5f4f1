CONSTANTS
  Genesis = 9
  Limit = 11
  Plans <- MCPlans
  Report <- MCReport
  Followed <- MCFollowed
  HistoryDepth = 2
  BlockRange = 1
  None = None
SPECIFICATION MCSpec
INVARIANTS
  
  NewestReturned

  
  
CHECK_DEADLOCK FALSE
