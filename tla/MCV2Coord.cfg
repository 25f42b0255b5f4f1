CONSTANTS
  UpkeepID = {"a"}
  KeyBlock = {1, 3}
  Indefinite = 9
  FinalReport <- MCReport
  Log <- MCLog
  LockoutWindow = 1
  ActiveWindow = 1
  Nil = Nil
SPECIFICATION MCSpec
INVARIANTS
  AcceptedIsPending
PROPERTIES
  NeverBlockedForever
  IdBlocksMoveUp
