CONSTANTS
  Calls = {"stream", "chat"}
  Args <- MCArgs
  Gate = 1
  GateWait = 0
  Floor = 1
  RecoveryMin = 1
  Backoff = 1
  RateBackoff = 2
  RunawayBackoff = 1
  RunawayMax = 3
  StallMax = 2
  Grace = 1
  Obs = 1
SPECIFICATION FairSpec
INVARIANTS GateBounded SpendAccounted
PROPERTIES CallsEnd
CHECK_DEADLOCK FALSE
