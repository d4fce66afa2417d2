CONSTANTS
  Configs <- MCConfigs
  Shapes <- MCShapes
  SummarySizes = {0, 1, 6}
  CallTimes = {1, 6}
  MaxTurns = 3
SPECIFICATION MCSpec
INVARIANTS Recoverable ContractKept SummarySound HistorySound
CHECK_DEADLOCK FALSE
