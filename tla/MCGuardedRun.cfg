SPECIFICATION Spec
CONSTANTS
  t1 = t1
  t2 = t2
  Threads <- MCThreads
  Confs <- MCConfs
  MaxRenewals = 2
  RenewTimes = {1, 5}
  LlmTimeout = 2
  ToolTimeout = 2
  Margin = 1
  Floor = 1
  DefaultReserve = 3
  MinimumPhase = 1
  Grace = 2
  Texts <- MCTexts
  Spend = {0, 2}
  ResultBodies <- MCResultBodies
  ResultBlocks <- MCResultBlocks
  Transparent <- MCTransparent
  Stuck <- MCStuck
  Repeat <- MCRepeat
  TextRule <- MCTextRule
  Rails <- MCRails
  TokenLimit = 5
  ReserveTurns = 2
  Cooldown = 2
  Messages <- MCMessages
  MaxHistory = 4
  ItemMax = 3
  ContextMax = 6
  CutMin = 1
INVARIANTS  RecoverySound
  
CHECK_DEADLOCK FALSE
