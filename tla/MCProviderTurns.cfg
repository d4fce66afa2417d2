CONSTANTS
  Stacks <- MCStacks
  Templates <- MCTemplates
  MaxAttempts = 2
  MaxRetries = 2
  MaxPings = 1
  MaxCompactions = 1
SPECIFICATION FairSpec
INVARIANTS RequestsWellFormed StreamFaithful
PROPERTIES TurnsEnd
