\* Four jobs compete for two slots and a token budget that two of them exhaust;
\* a depth at the limit is among the inputs.
CONSTANTS
  Jobs = {j1, j2, j3, j4}
  MaxParallel = 2
  MaxTokens = 3
  MaxDepth = 2
  Estimates = {0, 1, 2}
  Depths = {1, 2}
SPECIFICATION Spec
INVARIANTS SuspendedOnce SlotConservation TokenAccounting
PROPERTIES WaiterProgress
