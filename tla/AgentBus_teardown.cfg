\* Two jobs, all the calls that tear something down.
CONSTANTS
  MaxJobs = 2
  Sessions = {1}
  MaxParallel = 1
  MaxTokens = 3
  MaxDepth = 2
  Estimates = {1}
  Depths = {1}
  SinkSuspends = FALSE
  OffloadSuspends = FALSE
  Failures = {}
  Calls = {"submit", "assign", "abort", "sweep", "clean", "wait"}
  Outcomes = {"ok", "aborted"}
SPECIFICATION FairSpec
INVARIANTS ResultOnce
PROPERTIES  TeardownReturns
CHECK_DEADLOCK FALSE
