\* Three jobs on one session and one slot: the gate, the queue and every
\* cancellation point are reached.
CONSTANTS
  MaxJobs = 3
  Sessions = {1}
  MaxParallel = 1
  MaxTokens = 3
  MaxDepth = 2
  Estimates = {1}
  Depths = {1}
  SinkSuspends = FALSE
  OffloadSuspends = FALSE
  Failures = {"trim", "emit"}
  Calls = {"submit", "assign", "abort", "wait"}
  Outcomes = {"ok", "error", "aborted"}
SPECIFICATION Spec
INVARIANTS ReservationOwned  
PROPERTIES TerminalStable
CHECK_DEADLOCK FALSE
