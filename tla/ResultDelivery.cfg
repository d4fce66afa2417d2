\* Two jobs and a status message, batches of two, one restart.
CONSTANTS
  MaxJobs = 2
  Limit = 2
  MaxStatus = 1
  MaxRestarts = 1
  Misorders = TRUE
SPECIFICATION Spec
INVARIANTS NotLost MailExact
 
