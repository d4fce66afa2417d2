CONSTANTS
  Callers = {"stream", "chat"}
  Args <- MCArgs
  Minute = 2
  RRate = 1
  TRate = 2
  Estimates = {1, 5}
  Usages = {3}
  Signatures = {1}
  Texts <- MCTexts
  ChunkSizes = {1, 2}
  Window = 2
  Trigger = 2
  MaxScopes = 1
  MinPattern = 1
  MaxPattern = 2
  MinRepeats = 2
  MinText = 3
  Interval = 2
  MaxRetries = 1
  Backoff = 1
SPECIFICATION Spec
INVARIANTS QuotaKept 
PROPERTIES CallersServed
