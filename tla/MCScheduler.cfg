SPECIFICATION Spec
CONSTANTS
  Runners = {1, 2}
  Specs <- MCSpecs
  Reports = {"report"}
  MaxSteps = 3
  Yields <- MCYieldsMemory
  MaxHostOps = 2
INVARIANTS PathExact
PROPERTIES OutcomeEarned  RunnersSettle
CHECK_DEADLOCK FALSE
