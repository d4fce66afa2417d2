CONSTANTS
  PassThreshold = 12
  PassVerdict = "success"
  FailVerdict = "iterate"
  ScoreLow = 0
  ScoreHigh = 14
  Equivalent <- MCEquivalent
  Members = 2
  Aggregator = "majority"
  Confident = 80
  MaxRounds = 3
  MaxWall = 6
  RatioPct = 110
  Durations = {1, 3}
  Terminal = {"success", "abandon"}
  Success = {"success"}
  Modes = {"bare", "majority", "pipeline", "fallback", "cascade", "parallel", "ensemble", "consensus"}
  Replies <- MCReplies
  Plateau = 1
  MinScored = 1
  WriterAborts = TRUE
  Fails = {"submit", "judge"}
  Unwritable = {1}
SPECIFICATION FairSpec
INVARIANTS TrailComplete AuditsSound
PROPERTIES CycleConcludes
CHECK_DEADLOCK FALSE
