SPECIFICATION Spec
CONSTANTS
  MaxTurns = 2
  ExtraAttempts = 1
  Cap = 2
  NoToolBehavior = "nudge"
  NoToolMax = 2
  TruncMax = 1
  RunawayMax = 1
  MaxNudges = 1
  KeepRecent = 2
  Landing = {"land"}
  MaxStops = 1
  Tools <- MCTools
  Visible <- MCVisible
  Replies <- MCReplies
  HostBefore <- MCHostBefore
  HostInterrupt <- MCHostInterrupt
  HostReply <- MCHostReply
  HostTurnEnd <- MCHostTurnEnd
 
PROPERTIES RetriesBounded
CHECK_DEADLOCK FALSE
