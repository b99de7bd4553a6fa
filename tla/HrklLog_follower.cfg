SPECIFICATION FairSpec
CONSTANTS
  Clients = {c1, c2, c3}
  Sizes = {1, 3}
  SegmentMaxBytes = 3
  Policy = "group"
  BatchMax = 2
  QueueCap = 1
  PhysClock = {1}
  MaxIds = 0
  Leader <- MCLeader
  CrashKinds = {"process"}
  MaxCrashes = 1
  MaxFaults = 1
  U64Max = 100
  EmptyFileSurvives = FALSE
  OldTail = FALSE
INVARIANTS FollowerMatchesLeader
PROPERTIES EveryCallAnswered
CHECK_DEADLOCK FALSE
