SPECIFICATION Spec
CONSTANTS
  Clients = {c1, c2}
  Sizes = {1, 3}
  SegmentMaxBytes = 3
  Policy = "always"
  BatchMax = 2
  QueueCap = 1
  PhysClock = {1}
  MaxIds = 2
  Leader <- NoLeader
  CrashKinds = {"process"}
  MaxCrashes = 1
  MaxFaults = 0
  U64Max = 100
  EmptyFileSurvives = TRUE
  OldTail = FALSE
INVARIANTS AckedReadable
CHECK_DEADLOCK FALSE
