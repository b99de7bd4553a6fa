SPECIFICATION Spec
CONSTANTS
  Clients = {c1, c2}
  Sizes = {1, 3}
  SegmentMaxBytes = 3
  Policy = "group"
  BatchMax = 2
  QueueCap = 1
  PhysClock = {1, 3}
  MaxIds = 2
  Leader <- NoLeader
  CrashKinds = {"process", "power"}
  MaxCrashes = 2
  MaxFaults = 1
  U64Max = 100
  EmptyFileSurvives = FALSE
  OldTail = TRUE
SYMMETRY Symmetry
INVARIANTS TsMonotone SealedVerifies
PROPERTIES ImplementsEpisodeLog
CHECK_DEADLOCK FALSE
