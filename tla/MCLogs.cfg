SPECIFICATION LogsSpec
CONSTANTS
  Clients = {c1, c2}
  Sizes = {1, 3}
  SegmentMaxBytes = 3
  Policy = "always"
  BatchMax = 2
  QueueCap = 2
  PhysClock = {1, 3}
  MaxIds = 3
  Leader <- NoLeader
  CrashKinds = {"power"}
  MaxCrashes = 2
  MaxFaults = 1
  U64Max = 100
  EmptyFileSurvives = FALSE
  OldTail = FALSE
  V6Appenders = {a1}
  V6Clock = {1}
  V6Policy = "group"
  V6MaxIds = 2
  V6CrashKinds = {"process", "power"}
  V6MaxCrashes = 2
  V6FaultKinds = {"commit", "create"}
  V6MaxFaults = 1
  V6MaxAdmin = 2
  V6MaxPasses = 1
  HeaderMayBeLost = FALSE
  GcInterrupted = FALSE
  SgSizes = {0, 3}
  SgHlcs = {1, 2}
  SgGaps = {0, 1}
  SgTarget = 4
  SgInterval = 2
  SgMaxRecords = 4
  SgMaxDamaged = 2
  SgReaders = {t1}
SYMMETRY Symmetry
INVARIANTS TypeOK HeadCoversAcked CrashSafe ReadersExact V6ReadsExact V6PromisesKept SegmentExact DamageFound
PROPERTIES StableReads
CHECK_DEADLOCK FALSE
