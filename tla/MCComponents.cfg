SPECIFICATION CompSpec
CONSTANTS
    KsSealers = {s1, s2}
    KsReaders = {r1}
    KsMaxRecords = 2
    KsMaxShreds = 1
    KsMaxCrashes = 1
    KsOverlap = FALSE
    SbCapacity = 2
    SbScanBatch = 2
    SbMaxHead = 4
    SbFrom = {0, 2}
    SpReaders = {r1, r2, r3}
    SpMaxHead = 3
    AnStep = 2
    AnMaxLsn = 5
    AnMaxCrashes = 1
    AnEmptyRolls = FALSE
    BtKeys = {1, 2, 3, 4, 5, 6, 7}
    BtNodeCap = 12
    BtBufferCap = 1
    BtBudget = 2
    BtMaxFree = 20
    BtPreloads = {{}, {1, 3, 4}, {1, 2, 3, 4, 5, 7}}
    BtMaxCalls = 2
    BtMaxCommits = 1
    BtMaxCrashes = 1
    MtAppenders = {a1, a2}
    MtCap = 2
    MtMaxLsn = 4
    MtMaxClears = 1
    MtClearRaces = FALSE
    CtRecords = {1, 2, 3, 4}
    CtRatio = 25
    CtMinRecords = 2
    CtMaxReceipts = 4
    CtMaxCrashes = 1
    Chosen <- Four
    Scenarios <- Restarts
INVARIANTS
    KeyMatchesRecords NoEventMissed FloorBelowSnapshots
    ReceiptsVerify TreeIsMap
    OverlayExact NewestReceiptWhole
    EpisodesAreEntries NothingLost VoteKept OpensAgain
PROPERTIES StreamCatchesUp CommittedApplied
CHECK_DEADLOCK FALSE
