SPECIFICATION EngSpec
CONSTANTS
    QrValues = {"w", "2", "10"}
    QrFields = {"lsn", "agent_id", "kind", "v"}
    QrMaxLog = 3
    QrMaxRolls = 1
    QrEmptyRolls = FALSE
    TgEdges = {e1, e2}
    TgKeys = {1, 2, 3}
    TgDeciders = {d1}
    TgBounds = {}
    TgOrdered = TRUE
    TgTorn = FALSE
    TgMaxLog = 4
    TgMaxCrashes = 1
    ClNodes = {n1, n2}
    ClSeed = n1
    ClCallers = {c1}
    ClMaxEpisodes = 2
    ClMaxTerms = 2
    ClMaxFails = 1
    ClMaxCrashes = 1
    ClSpawnFails = FALSE
    HvWriters = {w1, w2}
    HvReplayers = {r1}
    HvKeys <- HvOneKey
    HvVals <- HvOneVal
    HvMaxLog = 3
    HvMaxFiles = 2
    HvBatch = 1
    HvMaxCrashes = 1
    IrBits = 2
    IrMaxInsts = 4
    IrLiterals <- IrSomeLiterals
    IrColumns <- IrTwoColumns
    IrOps = {"sub", "lt", "eq", "and", "or"}
    HkBits = 3
    HkRows = 8
    HkIndex16 = 8
    HkMaxMask = 2
    HkValues = {0, 1, 2, 6, 7}
    HkMaxColumn = 5
    HkArena <- HkOneArena
    HkRequests <- HkSomeRequests
    VxColumns <- VxTwoColumns
    VxEvents <- VxFiveEvents
    VxLadder <- VxThreeSteps
    VxLiterals = {1, 2}
    VxEstimates = {10, 50}
    VxCaches = {0, 2, 9}
    VxCpus = {1, 2}
    VxMaxPreds = 2
    VxMaxKeys = 1
    DsTickers = {t1}
    DsTopics = {x, y}
    DsMinCluster = 3
    DsMaxFacts = 2
    DsWindow = 6
    DsMaxLog = 8
    DsMaxCrashes = 1
    DsSyncs = TRUE
INVARIANTS
    QueryExact TimeTravelExact ActionsOnce ReplicasExact LedgerExact
    TiersAgree KernelsExact VectorisedExact NothingSkipped
CHECK_DEADLOCK FALSE
