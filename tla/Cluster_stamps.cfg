SPECIFICATION ClSpec
CONSTANTS
    ClNodes = {n1, n2, n3}
    ClSeed = n1
    ClCallers = {c1}
    ClMaxEpisodes = 2
    ClMaxTerms = 1
    ClMaxFails = 0
    ClMaxCrashes = 0
    ClSpawnFails = FALSE
INVARIANT ClusterStamps
CHECK_DEADLOCK FALSE
