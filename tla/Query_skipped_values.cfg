SPECIFICATION QrSpec
CONSTANTS
    QrValues = {"w", "2", "10", "true", "0"}
    QrFields = {"lsn", "agent_id", "kind", "v"}
    QrMaxLog = 3
    QrMaxRolls = 1
    QrEmptyRolls = FALSE
INVARIANT QueryExact
CHECK_DEADLOCK FALSE
