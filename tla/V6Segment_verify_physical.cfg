SPECIFICATION SgSpec
CONSTANTS
    SgSizes = {0, 3}
    SgHlcs = {1, 2}
    SgGaps = {0, 1}
    SgTarget = 4
    SgInterval = 2
    SgMaxRecords = 4
    SgMaxDamaged = 2
    SgReaders = {t1}
INVARIANT PhysicalFindsDamage
CHECK_DEADLOCK FALSE
