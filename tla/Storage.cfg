SPECIFICATION MCSpec
CONSTANTS
    r1 = r1
    SyncCreation = TRUE
    Threshold = 1
    Reader <- OneReader
    Faults = {}
    MaxWrites = 2
    MaxOpens = 3
    MaxCrashes = 2
    MaxWork = 2
INVARIANTS
    Recoverable
    AckedFound
    SequencesSound
    UsedTablesExist
CHECK_DEADLOCK FALSE
