CONSTANTS
    Tasks = {t1, t2}
    Capacity = 1
    MaxWork = 1
    MaxCrashes = 2
    NoTask = NoTask
SPECIFICATION FairSpec
CHECK_DEADLOCK FALSE
INVARIANTS
    RefusedNeverRuns
    RecoveryTellsTruth
    MemoryOnlyFromSuccess
PROPERTIES
    ImplementsRecord
    Converges
