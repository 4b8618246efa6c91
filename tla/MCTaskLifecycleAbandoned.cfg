CONSTANTS
    Tasks = {t1, t2}
    Capacity = 1
    MaxWork = 1
    MaxCrashes = 1
    NoTask = NoTask
SYMMETRY Symmetry
SPECIFICATION Spec
CHECK_DEADLOCK FALSE
INVARIANT
    StaleMeansAbandoned
