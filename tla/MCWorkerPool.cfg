SPECIFICATION FairSpec
CONSTANTS
    Tasks = {t1, t2, t3}
    Threads = {w1, w2, w3}
    MaxWorkers = 1
    MaxPending = 1
    NoTask = NoTask
INVARIANTS
    InFlightExact
PROPERTIES
    ImplementsBoundedPool
    AcceptedIsServed
    StoppedThreadsEnd
CHECK_DEADLOCK FALSE
