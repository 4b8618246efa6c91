SPECIFICATION FairExportSpec
CONSTANTS
    Obs = {root, o1}
    Root = root
    Referenced <- MCReferenced
    Dests = {d1, d2}
    None = None
    MaxAttempts = 2
    MaxResolves = 1
    MaxFaults = 2
INVARIANTS
    AtMostOnce
    AcceptedWasReceived
    OneProject
    ExportedIsFinal
PROPERTIES
    ImplementsDelivery
    EndedIsSettled
CHECK_DEADLOCK FALSE
