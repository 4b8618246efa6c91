SPECIFICATION Spec
CONSTANTS
    Datasets <- MCDatasets
    Tools = {"parse", "save_report"}
    PlanSteps = {"s"}
    Keys = {"k"}
    Sizes = {0, 1, 2}
    Latencies = {1, 2}
    TokenCounts = {0, 5}
    MaxRecovery = 1
    MaxEvents = 2
    Scale = 6
    None = None
INVARIANTS
    VerdictIsTrue
    MetricsAgree
    EveryCaseIsScored
CHECK_DEADLOCK FALSE
