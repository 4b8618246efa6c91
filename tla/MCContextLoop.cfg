SPECIFICATION Spec
CONSTANTS
    Refs = {r1, r2}
    Pinned = 1
    Sizes = {1, 2}
    SummarySizes = {1, 6}
    TargetTokens = 3
    SoftLimit = 4
    HardLimit = 6
    RecentGroups = 1
    FailureThreshold = 2
    CompactAttempts = 2
    LlmAttempts = 2
    SoftBudget = 2
    HardBudget = 3
    Usage = {0, 1}
    MaxIterations = 5
    MaxReplans = 1
    MaxCalls = 2
SYMMETRY Symmetry
INVARIANTS
    PromptIsSafe
CHECK_DEADLOCK FALSE
