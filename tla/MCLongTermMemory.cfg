SPECIFICATION Spec
CONSTANTS
    Task = {"a", "b", "c"}
    Scope = {"s1", "s2"}
    Process = {"p", "q"}
    Fact = {"f", "g"}
    ScopeOf <- MCScopeOf
    ProcessOf <- MCProcessOf
    Said <- MCSaid
    Observed <- MCObserved
    TopK = 1
    MaxResults = 2
    LeastWindow = 2
    WindowFactor = 1
    MaxCandidates <- MCCandidates
    Proposals <- MCProposals
    MaxCrashes = 1
    None = None
INVARIANTS
    OneActive
    RowsAreSourced
    ScopesAreApart
    CaptureIsAccounted
PROPERTY RowsAreHistory
CHECK_DEADLOCK FALSE
