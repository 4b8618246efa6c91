SPECIFICATION FairSpec
CONSTANTS
    s1 = s1
    s2 = s2
    s3 = s3
    old = old
    new = new
    StepIds <- MCStepIds
    Texts <- MCTexts
    PlannerOutputs <- MCPlannerOutputs
    Tools = {safe, unsafe}
    RetrySafe = {safe}
    MaxAttempts = 2
    MaxReplans = 1
    MaxRecovery = 1
    MaxIterations = 2
    IterationsPerStep = 1
    IterationsOverhead = 1
    RequireArtifact = TRUE
    MaxCalls = 2
    NoPlan = NoPlan
    NoStep = NoStep
INVARIANTS
    ViewIsCurrent
    CompletedIsClosed
    BoundStepIsEligible
    DeliveredIsValid
PROPERTIES
    RunEnds
    CompletedIsKept
    PlanFrozenAfterEnd
CHECK_DEADLOCK FALSE
