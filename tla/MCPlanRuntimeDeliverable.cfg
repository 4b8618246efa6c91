SPECIFICATION Spec
CONSTANTS
    s1 = s1
    s2 = s2
    s3 = s3
    old = old
    new = new
    StepIds <- MCStepIds
    Texts <- MCTexts
    PlannerOutputs <- MCFewOutputs
    Tools = {safe, unsafe}
    RetrySafe = {safe}
    MaxAttempts = 2
    MaxReplans = 1
    MaxRecovery = 1
    MaxIterations = 3
    IterationsPerStep = 1
    IterationsOverhead = 1
    RequireArtifact = FALSE
    MaxCalls = 2
    NoPlan = NoPlan
    NoStep = NoStep
INVARIANTS
    NoBrokenDeliverable
CHECK_DEADLOCK FALSE
