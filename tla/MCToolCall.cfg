SPECIFICATION Spec
CONSTANTS
    Task <- MCTask
    Name <- MCName
    Workspace <- MCWorkspace
    ReportPrefix <- MCReportPrefix
    InputPrefix <- MCInputPrefix
    AllowedTools <- MCAllowedTools
    AllowedPermissions <- MCAllowedPermissions
    MaxAttempts = 3
    None = None
    Inputs <- MCInputs
    Requests <- MCRequests
    Writes <- MCWrites
    Sizes <- MCSizes
    Raised <- MCRaised
    Binary <- MCBinary
    Supported <- MCSupported
    Markdown <- MCMarkdown
    Inline = 2
    PageMax = 1
    Footer = 1
INVARIANTS
    OwnContentOnly
    AttemptsAreTold
    OutputsAreKept
    DeliveredIsStored
