SPECIFICATION Spec
CONSTANTS
    Calls = {c1, c2}
    Files = {f1, f2, f3}
    MaxFiles = 2
    Absent = Absent
    Bad = Bad
    NoCall = NoCall
    Probe = Probe
SYMMETRY Symmetry
INVARIANTS
    CleanSeed
    ArtifactsOfTheGone
    ReturnedIsGone
PROPERTIES
    OkIsComplete
    FailureLeavesArtifacts
CHECK_DEADLOCK FALSE
