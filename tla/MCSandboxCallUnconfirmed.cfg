SPECIFICATION Spec
CONSTANTS
    Calls = {c1, c2}
    Files = {f1, f2}
    MaxFiles = 1
    Absent = Absent
    Bad = Bad
    NoCall = NoCall
    Probe = Probe
SYMMETRY Symmetry
PROPERTY UnconfirmedStopsTask
CHECK_DEADLOCK FALSE
