SPECIFICATION Spec
CONSTANTS
    s1 = s1
    s2 = s2
    c1 = c1
    Absent = Absent
    Sessions <- TwoSessions
    Callers <- OneCaller
    Versions <- TwoVersions
    MaxLen = 3
    MaxCalls = 5
    MaxEmits = 1
SYMMETRY Symmetry
INVARIANTS
    SurfaceTrue
    RecordsApart
    ClosedWhole
CHECK_DEADLOCK FALSE
