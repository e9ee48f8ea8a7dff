CONSTANTS
    Sessions = {s1, s2, s3}
    Desktops = {s1}
    Procs = {p1, p2}
    None = None
    MaxCrashes = 1
    MaxFaults = 1
    MaxCalls = 2
SPECIFICATION MCSpec
SYMMETRY Symmetry
INVARIANTS
    NoUnrecordedSession
    RevocationReaches
    
PROPERTIES
    EndsOnce
CHECK_DEADLOCK FALSE
