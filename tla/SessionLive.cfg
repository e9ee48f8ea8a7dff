CONSTANTS
    Sessions = {s1}
    Desktops = {s1}
    Procs = {p1}
    None = None
    MaxCrashes = 1
    MaxFaults = 1
    MaxCalls = 2
SPECIFICATION LiveSpec
PROPERTIES
    SessionsEnd
CHECK_DEADLOCK FALSE
