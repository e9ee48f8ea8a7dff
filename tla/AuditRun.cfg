CONSTANTS
    Writers = {w1, w2}
    Events = {e1, e2}
    Sinks = {s1, s2}
    None = None
    BatchSize = 2
    MaxId = 3
    MaxCrashes = 1
    MaxFaults = 1
SPECIFICATION LiveSpec
INVARIANTS
    LogKept
PROPERTIES
    KeepsPromise
CHECK_DEADLOCK FALSE
