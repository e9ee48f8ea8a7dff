CONSTANTS
    Reqs = {r1, r2}
    Procs = {p1}
    Targets = {t1}
    NoReq = NoReq
    NoTarget = NoTarget
    MaxMinutes = 1
    MaxTime = 2
    MaxCrashes = 1
    MaxFaults = 1
SPECIFICATION LiveSpec
PROPERTIES
    LapsedGrantsExpire
CHECK_DEADLOCK FALSE
