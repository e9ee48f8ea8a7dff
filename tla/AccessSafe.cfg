CONSTANTS
    Reqs = {r1, r2}
    Procs = {p1, p2}
    Targets = {t1}
    NoReq = NoReq
    NoTarget = NoTarget
    MaxMinutes = 1
    MaxTime = 2
    MaxCrashes = 1
    MaxFaults = 1
SPECIFICATION Spec
SYMMETRY Symmetry
INVARIANTS
    ExtensionsChainGrants
    EndsCarriedThrough
    NoGrantOnDeletedTarget
PROPERTIES
    DecisionsHold
CHECK_DEADLOCK FALSE
