CONSTANTS
    Sessions = {s1, s2}
    MaxDrains = 2
SPECIFICATION LiveSpec
INVARIANTS
    DrainMissesOnlyLate
PROPERTIES
    DrainEnds
CHECK_DEADLOCK FALSE
