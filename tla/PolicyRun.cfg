CONSTANTS
    Policies = {p1, p2}
    Windows <- MCWindows
    Grants <- MCGrants
    GrantSets <- MCGrantSets
    DayLen = 3
SPECIFICATION Spec
SYMMETRY Symmetry

    
PROPERTIES
    AddingOnlyTightens
    WindowsAndNumbers
