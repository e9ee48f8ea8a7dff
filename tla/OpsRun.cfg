CONSTANTS
    Channels = {c1}
    EventKinds = {e1}
    Callers = {a1}
    batch = 2
    maxPerPass = 1
    MaxLog = 3
    MaxUnsent = 1
    MaxEdits = 2
    MaxRequests = 2
    MaxLosses = 1
    MaxFailures = 1
    Verbs = {"config", "update", "reboot", "poweroff", "restart"}
    SetCallers = {a2, a3}
    Values = {v1, v2}
    Default = v1
    Unset = Unset
    Stale = Stale
    Overlapping = FALSE
    MaxErrors = 1
    TlsJobs = {j1, j2}
    TLSOverlap = FALSE
    MaxCert = 4
    MaxTlsErrors = 1
    MaxYears = 2
    Starters = {p1, p2}
    Latest = 3
    Rebuilds = {2}
    Tapes = {t1}
    MaxKills = 1
    MaxBroken = 1
    MasterKeys = {k1, k2, k3}
    NoKey = NoKey
SPECIFICATION Spec
VIEW View
INVARIANTS
    NotifySound
    HostSound
    
    UpkeepSound
PROPERTIES
    NotificationsArrive
    ServesAgain
CHECK_DEADLOCK FALSE
