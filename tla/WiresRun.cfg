CONSTANTS
    Kinds = {"ssh", "db", "winrm", "guac"}
    MaxStalls = 2
    Watchers = {w1, w2}
    RingSize = 2
    ChanSize = 1
    MaxOut = 4
    Indexes = {i1, i2}
    Opening = {img, file, clipboard}
    Plain = {mouse, get}
    Refused = {file, get}
    Idle = idle
    q1 = q1
    q2 = q2
    Asks = {q1, q2}
    Origins = {"app"}
    Sites = {"cdn"}
    Public = {"pub"}
    Private = {"lan", "ok"}
    Reserved = {}
    Allowed = {"ok"}
    Pinned = "pin"
    MaxLookups = 1
    MaxMinutes = 1
    Requested = {"track"}
    Framing = {"track", "eof"}
    MaxPackets = 2
    s1 = s1
    s2 = s2
    Runs = {s1, s2}
    AppsMax = 1
    MaxFaults = 2
    MaxDeaths = 1
SPECIFICATION Spec
VIEW View
INVARIANTS
    
    WatchersSound
    StreamsSound
    RelaySound
PROPERTIES
    
    ContainersSound
    LeftoversGo
CHECK_DEADLOCK FALSE
