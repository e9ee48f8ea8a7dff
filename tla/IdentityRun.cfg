CONSTANTS
    Parts = {"accounts", "tokens", "codes", "password", "enrol", "login", "sync", "scim", "groups", "listing", "throttle", "commands"}
    u1 = u1
    s1 = s1
    s2 = s2
    w1 = w1
    x1 = x1
    p1 = p1
    p2 = p2
    j1 = j1
    j2 = j2
    m1 = m1
    c2 = c2
    l1 = l1
    Users = {u1, u2}
    None = None
    Passwords = {w1, w2}
    IdPs = {p1, p2}
    Holding = {p1, p2}
    Subjects = {n1, n2}
    WSess = {s1, s2}
    Tokens = {t1}
    MaxActive = 1
    Requests = {q1, q2}
    MaxFailures = 2
    MFAAttempts = 2
    RecoveryCount = 1
    Seeds = {x1, x2}
    MaxStep = 1
    SReqs = {r1, r2}
    Jobs = {j1, j2}
    Names = {m1, m2}
    Groups = {g1}
    Mapped = {g1}
    Pushing = {p2}
    LDAPs = {p1}
    GuardFloor = 0
    People = {y1, y2, y3, y4}
    PageSize = 2
    MaxChanges = 2
    Addresses = {a1, a2}
    Checks = {h1, h2}
    Burst = 2
    Rate = 1
    MaxHeld = 1
    GCEvery = 1
    Slots = 1
    MaxClock = 5
    CLines = {l1, l2}
    CReqs = {c1, c2}
    freshFor = 1
    maxFails = 2
    lockFor = 1
    confirmFor = 0
    perMinute = 3
    MaxMinute = 2
    MaxPrompts = 1
SPECIFICATION Spec
VIEW View
INVARIANTS
    
    
    ListingSound
PROPERTIES
    LinkKept
CHECK_DEADLOCK FALSE
