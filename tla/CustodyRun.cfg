CONSTANTS
    k1 = k1
    k2 = k2
    gw2 = gw2
    m1 = m1
    t1 = t1
    g1 = g1
    c1 = c1
    x1 = x1
    a1 = a1
    a2 = a2
    i1 = i1
    Gateways = {gw1, gw2}
    Commands = {cmd1}
    Master = master
    Keys = {k1, k2, k3}
    NoKey = NoKey
    Secrets = {s1}
    MaxVersion = 2
    Overlap = FALSE
    MaxEvent = 3
    MaxReseal = 1
    MaxTamper = 2
    Creds = {c1}
    CredNames = {prompt}
    PromptName = prompt
    CKeys = {m1, m2}
    None = None
    Admins = {a1, a2}
    Holders = {t1, g1}
    Targets = {t1}
    Addresses = {x1, x2}
    Listeners = {l1}
    FPs = {f1, f2}
    Groups = {g1}
    Insts = {i1, i2}
    Interval = 1
    MaxBackoff = 2
    Recs = {1, 2}
    Buckets = {b1}
    NoBucket = NoBucket
    EnvBucket = NoBucket
    Blank = {2}
    OwnDays = {0}
    MaxDay = 2
    MaxCrash = 1
    MaxReads = 1
    Documents <- documents
    Stores <- stores
    MaxId = 10
    MaxRefusals = 1
    MaxEdits = 2
    Machines <- machines
    GoneId = "x"
    Serves <- serves
    Protos = {"ssh", "rdp", "database"}
    NoTag = "none"
    LegacyChoices <- legacyChoices
    Beside <- beside
SPECIFICATION Spec
VIEW View
INVARIANTS
    KeysSound
    AnchorsSound
    
    
    
PROPERTIES
    PinsKept
CHECK_DEADLOCK FALSE
