SPECIFICATION MCSpec
CONSTANTS
    None = None
    a = a
    b = b
    d = d
    Config = {a, b, d}
    Graphs <- ChainAndCycle
    o1 = o1
    o2 = o2
    Owner = {o1, o2}
    Content <- Edited
    t1 = t1
    t2 = t2
    Thread = {t1, t2}
    MaxCalls = 5
    k1 = k1
    Key = {k1}
    h1 = h1
    h2 = h2
    h3 = h3
    Holder = {h1, h2, h3}
    e1 = e1
    e2 = e2
    e3 = e3
    e4 = e4
    e5 = e5
    FileEntry = {e1, e2, e3, e4, e5}
    s1 = s1
    s2 = s2
    Slot = {s1, s2}
    SlotName <- OneName
    Glob = {1, 2}
    MaxUpdates = 4
    SlotAtOnce = {s1}
    GlobAtOnce = {1}
    ExtensionAtOnce = {1, 2}
    MaxAtOnce = 3
INVARIANTS
    OwnedStays
    OnlyCircularWaits
    CountExact
    WatchesExact
PROPERTIES
    FreshForSnapshot
    RegistrationForward
