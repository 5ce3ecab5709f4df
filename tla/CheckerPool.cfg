SPECIFICATION Spec
CONSTANTS
    None = None
    t1 = t1
    t2 = t2
    Thread = {t1, t2}
    r1 = r1
    Request = {r1}
    f1 = f1
    File = {f1}
    d1 = d1
    d2 = d2
    Diag = {d1, d2}
    MaxCheckers = 3
    MaxCalls = 3
    Mixes <- Pairs
SYMMETRY Symmetry
INVARIANTS
    HeldExact
    NothingStale
    CleanupComing
    GlobalsReported
PROPERTY
    StableIdentity
