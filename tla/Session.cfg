SPECIFICATION Spec
CONSTANTS
    w1 = w1
    None = None
    Worker = {w1}
    Mixes <- AllMixes
    MaxSnapshots = 4
    MaxChanges = 2
    MaxConfigs = 1
    MaxTimers = 2
INVARIANTS
    RefsExact
    NothingLost
PROPERTY
    NeverBack
