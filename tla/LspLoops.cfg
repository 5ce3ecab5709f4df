SPECIFICATION ServerSpec
CONSTANTS
    p1 = p1
    p2 = p2
    Process = {p1, p2}
    Item = {1, 2}
    MaxPuts = 3
    r1 = r1
    r2 = r2
    Request = {r1, r2}
    Nobody = Nobody
    Exiting = TRUE
    WriteFails = TRUE
    w1 = w1
    None = None
    Worker = {w1}
    Mixes <- EndingMixes
    MaxSnapshots = 2
    MaxChanges = 2
    MaxConfigs = 0
    MaxTimers = 1
INVARIANT
    RequestsExact
PROPERTIES
    AllServed
    ImplementsFifo
    AllReturn
    Flushed
    Closes
