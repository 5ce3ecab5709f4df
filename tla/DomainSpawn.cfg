SPECIFICATION Spec
CONSTANTS
    Co = {c1, c2}
    c1 = c1
    c2 = c2
    Made = {m1}
    m1 = m1
    Child = {s1}
    s1 = s1
    Delays = {0}
    MaxTimers = 1
    MaxNow = 1
    Kind = "spawn"
    Driver = Driver
    None = None
SYMMETRY Symmetry
INVARIANTS
    UnclonedOutOfReach
    SpawnedExact
