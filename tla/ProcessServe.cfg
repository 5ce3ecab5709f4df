SPECIFICATION MCSpec
CONSTANTS
    Main = Main
    None = None
    s1 = s1
    s2 = s2
    Spawn = {s1, s2}
    r1 = r1
    Request = {r1}
    v1 = v1
    v2 = v2
    Server = {v1, v2}
    MaxEvents = 2
SYMMETRY Symmetry
INVARIANTS
    HandlesExact
    NoEarlyEnd
    CallbackBeforeServe
    OutputWritten
