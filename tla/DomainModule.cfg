SPECIFICATION FairSpec
CONSTANTS
    Co = {c1}
    c1 = c1
    Made = {m1}
    m1 = m1
    Child = {s1}
    s1 = s1
    Delays = {0, 2}
    MaxTimers = 2
    MaxNow = 2
    Kind = "module"
    Driver = Driver
    None = None
INVARIANT
    ModuleRejectionFails
PROPERTIES
    SingleThread
    ComesToAnEnd
