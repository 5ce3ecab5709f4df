SPECIFICATION Spec
CONSTANTS
    Co = {c1, c2, c3}
    c1 = c1
    c2 = c2
    c3 = c3
    Made = {m1}
    m1 = m1
    Child = {}
    Delays = {0}
    MaxTimers = 0
    MaxNow = 0
    Kind = "request"
    Driver = Driver
    None = None
SYMMETRY Symmetry
INVARIANTS
    OneTokenHolder
    WakeupsExact
    NoGoroutineLeft
    NoRejectionSlips
PROPERTIES
    SettlesOnce
    AbortRunsNothing
    SingleThread
