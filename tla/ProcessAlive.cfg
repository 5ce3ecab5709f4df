CONSTANTS
    Main = Main
    None = None
    s1 = s1
    Spawn = {s1}
    Request = {}
    Server = {}
    MaxEvents = 1
SPECIFICATION Spec
SYMMETRY Symmetry
INVARIANT WorkAfterResultKeepsAlive
