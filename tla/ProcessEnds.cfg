SPECIFICATION FairSpec
CONSTANTS
    Main = Main
    None = None
    s1 = s1
    Spawn = {s1}
    r1 = r1
    Request = {r1}
    v1 = v1
    Server = {v1}
    MaxEvents = 1
PROPERTY
    EverybodyEnds
