SPECIFICATION MCSpec
CONSTANTS
    h1 = h1
    h2 = h2
    o1 = o1
    Handler = {h1, h2}
    Outside = {o1}
    NoCall = NoCall
    r1 = r1
    r2 = r2
    r3 = r3
    c1 = c1
    c2 = c2
    c3 = c3
    Request = {r1, r2, r3}
    SyncCall = {c1, c2, c3}
    SyncMethod <- OneMethod
    SyncMixes <- AllOrNoted
INVARIANTS
    ChannelsOwned
    ErrorReaches
    OwnAnswer
