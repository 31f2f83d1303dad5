SPECIFICATION Spec
CONSTANTS
    s1 = s1
    s2 = s2
    i1 = i1
    i2 = i2
    w1 = w1
    w2 = w2
    Server <- OneServer
    Ident <- TwoIdents
    Worker <- TwoWorkers
    AllServers = all
    TTL = {0, 2}
    DefaultTTL = 1
    Grace = 1
    Skew = 0
    MaxNow = 3
    MaxId = 3
    MaxInFlight = 1
SYMMETRY Symmetry
INVARIANTS
    TypeOK
    NoDuplicateRows
    NeverExpiresEarly
PROPERTIES
    ImplementsLiveBlocks
