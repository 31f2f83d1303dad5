SPECIFICATION WatchedSpec
CONSTANTS
    s1 = s1
    s2 = s2
    i1 = i1
    w1 = w1
    w2 = w2
    Server <- TwoServers
    Ident <- OneIdent
    Worker <- TwoWorkers
    AllServers = all
    TTL = {1}
    DefaultTTL = 1
    Grace = 1
    Skew = 0
    MaxNow = 2
    MaxId = 2
    MaxInFlight = 2
SYMMETRY Symmetry
INVARIANTS
    TwinsNeedAMeeting
PROPERTIES
    RowKeepsItsBlock
    OtherEdgesUntouched
