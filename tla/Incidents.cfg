SPECIFICATION IncidentFairSpec
CONSTANTS
    d1 = d1
    c1 = c1
    Attack <- OneAttack
    Delivery <- OneDelivery
    Console <- OneConsole
    Source = {7}
    TTLs <- Texts
    PerMinute = 2
    DefaultTTL = 2
    QuietTimeout = 1
    MaxTime = 2
    MaxSnapshot = 4
    MaxBlock = 2
    MaxView = 1
    MaxBreak = 1
    MaxGiveUp = 1
INVARIANTS
    OneStartOneStop
    FinalFigures
    MarkedIsCounted
PROPERTIES
    EventuallyReported
CHECK_DEADLOCK FALSE
