SPECIFICATION FairSpec
CONSTANTS
    e1 = e1
    e2 = e2
    h1 = h1
    h2 = h2
    x1 = x1
    x2 = x2
    m1 = m1
    m2 = m2
    Edge <- OneEdge
    Address <- TwoAddresses
    Mode <- TwoModes
    Actor <- TwoActors
    Id <- SixIds
    Null = null
    Reports = TRUE
    MaxEvent = 2
    MaxFault = 1
PROPERTY
    EventuallyAligned
CHECK_DEADLOCK FALSE
