SPECIFICATION FairSpec
CONSTANTS
    a = a
    b = b
    o1 = o1
    p1 = p1
    p2 = p2
    p3 = p3
    p4 = p4
    p5 = p5
    p6 = p6
    MaxSite = 2
    Domain <- TwoDomains
    Operator <- OneOperator
    Pair <- FourPairs
    Null = null
    QueueCap = 1
    Echo = FALSE
    Overlap = FALSE
    MaxEvent = 0
    MaxFault = 1
PROPERTIES
    EventuallyIssued
CHECK_DEADLOCK FALSE
