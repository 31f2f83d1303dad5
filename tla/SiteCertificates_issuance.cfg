SPECIFICATION Spec
CONSTANTS
    a = a
    b = b
    o1 = o1
    p1 = p1
    p2 = p2
    p3 = p3
    p4 = p4
    p5 = p5
    p6 = p6
    MaxSite = 1
    Domain <- TwoDomains
    Operator <- OneOperator
    Pair <- FivePairs
    Null = null
    QueueCap = 3
    Echo = FALSE
    Overlap = TRUE
    MaxEvent = 2
    MaxFault = 0
SYMMETRY Symmetry
INVARIANTS
    TypeOK
    CertMatchesKey
    NoForeignCertificate
CHECK_DEADLOCK FALSE
