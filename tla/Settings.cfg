SPECIFICATION SettingsSpec
CONSTANTS
    e1 = e1
    e2 = e2
    h1 = h1
    h2 = h2
    x1 = x1
    x2 = x2
    m1 = m1
    m2 = m2
    Edge <- TwoEdges
    Address <- TwoAddresses
    Mode <- TwoModes
    Actor <- OneActor
    Id <- FourIds
    Null = null
    Reports = FALSE
    MaxEvent = 4
    MaxFault = 2
    w1 = w1
    f1 = f1
    f2 = f2
    p1 = p1
    p2 = p2
    g1 = g1
    Host <- OneHost
    Field <- TwoFields
    Reported <- ReportedFields
    Setting <- TwoModes
    Default = m1
    Port <- TwoPorts
    Desk <- OneDesk
    RowId <- FiveRows
    MaxRequest = 2
    MaxLoss = 1
INVARIANTS
    TypeOK
    SuccessMeansAligned
    NothingBlocksUnseen
PROPERTIES
    RefusedChangeIsUndone
    MirrorsInTheEnd
CHECK_DEADLOCK FALSE
