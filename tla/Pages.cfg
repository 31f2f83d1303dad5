SPECIFICATION PagesSpec
CONSTANTS
    e1 = e1
    e2 = e2
    h1 = h1
    h2 = h2
    d1 = d1
    d2 = d2
    Edge <- TwoEdges
    Domain <- OneDomain
    Actor <- TwoActors
    Null = null
    MaxConf = 3
    MaxFault = 1
    n1 = n1
    n2 = n2
    t1 = t1
    u1 = u1
    adm = adm
    a1 = a1
    a2 = a2
    Node <- TwoNodes
    Site <- OneSite
    Viewer <- Users
    Admin <- Admins
    Client <- TwoNames
    Sample <- Samples
    Window <- Windows
    Limit = 1
    MaxPoints = 1
    Month = 2
    Last = 3
    MaxRow = 2
    MaxChange = 1
SYMMETRY PagesSymmetry
INVARIANTS
    AssignedServeSomeVersion
    FiguresHangTogether
PROPERTIES
    OwnEdgesOnly
    ChartsAgreeWithTotals
CHECK_DEADLOCK FALSE
