SPECIFICATION SitesSpec
CONSTANTS
    e1 = e1
    e2 = e2
    h1 = h1
    h2 = h2
    d1 = d1
    d2 = d2
    Edge <- TwoEdges
    Domain <- TwoDomains
    Actor <- OneActor
    Null = null
    MaxConf = 3
    MaxFault = 2
    s1 = s1
    s2 = s2
    c1 = c1
    c2 = c2
    c3 = c3
    r1 = r1
    r2 = r2
    v1 = v1
    k1 = k1
    k2 = k2
    Site <- TwoSites
    Server <- TwoEdges
    RuleSet <- ThreeSets
    Kind <- TwoKinds
    Rule <- TwoRules
    Enabled <- OneRule
    Version <- OneVersion
    NoRoutes = none
    NoSet = noset
    Worker <- TwoWorkers
    MaxWafRequest = 2
    MaxLost = 1
SYMMETRY SitesSymmetry
INVARIANTS
    AssignedServeTheSite
    StrayWasDropped
    StrayPortsAreKnown
    WafTypeOK
    AnsweredMeansServed
PROPERTIES
    ForkKeepsTheRules
CHECK_DEADLOCK FALSE
