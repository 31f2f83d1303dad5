SPECIFICATION Spec
CONSTANTS
    h1 = h1
    h2 = h2
    Handler <- Handlers
    User <- Users
    Scenes <- SmallScenes
    Limit <- Limits
    MaxRequest = 3
    MaxStep = 2
    MaxFault = 1
SYMMETRY Symmetry
INVARIANTS
    AcceptedOnce
    SessionsFollowPassword
    AnAdminRemains
    GuessesBounded
PROPERTIES
    BlockSticks
CHECK_DEADLOCK FALSE
