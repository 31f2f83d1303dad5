SPECIFICATION Spec
CONSTANTS
    Edge <- TwoEdges
    Shape <- OneOfEach
    MaxMinute = 2
    Lists <- ThreeLists
    Keep = 2
    MaxEvent = 2
    MaxFault = 1
INVARIANTS
    HolesAreFaults
    StoredIsCounted
PROPERTIES
    EventuallyCollected
CHECK_DEADLOCK FALSE
