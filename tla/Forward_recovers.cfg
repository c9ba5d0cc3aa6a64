SPECIFICATION RecoverySpec
CONSTANTS
    c1 = c1
    c2 = c2
    m1 = m1
    m2 = m2
    Containers <- OneContainer
    Messages <- TwoMessages
    Parts = 1
    Malformed <- OneMalformed
    StorageWorks = FALSE
    BadKeyStatus <- Either
    Faults <- KeyFaults
PROPERTIES
    InvocationEnds
    Recovers
CHECK_DEADLOCK FALSE
