SPECIFICATION Spec
CONSTANTS
    c1 = c1
    c2 = c2
    m1 = m1
    m2 = m2
    Containers <- TwoContainers
    Messages <- OneMessage
    Parts = 2
    Malformed <- NoneMalformed
    StorageWorks = FALSE
    BadKeyStatus <- Either
    Faults <- SharedFaults
SYMMETRY Symmetry
INVARIANTS
    TypeOK
    SuccessMeansAccepted
    EarlierAccepted
    RequestsBounded
