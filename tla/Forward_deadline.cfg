SPECIFICATION Spec
CONSTANTS
    c1 = c1
    c2 = c2
    m1 = m1
    m2 = m2
    Containers <- OneContainer
    Messages <- TwoMessages
    Parts = 2
    Malformed <- NoneMalformed
    StorageWorks = TRUE
    BadKeyStatus <- Either
    Faults <- DeadlineFaults
INVARIANT
    RetryablesSaved
