SPECIFICATION Spec
CONSTANTS
    w1 = w1
    w2 = w2
    Workers <- TwoWorkers
    MaxObjects = 3
    PageSize = 2
    Malformed <- SecondMalformed
    UrlValid = TRUE
    BadKeyStatus <- Either
    Faults <- DeadlineFaults
SYMMETRY Symmetry
INVARIANTS
    TypeOK
    ExclusiveHolding
    SummaryBalance
    DrainComplete
    SendsStoredObjects
PROPERTY
    AbandonedRetained
