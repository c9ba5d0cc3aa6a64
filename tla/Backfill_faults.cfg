SPECIFICATION FairSpec
CONSTANTS
    w1 = w1
    w2 = w2
    Workers <- TwoWorkers
    MaxObjects = 2
    PageSize = 1
    Malformed <- SecondMalformed
    UrlValid = TRUE
    BadKeyStatus <- Either
    Faults <- ServiceFaults
INVARIANTS
    NoLoss
PROPERTIES
    KeepsPromise
    RunEnds
