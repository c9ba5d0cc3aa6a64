SPECIFICATION Spec
CONSTANTS
    w1 = w1
    w2 = w2
    Workers <- TwoWorkers
    MaxObjects = 2
    PageSize = 2
    Malformed <- SecondMalformed
    UrlValid = TRUE
    BadKeyStatus <- OnlyForbidden
    Faults <- NoFaults
SYMMETRY Symmetry
INVARIANT
    DropsOnlyRejected
