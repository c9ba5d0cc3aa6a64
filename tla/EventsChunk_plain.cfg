SPECIFICATION Spec
CONSTANTS
    Events <- Plain
    MaxMessages = 5
    MaxBodyBytes = 9
    MaxBatchCount = 2
INVARIANTS
    TypeOK
    NothingLost
    PayloadsFit
    FewestPayloads
CHECK_DEADLOCK FALSE
