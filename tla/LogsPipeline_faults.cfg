SPECIFICATION FairSpec
CONSTANTS
    MaxLogs = 5
    BatchSize = 2
    Capacity = 2
    Faults <- EveryFault
INVARIANTS
    TypeOK
    Conservation
    SendsFull
    SuccessMeansSent
PROPERTIES
    HandlerAnswers
CHECK_DEADLOCK FALSE
