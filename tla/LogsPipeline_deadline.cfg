SPECIFICATION Spec
CONSTANTS
    MaxLogs = 3
    BatchSize = 2
    Capacity = 2
    Faults <- DeadlineOnly
INVARIANTS
    SuccessAlwaysMeansSent
CHECK_DEADLOCK FALSE
