SPECIFICATION Spec
CONSTANTS
    Regions <- TwoRegions
    Workers = 2
    Installed <- SmallInstall
    Untagged <- OneStackUntagged
    InvalidGroups <- OneInvalidGroup
    OcidGiven = FALSE
    Modes <- OnlyFull
    Faults <- SkippedRegions
    MaxFaults = 1
INVARIANTS
    NothingLost
CHECK_DEADLOCK FALSE
