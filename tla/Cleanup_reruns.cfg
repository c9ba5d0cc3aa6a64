SPECIFICATION FairSpec
CONSTANTS
    Regions <- TwoRegions
    Workers = 2
    Installed <- SmallInstall
    Untagged <- OneStackUntagged
    InvalidGroups <- OneInvalidGroup
    OcidGiven = FALSE
    Modes <- SmallModes
    Faults <- EveryFault
    MaxFaults = 2
INVARIANTS
    TypeOK
    TeardownAfterClean
    ExitZeroMeansDone
    PolicyOutlivesGroups
    ExtrasPreserved
PROPERTIES
    Converges
    CompartmentEmptied
    DryRunReadOnly
CHECK_DEADLOCK FALSE
