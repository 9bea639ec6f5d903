SPECIFICATION FairSpec
CONSTANTS
    Batches = 2
    MaxRetries = 1
    MaxFaults = 3
INVARIANTS
    LeaseFollowsDriver
    AcceptedResumeHeld
    CompletedBacked
    ShutdownPublishes
PROPERTIES
    CheckpointKept
    FailureStays
    ScanSettles
    PauseSettles
CHECK_DEADLOCK FALSE
