SPECIFICATION FairSpec
CONSTANTS
    BufferSize = 1
    MaxMoves = 1
    MaxFaults = 1
INVARIANTS
    EffectsOnce
    KnownClearsHold
    NoUpdateLost
PROPERTIES
    NeverRegresses
    TransitionRuns
    Converges
CHECK_DEADLOCK FALSE
