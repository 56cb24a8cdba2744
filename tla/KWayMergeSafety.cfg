SPECIFICATION FairSpec
CONSTANTS
    K = 2
    Rounds <- RoundsOf3
    InitialSizes <- Sizes212
    CHUNK = 1
    OUT_SWITCH_THRESHOLD = 2
    BUFFER_SIZE = 3
    Keys = {1, 2}
    Null = Null
INVARIANTS
    TypeOK
    RoundsInStep
    OnlyQueuedIsLost
    LastRunComplete
PROPERTY
    EndsUnlessBufferLost
