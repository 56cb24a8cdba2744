SPECIFICATION Spec
CONSTANTS
    K = 3
    Rounds <- ThreeAtOnce
    InitialSizes <- Sizes521
    CHUNK = 2
    OUT_SWITCH_THRESHOLD = 3
    BUFFER_SIZE = 16
    Keys = {1, 2}
    Null = Null
INVARIANTS
    BuffersUnique
    HeapBacked
    NothingDuplicated
    OnlyQueuedIsLost
