SPECIFICATION Spec
CONSTANTS
    K = 2
    Rounds <- RoundsOf3
    InitialSizes <- Sizes212
    CHUNK = 1
    OUT_SWITCH_THRESHOLD = 8
    BUFFER_SIZE = 16
    Keys = {1, 2}
    Null = Null
INVARIANT
    ResetQueuesAreEmpty
