SPECIFICATION Spec
CONSTANTS
    K = 2
    Rounds <- RoundsOf2
    InitialSizes <- Sizes51
    CHUNK = 2
    OUT_SWITCH_THRESHOLD = 8
    BUFFER_SIZE = 16
    Keys = {1, 2}
    Null = Null
INVARIANT
    WriterHasWritten
