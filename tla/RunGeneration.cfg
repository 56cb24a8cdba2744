SPECIFICATION PatternSpec
CONSTANTS
    Tasks <- MCTasks
    RunSizes <- RunsOf3And11
    CHUNK = 4
    OUT_SWITCH_THRESHOLD = 4
    BUFFER_SIZE = 5
    Keys = {1, 2, 3, 4, 5, 6, 7, 8, 9, 10, 11, 12, 13, 14}
    LLONG_MIN = 0
INVARIANTS
    TypeOK
    InputHandOff
    OutputHandOff
    NothingDropped
    NothingDuplicated
    WithinLimits
    OnlyUnreadIsMissing
    RunsArePaidFor
PROPERTIES
    BatchesInOrder
    Termination
