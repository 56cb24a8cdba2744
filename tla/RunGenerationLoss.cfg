SPECIFICATION Spec
CONSTANTS
    Tasks <- MCTasks
    RunSizes <- OneRunOf2
    CHUNK = 2
    OUT_SWITCH_THRESHOLD = 2
    BUFFER_SIZE = 4
    Keys = {1}
    LLONG_MIN = 0
INVARIANT EverythingWritten
