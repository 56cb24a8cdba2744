SPECIFICATION Spec
CONSTANTS
    LengthChoices <- MCLengths
    MaxRuns = 4
    MaxLength = 3
    MaxElements = 8
    BUFFER_SIZE = 2
    OUT_SIZE = 2
    Keys = {1, 2}
    Null = Null
INVARIANTS
    BlocksInPlace
    EveryRunOnce
    PlanIsCheapest
PROPERTY ImplementsMerging
