SPECIFICATION Spec
\* A buffer that a race has lost leaves the input thread waiting for ever,
\* and a throw ends the process.
CHECK_DEADLOCK FALSE
CONSTANTS
    PoolSize = 2
    OldRuns = 2
    RunChunks = 2
    Batches = 2
    Capacity = 2
    Null = Null
INVARIANTS
    PoolSound
    ChunksRight
    RunsIntact
    ThrowsOnlyIfRaced
PROPERTY
    EndsOrThrows
