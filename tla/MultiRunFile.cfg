\* A call of append_to_run that throws is the end of the program,
\* and so is a crash.
SPECIFICATION CrashSpec
CHECK_DEADLOCK FALSE
CONSTANTS
    BLOCK = 16
    Payloads <- MCPayloads
    MaxRuns = 3
    MaxKeys = 3
    Null = Null
INVARIANTS
    TypeOK
    RegionsDisjoint
    ClosedFileReadable
    FlushedSurvives
    TornFlushNoticed
PROPERTY
    ImplementsRunList
