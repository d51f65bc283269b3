SPECIFICATION Spec
CONSTANTS
    r1 = r1
    r2 = r2
    NoRunner = NoRunner
    Runners <- MCOneRunner
    ChunkCount <- MCChunkCount
    MaxChunks = 2
    PullTries = 3
    Timely = TRUE
    CrashPoints <- MCAnywhere
    MaxEdits = 2
    MaxTransitions = 3
    MaxFaults = 0
    MaxCrashes = 1
INVARIANT AckedKept
CHECK_DEADLOCK FALSE
