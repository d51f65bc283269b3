SPECIFICATION Spec
CONSTANTS
    r1 = r1
    r2 = r2
    NoRunner = NoRunner
    Runners <- MCRunners
    ChunkCount <- MCChunkCount
    MaxChunks = 2
    PullTries = 3
    Timely = FALSE
    CrashPoints <- MCAnywhere
    MaxEdits = 2
    MaxTransitions = 1
    MaxFaults = 0
    MaxCrashes = 0
SYMMETRY Symmetry
INVARIANT Readable
CHECK_DEADLOCK FALSE
