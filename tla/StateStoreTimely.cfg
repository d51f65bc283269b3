SPECIFICATION Spec
CONSTANTS
    r1 = r1
    r2 = r2
    NoRunner = NoRunner
    Runners <- MCRunners
    ChunkCount <- MCChunkCount
    MaxChunks = 2
    PullTries = 3
    Timely = TRUE
    CrashPoints <- MCCrashPoints
    MaxEdits = 1
    MaxTransitions = 2
    MaxFaults = 1
    MaxCrashes = 1
SYMMETRY Symmetry
INVARIANT TypeOK
INVARIANT Readable
INVARIANT AckedKept
INVARIANT NoMixedRead
INVARIANT FencesUnique
PROPERTY OnlyHolderCommits
PROPERTY ImplementsReleaseState
CHECK_DEADLOCK FALSE
