SPECIFICATION Spec
CONSTANTS
    Plans <- MCPlans
    MaxAttempts = 2
    Settles = TRUE
    MaxRuns = 3
    MaxForeign = 1
    MaxNoise = 1
    MaxFaults = 2
INVARIANT TypeOK
INVARIANT JournalTrue
PROPERTY CancelStops
PROPERTY ForeignKept
PROPERTY DeletesInPlace
PROPERTY ReadyIsOurs
CHECK_DEADLOCK FALSE
