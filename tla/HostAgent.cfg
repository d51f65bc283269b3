SPECIFICATION Spec
CONSTANTS
    Builds <- MCBuilds
    First = "first"
    Broken <- MCBroken
    Tagged <- MCTagged
    None = None
    Keep = 2
    MaxPublish = 2
    MaxCommands = 2
    MaxTroubles = 2
    MaxEvents = 3
INVARIANT TypeOK
INVARIANT EndsOnChecked
INVARIANT BootsOnChecked
INVARIANT TargetsKept
INVARIANT HeldRuns
PROPERTY BadNotRetried
PROPERTY Follows
CHECK_DEADLOCK FALSE
