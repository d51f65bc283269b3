SPECIFICATION Spec
CONSTANTS
    Builds <- MCBuilds
    First = "first"
    Broken <- MCBroken
    Tagged <- MCTagged
    None = None
    Keep = 2
    MaxPublish = 2
    MaxCommands = 0
    MaxTroubles = 2
    MaxEvents = 2
INVARIANT BootsWhatRuns
CHECK_DEADLOCK FALSE
