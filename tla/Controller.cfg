SPECIFICATION Spec
CONSTANTS
    Branches = {dev}
    Main = main
    Contents <- MCContents
    None = None
    Before = "web"
    Mixed = Mixed
    ByPolicy = ByPolicy
    PolicyEnvs = {dev}
    Routine = {"web"}
    IdleStop = TRUE
    MaxAttempts = 2
    MaxPushes = 2
    MaxRequests = 1
    MaxTroubles = 2
INVARIANT TypeOK
INVARIANT NoOrphans
INVARIANT AsksAgain
INVARIANT RequestsKeptUntorn
PROPERTY NothingUnapproved
PROPERTY Settles
CHECK_DEADLOCK FALSE
