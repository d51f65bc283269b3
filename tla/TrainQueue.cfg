SPECIFICATION Spec
CONSTANTS
    Procs = {p1, p2, p3}
    NoProc = NoProc
    Missing = Missing
    NoPid = NoPid
    Prompt = TRUE
    MaxRequests = 3
    MaxKills = 2
SYMMETRY Symmetry
INVARIANT TypeOK
INVARIANT NeverLost
INVARIANT Served
INVARIANT OneServer
INVARIANT RunningIsServed
PROPERTY NeverAgain
CHECK_DEADLOCK FALSE
