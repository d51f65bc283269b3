SPECIFICATION Spec
CONSTANTS
    Procs = {p1, p2, p3}
    NoProc = NoProc
    Missing = Missing
    NoPid = NoPid
    Prompt = FALSE
    MaxRequests = 2
    MaxKills = 0
SYMMETRY Symmetry
INVARIANT NeverLost
CHECK_DEADLOCK FALSE
