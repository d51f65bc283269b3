SPECIFICATION Spec
CONSTANTS
    Machines = {m1, m2}
    Releases <- MCReleases
    First <- MCFirst
    None = None
    Mixed = Mixed
    RollsBack = TRUE
    MaxRuns = 2
    MaxResumes = 2
    MaxEdits = 1
    MaxFaults = 1
    MaxKills = 1
SYMMETRY MCSymmetry
INVARIANT TypeOK
INVARIANT ApprovedRelease
INVARIANT DoneIsReady
INVARIANT DeliverableHere
PROPERTY ReadyIsDeployed
PROPERTY FirstRollbackAway
CHECK_DEADLOCK FALSE
