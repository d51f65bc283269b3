SPECIFICATION Spec
CONSTANTS
    Machines = {m1, m2}
    Releases <- MCReleases
    First <- MCFirst
    None = None
    Mixed = Mixed
    RollsBack = TRUE
    MaxRuns = 1
    MaxResumes = 1
    MaxEdits = 1
    MaxFaults = 3
    MaxKills = 0
SYMMETRY MCSymmetry
PROPERTY RollsBackAway
CHECK_DEADLOCK FALSE
