SPECIFICATION Spec
CONSTANTS
    Sessions = {s1}
    Loops = {l1, l2}
    None = none
    StallAge = 0
    StuckAge = 0
    StaleAge = 1
    MaxCycles = 1
    MaxResumes = 1
    Crashes = TRUE
    Attended = TRUE
    PollerOn = FALSE
SYMMETRY LoopSymmetry
INVARIANT SoleLoop
CHECK_DEADLOCK FALSE
