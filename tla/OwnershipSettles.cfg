SPECIFICATION FairSpec
CONSTANTS
    Sessions = {s1}
    Loops = {l1}
    None = none
    StallAge = 0
    StuckAge = 0
    StaleAge = 0
    MaxCycles = 2
    MaxResumes = 1
    Crashes = TRUE
    Attended = TRUE
    PollerOn = TRUE
PROPERTIES CancelBoundsOverrun CancelHonoured DeadLoopRedriven
CHECK_DEADLOCK FALSE
