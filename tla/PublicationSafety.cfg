SPECIFICATION Fair
CONSTANTS
    Last = 2
    MaxCommits = 3
    MaxForeign = 1
    MaxPolls = 2
    Grace = 2
    MaxCycles = 1
    MaxRepairs = 1
    PreviewOn = TRUE
    Required = TRUE
INVARIANT ReleasedWasPublished
PROPERTIES ReadyIsSound ShipEnds
CHECK_DEADLOCK FALSE
