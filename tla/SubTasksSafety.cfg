SPECIFICATION Progress
CONSTANTS
    N = 2
    Deps <- TwoSteps
    Observes <- Probe
    Conflicts <- Unwritable
    MaxCycles = 2
    MaxRuns = 2
    MaxRetries = 1
    MaxTimeouts = 2
    Generation = TRUE
INVARIANTS ReviewedIsSound AbandonedRunsAlone
PROPERTIES AnswerLands ComesToRest
CHECK_DEADLOCK FALSE
