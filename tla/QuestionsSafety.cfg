SPECIFICATION Fair
CONSTANTS
    MaxAsks = 2
    MaxReceipts = 2
    Pages = 2
    Ceiling = 2
    Delegated = TRUE
INVARIANT OperatorAnswersWhatWasRead
PROPERTIES ClockStopsForHumans BriefIsTheOperators ListeningEnds
CHECK_DEADLOCK FALSE
