SPECIFICATION TurnsFair
CONSTANTS
    TurnRoles <- MCRoles
    Routings <- MCRoutings
    MaxTurns = 2
    MaxCost = 1
    MaxEdits = 1
    MaxAttempts = 2
INVARIANTS CutTurnsAnswerNothing BilledNeverExceedsCharged
PROPERTY TurnsEnd
CHECK_DEADLOCK FALSE
