SPECIFICATION ContractsSpec
CONSTANTS
    a = a
    b = b
    c = c
    d = d
    Paths <- MCPaths
    Existing = {c}
    Drift <- MCDrift
    Evidence <- MCEvidence
    Twins <- MCTwins
    Inside <- MCInside
    Tests = {c, d}
    Shapes <- MCShapes
    MaxFiles = 1
    MaxTries = 2
    MaxCycles = 2
    MaxRuns = 2
    Repeats = FALSE
INVARIANTS ReviewedContractsAreMet ConsumersAreBound AcceptedIsNotAskedAgain
CHECK_DEADLOCK FALSE
