SPECIFICATION FindingsSpec
CONSTANTS
    Files = {"a", "b", "c"}
    Defects = {"x", "y"}
    Shapes <- MCShapes
    Plans <- MCPlans
    Depends <- MCDepends
    MaxCycles = 3
    MaxRuns = 2
    MaxAdoptions = 1
INVARIANTS DefectsAreWorkedOn MergeOverlooksNothing ChecksHoldTheMerge
CHECK_DEADLOCK FALSE
