SPECIFICATION Spec
CONSTANTS
    Sessions = {s1}
    Calls = {c1, c2, c3}
    Flows = {f1, f2}
    None = none
    Roles = {"worker", "adversary"}
    Costs = {0, 1}
    MaxCrashes = 1
    WritesFail = TRUE
SYMMETRY CallSymmetry
INVARIANTS OneTurnInFlight ReportedSpendIsBooked MeterBookedOnce
PROPERTY SettledForGood
CHECK_DEADLOCK FALSE
