SPECIFICATION Progress
CONSTANTS
    MaxCycles = 2
    MaxExtensions = 1
    MaxRepairs = 1
    MaxTimeGrants = 1
    MaxBlocking = 2
    ShipNonBlocking = TRUE
    Preview = TRUE
INVARIANTS GrantIsACycle UnreviewedStaysHome MergeIsVouchedFor
PROPERTIES Ends CyclesAreGranted
CHECK_DEADLOCK FALSE
