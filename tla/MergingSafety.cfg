SPECIFICATION MergingFair
CONSTANTS
    Owners = 1
    MaxPulls = 2
    MaxTips = 3
    MaxAttempts = 2
    RepairBudget = 1
INVARIANT MainRestored
PROPERTIES MergeCallEnds LinkKeepsLoopsPr
CHECK_DEADLOCK FALSE
