SPECIFICATION StorageSpec
CONSTANTS
    Sessions = {s1, s2}
    PrBranch = pr
    Setups <- MCSetups
    MaxDirs = 3
    MaxCommits = 2
    MaxBoots = 1
SYMMETRY MCSymmetry
INVARIANTS WorksOnItsCommits DurableIsDurable
PROPERTIES CommitsSurvive HealSparesWork
CHECK_DEADLOCK FALSE
