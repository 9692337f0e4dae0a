\* A live collector, one run of archive anchor; nothing is ever restored.
CONSTANTS
    NONE = NONE
    c1 = c1
    c2 = c2
    Checks = {c1}
    Overlap = TRUE
    MaxPolls = 2
    MaxOthers = 1
    MaxRuns = 1
    MaxRestores = 0
    MaxLosses = 0
SPECIFICATION Spec
INVARIANT SeamMeansRestored
CHECK_DEADLOCK FALSE
