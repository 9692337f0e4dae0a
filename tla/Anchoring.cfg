\* A live collector and runs that die and fail; polls.db is replaced by an older
\* copy once, and logged to again.  A behaviour ends when the bounds are used up.
CONSTANTS
    NONE = NONE
    c1 = c1
    c2 = c2
    Checks = {c1}
    Overlap = TRUE
    MaxPolls = 2
    MaxOthers = 1
    MaxRuns = 2
    MaxRestores = 1
    MaxLosses = 0
SPECIFICATION Spec
INVARIANTS TypeOK AnchoredHeadsStayInTheLog LossIsSeen
PROPERTY DamageIsNotOutgrown
CHECK_DEADLOCK FALSE
