\* Three polls and three starts with any of two periods or none, over five seconds,
\* and an operator who declares once.  A behaviour ends when the bounds are used up.
CONSTANTS
    NONE = NONE
    c1 = c1
    Check = c1
    Periods = {1, 2}
    tolerance = 1
    MaxTime = 4
    MaxPolls = 3
    MaxStarts = 3
    Notes <- MCNotes
    MaxNotes = 1
SPECIFICATION Spec
INVARIANTS TypeOK GapsFollowTheConfiguration
PROPERTY HistoryIsNotRejudged
CHECK_DEADLOCK FALSE
