\* Two checks, and a collector that logs nothing while the heads of one are read; runs
\* die and fail, upgrades overlap with them and die, a proof is lost.  A behaviour
\* ends when the bounds are used up.
CONSTANTS
    NONE = NONE
    c1 = c1
    c2 = c2
    Checks = {c1, c2}
    Overlap = FALSE
    MaxPolls = 2
    MaxOthers = 1
    MaxRuns = 1
    MaxRestores = 0
    MaxLosses = 1
SPECIFICATION Spec
INVARIANTS QuietSeamIsSound ExposureNeverUnderstated TableFollowsFiles
PROPERTY PendingResolves
CHECK_DEADLOCK FALSE
