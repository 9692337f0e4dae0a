\* One check, up to two polls, one row on each other chain and an anchor, edited
\* twice anywhere in between.  A behaviour ends when the bounds are used up.
CONSTANTS
    NONE = NONE
    UNREADABLE = UNREADABLE
    c1 = c1
    bodyX = bodyX
    bodyY = bodyY
    Checks = {c1}
    Contents = {bodyX, bodyY}
    MaxPolls = 2
    MaxOthers = 1
    MaxAnchors = 1
    MaxEdits = 2
SPECIFICATION Spec
SYMMETRY Symmetry
INVARIANTS TypeOK VerifiersAgree AnchoredHistoryIsFixed HonestArchivePasses
CHECK_DEADLOCK FALSE
