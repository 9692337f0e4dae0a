\* The collector alone: it starts with any configuration, is stopped at any
\* point, starts again with another, and meets storage errors on the way.
CONSTANTS
    NONE = NONE
    c1 = c1
    c2 = c2
    p1 = p1
    p2 = p2
    f1 = f1
    f2 = f2
    op1 = op1
    op2 = op2
    jsonList = jsonList
    remark = remark
    CONTROL = CONTROL
    Checks = {c1}
    Periods = {p1, p2}
    FetchIds = {f1, f2}
    Remarks = {}
    Malformed = {}
    Operators = {}
    Collector = Collector
    Notes <- NoNotes
    MaxStarts = 3
    MaxNotes = 0
    MaxErrors = 1
SPECIFICATION Spec
INVARIANTS TypeOK AnnotationsIntact AppendOnChange IntentOnTheChain
CHECK_DEADLOCK FALSE
