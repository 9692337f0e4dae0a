\* The collector and an operator, whose annotations may be of any kind and whose
\* details need not be objects, appending to the one chain at the same time.
CONSTANTS
    NONE = NONE
    c1 = c1
    c2 = c2
    p1 = p1
    p2 = p2
    f1 = f1
    f2 = f2
    op1 = op1
    op2 = op2
    jsonList = jsonList
    remark = remark
    CONTROL = CONTROL
    Checks = {c1}
    Periods = {p1, p2}
    FetchIds = {f1}
    Remarks = {remark}
    Malformed = {jsonList}
    Operators = {op1}
    Collector = Collector
    Notes <- MCNotes
    MaxStarts = 1
    MaxNotes = 2
    MaxErrors = 1
SPECIFICATION Spec
INVARIANT BrokenMeansEdited
CHECK_DEADLOCK FALSE
