\* One check, three polls, one crash: every fetch outcome, storage error and
\* crash within and between polls; responses, where there are any, are all
\* 200.  The run ends when the polls are used up.
CONSTANTS
    NONE = NONE
    c1 = c1
    c2 = c2
    Checks = {c1}
    Browser = {}
    x = x
    y = y
    BLANK = BLANK
    doc = doc
    doc2 = doc2
    bodyX = bodyX
    bodyY = bodyY
    bodyEmpty = bodyEmpty
    Bodies = {bodyX, bodyY, bodyEmpty}
    Contents = {x, y, BLANK}
    decode <- MCdecode
    Short = {bodyEmpty}
    Statuses = {s200}
    valid_http = {s200}
    Docs = {doc, doc2}
    extract <- MCextract
    MaxPolls <- MCMaxPolls
    MaxCrashes = 1
SPECIFICATION Spec
PROPERTY StatusOfThisFetch
CHECK_DEADLOCK FALSE
