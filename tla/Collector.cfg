\* Two checks sharing the process and the blob store, one fetched three times, the
\* other once with a browser, and one crash: every fetch outcome, an error page
\* among them, storage error and crash within and between polls.  A behaviour ends
\* when the polls are used up.
CONSTANTS
    NONE = NONE
    c1 = c1
    c2 = c2
    Checks = {c1, c2}
    Browser = {c2}
    x = x
    y = y
    BLANK = BLANK
    doc = doc
    doc2 = doc2
    bodyX = bodyX
    bodyY = bodyY
    bodyEmpty = bodyEmpty
    Bodies = {bodyX, bodyEmpty}
    Contents = {x, y, BLANK}
    decode <- MCdecode
    Short = {bodyEmpty}
    Statuses = {s200, s404}
    valid_http = {s200}
    Docs = {doc, doc2}
    extract <- MCextract
    MaxPolls <- MCMaxPolls
    MaxCrashes = 1
SPECIFICATION Spec
INVARIANTS TypeOK ChainsIntact ResponsesRetained MessOnlyFromLostPolls DocumentsNameTheirPolls ContentHasItsOwnStatus
PROPERTIES KeepsThePromise EveryCheckKeepsBeingPolled
CHECK_DEADLOCK FALSE
