\* Three attempts of up to two redirects, two addresses and two chunks, with clipped
\* timeouts and a back-off that exceeds its budget.  A fetch ends.
CONSTANTS
    NONE = NONE
    RETRIES = 3
    max_fetch_seconds = 4
    max_retry_seconds = 5
    CONNECT_TIMEOUT = 1
    READ_TIMEOUT = 2
    max_redirects = 2
    MaxChunks = 2
    backoff <- MCbackoff
    MaxAddresses = 2
    MaxLookup = 1
    MaxReads = 2
SPECIFICATION Spec
INVARIANTS TypeOK SchedulerIsHeldAtMost AnswerIsThePage
PROPERTIES EveryStepCountsDown FetchEnds
CHECK_DEADLOCK FALSE
