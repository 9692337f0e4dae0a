------------------------------- MODULE Fetch -------------------------------
(***************************************************************************)
(* One fetch of a page: vetting and pinning of every hop, redirects, the   *)
(* reading of the body, retries and the back-off between them              *)
(* (promoter.py CapturingSessionFetcher, security.py, pinning.py), with    *)
(* the time it takes.  The scheduler has one thread, so this time is also  *)
(* how long every other check waits.                                       *)
(*                                                                         *)
(* A step ends where the code looks at the clock or at what came back.     *)
(* now is monotonic() less the start of the fetch; each blocking call      *)
(* takes any time its timeouts allow.  A timeout of the requests library   *)
(* is per connect to one address and per read from the socket, so a call   *)
(* that reads several times may take that many read timeouts.              *)
(***************************************************************************)
EXTENDS Integers, FiniteSets

CONSTANTS
    NONE,
    RETRIES,            \* attempts
    max_fetch_seconds,  \* the deadline of an attempt, from its start
    max_retry_seconds,  \* what the back-off may use up, from the start of the fetch
    CONNECT_TIMEOUT, READ_TIMEOUT,
    max_redirects,
    MaxChunks,          \* chunks that fit into max_response_bytes
    backoff,            \* error -> retry -> seconds kibitzr would sleep (external)
    MaxAddresses,       \* addresses a lookup answers with
    MaxLookup,          \* how long the resolver takes at most
    MaxReads            \* reads from the socket until headers or a chunk are complete

Retriable == {"timeout", "connection"}

ASSUME FetchAssumption ==
    /\ RETRIES \in Nat \ {0}
    /\ max_fetch_seconds \in Nat /\ max_retry_seconds \in Nat
    /\ CONNECT_TIMEOUT \in Nat /\ READ_TIMEOUT \in Nat
    /\ max_redirects \in Nat /\ MaxChunks \in Nat
    /\ backoff \in [Retriable -> [0 .. RETRIES - 1 -> Nat]]
    /\ MaxAddresses \in Nat /\ MaxLookup \in Nat /\ MaxReads \in Nat

VARIABLES
    conf,           \* the check's settings: which targets it allows
    now,            \* seconds since the fetch began
    pc,             \* what the fetch does next
    retry,          \* index of the attempt
    deadline,       \* of the attempt
    hop,            \* redirects followed in the attempt
    url,            \* origin of the current URL
    pins,           \* origins vetted in this attempt
    peer,           \* the addresses connected to are all public
    read_timeout,   \* of the current hop
    chunks,         \* chunks read
    last_response,  \* the response the hook captured last, by attempt and hop
    result          \* the exception caught, or what fetch returned

attempt == <<conf, retry, deadline>>
vars == <<conf, now, pc, retry, deadline, hop, url, pins, peer, read_timeout,
          chunks, last_response, result>>

Origins == {"own", "other"}
Minimum(a, b) == IF a <= b THEN a ELSE b
Maximum(a, b) == IF a <= b THEN b ELSE a

Init ==
    /\ conf \in [allow_cross_origin_redirects : BOOLEAN, allow_private_network : BOOLEAN]
    /\ now = 0 /\ pc = "attempt" /\ retry = 0 /\ deadline = 0
    /\ hop = 0 /\ url = "own" /\ pins = {} /\ peer = TRUE
    /\ read_timeout = 0 /\ chunks = 0 /\ last_response = NONE /\ result = NONE
-----------------------------------------------------------------------------
(* _fetch_once. *)

Takes(seconds) == now' \in now .. now + seconds

Raise(exc) ==
    /\ pc' = "raised" /\ result' = exc
    /\ UNCHANGED <<attempt, hop, url, pins, peer, read_timeout, chunks>>

\* The deadline of this attempt; pins are of this attempt's lookups only.
BeginAttempt ==
    /\ pc = "attempt"
    /\ deadline' = now + max_fetch_seconds
    /\ pins' = {} /\ url' = "own" /\ hop' = 0 /\ chunks' = 0 /\ result' = NONE
    /\ pc' = "vet"
    /\ UNCHANGED <<conf, now, retry, peer, read_timeout, last_response>>

\* Mutant of CrossOrigin: only the first hop is compared with the check's own URL.
CrossOriginOnce == hop = 1 /\ url # "own"

\* vet_url compares every redirect with the check's own URL, not the previous hop.
CrossOrigin == hop > 0 /\ url # "own"

Unresolved ==
    /\ pc = "vet" /\ Takes(MaxLookup)
    /\ Raise("connection") /\ UNCHANGED last_response

\* ConfigurationError: a private address, another origin, a scheme that is not
\* http.  This is policy, and not retried.
Refused ==
    /\ pc = "vet" /\ Takes(MaxLookup)
    /\ ~ conf.allow_private_network \/ hop > 0
    /\ Raise("final") /\ UNCHANGED last_response

\* Mutant of Vetted: only the first host of an attempt is pinned.
VettedUnpinned ==
    /\ pc = "vet" /\ Takes(MaxLookup)
    /\ peer' \in {TRUE, ~ conf.allow_private_network}
    /\ CrossOrigin => conf.allow_cross_origin_redirects
    /\ pins' = IF hop = 0 THEN {url} ELSE pins
    /\ pc' = "connect"
    /\ UNCHANGED <<attempt, hop, url, read_timeout, chunks, last_response, result>>

Vetted ==
    /\ pc = "vet" /\ Takes(MaxLookup)
    /\ peer' \in {TRUE, ~ conf.allow_private_network}
    /\ CrossOrigin => conf.allow_cross_origin_redirects
    /\ pins' = pins \cup {url}
    /\ pc' = "connect"
    /\ UNCHANGED <<attempt, hop, url, read_timeout, chunks, last_response, result>>

\* _timeout finds the deadline passed.
TooLateToConnect ==
    /\ pc = "connect" /\ now >= deadline
    /\ now' = now
    /\ Raise("timeout") /\ UNCHANGED last_response

\* The adapter connects to a host only at the addresses pinned for it, which it
\* tries in turn, each with the clipped timeout.
ConnectTime == MaxAddresses * Minimum(CONNECT_TIMEOUT, deadline - now)

CannotConnect ==
    /\ pc = "connect" /\ now < deadline /\ url \in pins
    /\ Takes(ConnectTime)
    /\ Raise("connection") /\ UNCHANGED last_response

Connected ==
    /\ pc = "connect" /\ now < deadline /\ url \in pins
    /\ Takes(ConnectTime)
    /\ read_timeout' = Minimum(READ_TIMEOUT, deadline - now)
    /\ pc' = "headers"
    /\ UNCHANGED <<attempt, hop, url, pins, peer, chunks, last_response, result>>

ReadTime == MaxReads * read_timeout

\* No headers: a read timed out, or the connection broke.
NoResponse ==
    /\ pc = "headers" /\ Takes(ReadTime)
    /\ \E exc \in Retriable : Raise(exc)
    /\ UNCHANGED last_response

\* Headers came; the hook captures the response, a redirect too.
Respond ==
    /\ pc = "headers" /\ Takes(ReadTime)
    /\ \E redirect \in BOOLEAN :
          /\ last_response' = [retry |-> retry, hop |-> hop, redirect |-> redirect]
          /\ pc' = IF redirect THEN "redirect" ELSE "body"
    /\ UNCHANGED <<attempt, hop, url, pins, peer, read_timeout, chunks, result>>

\* One redirect too many, or one that names no location: TooManyRedirects.
BadRedirect ==
    /\ pc = "redirect"
    /\ now' = now
    /\ Raise("final") /\ UNCHANGED last_response

\* Mutant of Follow: the count starts again with every redirect.
FollowAnew ==
    /\ pc = "redirect" /\ hop < max_redirects
    /\ hop' = 1 /\ url' \in Origins
    /\ pc' = "vet"
    /\ UNCHANGED <<attempt, now, pins, peer, read_timeout, chunks, last_response, result>>

Follow ==
    /\ pc = "redirect" /\ hop < max_redirects
    /\ hop' = hop + 1 /\ url' \in Origins
    /\ pc' = "vet"
    /\ UNCHANGED <<attempt, now, pins, peer, read_timeout, chunks, last_response, result>>

\* _consume_response: a chunk comes in time and fits.
Chunk ==
    /\ pc = "body" /\ Takes(ReadTime)
    /\ now' <= deadline /\ chunks < MaxChunks
    /\ chunks' = chunks + 1
    /\ UNCHANGED <<attempt, pc, hop, url, pins, peer, read_timeout, last_response, result>>

ChunkTooLate ==
    /\ pc = "body" /\ Takes(ReadTime)
    /\ now' > deadline
    /\ Raise("timeout") /\ UNCHANGED last_response

\* The body is too large, or ends and does not decode with the configured encoding.
BadBody ==
    /\ pc = "body" /\ Takes(ReadTime)
    /\ Raise("final") /\ UNCHANGED last_response

BodyBreaks ==
    /\ pc = "body" /\ Takes(ReadTime)
    /\ Raise("connection") /\ UNCHANGED last_response

\* The end of the body is not held against the deadline.
Answer ==
    /\ pc = "body" /\ Takes(ReadTime)
    /\ pc' = "done" /\ result' = "answered"
    /\ UNCHANGED <<attempt, hop, url, pins, peer, read_timeout, chunks, last_response>>
-----------------------------------------------------------------------------
(* fetch: retries. *)

\* Mutant of MayRetry: one retry too many.
MayRetryOnceMore ==
    /\ result \in Retriable /\ retry < RETRIES /\ now < max_retry_seconds

MayRetry ==
    /\ result \in Retriable /\ retry < RETRIES - 1 /\ now < max_retry_seconds

\* Mutant of Sleep: the remaining budget is not passed on.
SleepInFull(exc) == Minimum(backoff[exc][retry], max_retry_seconds)

\* sleep_on_exception, with what is left of the budget.
Sleep(exc) ==
    Minimum(backoff[exc][retry],
            Minimum(max_retry_seconds, Maximum(0, max_retry_seconds - now)))

Retry ==
    /\ pc = "raised" /\ MayRetry
    /\ now' = now + Sleep(result)
    /\ retry' = retry + 1
    /\ pc' = "attempt"
    /\ UNCHANGED <<conf, deadline, hop, url, pins, peer, read_timeout, chunks,
                   last_response, result>>

GiveUp ==
    /\ pc = "raised" /\ ~ MayRetry
    /\ pc' = "done"
    /\ UNCHANGED <<attempt, now, hop, url, pins, peer, read_timeout, chunks,
                   last_response, result>>
-----------------------------------------------------------------------------
Hop ==
    \/ Unresolved \/ Refused \/ Vetted
    \/ TooLateToConnect \/ CannotConnect \/ Connected
    \/ NoResponse \/ Respond \/ BadRedirect \/ Follow

Body == Chunk \/ ChunkTooLate \/ BadBody \/ BodyBreaks \/ Answer

Next == BeginAttempt \/ Hop \/ Body \/ Retry \/ GiveUp

\* Every blocking call returns: that is what its timeouts are for.
Spec == Init /\ [][Next]_vars /\ WF_vars(Next)
-----------------------------------------------------------------------------
(* Properties. *)

\* Every variable holds a value of its kind.
TypeOK ==
    /\ conf \in [allow_cross_origin_redirects : BOOLEAN, allow_private_network : BOOLEAN]
    /\ now \in Nat /\ deadline \in Nat /\ read_timeout \in Nat
    /\ pc \in {"attempt", "vet", "connect", "headers", "redirect", "body", "raised", "done"}
    /\ retry \in 0 .. RETRIES - 1 /\ hop \in 0 .. max_redirects /\ chunks \in 0 .. MaxChunks
    /\ url \in Origins /\ pins \subseteq Origins /\ peer \in BOOLEAN
    /\ last_response \in {NONE} \cup [retry : Nat, hop : Nat, redirect : BOOLEAN]
    /\ result \in {NONE, "final", "answered"} \cup Retriable

\* What the calls that follow one look at the clock may take together.
Overshoot ==
    MaxAddresses * CONNECT_TIMEOUT + MaxReads * READ_TIMEOUT
      + Maximum(MaxLookup, MaxReads * READ_TIMEOUT)

\* One poll holds the scheduler no longer than the retry budget, one attempt's
\* deadline and the calls that were under way when that passed, however many
\* attempts, redirects and addresses there were.
SchedulerIsHeldAtMost ==
    now <= max_retry_seconds + max_fetch_seconds + Overshoot

\* What is archived as the page is the body of the response whose status is
\* recorded with it, fetched from the check's own origin and a public address
\* unless the check allows others, and from a host vetted in that attempt.
AnswerIsThePage ==
    pc = "done" /\ result = "answered" =>
       /\ last_response = [retry |-> retry, hop |-> hop, redirect |-> FALSE]
       /\ url = "own" \/ conf.allow_cross_origin_redirects
       /\ peer \/ conf.allow_private_network
       /\ url \in pins

\* The guard of the adapter against unvetted hosts is never what ends a fetch:
\* after any redirects and retries, the host about to be contacted has been vetted.
EveryHopIsVetted == pc = "connect" => url \in pins

\* What an attempt may take from its beginning, and has left of that; and the
\* attempts there may still be.
AttemptSteps == 4 * max_redirects + MaxChunks + 6

LeftOfAttempt ==
    LET hops  == 4 * (max_redirects - hop)
        parts == MaxChunks - chunks
    IN  CASE pc = "attempt"  -> AttemptSteps
          [] pc = "vet"      -> hops + parts + 5
          [] pc = "connect"  -> hops + parts + 4
          [] pc = "headers"  -> hops + parts + 3
          [] pc = "redirect" -> hops + parts + 2
          [] pc = "body"     -> parts + 2
          [] pc = "raised"   -> 1
          [] pc = "done"     -> 0

StepsLeft == (RETRIES - 1 - retry) * AttemptSteps + LeftOfAttempt

\* No server keeps a fetch going: each lookup, connection, redirect, chunk and
\* retry uses up a part of a number the settings fix, at most one AttemptSteps for
\* each attempt, however little time it takes.
EveryStepCountsDown == [][StepsLeft' \in 0 .. StepsLeft - 1]_vars

\* A fetch comes to an end, whatever the page does.
FetchEnds == <>(pc = "done")
=============================================================================
