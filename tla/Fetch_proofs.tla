---------------------------- MODULE Fetch_proofs ----------------------------
(***************************************************************************)
(* How long a fetch takes, that it ends and what its answer is, for any    *)
(* settings, timeouts and back-off.                                        *)
(***************************************************************************)
EXTENDS Fetch, TLAPS

\* What connecting and one wait for headers or a chunk take at most.
Connecting == MaxAddresses * CONNECT_TIMEOUT
Reading == MaxReads * READ_TIMEOUT

(***************************************************************************)
(* Arithmetic.                                                             *)
(***************************************************************************)

\* The minimum of two times is a time, and no more than either.
LEMMA MinimumIsLess ==
    ASSUME NEW a \in Nat, NEW b \in Nat
    PROVE  Minimum(a, b) \in Nat /\ Minimum(a, b) <= a /\ Minimum(a, b) <= b
BY DEF Minimum

\* The maximum of two integers is one of them and no less than either.
LEMMA MaximumIsMore ==
    ASSUME NEW a \in Int, NEW b \in Int
    PROVE  Maximum(a, b) \in {a, b} /\ Maximum(a, b) >= a /\ Maximum(a, b) >= b
BY DEF Maximum

\* Products of times are times.
LEMMA ProductIsNat == ASSUME NEW a \in Nat, NEW b \in Nat PROVE a * b \in Nat
OBVIOUS

\* A shorter timeout makes for a shorter wait.
LEMMA ProductIsMonotone ==
    ASSUME NEW a \in Nat, NEW b \in Nat, NEW c \in Nat, b <= c
    PROVE  a * b <= a * c
<1>1. a * c = a * b + a * (c - b)  OBVIOUS
<1>2. c - b \in Nat                OBVIOUS
<1>3. a * (c - b) \in Nat          BY <1>2, ProductIsNat
<1>4. a * b \in Nat                BY ProductIsNat
<1> QED  BY <1>1, <1>3, <1>4

\* The sums the properties are made of are times.
LEMMA TimesAreNat ==
    /\ Connecting \in Nat /\ Reading \in Nat
    /\ Overshoot \in Nat /\ Overshoot >= Connecting + Reading + MaxLookup
    /\ Overshoot >= Connecting + Reading + Reading
<1>1. Connecting \in Nat /\ Reading \in Nat
  BY FetchAssumption, ProductIsNat DEF Connecting, Reading
<1>2. Overshoot = Connecting + Reading + Maximum(MaxLookup, Reading)
  BY DEF Overshoot, Connecting, Reading
<1>3. MaxLookup \in Nat  BY FetchAssumption
<1> QED  BY <1>1, <1>2, <1>3, MaximumIsMore
-----------------------------------------------------------------------------
(***************************************************************************)
(* Kinds.                                                                  *)
(***************************************************************************)

\* A step that takes some seconds leaves the clock at a time.
LEMMA ClockStaysNat ==
    ASSUME now \in Nat, NEW seconds \in Nat, Takes(seconds)
    PROVE  now' \in Nat /\ now' >= now /\ now' <= now + seconds
BY DEF Takes

\* The wait for a connection is no longer than connecting to every address.
LEMMA ConnectTimeIsClipped ==
    ASSUME now \in Nat, deadline \in Nat, now < deadline
    PROVE  ConnectTime \in Nat /\ ConnectTime <= Connecting
<1>1. deadline - now \in Nat  OBVIOUS
<1> DEFINE clipped == Minimum(CONNECT_TIMEOUT, deadline - now)
<1>2. clipped \in Nat /\ clipped <= CONNECT_TIMEOUT
  BY <1>1, FetchAssumption, MinimumIsLess
<1> HIDE DEF clipped
<1>3. MaxAddresses * clipped \in Nat /\ MaxAddresses * clipped <= MaxAddresses * CONNECT_TIMEOUT
  BY <1>2, FetchAssumption, ProductIsNat, ProductIsMonotone
<1> QED  BY <1>3 DEF ConnectTime, Connecting, clipped

\* The back-off is a time that keeps to what is left of the budget.
LEMMA SleepKeepsTheBudget ==
    ASSUME TypeOK, MayRetry
    PROVE  Sleep(result) \in Nat /\ now + Sleep(result) <= max_retry_seconds
<1> DEFINE left == Maximum(0, max_retry_seconds - now)
<1>1. backoff[result][retry] \in Nat
  <2>1. result \in Retriable /\ retry \in 0 .. RETRIES - 1
    BY DEF TypeOK, MayRetry
  <2>2. backoff[result] \in [0 .. RETRIES - 1 -> Nat]
    BY <2>1, FetchAssumption
  <2> QED  BY <2>1, <2>2
<1>2. now \in Nat /\ now < max_retry_seconds /\ max_retry_seconds \in Nat
  BY FetchAssumption DEF TypeOK, MayRetry
<1>3. left = max_retry_seconds - now /\ left \in Nat
  BY <1>2 DEF Maximum
<1> HIDE DEF left
<1>4. Minimum(max_retry_seconds, left) \in Nat /\ Minimum(max_retry_seconds, left) <= left
  BY <1>2, <1>3, MinimumIsLess
<1> DEFINE budget == Minimum(max_retry_seconds, left)
<1> HIDE DEF budget
<1>5. budget \in Nat /\ budget <= left
  BY <1>4 DEF budget
<1>6. Minimum(backoff[result][retry], budget) \in Nat
      /\ Minimum(backoff[result][retry], budget) <= budget
  BY <1>1, <1>5, MinimumIsLess
<1>7. Sleep(result) = Minimum(backoff[result][retry], budget)
  BY DEF Sleep, budget, left
<1> QED  BY <1>2, <1>3, <1>5, <1>6, <1>7

\* Every step leaves values of their kinds.
LEMMA TypeInductive ==
    ASSUME TypeOK, [Next]_vars
    PROVE  TypeOK'
<1>1. /\ max_fetch_seconds \in Nat /\ max_redirects \in Nat /\ MaxLookup \in Nat
      /\ RETRIES \in Nat \ {0} /\ MaxChunks \in Nat
  BY FetchAssumption
<1>2. ReadTime \in Nat
  BY FetchAssumption, ProductIsNat DEF TypeOK, ReadTime
<1>3. CASE BeginAttempt
  BY <1>1, <1>3 DEF TypeOK, BeginAttempt, attempt, Origins
<1>4. CASE Unresolved \/ Refused
  BY <1>1, <1>4, ClockStaysNat DEF TypeOK, Unresolved, Refused, Raise, attempt, Retriable
<1>5. CASE Vetted
  <2>1. peer' \in BOOLEAN
    BY <1>5 DEF TypeOK, Vetted
  <2> QED
    BY <1>1, <1>5, <2>1, ClockStaysNat DEF TypeOK, Vetted, attempt
<1>6. CASE TooLateToConnect \/ BadRedirect
  BY <1>6 DEF TypeOK, TooLateToConnect, BadRedirect, Raise, attempt, Retriable
<1>7. CASE CannotConnect
  <2>1. ConnectTime \in Nat
    BY <1>7, ConnectTimeIsClipped DEF TypeOK, CannotConnect
  <2> QED
    BY <1>7, <2>1, ClockStaysNat DEF TypeOK, CannotConnect, Raise, attempt, Retriable
<1>8. CASE Connected
  <2>1. ConnectTime \in Nat
    BY <1>8, ConnectTimeIsClipped DEF TypeOK, Connected
  <2>2. deadline - now \in Nat
    BY <1>8 DEF TypeOK, Connected
  <2>3. read_timeout' \in Nat
    BY <1>8, <2>2, FetchAssumption, MinimumIsLess DEF Connected
  <2> QED
    BY <1>8, <2>1, <2>3, ClockStaysNat DEF TypeOK, Connected, attempt
<1>9. CASE NoResponse
  BY <1>2, <1>9, ClockStaysNat DEF TypeOK, NoResponse, Raise, attempt, Retriable
<1>10. CASE Respond
  BY <1>2, <1>10, ClockStaysNat DEF TypeOK, Respond, attempt
<1>11. CASE Follow
  BY <1>1, <1>11 DEF TypeOK, Follow, attempt
<1>12. CASE Chunk
  BY <1>1, <1>2, <1>12, ClockStaysNat DEF TypeOK, Chunk, attempt
<1>13. CASE ChunkTooLate \/ BadBody \/ BodyBreaks
  BY <1>2, <1>13, ClockStaysNat
  DEF TypeOK, ChunkTooLate, BadBody, BodyBreaks, Raise, attempt, Retriable
<1>14. CASE Answer
  BY <1>2, <1>14, ClockStaysNat DEF TypeOK, Answer, attempt
<1>15. CASE Retry
  <2>1. now' \in Nat
    BY <1>15, SleepKeepsTheBudget DEF TypeOK, Retry
  <2>2. retry' \in 0 .. RETRIES - 1
    BY <1>1, <1>15 DEF TypeOK, Retry, MayRetry
  <2> QED
    BY <1>15, <2>1, <2>2 DEF TypeOK, Retry
<1>16. CASE GiveUp
  BY <1>16 DEF TypeOK, GiveUp, attempt
<1>17. CASE UNCHANGED vars
  BY <1>17 DEF TypeOK, vars
<1> QED
  BY <1>3, <1>4, <1>5, <1>6, <1>7, <1>8, <1>9, <1>10, <1>11, <1>12, <1>13, <1>14,
     <1>15, <1>16, <1>17
  DEF Next, Hop, Body

\* A fetch starts with values of their kinds.
LEMMA TypeInitial == Init => TypeOK
BY FetchAssumption DEF Init, TypeOK, Origins

\* Every variable of a fetch holds a value of its kind: in particular a fetch
\* makes no more attempts and follows no more redirects than it is allowed.
THEOREM TypeCorrect == Spec => []TypeOK
BY TypeInitial, TypeInductive, PTL DEF Spec
-----------------------------------------------------------------------------
(***************************************************************************)
(* Time.  How late a fetch may be depends on what it does next: the code   *)
(* looks at the clock before it connects, after each chunk and before it   *)
(* sleeps, and everything else adds to what the last look allowed.         *)
(***************************************************************************)

InTime ==
    /\ pc = "attempt" => now <= max_retry_seconds
    /\ pc # "attempt" => deadline <= max_retry_seconds + max_fetch_seconds
    /\ pc \in {"vet", "redirect", "body"} => now <= deadline + Connecting + Reading
    /\ pc = "headers" => now <= deadline + Connecting
    /\ pc \in {"connect", "raised", "done"} => now <= deadline + Overshoot
    /\ read_timeout <= READ_TIMEOUT

\* A wait for headers or a chunk is no longer than the full timeouts make it.
LEMMA ReadTimeIsClipped ==
    ASSUME TypeOK, InTime
    PROVE  ReadTime \in Nat /\ ReadTime <= Reading
BY FetchAssumption, ProductIsNat, ProductIsMonotone DEF TypeOK, InTime, ReadTime, Reading

\* A fetch begins in time.
LEMMA InTimeInitial == Init => InTime
BY FetchAssumption DEF Init, InTime

\* Every step leaves the fetch as early as what it does next supposes.
LEMMA InTimeInductive ==
    ASSUME TypeOK, InTime, [Next]_vars
    PROVE  InTime'
<1>1. /\ now \in Nat /\ deadline \in Nat /\ read_timeout \in Nat
      /\ max_fetch_seconds \in Nat /\ max_retry_seconds \in Nat
      /\ MaxLookup \in Nat /\ READ_TIMEOUT \in Nat
  BY FetchAssumption DEF TypeOK
<1>2. ReadTime \in Nat /\ ReadTime <= Reading
  BY ReadTimeIsClipped
<1> USE <1>1, TimesAreNat
<1>3. CASE BeginAttempt
  BY <1>3 DEF InTime, BeginAttempt
<1>4. CASE Unresolved \/ Refused
  <2>1. now' \in Nat /\ now' <= now + MaxLookup
    BY <1>4, ClockStaysNat DEF Unresolved, Refused
  <2> QED
    BY <1>4, <2>1 DEF InTime, Unresolved, Refused, Raise, attempt
<1>5. CASE Vetted
  <2>1. now' \in Nat /\ now' <= now + MaxLookup
    BY <1>5, ClockStaysNat DEF Vetted
  <2> QED
    BY <1>5, <2>1 DEF InTime, Vetted, attempt
<1>6. CASE TooLateToConnect
  BY <1>6 DEF InTime, TooLateToConnect, Raise, attempt
<1>7. CASE CannotConnect \/ Connected
  <2>1. now < deadline /\ Takes(ConnectTime)
    BY <1>7 DEF CannotConnect, Connected
  <2>2. ConnectTime \in Nat /\ ConnectTime <= Connecting
    BY <2>1, ConnectTimeIsClipped
  <2>3. now' \in Nat /\ now' <= deadline + Connecting
    BY <2>1, <2>2, ClockStaysNat
  <2>4. CASE CannotConnect
    BY <2>3, <2>4 DEF InTime, CannotConnect, Raise, attempt
  <2>5. CASE Connected
    <3>1. deadline - now \in Nat
      BY <2>1
    <3>2. read_timeout' <= READ_TIMEOUT
      BY <2>5, <3>1, MinimumIsLess DEF Connected
    <3> QED
      BY <2>3, <2>5, <3>2 DEF InTime, Connected, attempt
  <2> QED
    BY <1>7, <2>4, <2>5
<1>8. CASE NoResponse \/ Respond
  <2>1. now' \in Nat /\ now' <= now + Reading
    BY <1>2, <1>8, ClockStaysNat DEF NoResponse, Respond
  <2>2. CASE NoResponse
    BY <2>1, <2>2 DEF InTime, NoResponse, Raise, attempt
  <2>3. CASE Respond
    BY <2>1, <2>3 DEF InTime, Respond, attempt
  <2> QED
    BY <1>8, <2>2, <2>3
<1>9. CASE BadRedirect
  BY <1>9 DEF InTime, BadRedirect, Raise, attempt
<1>10. CASE Follow
  BY <1>10 DEF InTime, Follow, attempt
<1>11. CASE Chunk
  <2>1. now' \in Nat
    BY <1>2, <1>11, ClockStaysNat DEF Chunk
  <2> QED
    BY <1>11, <2>1 DEF InTime, Chunk, attempt
<1>12. CASE ChunkTooLate \/ BadBody \/ BodyBreaks
  <2>1. now' \in Nat /\ now' <= now + Reading
    BY <1>2, <1>12, ClockStaysNat DEF ChunkTooLate, BadBody, BodyBreaks
  <2> QED
    BY <1>12, <2>1 DEF InTime, ChunkTooLate, BadBody, BodyBreaks, Raise, attempt
<1>13. CASE Answer
  <2>1. now' \in Nat /\ now' <= now + Reading
    BY <1>2, <1>13, ClockStaysNat DEF Answer
  <2> QED
    BY <1>13, <2>1 DEF InTime, Answer, attempt
<1>14. CASE Retry
  BY <1>14, SleepKeepsTheBudget DEF InTime, Retry
<1>15. CASE GiveUp
  BY <1>15 DEF InTime, GiveUp, attempt
<1>16. CASE UNCHANGED vars
  BY <1>16 DEF InTime, vars
<1> QED
  BY <1>3, <1>4, <1>5, <1>6, <1>7, <1>8, <1>9, <1>10, <1>11, <1>12, <1>13, <1>14,
     <1>15, <1>16
  DEF Next, Hop, Body

\* A fetch that is in time has held the scheduler no longer than stated.
LEMMA InTimeIsBounded ==
    ASSUME TypeOK, InTime
    PROVE  SchedulerIsHeldAtMost
<1>1. /\ now \in Nat /\ deadline \in Nat
      /\ max_fetch_seconds \in Nat /\ max_retry_seconds \in Nat /\ MaxLookup \in Nat
  BY FetchAssumption DEF TypeOK
<1>2. pc \in {"attempt", "vet", "connect", "headers", "redirect", "body", "raised", "done"}
  BY DEF TypeOK
<1> QED
  BY <1>1, <1>2, TimesAreNat DEF InTime, SchedulerIsHeldAtMost

\* One poll holds the scheduler no longer than the retry budget, one deadline and
\* the calls that were under way when that passed, for every number of attempts,
\* redirects, addresses and chunks and whatever the back-off asks for.
THEOREM SchedulerIsAlwaysHeldAtMost == Spec => []SchedulerIsHeldAtMost
<1>1. Init => TypeOK /\ InTime
  BY TypeInitial, InTimeInitial
<1>2. TypeOK /\ InTime /\ [Next]_vars => TypeOK' /\ InTime'
  BY TypeInductive, InTimeInductive
<1>3. TypeOK /\ InTime => SchedulerIsHeldAtMost
  BY InTimeIsBounded
<1> QED
  BY <1>1, <1>2, <1>3, PTL DEF Spec
-----------------------------------------------------------------------------
(***************************************************************************)
(* What the answer is.  The facts vetting establishes about a hop hold     *)
(* until the next one, and the response captured last is of this hop.      *)
(***************************************************************************)

\* The target of this hop is one the check allows, and pinned.
HopIsVetted ==
    /\ url = "own" \/ conf.allow_cross_origin_redirects
    /\ peer \/ conf.allow_private_network
    /\ url \in pins

Vetting ==
    /\ pc = "vet" /\ hop = 0 => url = "own"
    /\ pc \in {"connect", "headers", "body"} => HopIsVetted
    /\ pc = "body" => last_response = [retry |-> retry, hop |-> hop, redirect |-> FALSE]
    /\ pc = "raised" => result # "answered"
    /\ AnswerIsThePage

\* A fetch begins with nothing answered.
LEMMA VettingInitial == Init => Vetting
BY DEF Init, Vetting, AnswerIsThePage

\* Every step carries what vetting established to where it is relied on.
LEMMA VettingInductive ==
    ASSUME TypeOK, Vetting, [Next]_vars
    PROVE  Vetting'
<1> USE DEF Vetting, AnswerIsThePage
<1>1. CASE BeginAttempt
  BY <1>1 DEF BeginAttempt
<1>2. CASE Unresolved \/ Refused \/ TooLateToConnect \/ CannotConnect \/ NoResponse
           \/ BadRedirect \/ ChunkTooLate \/ BadBody \/ BodyBreaks
  <2>1. pc' = "raised" /\ result' # "answered"
    BY <1>2 DEF Unresolved, Refused, TooLateToConnect, CannotConnect, NoResponse,
                BadRedirect, ChunkTooLate, BadBody, BodyBreaks, Raise, Retriable
  <2> QED
    BY <2>1
<1>3. CASE Vetted
  <2>1. pc' = "connect" /\ url' = url /\ conf' = conf /\ url' \in pins'
    BY <1>3 DEF Vetted, attempt
  <2>2. peer' \/ conf.allow_private_network
    BY <1>3 DEF Vetted
  <2>3. url = "own" \/ conf.allow_cross_origin_redirects
    <3>1. CASE hop = 0
      BY <1>3, <3>1 DEF Vetted
    <3>2. CASE hop # 0
      BY <1>3, <3>2 DEF Vetted, CrossOrigin, TypeOK
    <3> QED
      BY <3>1, <3>2
  <2> QED
    BY <2>1, <2>2, <2>3 DEF HopIsVetted
<1>4. CASE Connected
  BY <1>4 DEF Connected, HopIsVetted, attempt
<1>5. CASE Respond
  BY <1>5 DEF Respond, HopIsVetted, attempt
<1>6. CASE Follow
  BY <1>6 DEF Follow, TypeOK
<1>7. CASE Chunk
  BY <1>7 DEF Chunk, HopIsVetted, attempt
<1>8. CASE Answer
  BY <1>8 DEF Answer, HopIsVetted, attempt
<1>9. CASE Retry
  BY <1>9 DEF Retry
<1>10. CASE GiveUp
  BY <1>10 DEF GiveUp
<1>11. CASE UNCHANGED vars
  BY <1>11 DEF vars, HopIsVetted, attempt
<1> QED
  BY <1>1, <1>2, <1>3, <1>4, <1>5, <1>6, <1>7, <1>8, <1>9, <1>10, <1>11
  DEF Next, Hop, Body

\* Typing and vetting hold throughout a fetch.
LEMMA VettingAlways == Spec => [](TypeOK /\ Vetting)
<1>1. Init => TypeOK /\ Vetting
  BY TypeInitial, VettingInitial
<1>2. TypeOK /\ Vetting /\ [Next]_vars => TypeOK' /\ Vetting'
  BY TypeInductive, VettingInductive
<1> QED
  BY <1>1, <1>2, PTL DEF Spec

\* What is archived as the page is the body of the response captured with it, of
\* an origin and an address the check allows, for any number of redirects and
\* retries.
THEOREM AnswerIsAlwaysThePage == Spec => []AnswerIsThePage
<1>1. TypeOK /\ Vetting => AnswerIsThePage
  BY DEF Vetting
<1> QED
  BY <1>1, VettingAlways, PTL

\* No connection is ever attempted to a host this attempt has not vetted.
THEOREM EveryHopIsAlwaysVetted == Spec => []EveryHopIsVetted
<1>1. TypeOK /\ Vetting => EveryHopIsVetted
  BY DEF Vetting, HopIsVetted, EveryHopIsVetted
<1> QED
  BY <1>1, VettingAlways, PTL
-----------------------------------------------------------------------------
(***************************************************************************)
(* The end.  What is left of an attempt shrinks with every step of it, and *)
(* a retry pays for the attempt it begins.  With EveryHopIsAlwaysVetted,   *)
(* which says that the adapter is never what a fetch is stuck in, this is  *)
(* all of FetchEnds but the fairness.                                      *)
(***************************************************************************)

\* What is left of an attempt is a number no greater than the attempt has.
LEMMA LeftIsNat ==
    ASSUME TypeOK
    PROVE  LeftOfAttempt \in 0 .. AttemptSteps /\ AttemptSteps \in Nat
<1>1. /\ max_redirects \in Nat /\ MaxChunks \in Nat
      /\ hop \in 0 .. max_redirects /\ chunks \in 0 .. MaxChunks
      /\ pc \in {"attempt", "vet", "connect", "headers", "redirect", "body", "raised", "done"}
  BY FetchAssumption DEF TypeOK
<1> QED
  BY <1>1 DEF LeftOfAttempt, AttemptSteps

\* A step within an attempt leaves less of it.
LEMMA AttemptCountsDown ==
    ASSUME TypeOK, BeginAttempt \/ Hop \/ Body \/ GiveUp
    PROVE  LeftOfAttempt' < LeftOfAttempt /\ retry' = retry
<1>1. /\ max_redirects \in Nat /\ MaxChunks \in Nat
      /\ hop \in 0 .. max_redirects /\ chunks \in 0 .. MaxChunks
  BY FetchAssumption DEF TypeOK
<1>2. CASE BeginAttempt
  BY <1>1, <1>2 DEF BeginAttempt, LeftOfAttempt, AttemptSteps
<1>3. CASE Unresolved \/ Refused \/ TooLateToConnect \/ CannotConnect \/ NoResponse
           \/ BadRedirect \/ ChunkTooLate \/ BadBody \/ BodyBreaks
  <2>1. /\ pc \in {"vet", "connect", "headers", "redirect", "body"} /\ pc' = "raised"
        /\ retry' = retry
    BY <1>3 DEF Unresolved, Refused, TooLateToConnect, CannotConnect, NoResponse,
                BadRedirect, ChunkTooLate, BadBody, BodyBreaks, Raise, attempt
  <2> QED
    BY <1>1, <2>1 DEF LeftOfAttempt
<1>4. CASE Vetted
  BY <1>1, <1>4 DEF Vetted, LeftOfAttempt, attempt
<1>5. CASE Connected
  BY <1>1, <1>5 DEF Connected, LeftOfAttempt, attempt
<1>6. CASE Respond
  BY <1>1, <1>6 DEF Respond, LeftOfAttempt, attempt
<1>7. CASE Follow
  BY <1>1, <1>7 DEF Follow, LeftOfAttempt, attempt
<1>8. CASE Chunk
  BY <1>1, <1>8 DEF Chunk, LeftOfAttempt, attempt
<1>9. CASE Answer
  BY <1>1, <1>9 DEF Answer, LeftOfAttempt, attempt
<1>10. CASE GiveUp
  BY <1>10 DEF GiveUp, LeftOfAttempt, attempt
<1> QED
  BY <1>2, <1>3, <1>4, <1>5, <1>6, <1>7, <1>8, <1>9, <1>10 DEF Hop, Body

\* One attempt less is AttemptSteps less.
LEMMA OneAttemptLess ==
    ASSUME NEW n \in Nat, NEW a \in Nat
    PROVE  (n + 1) * a = n * a + a
OBVIOUS

\* Before the last attempt there are attempts to come.
LEMMA AttemptsToCome ==
    ASSUME NEW R \in Nat \ {0}, NEW r \in 0 .. R - 1
    PROVE  R - 1 - r \in Nat
OBVIOUS

\* Fewer steps of an attempt are fewer steps, with as many attempts to come.
LEMMA FewerOfAnAttempt ==
    ASSUME NEW b \in Nat, NEW l \in Nat, NEW k \in Nat, k < l
    PROVE  b + k \in 0 .. (b + l) - 1
OBVIOUS

\* A number is below the next.
LEMMA BelowNext ==
    ASSUME NEW m \in Nat
    PROVE  m \in 0 .. (m + 1) - 1
OBVIOUS

\* Every step leaves fewer steps.
LEMMA CountsDown ==
    ASSUME TypeOK, TypeOK', Next
    PROVE  StepsLeft' \in 0 .. StepsLeft - 1
<1>1. /\ LeftOfAttempt \in Nat /\ LeftOfAttempt' \in Nat /\ AttemptSteps \in Nat
      /\ AttemptSteps' = AttemptSteps
  <2>1. /\ max_redirects \in Nat /\ MaxChunks \in Nat
        /\ hop' \in 0 .. max_redirects /\ chunks' \in 0 .. MaxChunks
        /\ pc' \in {"attempt", "vet", "connect", "headers", "redirect", "body", "raised", "done"}
    BY FetchAssumption DEF TypeOK
  <2>2. LeftOfAttempt' \in 0 .. AttemptSteps
    BY <2>1 DEF LeftOfAttempt, AttemptSteps
  <2> QED
    BY <2>2, LeftIsNat DEF AttemptSteps
<1>2. RETRIES - 1 - retry \in Nat /\ RETRIES - 1 - retry' \in Nat
  <2>1. RETRIES \in Nat \ {0} /\ retry \in 0 .. RETRIES - 1
    BY FetchAssumption DEF TypeOK
  <2>2. retry' \in 0 .. RETRIES - 1
    BY DEF TypeOK
  <2>3. RETRIES - 1 - retry \in Nat
    BY <2>1, AttemptsToCome
  <2>4. RETRIES - 1 - retry' \in Nat
    BY <2>1, <2>2, AttemptsToCome
  <2> QED
    BY <2>3, <2>4
<1>3. /\ (RETRIES - 1 - retry) * AttemptSteps \in Nat
      /\ (RETRIES - 1 - retry') * AttemptSteps \in Nat
  BY <1>1, <1>2, ProductIsNat
<1>4. CASE Retry
  <2>1. /\ pc = "raised" /\ pc' = "attempt" /\ retry' = retry + 1
    BY <1>4 DEF Retry
  <2>2. LeftOfAttempt = 1 /\ LeftOfAttempt' = AttemptSteps
    BY <2>1 DEF LeftOfAttempt, AttemptSteps
  <2>3. RETRIES - 1 - retry = (RETRIES - 1 - retry') + 1
    <3>1. RETRIES \in Nat /\ retry \in Nat
      BY FetchAssumption DEF TypeOK
    <3> QED
      BY <2>1, <3>1
  <2>4. (RETRIES - 1 - retry) * AttemptSteps
           = (RETRIES - 1 - retry') * AttemptSteps + AttemptSteps
    BY <1>1, <1>2, <2>3, OneAttemptLess
  <2>5. StepsLeft = StepsLeft' + 1
    BY <1>1, <1>3, <2>2, <2>4 DEF StepsLeft
  <2>6. StepsLeft' \in Nat
    BY <1>1, <1>3 DEF StepsLeft
  <2>7. StepsLeft' \in 0 .. (StepsLeft' + 1) - 1
    BY <2>6, BelowNext
  <2> QED
    BY <2>5, <2>7
<1>5. CASE BeginAttempt \/ Hop \/ Body \/ GiveUp
  <2>1. LeftOfAttempt' < LeftOfAttempt /\ retry' = retry
    BY <1>5, AttemptCountsDown
  <2>2. StepsLeft' = (RETRIES - 1 - retry) * AttemptSteps + LeftOfAttempt'
    BY <1>1, <2>1 DEF StepsLeft
  <2> QED
    BY <1>1, <1>3, <2>1, <2>2, FewerOfAnAttempt DEF StepsLeft
<1> QED
  BY <1>4, <1>5 DEF Next

\* Whatever a server answers, and however slowly or quickly, each call of a fetch
\* uses up a part of a number that its settings fix, so there are finitely many.
THEOREM EveryStepAlwaysCountsDown == Spec => EveryStepCountsDown
<1>1. TypeOK /\ TypeOK' /\ [Next]_vars => [StepsLeft' \in 0 .. StepsLeft - 1]_vars
  BY CountsDown
<1> QED
  BY <1>1, TypeCorrect, PTL DEF Spec, EveryStepCountsDown

\* A fetch starts with RETRIES attempts, so it has no more than that many times
\* AttemptSteps steps.
THEOREM StepsAreBounded == Init => StepsLeft = RETRIES * AttemptSteps
<1>1. RETRIES - 1 \in Nat /\ AttemptSteps \in Nat
  BY FetchAssumption DEF AttemptSteps
<1>2. ASSUME Init PROVE StepsLeft = (RETRIES - 1) * AttemptSteps + AttemptSteps
  BY <1>1, <1>2, FetchAssumption DEF Init, StepsLeft, LeftOfAttempt
<1>3. RETRIES = (RETRIES - 1) + 1
  BY FetchAssumption
<1> QED
  BY <1>1, <1>2, <1>3, OneAttemptLess
=============================================================================
