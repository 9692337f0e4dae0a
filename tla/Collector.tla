----------------------------- MODULE Collector -----------------------------
(***************************************************************************)
(* The collector: the single kibitzr process that polls each check, keeps  *)
(* the response and extends the check's two chains                         *)
(* (promoter.py fetch and _record, store.py record_poll, put_blob and      *)
(* record_normalisation, hook.py install).                                 *)
(*                                                                         *)
(* One poll is a sequence of steps of this process.  A step ends where the *)
(* archive on disk changes or where the code reads what a later step uses, *)
(* so that other processes, a crash or a storage error can fall between    *)
(* any two of them:                                                        *)
(*                                                                         *)
(*   idle -> record -> [tmp -> replace ->] head -> insert -> transform     *)
(*        -> derive -> insertNorm -> idle                                  *)
(*                                                                         *)
(* A crash loses the process and its last_response, keeps the files, and   *)
(* rolls back nothing: SQLite commits a row or does not.                   *)
(***************************************************************************)
EXTENDS ChainStore

CONSTANTS
    Checks,       \* names of the archived checks
    Browser,      \* the checks fetched with Firefox, which has no response object
    Bodies,       \* response bodies, as bytes
    Contents,     \* texts a body decodes to: what is hashed and retained
    BLANK,        \* the empty text
    decode,       \* body -> text, or NONE where the configured encoding fails
    Short,        \* bodies shorter than minimum_content_bytes
    Statuses,     \* HTTP statuses
    valid_http,   \* the statuses that count as success
    Docs,         \* normalised documents
    extract,      \* text -> what the transforms make of it; BLANK when nothing
    MaxPolls,     \* bound: check -> how often it is fetched
    MaxCrashes    \* bound: crashes of the process

ASSUME CollectorAssumption ==
    /\ Browser \subseteq Checks
    /\ BLANK \in Contents /\ BLANK \notin Docs
    /\ decode \in [Bodies -> Contents \cup {NONE}]
    /\ Short \subseteq Bodies
    /\ valid_http \subseteq Statuses
    /\ extract \in [Contents -> Docs \cup {BLANK}]
    /\ NONE \notin Contents /\ NONE \notin Statuses
    /\ MaxPolls \in [Checks -> Nat] /\ MaxCrashes \in Nat

VARIABLES
    poll,           \* table poll: check -> chain of rows
    normalisation,  \* table normalisation: check -> chain of rows
    blobs,          \* digests with a file in blobs/
    strays,         \* digests with a .tmp file in blobs/
    last_response,  \* check -> status of the response its fetcher holds
    pc,             \* what the process does next
    job,            \* locals of the poll in progress, NONE between polls
    fetched,        \* how often each check was fetched (bound only)
    crashes         \* how often the process crashed (bound only)

disk == <<poll, normalisation, blobs, strays>>
vars == <<disk, last_response, pc, job, fetched, crashes>>

PollFields ==
    [check : Checks, ok : BOOLEAN, http_status : Statuses \cup {NONE},
     content : Contents \cup {NONE}, changed : BOOLEAN]

NormFields ==
    [check : Checks, poll_id : Nat \cup {NONE}, doc : Docs, changed : BOOLEAN]

(* The locals of one poll.  answered is the status of the response this
   fetch received, NONE if it received none; the code keeps no such value,
   it only says what http_status ought to be.                            *)
Jobs ==
    [check : Checks, ok : BOOLEAN, content : Contents \cup {NONE},
     answered : Statuses \cup {NONE}, http_status : Statuses \cup {NONE},
     changed : BOOLEAN, poll_head : Seq(PollFields), doc : Docs \cup {BLANK},
     poll_id : Nat \cup {NONE}, norm_head : Seq(NormFields)]

Steps == {"down", "idle", "record", "tmp", "replace", "head", "insert",
          "transform", "derive", "insertNorm"}

NewJob(c, ok, content, answered) ==
    [check |-> c, ok |-> ok, content |-> content, answered |-> answered,
     http_status |-> NONE, changed |-> FALSE, poll_head |-> GENESIS,
     doc |-> BLANK, poll_id |-> NONE, norm_head |-> GENESIS]

Init ==
    /\ poll = [c \in Checks |-> << >>]
    /\ normalisation = [c \in Checks |-> << >>]
    /\ blobs = {} /\ strays = {}
    /\ last_response = [c \in Checks |-> NONE]
    /\ pc = "down" /\ job = NONE
    /\ fetched = [c \in Checks |-> 0] /\ crashes = 0
-----------------------------------------------------------------------------
(* Fetching (promoter.py). *)

\* Mutant of Start: the unit is not restarted after a failure.
StartOnce ==
    /\ pc = "down" /\ crashes = 0
    /\ pc' = "idle"
    /\ UNCHANGED <<disk, last_response, job, fetched, crashes>>

\* Systemd starts the process; the fetchers it constructs hold no response.
Start ==
    /\ pc = "down"
    /\ pc' = "idle"
    /\ UNCHANGED <<disk, last_response, job, fetched, crashes>>

Poll(c, j) ==
    /\ pc = "idle"
    /\ fetched[c] < MaxPolls[c]
    /\ fetched' = [fetched EXCEPT ![c] = @ + 1]
    /\ job' = j
    /\ pc' = "record"
    /\ UNCHANGED <<disk, crashes>>

\* Mutant of FetchAnswered: only the response of a fetch that is ok is kept.
FetchAnsweredOk(c) ==
    \E status \in Statuses, body \in Bodies :
       LET ok == status \in valid_http
           short == ok /\ body \in Short
       IN  /\ c \notin Browser
           /\ short \/ decode[body] # NONE
           /\ Poll(c, NewJob(c, ok /\ ~short,
                             IF short THEN BLANK ELSE decode[body], status))
           /\ last_response' = IF ok /\ ~short THEN [last_response EXCEPT ![c] = status]
                               ELSE last_response

\* A response was read to its end and decoded.
FetchAnswered(c) ==
    \E status \in Statuses, body \in Bodies :
       LET ok == status \in valid_http
           short == ok /\ body \in Short
       IN  /\ c \notin Browser
           /\ short \/ decode[body] # NONE
           /\ Poll(c, NewJob(c, ok /\ ~short,
                             IF short THEN BLANK ELSE decode[body], status))
           /\ last_response' = [last_response EXCEPT ![c] = status]

(* Every attempt raised.  An attempt that got as far as response headers
   (an endless or oversized body, a body the configured encoding does not
   decode) left its response in last_response.                            *)
FetchRaised(c) ==
    \/ /\ Poll(c, NewJob(c, FALSE, NONE, NONE))
       /\ UNCHANGED last_response
    \/ \E status \in Statuses :
          /\ c \notin Browser
          /\ Poll(c, NewJob(c, FALSE, NONE, status))
          /\ last_response' = [last_response EXCEPT ![c] = status]

\* Firefox returned the page's text, or that it failed and why: the text of the
\* error is content like any other, and neither comes with a status.
FetchBrowser(c) ==
    /\ c \in Browser
    /\ \E ok \in BOOLEAN, x \in Contents : Poll(c, NewJob(c, ok, x, NONE))
    /\ UNCHANGED last_response
-----------------------------------------------------------------------------
(* record_poll and put_blob (store.py), as called by _record. *)

\* The check is done; the process waits for the next.
Settle == pc' = "idle" /\ job' = NONE

\* After the poll is recorded, or its recording has failed and been logged,
\* kibitzr runs the transforms, but only on a fetch that is ok.
AfterRecord ==
    \/ job.ok /\ pc' = "transform" /\ UNCHANGED job
    \/ ~job.ok /\ Settle

\* The answers to "is there anything to write" a bug could give.
RecordPollWhen(nothing_to_write) ==
    /\ pc = "record"
    /\ job' = [job EXCEPT
                 !.http_status = last_response[job.check],
                 !.changed = /\ job.content # NONE
                             /\ job.content # LastObserved(FieldsOf(poll[job.check]))]
    /\ pc' = IF nothing_to_write THEN "head" ELSE "tmp"
    /\ UNCHANGED <<disk, last_response, fetched, crashes>>

\* Mutants of RecordPoll: put_blob is called for a poll without content, and a
\* half-written file is taken for the blob.
RecordPollWithoutContent == RecordPollWhen(job.content \in blobs)
RecordPollTrustsStrays ==
    RecordPollWhen(job.content = NONE \/ job.content \in blobs \cup strays)

\* _response_metadata, _last_observed_hash and has_blob.
RecordPoll ==
    /\ pc = "record"
    /\ job' = [job EXCEPT
                 !.http_status = last_response[job.check],
                 !.changed = /\ job.content # NONE
                             /\ job.content # LastObserved(FieldsOf(poll[job.check]))]
    /\ pc' = IF job.content = NONE \/ job.content \in blobs THEN "head" ELSE "tmp"
    /\ UNCHANGED <<disk, last_response, fetched, crashes>>

WriteTmp ==
    /\ pc = "tmp"
    /\ strays' = strays \cup {job.content}
    /\ pc' = "replace"
    /\ UNCHANGED <<poll, normalisation, blobs, last_response, job, fetched, crashes>>

\* Mutant of ReplaceTmp: the file is copied into place, not renamed.
CopyTmp ==
    /\ pc = "replace"
    /\ blobs' = blobs \cup {job.content}
    /\ pc' = "head"
    /\ UNCHANGED <<poll, normalisation, strays, last_response, job, fetched, crashes>>

ReplaceTmp ==
    /\ pc = "replace"
    /\ strays' = strays \ {job.content}
    /\ blobs' = blobs \cup {job.content}
    /\ pc' = "head"
    /\ UNCHANGED <<poll, normalisation, last_response, job, fetched, crashes>>

\* Mutant of ReadHead: the query forgets "WHERE check_name = ?".
ReadAnyHead ==
    /\ pc = "head"
    /\ \E c \in Checks : job' = [job EXCEPT !.poll_head = HeadOf(poll[c])]
    /\ pc' = "insert"
    /\ UNCHANGED <<disk, last_response, fetched, crashes>>

ReadHead ==
    /\ pc = "head"
    /\ job' = [job EXCEPT !.poll_head = HeadOf(poll[job.check])]
    /\ pc' = "insert"
    /\ UNCHANGED <<disk, last_response, fetched, crashes>>

PollRow ==
    RowOn([check |-> job.check, ok |-> job.ok, http_status |-> job.http_status,
           content |-> job.content, changed |-> job.changed],
          job.content, job.poll_head)

InsertPoll ==
    /\ pc = "insert"
    /\ poll' = [poll EXCEPT ![job.check] = Append(@, PollRow)]
    /\ AfterRecord
    /\ UNCHANGED <<normalisation, blobs, strays, last_response, fetched, crashes>>

\* The disk is full, a file cannot be written, the database stays locked:
\* the transaction rolls back and _record swallows the exception.
PollNotRecorded ==
    /\ pc \in {"record", "tmp", "replace", "head", "insert"}
    /\ AfterRecord
    /\ UNCHANGED <<disk, last_response, fetched, crashes>>
-----------------------------------------------------------------------------
(* The transform pipeline and record_normalisation. *)

\* The capture ignores an empty document.
Transform ==
    /\ pc = "transform"
    /\ \/ /\ extract[job.content] = BLANK
          /\ Settle
       \/ /\ extract[job.content] # BLANK
          /\ job' = [job EXCEPT !.doc = extract[job.content]]
          /\ pc' = "derive"
    /\ UNCHANGED <<disk, last_response, fetched, crashes>>

\* Mutant of Derive: documents and polls are taken to correspond one to one.
DeriveByCount ==
    LET c == job.check
        before == normalisation[c]
    IN  /\ pc = "derive"
        /\ job' = [job EXCEPT
                     !.poll_id = Len(before) + 1,
                     !.changed = \/ before = << >>
                                 \/ before[Len(before)].fields.doc # job.doc,
                     !.norm_head = HeadOf(before)]
        /\ pc' = "insertNorm"
        /\ UNCHANGED <<disk, last_response, fetched, crashes>>

\* last_poll_id, the previous document and the head.
Derive ==
    LET c == job.check
        before == normalisation[c]
    IN  /\ pc = "derive"
        /\ job' = [job EXCEPT
                     !.poll_id = IF poll[c] = << >> THEN NONE ELSE Len(poll[c]),
                     !.changed = \/ before = << >>
                                 \/ before[Len(before)].fields.doc # job.doc,
                     !.norm_head = HeadOf(before)]
        /\ pc' = "insertNorm"
        /\ UNCHANGED <<disk, last_response, fetched, crashes>>

NormRow ==
    RowOn([check |-> job.check, poll_id |-> job.poll_id, doc |-> job.doc,
           changed |-> job.changed], NONE, job.norm_head)

InsertNorm ==
    /\ pc = "insertNorm"
    /\ normalisation' = [normalisation EXCEPT ![job.check] = Append(@, NormRow)]
    /\ Settle
    /\ UNCHANGED <<poll, blobs, strays, last_response, fetched, crashes>>

NormNotRecorded ==
    /\ pc \in {"derive", "insertNorm"}
    /\ Settle
    /\ UNCHANGED <<disk, last_response, fetched, crashes>>
-----------------------------------------------------------------------------
\* The process dies at any point: everything in memory is gone.
Crash ==
    /\ pc # "down"
    /\ crashes < MaxCrashes
    /\ crashes' = crashes + 1
    /\ pc' = "down"
    /\ job' = NONE
    /\ last_response' = [c \in Checks |-> NONE]
    /\ UNCHANGED <<disk, fetched>>

Fetch(c) == FetchAnswered(c) \/ FetchRaised(c) \/ FetchBrowser(c)

Proceed ==
    \/ RecordPoll \/ WriteTmp \/ ReplaceTmp \/ ReadHead \/ InsertPoll
    \/ PollNotRecorded \/ Transform \/ Derive \/ InsertNorm \/ NormNotRecorded

Next ==
    \/ Start
    \/ \E c \in Checks : Fetch(c)
    \/ Proceed
    \/ Crash

\* Restart=always starts the process again; a running process takes its next
\* step; the scheduler comes round to every check.
Fairness ==
    /\ WF_vars(Start)
    /\ WF_vars(Proceed)
    /\ \A c \in Checks : SF_vars(Fetch(c))

Spec == Init /\ [][Next]_vars /\ Fairness
-----------------------------------------------------------------------------
(* Properties. *)

\* Every variable holds a value of its kind (the columns of the tables, the
\* locals of record_poll and record_normalisation).
TypeOK ==
    /\ poll \in [Checks -> Seq(RowsOver(PollFields, Contents \cup {NONE}))]
    /\ normalisation \in [Checks -> Seq(RowsOver(NormFields, {NONE}))]
    /\ blobs \subseteq Contents
    /\ strays \subseteq Contents
    /\ last_response \in [Checks -> Statuses \cup {NONE}]
    /\ pc \in Steps
    /\ job \in Jobs \cup {NONE}
    /\ fetched \in [Checks -> Nat]
    /\ crashes \in Nat

\* Whatever poll was cut short, not recorded or retried, every chain the
\* collector has written recomputes (verify_chain and
\* verify_normalisation_chain report no bad row).
ChainsIntact ==
    \A c \in Checks : ChainIntact(poll[c]) /\ ChainIntact(normalisation[c])

\* The response every poll row commits to is a file in blobs/, in every state
\* a crash can leave behind, and raw_ref names no other file (fsck's "missing
\* blob" and "unbound retained response").
ResponsesRetained ==
    \A c \in Checks :
       /\ ReferencedBy(poll[c]) \subseteq blobs
       /\ \A i \in DOMAIN poll[c] : poll[c][i].raw_ref = poll[c][i].fields.content

\* An archive that lost no poll holds no orphan blob and no .tmp file: the mess
\* fsck calls suspect only ever comes from a poll that left no row.
MessOnlyFromLostPolls ==
    (pc = "idle" /\ \A c \in Checks : Len(poll[c]) = fetched[c])
       => strays = {} /\ blobs = UNION {ReferencedBy(poll[c]) : c \in Checks}

\* "poll_id: the poll this was derived from" (README): as long as no poll of a
\* check was lost, each document is what the transforms make of the response its
\* row names, and no two documents name the same poll, however many polls crashed
\* or were not normalised in between.
DocumentsNameTheirPolls ==
    \A c \in Checks : Len(poll[c]) = fetched[c] =>
       \A i \in DOMAIN normalisation[c] :
          LET row == normalisation[c][i].fields
          IN  /\ row.poll_id \in DOMAIN poll[c]
              /\ poll[c][row.poll_id].fields.ok
              /\ extract[poll[c][row.poll_id].fields.content] = row.doc
              /\ \A j \in DOMAIN normalisation[c] :
                    i < j => row.poll_id < normalisation[c][j].fields.poll_id

\* A status goes with a content: a success with what was read, or with the blank
\* that stands for a body too short; anything else with a poll that is not ok; and
\* none with what a browser returns, the page or its own error.
StatusFits(c, ok, status, content) ==
    \/ content = NONE
    \/ c \in Browser /\ status = NONE
    \/ c \notin Browser /\ ok /\ status \in valid_http
    \/ c \notin Browser /\ ~ok /\ status \in Statuses \ valid_http
    \/ c \notin Browser /\ ~ok /\ status \in valid_http /\ content = BLANK

\* Though the status of a poll is read off an object earlier fetches of its check
\* share, a row that retains a response names a status it can have come with: a
\* stale one only ever stands beside an error (see StatusOfThisFetch).
ContentHasItsOwnStatus ==
    \A c \in Checks : \A i \in DOMAIN poll[c] :
       LET row == poll[c][i].fields
       IN  StatusFits(c, row.ok, row.http_status, row.content)

\* Neither chain is ever shortened or rewritten, a retained response is never
\* dropped, and one step logs at most one row of one check: what an anchor
\* covered stays what it covered.
AppendOnly ==
    [][ /\ blobs \subseteq blobs'
        /\ \A c \in Checks :
              /\ poll'[c] # poll[c] =>
                    /\ Len(poll'[c]) = Len(poll[c]) + 1
                    /\ poll[c] = SubSeq(poll'[c], 1, Len(poll[c]))
                    /\ \A d \in Checks \ {c} : poll'[d] = poll[d]
              /\ normalisation'[c] # normalisation[c] =>
                    /\ poll' = poll
                    /\ Len(normalisation'[c]) = Len(normalisation[c]) + 1
                    /\ normalisation[c] =
                          SubSeq(normalisation'[c], 1, Len(normalisation[c]))
      ]_vars

\* The collector implements the promise: what the chain heads commit to is a
\* history that grows by one honest observation at a time.
Promise ==
    INSTANCE EvidenceLog WITH
       polls    <- [c \in Checks |-> HeadOf(poll[c])],
       derived  <- [c \in Checks |-> HeadOf(normalisation[c])],
       retained <- blobs

KeepsThePromise == Promise!Spec

\* No check stops being polled because a fetch raised, a poll could not be
\* stored or the process died (promoter.py fetch: one bad target must not stop
\* collection on the others).
EveryCheckKeepsBeingPolled == \A c \in Checks : <>(fetched[c] = MaxPolls[c])
-----------------------------------------------------------------------------
(* Statements of the documentation that the code does not keep. *)

\* "Return (status, etag, last_modified) if a response was captured": the
\* status a poll row is hashed with is that of the response this poll received.
StatusOfThisFetch ==
    [][\A c \in Checks : poll'[c] # poll[c] =>
          poll'[c][Len(poll'[c])].fields.http_status = job.answered]_vars
=============================================================================
