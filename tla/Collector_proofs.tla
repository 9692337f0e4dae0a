-------------------------- MODULE Collector_proofs --------------------------
(***************************************************************************)
(* For every set of checks, bodies and statuses, every decoding and        *)
(* extraction, and any number of polls, storage errors and crashes: the    *)
(* chains of the collector recompute, every response they commit to is     *)
(* retained, and the collector implements EvidenceLog.                     *)
(***************************************************************************)
EXTENDS Collector, ChainStore_proofs

PollRows == Seq(RowsOver(PollFields, Contents \cup {NONE}))
NormRows == Seq(RowsOver(NormFields, {NONE}))

\* What "changed" says when a row is built on the history read so far.
PollChanged(j) ==
    j.content # NONE /\ j.content # LastObserved(FieldsOf(poll[j.check]))
NormChanged(j) ==
    LET before == normalisation[j.check]
    IN  before = << >> \/ before[Len(before)].fields.doc # j.doc

\* The locals of the poll in progress agree with what is on disk: nothing has
\* moved a chain since its head was read, and the response is retained before
\* the row that names it is built.
LocalsFollow ==
    /\ pc \in {"down", "idle"} => job = NONE
    /\ pc \notin {"down", "idle"} => job \in Jobs /\ (job.ok => job.content # NONE)
    /\ pc \in {"tmp", "replace"} => job.content # NONE
    /\ pc \in {"tmp", "replace", "head", "insert"} => job.changed = PollChanged(job)
    /\ pc \in {"head", "insert"} => job.content \in blobs \cup {NONE}
    /\ pc = "insert" => job.poll_head = HeadOf(poll[job.check])
    /\ pc \in {"transform", "derive", "insertNorm"} => job.ok
    /\ pc \in {"derive", "insertNorm"} => job.doc \in Docs
    /\ pc = "insertNorm" =>
          /\ job.poll_id = (IF poll[job.check] = << >> THEN NONE
                            ELSE Len(poll[job.check]))
          /\ job.changed = NormChanged(job)
          /\ job.norm_head = HeadOf(normalisation[job.check])

HeadsCommit ==
    \A c \in Checks : Committed(poll[c]) /\ Committed(normalisation[c])

IInv == TypeOK /\ LocalsFollow /\ HeadsCommit /\ ChainsIntact /\ ResponsesRetained
-----------------------------------------------------------------------------
\* A fresh poll's locals are well typed.
LEMMA NewJobType ==
    ASSUME NEW c \in Checks, NEW ok \in BOOLEAN, NEW x \in Contents \cup {NONE},
           NEW s \in Statuses \cup {NONE}, CollectorAssumption
    PROVE  /\ NewJob(c, ok, x, s) \in Jobs
           /\ NewJob(c, ok, x, s).ok = ok
           /\ NewJob(c, ok, x, s).content = x
<1>1. GENESIS \in Seq(PollFields) /\ GENESIS \in Seq(NormFields)
  BY DEF GENESIS
<1> QED
  BY <1>1 DEF NewJob, Jobs, CollectorAssumption

\* Every way a fetch can end starts a poll whose locals are well typed, whose
\* content is there if it is ok, and leaves a status in last_response.
LEMMA FetchStarts ==
    ASSUME TypeOK, CollectorAssumption, NEW c \in Checks, Fetch(c)
    PROVE  /\ pc = "idle" /\ pc' = "record"
           /\ job' \in Jobs /\ (job'.ok => job'.content # NONE)
           /\ last_response' \in [Checks -> Statuses \cup {NONE}]
           /\ fetched' \in [Checks -> Nat]
           /\ UNCHANGED <<disk, crashes>>
<1>1. ASSUME NEW j, Poll(c, j)
      PROVE  /\ pc = "idle" /\ pc' = "record" /\ job' = j
             /\ fetched' \in [Checks -> Nat]
             /\ UNCHANGED <<disk, crashes>>
  BY <1>1 DEF Poll, TypeOK
<1>2. ASSUME NEW s \in Statuses
      PROVE  [last_response EXCEPT ![c] = s] \in [Checks -> Statuses \cup {NONE}]
  BY DEF TypeOK
<1>3. CASE FetchAnswered(c)
  <2>1. PICK status \in Statuses, body \in Bodies :
          LET ok == status \in valid_http
              short == ok /\ body \in Short
          IN  /\ short \/ decode[body] # NONE
              /\ Poll(c, NewJob(c, ok /\ ~short,
                                IF short THEN BLANK ELSE decode[body], status))
              /\ last_response' = [last_response EXCEPT ![c] = status]
    BY <1>3 DEF FetchAnswered
  <2> DEFINE ok == status \in valid_http
             short == ok /\ body \in Short
             good == ok /\ ~short
             text == IF short THEN BLANK ELSE decode[body]
             j == NewJob(c, good, text, status)
  <2>2. text \in Contents /\ text # NONE
    BY <2>1 DEF CollectorAssumption
  <2>3. good \in BOOLEAN
    OBVIOUS
  <2>4. Poll(c, j) /\ last_response' = [last_response EXCEPT ![c] = status]
    BY <2>1
  <2> HIDE DEF good, text
  <2>5. j \in Jobs /\ j.content = text
    BY <2>2, <2>3, NewJobType
  <2> HIDE DEF j
  <2> QED
    BY <1>1, <1>2, <2>2, <2>4, <2>5
<1>4. CASE FetchRaised(c)
  <2>1. ASSUME NEW s \in Statuses \cup {NONE}
        PROVE  /\ NewJob(c, FALSE, NONE, s) \in Jobs
               /\ NewJob(c, FALSE, NONE, s).ok = FALSE
    <3>1. FALSE \in BOOLEAN /\ NONE \in Contents \cup {NONE}
      OBVIOUS
    <3> QED
      BY <3>1, NewJobType, Zenon
  <2>2. CASE Poll(c, NewJob(c, FALSE, NONE, NONE)) /\ UNCHANGED last_response
    <3> DEFINE j == NewJob(c, FALSE, NONE, NONE)
    <3>1. j \in Jobs /\ j.ok = FALSE
      BY <2>1
    <3>2. Poll(c, j) /\ UNCHANGED last_response
      BY <2>2
    <3> HIDE DEF j
    <3> QED
      BY <1>1, <3>1, <3>2 DEF TypeOK
  <2>3. ASSUME NEW status \in Statuses,
               Poll(c, NewJob(c, FALSE, NONE, status)),
               last_response' = [last_response EXCEPT ![c] = status]
        PROVE  /\ pc = "idle" /\ pc' = "record"
               /\ job' \in Jobs /\ (job'.ok => job'.content # NONE)
               /\ last_response' \in [Checks -> Statuses \cup {NONE}]
               /\ fetched' \in [Checks -> Nat]
               /\ UNCHANGED <<disk, crashes>>
    <3> DEFINE j == NewJob(c, FALSE, NONE, status)
    <3>1. j \in Jobs /\ j.ok = FALSE
      BY <2>1
    <3>2. Poll(c, j)
      BY <2>3
    <3> HIDE DEF j
    <3> QED
      BY <1>1, <1>2, <2>3, <3>1, <3>2
  <2> QED
    <3>1. \/ Poll(c, NewJob(c, FALSE, NONE, NONE)) /\ UNCHANGED last_response
          \/ \E status \in Statuses :
                /\ Poll(c, NewJob(c, FALSE, NONE, status))
                /\ last_response' = [last_response EXCEPT ![c] = status]
      BY <1>4, Zenon DEF FetchRaised
    <3> QED
      BY <2>2, <2>3, <3>1, Zenon
<1>5. CASE FetchBrowser(c)
  <2>1. PICK ok \in BOOLEAN, x \in Contents : Poll(c, NewJob(c, ok, x, NONE))
    BY <1>5 DEF FetchBrowser
  <2>2. UNCHANGED last_response
    BY <1>5 DEF FetchBrowser
  <2> DEFINE j == NewJob(c, ok, x, NONE)
  <2>3. j \in Jobs /\ j.content # NONE
    <3>1. ok \in BOOLEAN /\ NONE \in Statuses \cup {NONE} /\ x \in Contents \cup {NONE}
      OBVIOUS
    <3>2. j \in Jobs /\ j.content = x
      BY <3>1, NewJobType
    <3> QED
      BY <3>2 DEF CollectorAssumption
  <2> HIDE DEF j
  <2>4. Poll(c, j)
    BY <2>1 DEF j
  <2> QED
    BY <1>1, <2>2, <2>3, <2>4 DEF TypeOK
<1> QED
  BY <1>3, <1>4, <1>5 DEF Fetch
-----------------------------------------------------------------------------
\* A step that leaves the tables and blobs alone keeps what is said of them.
LEMMA TablesStay ==
    ASSUME HeadsCommit, ChainsIntact, ResponsesRetained,
           UNCHANGED <<poll, normalisation, blobs>>
    PROVE  HeadsCommit' /\ ChainsIntact' /\ ResponsesRetained'
BY DEF HeadsCommit, ChainsIntact, ResponsesRetained

\* After the poll, the process either runs the transforms on an ok fetch, with
\* the locals it has, or is done with the check.
LEMMA AfterRecordKeeps ==
    ASSUME TypeOK, LocalsFollow, AfterRecord, pc \notin {"down", "idle"}
    PROVE  LocalsFollow' /\ pc' \in Steps /\ job' \in Jobs \cup {NONE}
BY DEF TypeOK, LocalsFollow, AfterRecord, Settle, Steps

LEMMA InitIInv == ASSUME CollectorAssumption, Init PROVE IInv
<1>1. TypeOK
  BY DEF Init, TypeOK, Steps
<1>2. LocalsFollow
  BY DEF Init, LocalsFollow
<1>3. Committed(<< >>) /\ ChainIntact(<< >>) /\ ReferencedBy(<< >>) = {}
  BY DEF Committed, HeadOf, GENESIS, FieldsOf, ChainIntact, ReferencedBy
<1> QED
  BY <1>1, <1>2, <1>3
  DEF IInv, Init, HeadsCommit, ChainsIntact, ResponsesRetained

\* The row InsertPoll writes is built on the head of its check's chain.
LEMMA PollInserted ==
    ASSUME IInv, CollectorAssumption, InsertPoll
    PROVE  \E f \in PollFields, r \in Contents \cup {NONE} :
              /\ r = f.content /\ r \in blobs \cup {NONE}
              /\ f = [check |-> job.check, ok |-> job.ok,
                      http_status |-> job.http_status, content |-> job.content,
                      changed |-> PollChanged(job)]
              /\ job.check \in Checks
              /\ poll' = [poll EXCEPT ![job.check] =
                             Append(poll[job.check],
                                    RowOn(f, r, HeadOf(poll[job.check])))]
<1>1. /\ job \in Jobs /\ job.content \in blobs \cup {NONE}
      /\ job.changed = PollChanged(job)
      /\ job.poll_head = HeadOf(poll[job.check])
  BY DEF IInv, LocalsFollow, InsertPoll
<1> DEFINE f == [check |-> job.check, ok |-> job.ok,
                 http_status |-> job.http_status, content |-> job.content,
                 changed |-> job.changed]
<1>2. f \in PollFields /\ f.content = job.content
  BY <1>1 DEF Jobs, PollFields
<1>3. job.check \in Checks /\ job.content \in Contents \cup {NONE}
  BY <1>1 DEF Jobs
<1>4. poll' = [poll EXCEPT ![job.check] =
                 Append(poll[job.check],
                        RowOn(f, job.content, HeadOf(poll[job.check])))]
  BY <1>1 DEF InsertPoll, PollRow
<1>5. f = [check |-> job.check, ok |-> job.ok,
           http_status |-> job.http_status, content |-> job.content,
           changed |-> PollChanged(job)]
  BY <1>1
<1> HIDE DEF f
<1> QED
  BY <1>1, <1>2, <1>3, <1>4, <1>5

\* The row InsertNorm writes is built on the head of its check's chain.
LEMMA NormInserted ==
    ASSUME IInv, CollectorAssumption, InsertNorm
    PROVE  \E f \in NormFields :
              /\ f = [check |-> job.check,
                      poll_id |-> IF poll[job.check] = << >> THEN NONE
                                  ELSE Len(poll[job.check]),
                      doc |-> job.doc, changed |-> NormChanged(job)]
              /\ job.check \in Checks /\ job.doc \in Docs
              /\ normalisation' = [normalisation EXCEPT ![job.check] =
                             Append(normalisation[job.check],
                                    RowOn(f, NONE, HeadOf(normalisation[job.check])))]
<1>1. /\ job \in Jobs /\ job.doc \in Docs
      /\ job.poll_id = (IF poll[job.check] = << >> THEN NONE
                        ELSE Len(poll[job.check]))
      /\ job.changed = NormChanged(job)
      /\ job.norm_head = HeadOf(normalisation[job.check])
  BY DEF IInv, LocalsFollow, InsertNorm
<1> DEFINE f == [check |-> job.check, poll_id |-> job.poll_id,
                 doc |-> job.doc, changed |-> job.changed]
<1>2. f \in NormFields
  BY <1>1 DEF Jobs, NormFields
<1>3. job.check \in Checks
  BY <1>1 DEF Jobs
<1>4. normalisation' = [normalisation EXCEPT ![job.check] =
                 Append(normalisation[job.check],
                        RowOn(f, NONE, HeadOf(normalisation[job.check])))]
  BY <1>1 DEF InsertNorm, NormRow
<1>5. f = [check |-> job.check,
           poll_id |-> IF poll[job.check] = << >> THEN NONE
                       ELSE Len(poll[job.check]),
           doc |-> job.doc, changed |-> NormChanged(job)]
  BY <1>1
<1> HIDE DEF f
<1> QED
  BY <1>1, <1>2, <1>3, <1>4, <1>5

\* The responses referred to after an insert are those before and its own.
LEMMA ReferencedAfterInsert ==
    ASSUME NEW fields, NEW refs, NEW rows \in Seq(RowsOver(fields, refs)),
           NEW row \in RowsOver(fields, refs)
    PROVE  ReferencedBy(Append(rows, row))
             \subseteq ReferencedBy(rows) \cup ({row.fields.content} \ {NONE})
BY AppendedRow DEF ReferencedBy

LEMMA InsertPollKeeps ==
    ASSUME IInv, CollectorAssumption, InsertPoll
    PROVE  IInv'
<1>1. PICK f \in PollFields, r \in Contents \cup {NONE} :
         /\ r = f.content /\ r \in blobs \cup {NONE}
         /\ job.check \in Checks
         /\ poll' = [poll EXCEPT ![job.check] =
                        Append(poll[job.check],
                               RowOn(f, r, HeadOf(poll[job.check])))]
  BY PollInserted
<1> DEFINE c == job.check
           rows == poll[c]
           row == RowOn(f, r, HeadOf(rows))
           refs == Contents \cup {NONE}
<1>2. /\ c \in Checks /\ rows \in PollRows
      /\ Committed(rows) /\ ChainIntact(rows)
      /\ ReferencedBy(rows) \subseteq blobs
      /\ \A i \in DOMAIN rows : rows[i].raw_ref = rows[i].fields.content
  BY <1>1 DEF IInv, TypeOK, HeadsCommit, ChainsIntact, ResponsesRetained, PollRows
<1>3. row \in RowsOver(PollFields, refs) /\ row.fields = f /\ row.raw_ref = r
  BY <1>2, HeadType, RowType DEF RowOn, PollRows
<1>4. Append(rows, row) \in PollRows
  BY <1>2, HeadAfterInsert DEF PollRows
<1>5. Committed(Append(rows, row)) /\ ChainIntact(Append(rows, row))
  BY <1>2, CommittedAfterInsert, IntactAfterInsert DEF PollRows
<1>6. ReferencedBy(Append(rows, row)) \subseteq blobs
  <2> HIDE DEF row, rows
  <2>1. ReferencedBy(Append(rows, row))
           \subseteq ReferencedBy(rows) \cup ({row.fields.content} \ {NONE})
    BY <1>2, <1>3, ReferencedAfterInsert DEF PollRows
  <2> QED
    BY <1>1, <1>2, <1>3, <2>1
<1>7. \A i \in DOMAIN Append(rows, row) :
         Append(rows, row)[i].raw_ref = Append(rows, row)[i].fields.content
  <2> HIDE DEF row, rows
  <2> QED
    BY <1>1, <1>2, <1>3, AppendedRow DEF PollRows
<1>8. /\ poll \in [Checks -> PollRows]
      /\ poll' = [poll EXCEPT ![c] = Append(rows, row)]
      /\ UNCHANGED <<normalisation, blobs, strays, last_response, fetched, crashes>>
  BY <1>1 DEF IInv, TypeOK, InsertPoll, PollRows
<1> HIDE DEF row, rows, c
<1>9. /\ poll' \in [Checks -> PollRows]
      /\ poll'[c] = Append(rows, row)
      /\ \A d \in Checks \ {c} : poll'[d] = poll[d]
  BY <1>2, <1>4, <1>8
<1>10. LocalsFollow' /\ pc' \in Steps /\ job' \in Jobs \cup {NONE}
  BY AfterRecordKeeps DEF IInv, InsertPoll
<1>11. TypeOK'
  BY <1>8, <1>9, <1>10 DEF IInv, TypeOK, PollRows
<1>12. HeadsCommit'
  BY <1>5, <1>8, <1>9 DEF IInv, HeadsCommit
<1>13. ChainsIntact'
  BY <1>5, <1>8, <1>9 DEF IInv, ChainsIntact
<1>14. ResponsesRetained'
  BY <1>6, <1>7, <1>8, <1>9 DEF IInv, ResponsesRetained
<1> QED
  BY <1>10, <1>11, <1>12, <1>13, <1>14 DEF IInv

LEMMA InsertNormKeeps ==
    ASSUME IInv, CollectorAssumption, InsertNorm
    PROVE  IInv'
<1>1. PICK f \in NormFields :
         /\ job.check \in Checks
         /\ normalisation' = [normalisation EXCEPT ![job.check] =
                        Append(normalisation[job.check],
                               RowOn(f, NONE, HeadOf(normalisation[job.check])))]
  BY NormInserted
<1> DEFINE c == job.check
           rows == normalisation[c]
           row == RowOn(f, NONE, HeadOf(rows))
<1>2. /\ c \in Checks /\ rows \in NormRows
      /\ Committed(rows) /\ ChainIntact(rows)
  BY <1>1 DEF IInv, TypeOK, HeadsCommit, ChainsIntact, NormRows
<1>3. Append(rows, row) \in NormRows
  BY <1>2, HeadAfterInsert DEF NormRows
<1>4. Committed(Append(rows, row)) /\ ChainIntact(Append(rows, row))
  BY <1>2, CommittedAfterInsert, IntactAfterInsert DEF NormRows
<1>5. /\ normalisation \in [Checks -> NormRows]
      /\ normalisation' = [normalisation EXCEPT ![c] = Append(rows, row)]
      /\ UNCHANGED <<poll, blobs, strays, last_response, fetched, crashes>>
      /\ pc' = "idle" /\ job' = NONE
  BY <1>1 DEF IInv, TypeOK, InsertNorm, Settle, NormRows
<1> HIDE DEF row, rows, c
<1>6. /\ normalisation' \in [Checks -> NormRows]
      /\ normalisation'[c] = Append(rows, row)
      /\ \A d \in Checks \ {c} : normalisation'[d] = normalisation[d]
  BY <1>2, <1>3, <1>5
<1>7. TypeOK'
  BY <1>5, <1>6 DEF IInv, TypeOK, NormRows, Steps
<1>8. LocalsFollow'
  BY <1>5 DEF LocalsFollow
<1>9. HeadsCommit' /\ ChainsIntact'
  BY <1>4, <1>5, <1>6 DEF IInv, HeadsCommit, ChainsIntact
<1>10. ResponsesRetained'
  BY <1>5 DEF IInv, ResponsesRetained
<1> QED
  BY <1>7, <1>8, <1>9, <1>10 DEF IInv

\* The steps that only read, write files or stop.
LEMMA QuietStepKeeps ==
    ASSUME IInv, CollectorAssumption,
           \/ Start \/ Crash \/ RecordPoll \/ WriteTmp \/ ReadHead
           \/ PollNotRecorded \/ Transform \/ Derive \/ NormNotRecorded
           \/ \E c \in Checks : Fetch(c)
    PROVE  IInv'
<1> USE DEF IInv
<1>1. CASE Start
  <2>1. TypeOK'
    BY <1>1 DEF Start, TypeOK, Steps, disk
  <2>2. LocalsFollow'
    BY <1>1 DEF Start, LocalsFollow
  <2> QED
    BY <1>1, <2>1, <2>2, TablesStay DEF Start, disk
<1>2. CASE Crash
  <2>1. TypeOK'
    <3>1. last_response' \in [Checks -> Statuses \cup {NONE}]
      BY <1>2 DEF Crash
    <3>2. crashes' \in Nat /\ pc' \in Steps /\ job' \in Jobs \cup {NONE}
      BY <1>2 DEF Crash, TypeOK, Steps
    <3> QED
      BY <1>2, <3>1, <3>2 DEF Crash, TypeOK, disk
  <2>2. LocalsFollow'
    BY <1>2 DEF Crash, LocalsFollow
  <2> QED
    BY <1>2, <2>1, <2>2, TablesStay DEF Crash, disk
<1>3. CASE RecordPoll
  <2>1. job \in Jobs /\ (job.ok => job.content # NONE)
    BY <1>3 DEF RecordPoll, LocalsFollow
  <2>2. PICK h \in Statuses \cup {NONE}, g \in BOOLEAN :
          /\ g = PollChanged(job)
          /\ job' = [job EXCEPT !.http_status = h, !.changed = g]
    <3>1. PollChanged(job) \in BOOLEAN
      BY DEF PollChanged
    <3>2. job.check \in Checks
      BY <2>1 DEF Jobs
    <3>3. last_response[job.check] \in Statuses \cup {NONE}
      BY <3>2 DEF TypeOK
    <3> QED
      BY <1>3, <3>1, <3>3 DEF RecordPoll, PollChanged
  <2>3. /\ job' \in Jobs /\ job'.check = job.check /\ job'.content = job.content
        /\ job'.ok = job.ok /\ job'.changed = PollChanged(job)
    BY <2>1, <2>2 DEF Jobs
  <2>4. UNCHANGED <<disk, last_response, fetched, crashes>>
    BY <1>3 DEF RecordPoll
  <2>5. \/ pc' = "head" /\ job.content \in blobs \cup {NONE}
        \/ pc' = "tmp" /\ job.content # NONE
    BY <1>3 DEF RecordPoll
  <2>6. TypeOK'
    BY <2>3, <2>4, <2>5 DEF TypeOK, Steps, disk
  <2>7. PollChanged(job') = PollChanged(job) /\ poll' = poll /\ blobs' = blobs
    BY <2>3, <2>4 DEF PollChanged, disk
  <2>8. LocalsFollow'
    BY <2>1, <2>3, <2>5, <2>7 DEF LocalsFollow, PollChanged
  <2> QED
    BY <2>4, <2>6, <2>8, TablesStay DEF disk
<1>4. CASE WriteTmp
  <2>1. job \in Jobs /\ job.content # NONE
    BY <1>4 DEF WriteTmp, LocalsFollow
  <2>2. job.content \in Contents
    BY <2>1 DEF Jobs
  <2>3. TypeOK'
    BY <1>4, <2>2 DEF WriteTmp, TypeOK, Steps
  <2>4. LocalsFollow'
    BY <1>4 DEF WriteTmp, LocalsFollow, PollChanged
  <2> QED
    BY <1>4, <2>3, <2>4, TablesStay DEF WriteTmp
<1>5. CASE ReadHead
  <2>1. job \in Jobs
    BY <1>5 DEF ReadHead, LocalsFollow
  <2>2. HeadOf(poll[job.check]) \in Seq(PollFields)
    BY <2>1, HeadType DEF TypeOK, Jobs
  <2>3. /\ job' \in Jobs /\ job'.check = job.check /\ job'.content = job.content
        /\ job'.ok = job.ok /\ job'.changed = job.changed
        /\ job'.poll_head = HeadOf(poll[job.check])
    BY <1>5, <2>1, <2>2 DEF ReadHead, Jobs
  <2>4. /\ pc = "head" /\ pc' = "insert"
        /\ UNCHANGED <<disk, last_response, fetched, crashes>>
    BY <1>5 DEF ReadHead
  <2>5. TypeOK'
    BY <2>3, <2>4 DEF TypeOK, Steps, disk
  <2>6. LocalsFollow'
    BY <2>3, <2>4 DEF LocalsFollow, PollChanged, disk
  <2> QED
    BY <2>4, <2>5, <2>6, TablesStay DEF disk
<1>6. CASE PollNotRecorded
  <2>1. LocalsFollow' /\ pc' \in Steps /\ job' \in Jobs \cup {NONE}
    BY <1>6, AfterRecordKeeps DEF PollNotRecorded
  <2>2. TypeOK'
    BY <1>6, <2>1 DEF PollNotRecorded, TypeOK, disk
  <2> QED
    BY <1>6, <2>1, <2>2, TablesStay DEF PollNotRecorded, disk
<1>7. CASE Transform
  <2>1. job \in Jobs /\ job.ok /\ job.content # NONE
    BY <1>7 DEF Transform, LocalsFollow
  <2>2. job.content \in Contents /\ extract[job.content] \in Docs \cup {BLANK}
    BY <2>1 DEF Jobs, CollectorAssumption
  <2>3. UNCHANGED <<disk, last_response, fetched, crashes>>
    BY <1>7 DEF Transform
  <2>4. CASE pc' = "idle" /\ job' = NONE
    BY <2>3, <2>4, TablesStay DEF TypeOK, LocalsFollow, Steps, disk
  <2>5. CASE /\ extract[job.content] # BLANK
             /\ job' = [job EXCEPT !.doc = extract[job.content]]
             /\ pc' = "derive"
    <3>1. /\ job' \in Jobs /\ job'.ok = job.ok /\ job'.content = job.content
          /\ job'.doc \in Docs
      BY <2>1, <2>2, <2>5 DEF Jobs
    <3>2. TypeOK'
      BY <2>3, <2>5, <3>1 DEF TypeOK, Steps, disk
    <3>3. LocalsFollow'
      BY <2>1, <2>5, <3>1 DEF LocalsFollow
    <3> QED
      BY <2>3, <3>2, <3>3, TablesStay DEF disk
  <2> QED
    BY <1>7, <2>4, <2>5 DEF Transform, Settle
<1>8. CASE Derive
  <2>1. job \in Jobs /\ job.ok /\ job.content # NONE /\ job.doc \in Docs
    BY <1>8 DEF Derive, LocalsFollow
  <2>2. job.check \in Checks
    BY <2>1 DEF Jobs
  <2> DEFINE id == IF poll[job.check] = << >> THEN NONE ELSE Len(poll[job.check])
             head == HeadOf(normalisation[job.check])
  <2>3. id \in Nat \cup {NONE} /\ head \in Seq(NormFields)
    <3>1. poll[job.check] \in PollRows /\ normalisation[job.check] \in NormRows
      BY <2>2 DEF TypeOK, PollRows, NormRows
    <3> QED
      BY <3>1, HeadType DEF PollRows, NormRows
  <2>4. PICK g \in BOOLEAN : /\ g = NormChanged(job)
                             /\ job' = [job EXCEPT !.poll_id = id, !.changed = g,
                                                   !.norm_head = head]
    <3>1. NormChanged(job) \in BOOLEAN
      BY DEF NormChanged
    <3> QED
      BY <1>8, <3>1 DEF Derive, NormChanged
  <2> HIDE DEF id, head
  <2>5. /\ job' \in Jobs /\ job'.ok = job.ok /\ job'.content = job.content
        /\ job'.doc = job.doc /\ job'.check = job.check /\ job'.poll_id = id
        /\ job'.changed = NormChanged(job) /\ job'.norm_head = head
    BY <2>1, <2>3, <2>4 DEF Jobs
  <2>6. pc' = "insertNorm" /\ UNCHANGED <<disk, last_response, fetched, crashes>>
    BY <1>8 DEF Derive
  <2>7. TypeOK'
    BY <2>5, <2>6 DEF TypeOK, Steps, disk
  <2>8. LocalsFollow'
    BY <2>1, <2>5, <2>6 DEF LocalsFollow, NormChanged, disk, id, head
  <2> QED
    BY <2>6, <2>7, <2>8, TablesStay DEF disk
<1>9. CASE NormNotRecorded
  <2>1. TypeOK'
    BY <1>9 DEF NormNotRecorded, Settle, TypeOK, Steps, disk
  <2>2. LocalsFollow'
    BY <1>9 DEF NormNotRecorded, Settle, LocalsFollow
  <2> QED
    BY <1>9, <2>1, <2>2, TablesStay DEF NormNotRecorded, disk
<1>10. ASSUME NEW c \in Checks, Fetch(c)
       PROVE  IInv'
  <2>1. /\ pc = "idle" /\ pc' = "record"
        /\ job' \in Jobs /\ (job'.ok => job'.content # NONE)
        /\ last_response' \in [Checks -> Statuses \cup {NONE}]
        /\ fetched' \in [Checks -> Nat]
        /\ UNCHANGED <<disk, crashes>>
    BY <1>10, FetchStarts
  <2>2. TypeOK'
    BY <2>1 DEF TypeOK, Steps, disk
  <2>3. LocalsFollow'
    BY <2>1 DEF LocalsFollow
  <2> QED
    BY <2>1, <2>2, <2>3, TablesStay DEF disk
<1> QED
  BY <1>1, <1>2, <1>3, <1>4, <1>5, <1>6, <1>7, <1>8, <1>9, <1>10

\* The rename makes the response a blob before any row names it.
LEMMA ReplaceTmpKeeps ==
    ASSUME IInv, CollectorAssumption, ReplaceTmp
    PROVE  IInv'
<1>1. job \in Jobs /\ job.content # NONE
  BY DEF IInv, ReplaceTmp, LocalsFollow
<1>2. job.content \in Contents
  BY <1>1 DEF Jobs
<1>3. TypeOK'
  BY <1>2 DEF IInv, ReplaceTmp, TypeOK, Steps
<1>4. LocalsFollow'
  BY <1>1 DEF IInv, ReplaceTmp, LocalsFollow, PollChanged
<1>5. HeadsCommit' /\ ChainsIntact'
  BY DEF IInv, ReplaceTmp, HeadsCommit, ChainsIntact
<1>6. ResponsesRetained'
  BY DEF IInv, ReplaceTmp, ResponsesRetained
<1> QED
  BY <1>3, <1>4, <1>5, <1>6 DEF IInv

LEMMA NextIInv ==
    ASSUME IInv, CollectorAssumption, [Next]_vars
    PROVE  IInv'
<1>1. CASE Next
  BY <1>1, InsertPollKeeps, InsertNormKeeps, QuietStepKeeps, ReplaceTmpKeeps
  DEF Next, Proceed
<1>2. CASE UNCHANGED vars
  BY <1>2 DEF vars, disk, IInv, TypeOK, LocalsFollow, PollChanged, NormChanged,
              HeadsCommit, ChainsIntact, ResponsesRetained
<1> QED
  BY <1>1, <1>2

\* Every behaviour of the collector keeps the inductive invariant.
THEOREM Invariance == Spec => []IInv
BY CollectorAssumption, InitIInv, NextIInv, PTL DEF Spec

\* The columns and locals always hold values of their kinds.
THEOREM TypeCorrect == Spec => []TypeOK
<1>1. IInv => TypeOK
  BY DEF IInv
<1> QED
  BY <1>1, Invariance, PTL

\* Whatever poll was cut short, not recorded or retried, every chain the
\* collector has written recomputes.
THEOREM ChainsAlwaysIntact == Spec => []ChainsIntact
<1>1. IInv => ChainsIntact
  BY DEF IInv
<1> QED
  BY <1>1, Invariance, PTL

\* No crash and no storage error leaves a row whose response is not retained.
THEOREM ResponsesAlwaysRetained == Spec => []ResponsesRetained
<1>1. IInv => ResponsesRetained
  BY DEF IInv
<1> QED
  BY <1>1, Invariance, PTL
-----------------------------------------------------------------------------
(* The collector implements EvidenceLog.  The mapping reads each history out
   of the head of its chain, so the theorem says what a head is worth: it
   commits to a history in which every poll was appended once, names only a
   retained response and says truthfully whether that response was new.     *)

LEMMA InitMaps == ASSUME CollectorAssumption, Init PROVE Promise!Init
BY DEF Init, Promise!Init, HeadOf, GENESIS

\* A head is empty, and as long, exactly as its table is.
LEMMA HeadMeasures ==
    ASSUME NEW fields, NEW refs, NEW rows \in Seq(RowsOver(fields, refs)),
           Committed(rows)
    PROVE  /\ Len(HeadOf(rows)) = Len(rows)
           /\ HeadOf(rows) = << >> <=> rows = << >>
           /\ rows # << >> =>
                HeadOf(rows)[Len(rows)] = rows[Len(rows)].fields
BY FieldsType DEF Committed

LEMMA InsertPollMaps ==
    ASSUME IInv, CollectorAssumption, InsertPoll
    PROVE  Promise!Next
<1>1. PICK f \in PollFields, r \in Contents \cup {NONE} :
         /\ r = f.content /\ r \in blobs \cup {NONE}
         /\ f = [check |-> job.check, ok |-> job.ok,
                 http_status |-> job.http_status, content |-> job.content,
                 changed |-> PollChanged(job)]
         /\ job.check \in Checks
         /\ poll' = [poll EXCEPT ![job.check] =
                        Append(poll[job.check],
                               RowOn(f, r, HeadOf(poll[job.check])))]
  BY PollInserted
<1> DEFINE c == job.check
           heads == [d \in Checks |-> HeadOf(poll[d])]
<1>2. job \in Jobs
  BY DEF IInv, LocalsFollow, InsertPoll
<1>3. /\ c \in Checks /\ poll \in [Checks -> PollRows] /\ poll[c] \in PollRows
      /\ Committed(poll[c])
  BY <1>1 DEF IInv, TypeOK, HeadsCommit, PollRows
<1>4. HeadOf(Append(poll[c], RowOn(f, r, HeadOf(poll[c])))) = Append(HeadOf(poll[c]), f)
  BY <1>3, HeadAfterInsert DEF PollRows
<1>5. [d \in Checks |-> HeadOf(poll'[d])] =
         [heads EXCEPT ![c] = Append(heads[c], f)]
  <2> DEFINE grown == Append(poll[c], RowOn(f, r, HeadOf(poll[c])))
  <2>1. poll' = [poll EXCEPT ![c] = grown] /\ HeadOf(grown) = Append(HeadOf(poll[c]), f)
    BY <1>1, <1>4
  <2> HIDE DEF grown, c
  <2> QED
    BY <1>3, <2>1
<1>6. PollChanged(job) = (job.content # NONE /\ job.content # Promise!LastContent(heads[c]))
  <2>1. FieldsOf(poll[c]) = heads[c]
    BY <1>3 DEF Committed
  <2>2. LastObserved(heads[c]) = Promise!LastContent(heads[c])
    BY Zenon DEF LastObserved, Promise!LastContent, Max, Promise!Max
  <2> QED
    BY <2>1, <2>2, Zenon DEF PollChanged
<1>7. f = [check |-> c, ok |-> job.ok, http_status |-> job.http_status,
           content |-> job.content,
           changed |-> job.content # NONE /\ job.content # Promise!LastContent(heads[c])]
  BY <1>1, <1>6, Zenon
<1>8. /\ job.ok \in BOOLEAN /\ job.http_status \in Statuses \cup {NONE}
      /\ job.content \in blobs \cup {NONE}
  BY <1>1, <1>2 DEF Jobs
<1>9. UNCHANGED <<normalisation, blobs>>
  BY DEF InsertPoll
<1> HIDE DEF c
<1>10. Promise!Observe(c)
  BY <1>5, <1>7, <1>8, <1>9 DEF Promise!Observe
<1> QED
  BY <1>3, <1>10 DEF Promise!Next

LEMMA InsertNormMaps ==
    ASSUME IInv, CollectorAssumption, InsertNorm
    PROVE  Promise!Next
<1>1. PICK f \in NormFields :
         /\ f = [check |-> job.check,
                 poll_id |-> IF poll[job.check] = << >> THEN NONE
                             ELSE Len(poll[job.check]),
                 doc |-> job.doc, changed |-> NormChanged(job)]
         /\ job.check \in Checks /\ job.doc \in Docs
         /\ normalisation' = [normalisation EXCEPT ![job.check] =
                        Append(normalisation[job.check],
                               RowOn(f, NONE, HeadOf(normalisation[job.check])))]
  BY NormInserted
<1> DEFINE c == job.check
           heads == [d \in Checks |-> HeadOf(poll[d])]
           norms == [d \in Checks |-> HeadOf(normalisation[d])]
<1>2. /\ c \in Checks
      /\ poll[c] \in PollRows /\ Committed(poll[c])
      /\ normalisation \in [Checks -> NormRows]
      /\ normalisation[c] \in NormRows /\ Committed(normalisation[c])
  BY <1>1 DEF IInv, TypeOK, HeadsCommit, PollRows, NormRows
<1>3. HeadOf(Append(normalisation[c], RowOn(f, NONE, HeadOf(normalisation[c]))))
        = Append(HeadOf(normalisation[c]), f)
  BY <1>2, HeadAfterInsert DEF NormRows
<1>4. [d \in Checks |-> HeadOf(normalisation'[d])] =
         [norms EXCEPT ![c] = Append(norms[c], f)]
  <2> DEFINE grown == Append(normalisation[c], RowOn(f, NONE, HeadOf(normalisation[c])))
  <2>1. /\ normalisation' = [normalisation EXCEPT ![c] = grown]
        /\ HeadOf(grown) = Append(HeadOf(normalisation[c]), f)
    BY <1>1, <1>3
  <2> HIDE DEF grown, c
  <2> QED
    BY <1>2, <2>1
<1>5. /\ Len(heads[c]) = Len(poll[c])
      /\ heads[c] = << >> <=> poll[c] = << >>
  BY <1>2, HeadMeasures DEF PollRows
<1>6. /\ Len(norms[c]) = Len(normalisation[c])
      /\ norms[c] = << >> <=> normalisation[c] = << >>
      /\ normalisation[c] # << >> =>
           norms[c][Len(normalisation[c])] = normalisation[c][Len(normalisation[c])].fields
  BY <1>2, HeadMeasures DEF NormRows
<1> HIDE DEF heads, norms
<1>7. NormChanged(job) = (norms[c] = << >> \/ norms[c][Len(norms[c])].doc # job.doc)
  BY <1>6 DEF NormChanged
<1>8. f = [check |-> c,
           poll_id |-> IF heads[c] = << >> THEN NONE ELSE Len(heads[c]),
           doc |-> job.doc,
           changed |-> norms[c] = << >> \/ norms[c][Len(norms[c])].doc # job.doc]
  <2>1. (IF heads[c] = << >> THEN NONE ELSE Len(heads[c]))
          = (IF poll[c] = << >> THEN NONE ELSE Len(poll[c]))
    BY <1>5
  <2> QED
    BY <1>1, <1>7, <2>1, Zenon
<1>9. UNCHANGED <<poll, blobs>>
  BY DEF InsertNorm
<1> HIDE DEF c
<1>10. Promise!Derive(c)
  BY <1>1, <1>4, <1>8, <1>9 DEF Promise!Derive, heads, norms
<1> QED
  BY <1>2, <1>10 DEF Promise!Next

LEMMA StepMaps ==
    ASSUME IInv, CollectorAssumption, [Next]_vars
    PROVE  [Promise!Next]_(Promise!vars)
<1>1. CASE InsertPoll
  BY <1>1, InsertPollMaps
<1>2. CASE InsertNorm
  BY <1>2, InsertNormMaps
<1>3. CASE ReplaceTmp
  <2>1. job.content \in Contents
    BY <1>3 DEF IInv, LocalsFollow, Jobs, ReplaceTmp
  <2>2. Promise!Retain
    BY <1>3, <2>1 DEF ReplaceTmp, Promise!Retain
  <2> QED
    BY <2>2 DEF Promise!Next
<1>4. CASE UNCHANGED <<poll, normalisation, blobs>>
  BY <1>4 DEF Promise!vars
<1>5. \/ InsertPoll \/ InsertNorm \/ ReplaceTmp
      \/ UNCHANGED <<poll, normalisation, blobs>>
  <2>1. CASE UNCHANGED vars
    BY <2>1 DEF vars, disk
  <2>2. CASE \/ Start \/ Crash \/ RecordPoll \/ WriteTmp \/ ReadHead
             \/ PollNotRecorded \/ Transform \/ Derive \/ NormNotRecorded
    BY <2>2 DEF Start, Crash, RecordPoll, WriteTmp, ReadHead, PollNotRecorded,
                Transform, Derive, NormNotRecorded, disk
  <2>3. ASSUME NEW c \in Checks, Fetch(c)
        PROVE  UNCHANGED <<poll, normalisation, blobs>>
    BY <2>3, FetchStarts DEF IInv, disk
  <2> QED
    BY <2>1, <2>2, <2>3 DEF Next, Proceed
<1> QED
  BY <1>1, <1>2, <1>3, <1>4, <1>5

\* The collector, with every storage error and crash, implements the promise.
THEOREM CollectorKeepsThePromise == Spec => KeepsThePromise
<1>1. Init => Promise!Init
  BY CollectorAssumption, InitMaps
<1>2. IInv /\ [Next]_vars => [Promise!Next]_(Promise!vars)
  BY CollectorAssumption, StepMaps
<1> QED
  BY <1>1, <1>2, Invariance, PTL DEF Spec, KeepsThePromise, Promise!Spec
-----------------------------------------------------------------------------
(* What was lost.  A poll is lost when it was fetched and left no row; it is
   under way until then.                                                    *)

Recording == {"record", "tmp", "replace", "head", "insert"}
Transforming == {"transform", "derive", "insertNorm"}

\* The polls of a check that have a row or may still get one.
Accounted(c) ==
    IF pc \in Recording /\ job.check = c THEN Len(poll[c]) + 1 ELSE Len(poll[c])
NoneLost(c) == Accounted(c) = fetched[c]

AccountInv == \A c \in Checks : Accounted(c) <= fetched[c]

\* The documents of a check name the polls they were made of, in order.
DocumentsFit(c) ==
    \A i \in DOMAIN normalisation[c] :
       LET row == normalisation[c][i].fields
       IN  /\ row.poll_id \in DOMAIN poll[c]
           /\ poll[c][row.poll_id].fields.ok
           /\ extract[poll[c][row.poll_id].fields.content] = row.doc
           /\ \A j \in DOMAIN normalisation[c] :
                 i < j => row.poll_id < normalisation[c][j].fields.poll_id

\* The last row is the poll whose document is being made, and has none yet.
LastIsCurrent(c) ==
    pc \in Transforming /\ job.check = c =>
       /\ poll[c] # << >>
       /\ poll[c][Len(poll[c])].fields.ok
       /\ poll[c][Len(poll[c])].fields.content = job.content
       /\ \A i \in DOMAIN normalisation[c] : normalisation[c][i].fields.poll_id < Len(poll[c])

DocumentsInv ==
    /\ \A c \in Checks : NoneLost(c) => DocumentsFit(c) /\ LastIsCurrent(c)
    /\ pc \in {"derive", "insertNorm"} => job.doc = extract[job.content]

\* Without losses a stray is the file about to be renamed, and a blob no row
\* names is that of the row about to be inserted.
MessInv ==
    (\A c \in Checks : NoneLost(c)) =>
       /\ \A b \in strays : pc = "replace" /\ b = job.content
       /\ \A b \in blobs : \/ \E c \in Checks : b \in ReferencedBy(poll[c])
                           \/ pc \in {"head", "insert"} /\ b = job.content

LostInv == IInv /\ AccountInv /\ DocumentsInv /\ MessInv

\* The rows before an appended one are the table it was appended to.
LEMMA RowsBefore ==
    ASSUME NEW S, NEW rows \in Seq(S), NEW row \in S
    PROVE  rows = SubSeq(Append(rows, row), 1, Len(rows))
<1> DEFINE more == Append(rows, row)
           n == Len(rows)
<1>1. /\ more \in Seq(S) /\ n \in Nat /\ Len(more) = n + 1 /\ DOMAIN rows = 1 .. n
      /\ \A i \in 1 .. n : more[i] = rows[i]
  BY AppendedRow
<1> HIDE DEF more
<1>2. /\ SubSeq(more, 1, n) \in Seq(S) /\ Len(SubSeq(more, 1, n)) = n
      /\ \A i \in 1 .. n : SubSeq(more, 1, n)[i] = more[i]
  BY <1>1
<1> QED
  BY <1>1, <1>2, SeqEqual DEF more

(* The steps, told apart by what they do to these counts. *)

\* A poll of a check begins.
Begins(c) ==
    /\ pc = "idle" /\ pc' = "record" /\ job'.check = c
    /\ fetched' = [fetched EXCEPT ![c] = @ + 1]
    /\ UNCHANGED disk

\* The poll under way stays under way.
GoesOn ==
    /\ pc \in Recording /\ pc' \in Recording
    /\ job'.check = job.check /\ job'.content = job.content
    /\ UNCHANGED <<poll, normalisation, fetched>>

\* The poll under way ends without a row.
IsLost ==
    /\ pc \in Recording /\ pc' \notin Recording
    /\ pc' \in Transforming => pc' = "transform" /\ job' = job
    /\ UNCHANGED <<disk, fetched>>

\* No poll is under way, before or after.
StandsStill ==
    /\ pc \notin Recording /\ pc' \notin Recording
    /\ pc' \in Transforming =>
          pc \in Transforming /\ job'.check = job.check /\ job'.content = job.content
    /\ UNCHANGED <<disk, fetched>>

\* A fetch is that of the check that is polled.
LEMMA FetchBegins ==
    ASSUME TypeOK, CollectorAssumption, NEW c \in Checks, Fetch(c)
    PROVE  Begins(c)
<1>1. ASSUME NEW ok, NEW x, NEW s, Poll(c, NewJob(c, ok, x, s))
      PROVE  Begins(c)
  <2>1. NewJob(c, ok, x, s).check = c
    BY DEF NewJob
  <2> QED
    BY <1>1, <2>1 DEF Poll, Begins
<1>2. CASE FetchAnswered(c)
  <2>1. PICK status \in Statuses, body \in Bodies :
          LET ok == status \in valid_http
              short == ok /\ body \in Short
          IN  Poll(c, NewJob(c, ok /\ ~short, IF short THEN BLANK ELSE decode[body], status))
    BY <1>2 DEF FetchAnswered
  <2> QED
    BY <1>1, <2>1
<1>3. CASE FetchRaised(c)
  <2>1. \/ Poll(c, NewJob(c, FALSE, NONE, NONE))
        \/ \E status \in Statuses : Poll(c, NewJob(c, FALSE, NONE, status))
    BY <1>3, Zenon DEF FetchRaised
  <2> QED
    BY <1>1, <2>1, Zenon
<1>4. CASE FetchBrowser(c)
  <2>1. PICK ok \in BOOLEAN, x \in Contents : Poll(c, NewJob(c, ok, x, NONE))
    BY <1>4 DEF FetchBrowser
  <2> QED
    BY <1>1, <2>1
<1> QED
  BY <1>2, <1>3, <1>4 DEF Fetch

\* Every step is of one of these kinds.
LEMMA StepKinds ==
    ASSUME IInv, CollectorAssumption, [Next]_vars
    PROVE  \/ \E c \in Checks : Begins(c)
           \/ GoesOn \/ IsLost \/ StandsStill \/ InsertPoll \/ InsertNorm \/ UNCHANGED vars
<1>1. ASSUME RecordPoll \/ WriteTmp \/ ReplaceTmp \/ ReadHead
      PROVE  GoesOn
  <2>1. job \in Jobs
    BY <1>1 DEF IInv, LocalsFollow, RecordPoll, WriteTmp, ReplaceTmp, ReadHead
  <2>2. pc \in Recording /\ pc' \in Recording /\ UNCHANGED <<poll, normalisation, fetched>>
    BY <1>1 DEF RecordPoll, WriteTmp, ReplaceTmp, ReadHead, Recording, disk
  <2>3. job'.check = job.check /\ job'.content = job.content
    BY <1>1, <2>1 DEF RecordPoll, WriteTmp, ReplaceTmp, ReadHead, Jobs
  <2> QED
    BY <2>2, <2>3 DEF GoesOn
<1>2. CASE PollNotRecorded
  BY <1>2 DEF PollNotRecorded, AfterRecord, Settle, IsLost, Recording, Transforming
<1>3. CASE Crash
  BY <1>3 DEF Crash, IsLost, StandsStill, Recording, Transforming
<1>4. CASE Start \/ NormNotRecorded
  BY <1>4 DEF Start, NormNotRecorded, Settle, StandsStill, Recording, Transforming
<1>5. ASSUME Transform \/ Derive
      PROVE  StandsStill
  <2>1. job \in Jobs
    BY <1>5 DEF IInv, LocalsFollow, Transform, Derive
  <2>2. /\ pc \in Transforming /\ pc \notin Recording /\ pc' \notin Recording
        /\ UNCHANGED <<disk, fetched>>
    BY <1>5 DEF Transform, Derive, Settle, Recording, Transforming
  <2>3. pc' \in Transforming => job'.check = job.check /\ job'.content = job.content
    BY <1>5, <2>1 DEF Transform, Derive, Settle, Jobs, Transforming
  <2> QED
    BY <2>2, <2>3 DEF StandsStill
<1>6. ASSUME NEW c \in Checks, Fetch(c)
      PROVE  Begins(c)
  BY <1>6, FetchBegins DEF IInv
<1> QED
  BY <1>1, <1>2, <1>3, <1>4, <1>5, <1>6 DEF Next, Proceed

\* What an inserted poll row is, and that nothing else moves.
LEMMA PollAppended ==
    ASSUME IInv, CollectorAssumption, InsertPoll
    PROVE  LET c == job.check
               n == Len(poll[c])
           IN  /\ c \in Checks /\ n \in Nat /\ DOMAIN poll[c] = 1 .. n
               /\ Len(poll'[c]) = n + 1 /\ DOMAIN poll'[c] = 1 .. (n + 1) /\ poll'[c] # << >>
               /\ \A i \in 1 .. n : poll'[c][i] = poll[c][i]
               /\ poll'[c][n + 1].fields.ok = job.ok
               /\ poll'[c][n + 1].fields.content = job.content
               /\ poll'[c][n + 1].fields.http_status = job.http_status
               /\ poll[c] = SubSeq(poll'[c], 1, n)
               /\ \A d \in Checks \ {c} : poll'[d] = poll[d]
<1>1. PICK f \in PollFields, r \in Contents \cup {NONE} :
         /\ f = [check |-> job.check, ok |-> job.ok, http_status |-> job.http_status,
                 content |-> job.content, changed |-> PollChanged(job)]
         /\ job.check \in Checks
         /\ poll' = [poll EXCEPT ![job.check] =
                        Append(poll[job.check], RowOn(f, r, HeadOf(poll[job.check])))]
  BY PollInserted
<1> DEFINE c == job.check
           row == RowOn(f, r, HeadOf(poll[c]))
           S == RowsOver(PollFields, Contents \cup {NONE})
<1>2. poll \in [Checks -> Seq(S)] /\ c \in Checks
  BY <1>1 DEF IInv, TypeOK
<1>3. row \in S
  BY <1>2, HeadType, RowType
<1>4. /\ row.fields.ok = job.ok /\ row.fields.content = job.content
      /\ row.fields.http_status = job.http_status
  <2>1. row.fields = f
    BY DEF RowOn
  <2> QED
    BY <1>1, <2>1
<1> HIDE DEF row, S
<1>5. poll'[c] = Append(poll[c], row) /\ \A d \in Checks \ {c} : poll'[d] = poll[d]
  BY <1>1, <1>2 DEF row
<1>6. poll[c] \in Seq(S)
  BY <1>2
<1>7. poll[c] = SubSeq(Append(poll[c], row), 1, Len(poll[c]))
  BY <1>3, <1>6, RowsBefore
<1> HIDE DEF c
<1>8. /\ Len(poll[c]) \in Nat /\ DOMAIN poll[c] = 1 .. Len(poll[c])
      /\ poll'[c] # << >> /\ Len(poll'[c]) = Len(poll[c]) + 1
      /\ DOMAIN poll'[c] = 1 .. (Len(poll[c]) + 1)
      /\ \A i \in 1 .. Len(poll[c]) : poll'[c][i] = poll[c][i]
      /\ poll'[c][Len(poll[c]) + 1] = row
  BY <1>3, <1>5, <1>6, AppendedRow
<1> QED
  BY <1>2, <1>4, <1>5, <1>7, <1>8 DEF c

\* What an inserted normalisation row is, and that nothing else moves.
LEMMA NormAppended ==
    ASSUME IInv, CollectorAssumption, InsertNorm
    PROVE  LET c == job.check
               n == Len(normalisation[c])
           IN  /\ c \in Checks /\ n \in Nat /\ DOMAIN normalisation[c] = 1 .. n
               /\ Len(normalisation'[c]) = n + 1 /\ DOMAIN normalisation'[c] = 1 .. (n + 1)
               /\ \A i \in 1 .. n : normalisation'[c][i] = normalisation[c][i]
               /\ poll[c] # << >> => normalisation'[c][n + 1].fields.poll_id = Len(poll[c])
               /\ normalisation'[c][n + 1].fields.doc = job.doc
               /\ normalisation[c] = SubSeq(normalisation'[c], 1, n)
               /\ \A d \in Checks \ {c} : normalisation'[d] = normalisation[d]
<1>1. PICK f \in NormFields :
         /\ f = [check |-> job.check,
                 poll_id |-> IF poll[job.check] = << >> THEN NONE ELSE Len(poll[job.check]),
                 doc |-> job.doc, changed |-> NormChanged(job)]
         /\ job.check \in Checks
         /\ normalisation' = [normalisation EXCEPT ![job.check] =
                        Append(normalisation[job.check],
                               RowOn(f, NONE, HeadOf(normalisation[job.check])))]
  BY NormInserted
<1> DEFINE c == job.check
           row == RowOn(f, NONE, HeadOf(normalisation[c]))
           S == RowsOver(NormFields, {NONE})
<1>2. normalisation \in [Checks -> Seq(S)] /\ c \in Checks
  BY <1>1 DEF IInv, TypeOK
<1>3. row \in S
  BY <1>2, HeadType, RowType
<1>4. /\ poll[c] # << >> => row.fields.poll_id = Len(poll[c])
      /\ row.fields.doc = job.doc
  <2>1. row.fields = f
    BY DEF RowOn
  <2> QED
    BY <1>1, <2>1
<1> HIDE DEF row, S
<1>5. /\ normalisation'[c] = Append(normalisation[c], row)
      /\ \A d \in Checks \ {c} : normalisation'[d] = normalisation[d]
  BY <1>1, <1>2 DEF row
<1>6. normalisation[c] \in Seq(S)
  BY <1>2
<1>7. normalisation[c] = SubSeq(Append(normalisation[c], row), 1, Len(normalisation[c]))
  BY <1>3, <1>6, RowsBefore
<1> HIDE DEF c
<1>8. /\ Len(normalisation[c]) \in Nat /\ DOMAIN normalisation[c] = 1 .. Len(normalisation[c])
      /\ Len(normalisation'[c]) = Len(normalisation[c]) + 1
      /\ DOMAIN normalisation'[c] = 1 .. (Len(normalisation[c]) + 1)
      /\ \A i \in 1 .. Len(normalisation[c]) : normalisation'[c][i] = normalisation[c][i]
      /\ normalisation'[c][Len(normalisation[c]) + 1] = row
  BY <1>3, <1>5, <1>6, AppendedRow
<1> QED
  BY <1>2, <1>4, <1>5, <1>7, <1>8 DEF c
-----------------------------------------------------------------------------
\* The tables have a length, and a poll under way is that of a check.
LEMMA AccountKind ==
    ASSUME IInv, CollectorAssumption, NEW c \in Checks
    PROVE  Len(poll[c]) \in Nat /\ fetched[c] \in Nat /\ Accounted(c) \in Nat
BY DEF IInv, TypeOK, Accounted

\* Every poll that is fetched is accounted for at most once, and one that was lost
\* stays lost.
LEMMA AccountKeeps ==
    ASSUME IInv, AccountInv, CollectorAssumption, [Next]_vars, NEW c \in Checks
    PROVE  Accounted(c)' <= fetched'[c] /\ (NoneLost(c)' => NoneLost(c))
<1> DEFINE n == Len(poll[c])
<1>1. n \in Nat /\ fetched[c] \in Nat /\ fetched \in [Checks -> Nat] /\ Accounted(c) <= fetched[c]
  BY AccountKind DEF IInv, TypeOK, AccountInv
<1>2. /\ pc \in Recording /\ job.check = c => Accounted(c) = n + 1
      /\ ~ (pc \in Recording /\ job.check = c) => Accounted(c) = n
  BY DEF Accounted
<1>3. /\ pc' \in Recording /\ job'.check = c => Accounted(c)' = Len(poll'[c]) + 1
      /\ ~ (pc' \in Recording /\ job'.check = c) => Accounted(c)' = Len(poll'[c])
  BY DEF Accounted
<1>4. NoneLost(c) <=> Accounted(c) = fetched[c]
  BY DEF NoneLost
<1>5. NoneLost(c)' <=> Accounted(c)' = fetched'[c]
  BY DEF NoneLost
<1> HIDE DEF n
<1>6. ASSUME NEW d \in Checks, Begins(d)
      PROVE  Accounted(c)' <= fetched'[c] /\ (NoneLost(c)' => NoneLost(c))
  <2>1. /\ pc \notin Recording /\ pc' \in Recording /\ job'.check = d /\ poll' = poll
        /\ fetched' = [fetched EXCEPT ![d] = @ + 1]
    BY <1>6 DEF Begins, Recording, disk
  <2>2. CASE d = c
    BY <1>1, <1>2, <1>3, <1>4, <1>5, <2>1, <2>2 DEF n
  <2>3. CASE d # c
    BY <1>1, <1>2, <1>3, <1>4, <1>5, <2>1, <2>3 DEF n
  <2> QED
    BY <2>2, <2>3
<1>7. CASE GoesOn
  BY <1>1, <1>2, <1>3, <1>4, <1>5, <1>7 DEF GoesOn, n
<1>8. CASE IsLost
  BY <1>1, <1>2, <1>3, <1>4, <1>5, <1>8 DEF IsLost, n, disk
<1>9. CASE StandsStill
  BY <1>1, <1>2, <1>3, <1>4, <1>5, <1>9 DEF StandsStill, n, disk
<1>10. CASE InsertPoll
  <2>1. pc \in Recording /\ pc' \notin Recording /\ fetched' = fetched
    BY <1>10 DEF InsertPoll, AfterRecord, Settle, Recording
  <2>2. CASE c = job.check
    BY <1>1, <1>2, <1>3, <1>4, <1>5, <1>10, <2>1, <2>2, PollAppended DEF n
  <2>3. CASE c # job.check
    <3>1. poll'[c] = poll[c]
      BY <1>10, <2>3, PollAppended
    <3> QED
      BY <1>1, <1>2, <1>3, <1>4, <1>5, <2>1, <2>3, <3>1 DEF n
  <2> QED
    BY <2>2, <2>3
<1>11. CASE InsertNorm
  <2>1. pc \notin Recording /\ pc' \notin Recording /\ fetched' = fetched /\ poll' = poll
    BY <1>11 DEF InsertNorm, Settle, Recording
  <2> QED
    BY <1>1, <1>2, <1>3, <1>4, <1>5, <2>1 DEF n
<1>12. CASE UNCHANGED vars
  BY <1>1, <1>2, <1>3, <1>4, <1>5, <1>12 DEF vars, disk, n
<1> QED
  BY <1>6, <1>7, <1>8, <1>9, <1>10, <1>11, <1>12, StepKinds

\* A poll that ends without a row is lost for good.
LEMMA LostIsLost ==
    ASSUME IInv, AccountInv, CollectorAssumption, IsLost
    PROVE  \E c \in Checks : c = job.check /\ ~ NoneLost(c)'
<1>1. PICK c \in Checks : c = job.check
  BY DEF IInv, LocalsFollow, IsLost, Recording, Jobs
<1>2. /\ Len(poll[c]) \in Nat /\ fetched[c] \in Nat /\ Accounted(c) = Len(poll[c]) + 1
      /\ Accounted(c) <= fetched[c]
  BY <1>1, AccountKind DEF AccountInv, Accounted, IsLost
<1>3. Accounted(c)' = Len(poll[c]) /\ fetched'[c] = fetched[c]
  BY DEF Accounted, IsLost, disk
<1> QED
  BY <1>1, <1>2, <1>3 DEF NoneLost

\* A document of a check whose polls are all accounted for names the poll it was
\* made of.
LEMMA NormFits ==
    ASSUME IInv, DocumentsInv, CollectorAssumption, InsertNorm, NEW c \in Checks, c = job.check,
           NoneLost(c)
    PROVE  DocumentsFit(c)'
<1> DEFINE rows == poll[c]
           docs == normalisation[c]
           more == normalisation'[c]
           n == Len(docs)
           m == Len(rows)
<1>1. /\ c \in Checks /\ n \in Nat /\ DOMAIN docs = 1 .. n /\ DOMAIN more = 1 .. (n + 1)
      /\ \A i \in 1 .. n : more[i] = docs[i]
      /\ rows # << >> => more[n + 1].fields.poll_id = m
      /\ more[n + 1].fields.doc = job.doc
  BY NormAppended
<1>2. pc = "insertNorm" /\ poll' = poll
  BY DEF InsertNorm
<1>3. DocumentsFit(c) /\ LastIsCurrent(c) /\ job.doc = extract[job.content]
  BY <1>1, <1>2 DEF DocumentsInv
<1>4. /\ rows # << >> /\ rows[m].fields.ok /\ rows[m].fields.content = job.content
      /\ \A i \in 1 .. n : docs[i].fields.poll_id < m
  BY <1>1, <1>2, <1>3 DEF LastIsCurrent, Transforming
<1>5. m \in DOMAIN rows
  BY <1>1, <1>4 DEF IInv, TypeOK
<1>6. \A i \in 1 .. n : LET row == docs[i].fields
                        IN  /\ row.poll_id \in DOMAIN rows
                            /\ rows[row.poll_id].fields.ok
                            /\ extract[rows[row.poll_id].fields.content] = row.doc
                            /\ \A j \in 1 .. n : i < j => row.poll_id < docs[j].fields.poll_id
  BY <1>1, <1>3 DEF DocumentsFit
<1>7. DocumentsFit(c)' <=>
        \A i \in DOMAIN more :
           LET row == more[i].fields
           IN  /\ row.poll_id \in DOMAIN rows
               /\ rows[row.poll_id].fields.ok
               /\ extract[rows[row.poll_id].fields.content] = row.doc
               /\ \A j \in DOMAIN more : i < j => row.poll_id < more[j].fields.poll_id
  BY <1>2 DEF DocumentsFit
<1> HIDE DEF more, docs, rows, n, m
<1>8. \A i \in 1 .. (n + 1) : i \in 1 .. n \/ i = n + 1
  BY <1>1
<1>9. ASSUME NEW i \in 1 .. n
      PROVE  LET row == more[i].fields
             IN  /\ row.poll_id \in DOMAIN rows
                 /\ rows[row.poll_id].fields.ok
                 /\ extract[rows[row.poll_id].fields.content] = row.doc
                 /\ \A j \in 1 .. (n + 1) : i < j => row.poll_id < more[j].fields.poll_id
  BY <1>1, <1>4, <1>6, <1>8
<1>10. LET row == more[n + 1].fields
       IN  /\ row.poll_id \in DOMAIN rows
           /\ rows[row.poll_id].fields.ok
           /\ extract[rows[row.poll_id].fields.content] = row.doc
  BY <1>1, <1>3, <1>4, <1>5
<1>11. \A j \in 1 .. (n + 1) : ~ (n + 1 < j)
  BY <1>1
<1> QED
  BY <1>1, <1>7, <1>8, <1>9, <1>10, <1>11

\* The row of a poll that is ok is the one its document will name.
LEMMA PollFits ==
    ASSUME IInv, DocumentsInv, CollectorAssumption, InsertPoll, NEW c \in Checks, c = job.check,
           NoneLost(c)
    PROVE  DocumentsFit(c)' /\ LastIsCurrent(c)'
<1> DEFINE rows == poll[c]
           more == poll'[c]
           docs == normalisation[c]
           n == Len(rows)
<1>1. /\ c \in Checks /\ n \in Nat /\ DOMAIN rows = 1 .. n /\ DOMAIN more = 1 .. (n + 1)
      /\ Len(more) = n + 1 /\ more # << >>
      /\ \A i \in 1 .. n : more[i] = rows[i]
      /\ more[n + 1].fields.ok = job.ok /\ more[n + 1].fields.content = job.content
  BY PollAppended
<1>2. /\ normalisation' = normalisation
      /\ pc' \in Transforming => job.ok /\ job' = job
  BY DEF InsertPoll, AfterRecord, Settle, Transforming
<1>3. DocumentsFit(c)
  BY <1>1 DEF DocumentsInv
<1> HIDE DEF rows, more, n
<1>4. \A i \in DOMAIN docs : docs[i].fields.poll_id \in 1 .. n
  BY <1>1, <1>3 DEF DocumentsFit, rows
<1>5. DocumentsFit(c)'
  <2>1. ASSUME NEW i \in DOMAIN docs
        PROVE  LET row == docs[i].fields
               IN  /\ row.poll_id \in DOMAIN more
                   /\ more[row.poll_id].fields.ok
                   /\ extract[more[row.poll_id].fields.content] = row.doc
                   /\ \A j \in DOMAIN docs : i < j => row.poll_id < docs[j].fields.poll_id
    <3>1. docs[i].fields.poll_id \in 1 .. n /\ docs[i].fields.poll_id \in 1 .. (n + 1)
      BY <1>1, <1>4
    <3>2. more[docs[i].fields.poll_id] = rows[docs[i].fields.poll_id]
      BY <1>1, <3>1
    <3> QED
      BY <1>1, <1>3, <3>1, <3>2 DEF DocumentsFit, rows
  <2>2. normalisation'[c] = docs /\ poll'[c] = more
    BY <1>2 DEF more
  <2> HIDE DEF docs
  <2> QED
    BY <2>1, <2>2 DEF DocumentsFit
<1>6. \A i \in DOMAIN docs : docs[i].fields.poll_id < n + 1
  BY <1>1, <1>4
<1>7. LastIsCurrent(c)'
  BY <1>1, <1>2, <1>6 DEF LastIsCurrent, more
<1> QED
  BY <1>5, <1>7

\* Steps that log nothing leave the documents as they fit, and the current poll.
LEMMA QuietFits ==
    ASSUME UNCHANGED <<poll, normalisation>>, NEW c \in Checks, DocumentsFit(c),
           \/ pc' \notin Transforming
           \/ /\ pc \in Transforming /\ job'.check = job.check /\ job'.content = job.content
              /\ LastIsCurrent(c)
           \/ job'.check # c
    PROVE  DocumentsFit(c)' /\ LastIsCurrent(c)'
BY DEF DocumentsFit, LastIsCurrent

\* What a document is does not change once it was made.
LEMMA ExtractKept ==
    ASSUME IInv, DocumentsInv, CollectorAssumption, [Next]_vars
    PROVE  pc' \in {"derive", "insertNorm"} => job'.doc = extract[job'.content]
<1>1. CASE Transform
  <2>1. job \in Jobs
    BY <1>1 DEF IInv, LocalsFollow, Transform
  <2> QED
    BY <1>1, <2>1 DEF Transform, Settle, Jobs
<1>2. CASE Derive
  <2>1. job \in Jobs /\ job.doc = extract[job.content]
    BY <1>2 DEF IInv, LocalsFollow, Derive, DocumentsInv
  <2>2. job'.doc = job.doc /\ job'.content = job.content
    BY <1>2, <2>1 DEF Derive, Jobs
  <2> QED
    BY <2>1, <2>2
<1>3. CASE \/ Start \/ Crash \/ RecordPoll \/ WriteTmp \/ ReplaceTmp \/ ReadHead \/ InsertPoll
           \/ PollNotRecorded \/ InsertNorm \/ NormNotRecorded
  BY <1>3 DEF Start, Crash, RecordPoll, WriteTmp, ReplaceTmp, ReadHead, InsertPoll,
              PollNotRecorded, InsertNorm, NormNotRecorded, AfterRecord, Settle
<1>4. ASSUME NEW c \in Checks, Fetch(c)
      PROVE  pc' = "record"
  BY <1>4, FetchStarts DEF IInv
<1>5. CASE UNCHANGED vars
  BY <1>5 DEF vars, DocumentsInv
<1> QED
  BY <1>1, <1>2, <1>3, <1>4, <1>5 DEF Next, Proceed

\* One step, and what the documents say.
LEMMA DocumentsKeep ==
    ASSUME IInv, AccountInv, DocumentsInv, CollectorAssumption, [Next]_vars
    PROVE  DocumentsInv'
<1>1. ASSUME NEW c \in Checks, NoneLost(c)'
      PROVE  DocumentsFit(c)' /\ LastIsCurrent(c)'
  <2>1. NoneLost(c) /\ DocumentsFit(c) /\ LastIsCurrent(c)
    BY <1>1, AccountKeeps DEF DocumentsInv
  <2>2. ASSUME NEW d \in Checks, Begins(d)
        PROVE  DocumentsFit(c)' /\ LastIsCurrent(c)'
    BY <2>1, <2>2, QuietFits DEF Begins, Transforming, disk
  <2>3. CASE GoesOn
    <3>1. pc' \notin Transforming
      BY <2>3 DEF GoesOn, Recording, Transforming
    <3> QED
      BY <2>1, <2>3, <3>1, QuietFits DEF GoesOn
  <2>4. CASE IsLost
    <3>1. job.check # c
      BY <1>1, <2>4, LostIsLost
    <3> QED
      BY <2>1, <2>4, <3>1, QuietFits DEF IsLost, disk
  <2>5. CASE StandsStill
    BY <2>1, <2>5, QuietFits DEF StandsStill, disk
  <2>6. CASE InsertPoll
    <3>1. CASE c = job.check
      BY <2>1, <2>6, <3>1, PollFits
    <3>2. CASE c # job.check
      <4>1. poll'[c] = poll[c] /\ normalisation' = normalisation
        BY <2>6, <3>2, PollAppended DEF InsertPoll
      <4>2. pc' \in Transforming => job'.check # c
        BY <2>6, <3>2 DEF InsertPoll, AfterRecord, Settle, Transforming
      <4> QED
        BY <2>1, <4>1, <4>2 DEF DocumentsFit, LastIsCurrent
    <3> QED
      BY <3>1, <3>2
  <2>7. CASE InsertNorm
    <3>1. pc' \notin Transforming /\ poll' = poll
      BY <2>7 DEF InsertNorm, Settle, Transforming
    <3>2. LastIsCurrent(c)'
      BY <3>1 DEF LastIsCurrent
    <3>3. CASE c = job.check
      BY <2>1, <2>7, <3>2, <3>3, NormFits
    <3>4. CASE c # job.check
      <4>1. normalisation'[c] = normalisation[c]
        BY <2>7, <3>4, NormAppended
      <4> QED
        BY <2>1, <3>1, <3>2, <4>1 DEF DocumentsFit
    <3> QED
      BY <3>3, <3>4
  <2>8. CASE UNCHANGED vars
    BY <2>1, <2>8 DEF vars, disk, DocumentsFit, LastIsCurrent
  <2> QED
    BY <2>2, <2>3, <2>4, <2>5, <2>6, <2>7, <2>8, StepKinds
<1> QED
  BY <1>1, ExtractKept DEF DocumentsInv

\* An inserted row refers to what the rows before it did and to its own response.
LEMMA ReferencedAfterPoll ==
    ASSUME IInv, CollectorAssumption, InsertPoll
    PROVE  \A c \in Checks : /\ ReferencedBy(poll[c]) \subseteq ReferencedBy(poll'[c])
                             /\ c = job.check /\ job.content # NONE =>
                                  job.content \in ReferencedBy(poll'[c])
<1> SUFFICES ASSUME NEW c \in Checks
             PROVE  /\ ReferencedBy(poll[c]) \subseteq ReferencedBy(poll'[c])
                    /\ c = job.check /\ job.content # NONE =>
                         job.content \in ReferencedBy(poll'[c])
  OBVIOUS
<1>1. CASE c # job.check
  BY <1>1, PollAppended
<1>2. CASE c = job.check
  <2> DEFINE rows == poll[c]
             more == poll'[c]
             n == Len(rows)
  <2>1. /\ n \in Nat /\ DOMAIN rows = 1 .. n /\ DOMAIN more = 1 .. (n + 1)
        /\ \A i \in 1 .. n : more[i] = rows[i]
        /\ more[n + 1].fields.content = job.content
    BY <1>2, PollAppended
  <2> HIDE DEF rows, more, n
  <2>2. \A i \in DOMAIN rows : i \in DOMAIN more /\ more[i] = rows[i]
    BY <2>1
  <2>3. n + 1 \in DOMAIN more
    BY <2>1
  <2>4. ReferencedBy(rows) \subseteq ReferencedBy(more)
    BY <2>2 DEF ReferencedBy
  <2>5. job.content # NONE => job.content \in ReferencedBy(more)
    BY <2>1, <2>3 DEF ReferencedBy
  <2> QED
    BY <2>4, <2>5 DEF rows, more
<1> QED
  BY <1>1, <1>2

\* One step, and the files without a row.
LEMMA MessKeeps ==
    ASSUME IInv, AccountInv, MessInv, CollectorAssumption, [Next]_vars
    PROVE  MessInv'
<1> SUFFICES ASSUME \A c \in Checks : NoneLost(c)'
             PROVE  /\ \A b \in strays' : pc' = "replace" /\ b = job'.content
                    /\ \A b \in blobs' : \/ \E c \in Checks : b \in ReferencedBy(poll'[c])
                                         \/ pc' \in {"head", "insert"} /\ b = job'.content
  BY DEF MessInv
<1>1. \A c \in Checks : NoneLost(c)
  BY AccountKeeps
<1>2. /\ \A b \in strays : pc = "replace" /\ b = job.content
      /\ \A b \in blobs : \/ \E c \in Checks : b \in ReferencedBy(poll[c])
                          \/ pc \in {"head", "insert"} /\ b = job.content
  BY <1>1 DEF MessInv
<1>3. ~ IsLost
  BY LostIsLost
<1>4. ASSUME UNCHANGED disk, pc \notin {"replace", "head", "insert"}
      PROVE  strays' = {} /\ \A b \in blobs' : \E c \in Checks : b \in ReferencedBy(poll'[c])
  BY <1>2, <1>4 DEF disk
<1>5. CASE \E c \in Checks : Begins(c)
  BY <1>4, <1>5 DEF Begins
<1>6. CASE StandsStill
  BY <1>4, <1>6 DEF StandsStill, Recording
<1>7. CASE InsertNorm
  BY <1>2, <1>7 DEF InsertNorm
<1>8. CASE InsertPoll
  <2>1. pc = "insert" /\ strays' = strays /\ blobs' = blobs
    BY <1>8 DEF InsertPoll
  <2>2. job.check \in Checks /\ NONE \notin blobs
    BY <2>1 DEF IInv, TypeOK, LocalsFollow, Jobs, CollectorAssumption
  <2> QED
    BY <1>2, <1>8, <2>1, <2>2, ReferencedAfterPoll
<1>9. CASE GoesOn
  <2>1. CASE RecordPoll
    <3>1. /\ pc = "record" /\ UNCHANGED disk
      BY <2>1 DEF RecordPoll
    <3> QED
      BY <1>4, <3>1
  <2>2. CASE WriteTmp
    <3>1. /\ pc = "tmp" /\ pc' = "replace" /\ strays' = strays \cup {job.content}
          /\ job' = job /\ blobs' = blobs /\ poll' = poll
      BY <2>2 DEF WriteTmp
    <3> QED
      BY <1>2, <3>1
  <2>3. CASE ReplaceTmp
    <3>1. /\ pc = "replace" /\ pc' = "head" /\ strays' = strays \ {job.content}
          /\ blobs' = blobs \cup {job.content} /\ job' = job /\ poll' = poll
      BY <2>3 DEF ReplaceTmp
    <3> QED
      BY <1>2, <3>1
  <2>4. CASE ReadHead
    <3>1. pc = "head" /\ pc' = "insert" /\ UNCHANGED disk /\ job'.content = job.content
      BY <1>9, <2>4 DEF ReadHead, GoesOn
    <3> QED
      BY <1>2, <3>1 DEF disk
  <2>5. CASE UNCHANGED vars
    BY <1>2, <2>5 DEF vars, disk
  <2>6. RecordPoll \/ WriteTmp \/ ReplaceTmp \/ ReadHead \/ UNCHANGED vars
    <3>1. pc \in Recording /\ pc' \in Recording
      BY <1>9 DEF GoesOn
    <3>2. \A c \in Checks : ~ Fetch(c)
      BY <3>1, FetchBegins DEF IInv, Begins, Recording
    <3>3. ~ (\/ Start \/ Crash \/ InsertPoll \/ PollNotRecorded \/ Transform \/ Derive
             \/ InsertNorm \/ NormNotRecorded)
      BY <3>1 DEF Start, Crash, InsertPoll, PollNotRecorded, AfterRecord, Settle, Transform,
                  Derive, InsertNorm, NormNotRecorded, Recording
    <3> QED
      BY <3>2, <3>3 DEF Next, Proceed
  <2> QED
    BY <2>1, <2>2, <2>3, <2>4, <2>5, <2>6
<1>10. CASE UNCHANGED vars
  BY <1>2, <1>10 DEF vars, disk
<1> QED
  BY <1>3, <1>5, <1>6, <1>7, <1>8, <1>9, <1>10, StepKinds

\* Before the first poll nothing is lost and nothing lies about.
LEMMA LostInit ==
    ASSUME CollectorAssumption, Init
    PROVE  LostInv
<1>1. /\ Len(<< >>) = 0 /\ DOMAIN << >> = {} /\ 0 <= 0
  OBVIOUS
<1>2. AccountInv
  BY <1>1 DEF Init, AccountInv, Accounted, Recording
<1>3. DocumentsInv
  BY <1>1 DEF Init, DocumentsInv, DocumentsFit, LastIsCurrent, Transforming
<1>4. MessInv
  BY DEF Init, MessInv
<1> QED
  BY <1>2, <1>3, <1>4, InitIInv DEF LostInv

LEMMA LostNext ==
    ASSUME LostInv, CollectorAssumption, [Next]_vars
    PROVE  LostInv'
<1>1. AccountInv'
  BY AccountKeeps DEF LostInv, AccountInv
<1> QED
  BY <1>1, NextIInv, DocumentsKeep, MessKeeps DEF LostInv

\* While no poll of a check was lost, each of its documents names the poll it was
\* made of, whatever other polls crashed, were retried or left no document.
THEOREM DocumentsAlwaysNameTheirPolls == Spec => []DocumentsNameTheirPolls
<1>1. LostInv => DocumentsNameTheirPolls
  <2> SUFFICES ASSUME LostInv, NEW c \in Checks, Len(poll[c]) = fetched[c]
               PROVE  DocumentsFit(c)
    BY DEF DocumentsNameTheirPolls, DocumentsFit
  <2>1. NoneLost(c)
    <3>1. /\ Len(poll[c]) \in Nat /\ fetched[c] \in Nat /\ Accounted(c) <= fetched[c]
          /\ Accounted(c) \in {Len(poll[c]), Len(poll[c]) + 1}
      BY CollectorAssumption, AccountKind DEF LostInv, AccountInv, Accounted
    <3> QED
      BY <3>1 DEF NoneLost
  <2> QED
    BY <2>1 DEF LostInv, DocumentsInv
<1> QED
  BY <1>1, CollectorAssumption, LostInit, LostNext, PTL DEF Spec

\* An archive that lost no poll holds no .tmp file and no blob that no row names.
THEOREM MessIsAlwaysFromLostPolls == Spec => []MessOnlyFromLostPolls
<1>1. LostInv => MessOnlyFromLostPolls
  <2> SUFFICES ASSUME LostInv, pc = "idle", \A c \in Checks : Len(poll[c]) = fetched[c]
               PROVE  strays = {} /\ blobs = UNION {ReferencedBy(poll[c]) : c \in Checks}
    BY DEF MessOnlyFromLostPolls
  <2>1. \A c \in Checks : NoneLost(c)
    BY DEF NoneLost, Accounted, Recording
  <2>2. strays = {} /\ \A b \in blobs : \E c \in Checks : b \in ReferencedBy(poll[c])
    BY <2>1 DEF LostInv, MessInv
  <2>3. \A c \in Checks : ReferencedBy(poll[c]) \subseteq blobs
    BY DEF LostInv, IInv, ResponsesRetained
  <2> QED
    BY <2>2, <2>3
<1> QED
  BY <1>1, CollectorAssumption, LostInit, LostNext, PTL DEF Spec
-----------------------------------------------------------------------------
\* One step logs at most one row of one check and drops nothing.
LEMMA StepAppends ==
    ASSUME IInv, CollectorAssumption, [Next]_vars
    PROVE  /\ blobs \subseteq blobs'
           /\ \A c \in Checks :
                 /\ poll'[c] # poll[c] =>
                       /\ Len(poll'[c]) = Len(poll[c]) + 1
                       /\ poll[c] = SubSeq(poll'[c], 1, Len(poll[c]))
                       /\ \A d \in Checks \ {c} : poll'[d] = poll[d]
                 /\ normalisation'[c] # normalisation[c] =>
                       /\ poll' = poll
                       /\ Len(normalisation'[c]) = Len(normalisation[c]) + 1
                       /\ normalisation[c] =
                             SubSeq(normalisation'[c], 1, Len(normalisation[c]))
<1>1. CASE InsertPoll
  <2>1. normalisation' = normalisation /\ blobs' = blobs
    BY <1>1 DEF InsertPoll
  <2>2. \A c \in Checks : poll'[c] # poll[c] => c = job.check
    BY <1>1, PollAppended
  <2> QED
    BY <1>1, <2>1, <2>2, PollAppended
<1>2. CASE InsertNorm
  <2>1. poll' = poll /\ blobs' = blobs
    BY <1>2 DEF InsertNorm
  <2>2. \A c \in Checks : normalisation'[c] # normalisation[c] => c = job.check
    BY <1>2, NormAppended
  <2> QED
    BY <1>2, <2>1, <2>2, NormAppended
<1>3. CASE GoesOn
  <2>1. blobs \subseteq blobs'
    <3>1. ~ (InsertPoll \/ InsertNorm)
      BY <1>3 DEF GoesOn, InsertPoll, InsertNorm, AfterRecord, Settle, Recording
    <3> QED
      BY <3>1, FetchStarts DEF IInv, Next, Proceed, Start, Crash, RecordPoll, WriteTmp, ReplaceTmp,
           ReadHead, PollNotRecorded, Transform, Derive, NormNotRecorded, disk, vars
  <2> QED
    BY <1>3, <2>1 DEF GoesOn
<1>4. CASE (\E c \in Checks : Begins(c)) \/ IsLost \/ StandsStill \/ UNCHANGED vars
  BY <1>4 DEF Begins, IsLost, StandsStill, vars, disk
<1> QED
  BY <1>1, <1>2, <1>3, <1>4, StepKinds

\* Neither chain is shortened or rewritten and no response is dropped, by any step.
THEOREM AlwaysAppendOnly == Spec => AppendOnly
<1>1. ASSUME IInv, CollectorAssumption, [Next]_vars
      PROVE  [ /\ blobs \subseteq blobs'
               /\ \A c \in Checks :
                     /\ poll'[c] # poll[c] =>
                           /\ Len(poll'[c]) = Len(poll[c]) + 1
                           /\ poll[c] = SubSeq(poll'[c], 1, Len(poll[c]))
                           /\ \A d \in Checks \ {c} : poll'[d] = poll[d]
                     /\ normalisation'[c] # normalisation[c] =>
                           /\ poll' = poll
                           /\ Len(normalisation'[c]) = Len(normalisation[c]) + 1
                           /\ normalisation[c] =
                                 SubSeq(normalisation'[c], 1, Len(normalisation[c]))
             ]_vars
  BY <1>1, StepAppends
<1> QED
  BY <1>1, CollectorAssumption, InitIInv, NextIInv, PTL DEF Spec, AppendOnly
-----------------------------------------------------------------------------
(* The status of a poll.  last_response is overwritten by the answer a fetch   *)
(* gets before the poll is recorded, and nothing overwrites it until then, so  *)
(* it is stale only in a poll that retains nothing.                            *)

Copied == {"tmp", "replace", "head", "insert"}

StatusInv ==
    /\ \A c \in Browser : last_response[c] = NONE
    /\ pc = "record" =>
          StatusFits(job.check, job.ok, last_response[job.check], job.content)
    /\ pc \in Copied => StatusFits(job.check, job.ok, job.http_status, job.content)
    /\ ContentHasItsOwnStatus

\* The locals a poll begins with are those its outcome gives it.
LEMMA NewJobIs ==
    ASSUME NEW c, NEW ok, NEW x, NEW s
    PROVE  /\ NewJob(c, ok, x, s).check = c /\ NewJob(c, ok, x, s).ok = ok
           /\ NewJob(c, ok, x, s).content = x
BY DEF NewJob

\* Whatever a fetch ends in, what it read has a status it can have come with.
LEMMA FetchFits ==
    ASSUME TypeOK, CollectorAssumption, StatusInv, NEW c \in Checks, Fetch(c)
    PROVE  /\ \A b \in Browser : last_response'[b] = NONE
           /\ StatusFits(job'.check, job'.ok, last_response'[job'.check], job'.content)
<1>1. last_response \in [Checks -> Statuses \cup {NONE}] /\ Browser \subseteq Checks
  BY DEF TypeOK, CollectorAssumption
<1>2. ASSUME NEW ok, NEW x, NEW s, Poll(c, NewJob(c, ok, x, s))
      PROVE  job'.check = c /\ job'.ok = ok /\ job'.content = x
  BY <1>2, NewJobIs DEF Poll
<1>3. CASE FetchAnswered(c)
  <2>1. PICK status \in Statuses, body \in Bodies :
          LET ok == status \in valid_http
              short == ok /\ body \in Short
          IN  /\ c \notin Browser
              /\ Poll(c, NewJob(c, ok /\ ~short,
                                IF short THEN BLANK ELSE decode[body], status))
              /\ last_response' = [last_response EXCEPT ![c] = status]
    BY <1>3 DEF FetchAnswered
  <2> DEFINE short == status \in valid_http /\ body \in Short
             good == status \in valid_http /\ ~short
             text == IF short THEN BLANK ELSE decode[body]
  <2>2. Poll(c, NewJob(c, good, text, status))
    BY <2>1
  <2> HIDE DEF good, text
  <2>3. job'.check = c /\ job'.ok = good /\ job'.content = text
    BY <1>2, <2>2
  <2>4. last_response'[c] = status /\ \A b \in Browser : last_response'[b] = NONE
    BY <1>1, <2>1 DEF StatusInv
  <2>5. StatusFits(c, good, status, text)
    BY <2>1 DEF StatusFits, good, text
  <2> QED
    BY <2>3, <2>4, <2>5
<1>4. CASE FetchRaised(c)
  <2>1. \E s : Poll(c, NewJob(c, FALSE, NONE, s))
    BY <1>4 DEF FetchRaised
  <2>2. job'.content = NONE
    BY <1>2, <2>1
  <2>3. \A b \in Browser : last_response'[b] = NONE
    BY <1>1, <1>4 DEF FetchRaised, StatusInv
  <2> QED
    BY <2>2, <2>3 DEF StatusFits
<1>5. CASE FetchBrowser(c)
  <2>1. PICK ok \in BOOLEAN, x \in Contents : Poll(c, NewJob(c, ok, x, NONE))
    BY <1>5 DEF FetchBrowser
  <2>2. job'.check = c
    BY <1>2, <2>1
  <2>3. c \in Browser /\ last_response' = last_response
    BY <1>5 DEF FetchBrowser
  <2> QED
    BY <2>2, <2>3 DEF StatusFits, StatusInv
<1> QED
  BY <1>3, <1>4, <1>5 DEF Fetch

\* The row inserted is that of the poll, and no other row changes.
LEMMA InsertFits ==
    ASSUME IInv, CollectorAssumption, StatusInv, InsertPoll
    PROVE  StatusInv'
<1>1. pc' \notin Copied \cup {"record"} /\ last_response' = last_response
  BY DEF InsertPoll, AfterRecord, Settle, Copied
<1>2. StatusFits(job.check, job.ok, job.http_status, job.content)
  BY DEF InsertPoll, StatusInv, Copied
<1>3. ContentHasItsOwnStatus'
  <2> SUFFICES ASSUME NEW c \in Checks, NEW i \in DOMAIN poll'[c]
               PROVE  LET row == poll'[c][i].fields
                      IN  StatusFits(c, row.ok, row.http_status, row.content)
    BY DEF ContentHasItsOwnStatus
  <2>1. CASE c # job.check
    <3>1. poll'[c] = poll[c]
      BY <2>1, PollAppended
    <3> QED
      BY <3>1 DEF StatusInv, ContentHasItsOwnStatus
  <2>2. CASE c = job.check
    <3> DEFINE n == Len(poll[c])
    <3>1. /\ n \in Nat /\ DOMAIN poll[c] = 1 .. n /\ DOMAIN poll'[c] = 1 .. (n + 1)
          /\ \A k \in 1 .. n : poll'[c][k] = poll[c][k]
          /\ poll'[c][n + 1].fields.ok = job.ok
          /\ poll'[c][n + 1].fields.content = job.content
          /\ poll'[c][n + 1].fields.http_status = job.http_status
      BY <2>2, PollAppended
    <3> HIDE DEF n
    <3>2. CASE i = n + 1
      BY <1>2, <2>2, <3>1, <3>2
    <3>3. CASE i \in 1 .. n
      <4>1. poll'[c][i] = poll[c][i] /\ i \in DOMAIN poll[c]
        BY <3>1, <3>3
      <4> QED
        BY <4>1 DEF StatusInv, ContentHasItsOwnStatus
    <3> QED
      BY <3>1, <3>2, <3>3
  <2> QED
    BY <2>1, <2>2
<1> QED
  BY <1>1, <1>3 DEF StatusInv

LEMMA StatusNext ==
    ASSUME IInv, CollectorAssumption, StatusInv, [Next]_vars
    PROVE  StatusInv'
<1>1. ASSUME NEW c \in Checks, Fetch(c)
      PROVE  StatusInv'
  <2>1. TypeOK
    BY DEF IInv
  <2>2. /\ pc' = "record" /\ poll' = poll
    BY <1>1, <2>1, FetchStarts DEF disk
  <2> QED
    BY <1>1, <2>1, <2>2, FetchFits DEF StatusInv, Copied, ContentHasItsOwnStatus
<1>2. CASE RecordPoll
  <2>1. job \in Jobs
    BY <1>2 DEF IInv, LocalsFollow, RecordPoll
  <2>2. /\ pc = "record" /\ pc' \in Copied /\ pc' # "record"
        /\ poll' = poll /\ last_response' = last_response
    BY <1>2 DEF RecordPoll, Copied, disk
  <2>3. /\ job'.http_status = last_response[job.check]
        /\ job'.check = job.check /\ job'.ok = job.ok /\ job'.content = job.content
    BY <1>2, <2>1 DEF RecordPoll, Jobs
  <2> QED
    BY <2>2, <2>3 DEF StatusInv, ContentHasItsOwnStatus
<1>3. CASE WriteTmp \/ ReplaceTmp \/ ReadHead
  <2>1. job \in Jobs
    BY <1>3 DEF IInv, LocalsFollow, WriteTmp, ReplaceTmp, ReadHead
  <2>2. /\ pc \in Copied /\ pc' # "record"
        /\ poll' = poll /\ last_response' = last_response
    BY <1>3 DEF WriteTmp, ReplaceTmp, ReadHead, Copied, disk
  <2>3. /\ job'.http_status = job.http_status
        /\ job'.check = job.check /\ job'.ok = job.ok /\ job'.content = job.content
    BY <1>3, <2>1 DEF WriteTmp, ReplaceTmp, ReadHead, Jobs
  <2> QED
    BY <2>2, <2>3 DEF StatusInv, ContentHasItsOwnStatus
<1>4. CASE InsertPoll
  BY <1>4, InsertFits
<1>5. CASE \/ Start \/ PollNotRecorded \/ Transform \/ Derive \/ InsertNorm
           \/ NormNotRecorded
  <2>1. /\ pc' \notin Copied \cup {"record"}
        /\ poll' = poll /\ last_response' = last_response
    BY <1>5 DEF Start, PollNotRecorded, Transform, Derive, InsertNorm, NormNotRecorded,
                AfterRecord, Settle, Copied, disk
  <2> QED
    BY <2>1 DEF StatusInv, ContentHasItsOwnStatus
<1>6. CASE Crash
  <2>1. /\ pc' = "down" /\ poll' = poll
        /\ \A c \in Checks : last_response'[c] = NONE
    BY <1>6 DEF Crash, disk
  <2> QED
    BY <2>1 DEF StatusInv, ContentHasItsOwnStatus, Copied, CollectorAssumption
<1>7. CASE UNCHANGED vars
  BY <1>7 DEF vars, disk, StatusInv, ContentHasItsOwnStatus
<1> QED
  BY <1>1, <1>2, <1>3, <1>4, <1>5, <1>6, <1>7 DEF Next, Proceed

LEMMA StatusInit == ASSUME CollectorAssumption, Init PROVE StatusInv
BY DEF Init, StatusInv, ContentHasItsOwnStatus, Copied, CollectorAssumption

\* For any statuses and bodies, any number of polls, and a process that may die
\* between any two steps: what is retained as a response is filed under a status
\* it can have come with.
THEOREM ContentAlwaysHasItsOwnStatus == Spec => []ContentHasItsOwnStatus
<1>1. Init => StatusInv
  BY StatusInit, CollectorAssumption
<1>2. IInv /\ StatusInv /\ [Next]_vars => StatusInv'
  BY StatusNext, CollectorAssumption
<1>3. StatusInv => ContentHasItsOwnStatus
  BY DEF StatusInv
<1> QED
  BY <1>1, <1>2, <1>3, Invariance, PTL DEF Spec
=============================================================================
