---------------------------- MODULE Backup_proofs ----------------------------
(***************************************************************************)
(* That a copy called complete is whole, and that nothing but an anchor or *)
(* a fork spoils one, for any number of polls, annotations, anchors and    *)
(* deaths.                                                                 *)
(***************************************************************************)
EXTENDS Backup, FiniteSetTheorems, SequenceTheorems, TLAPS

Below(entry, d) == entry.last <= Len(d.log) /\ entry.notes <= d.notes

\* The source at any moment: every response the log commits to has its file, the
\* table names manifests there are, and they name heads the log has had.
SourceInv ==
    /\ Range(db.log) \subseteq blobs
    /\ collector.at = "insert" => collector.content \in blobs
    /\ collector.at # "idle" => collector.content \in Contents /\ Len(db.log) < MaxPolls
    /\ db.anchor \subseteq DOMAIN manifests
    /\ \A r \in DOMAIN manifests : Below(manifests[r], db)
    /\ anchor.at \in {"read", "write"} => Cardinality(DOMAIN manifests) < MaxAnchors
    /\ anchor.at = "write" => Below(anchor.entry, db)
    /\ anchor.at \in {"stamp", "record"} => DOMAIN manifests # {}

\* The source has not lost what it held when the run began.
BeganInv ==
    backup.at # "idle" =>
       backup.began.polls <= Len(db.log) /\ backup.began.proofs \subseteq proofs

\* A manifest fsck has nothing to say of.
Checked(ref) == ref \in proofs /\ ~ Torn(manifests[ref])

\* What fsck of the source has established: every manifest it has gone through is whole.
FsckInv ==
    /\ backup.at # "idle" => backup.fsck.expected \subseteq DOMAIN manifests
    /\ backup.at = "entries" /\ backup.fsck.findings = {} =>
         \A r \in backup.fsck.expected \ backup.fsck.left : Checked(r)
    /\ backup.at \in {"snapshot", "list", "blobs", "anchors", "verify"} =>
         \A r \in backup.fsck.expected : Checked(r)

\* A snapshot is a past of the source that the run's beginning is a past of.
IsSnapshot(copy) ==
    /\ IsPrefix(copy.db.log, db.log)
    /\ backup.began.polls <= Len(copy.db.log)

\* The staged copy, as far as it has come.
StagedInv ==
    LET staged == backup.staged
    IN  /\ backup.at \in {"list", "blobs", "anchors", "verify", "deliver", "compare"} =>
             /\ IsSnapshot(staged) /\ Range(staged.db.log) \subseteq blobs
             /\ staged.db.anchor \subseteq DOMAIN manifests
        /\ backup.at \in {"list", "blobs", "anchors", "verify"} =>
             \A r \in backup.fsck.expected : Below(manifests[r], staged.db)
        /\ backup.at = "blobs" => Range(staged.db.log) \subseteq backup.listed.blobs
        /\ backup.at \in {"anchors", "verify", "deliver", "compare"} =>
             Range(staged.db.log) \subseteq staged.blobs
        /\ backup.at \in {"verify", "deliver", "compare"} =>
             /\ backup.began.proofs \subseteq staged.proofs
             /\ staged.declared = HeadsOf(staged.db)
             /\ staged.db.anchor \subseteq DOMAIN staged.manifests
        /\ backup.at = "verify" =>
             \A r \in backup.fsck.expected :
                r \in DOMAIN staged.manifests => r \in staged.proofs
                                                 /\ staged.manifests[r] = manifests[r]
        /\ backup.at \in {"deliver", "compare"} => Verifies(staged.db) /\ CopyFindings(staged) = {}

IInv == TypeOK /\ SourceInv /\ BeganInv /\ FsckInv /\ StagedInv /\ CompleteCopyIsWhole
-----------------------------------------------------------------------------
(***************************************************************************)
(* Prefixes.                                                               *)
(***************************************************************************)

\* A sequence is a prefix of itself and of all it grows into.
LEMMA PrefixOfSelf ==
    ASSUME NEW S, NEW s \in Seq(S)
    PROVE  IsPrefix(s, s)
BY DEF IsPrefix

LEMMA PrefixOfGrown ==
    ASSUME NEW S, NEW s \in Seq(S), NEW t \in Seq(S), NEW e \in S, IsPrefix(s, t)
    PROVE  IsPrefix(s, Append(t, e))
<1> DEFINE n == Len(s)
           u == Append(t, e)
<1>1. n \in Nat /\ n <= Len(t) /\ Len(t) \in Nat /\ SubSeq(s, 1, n) = SubSeq(t, 1, n)
  BY DEF IsPrefix
<1>2. /\ u \in Seq(S) /\ Len(u) = Len(t) + 1
      /\ \A i \in 1 .. Len(t) : u[i] = t[i]
  OBVIOUS
<1> HIDE DEF n, u
<1>3. /\ SubSeq(t, 1, n) \in Seq(S) /\ Len(SubSeq(t, 1, n)) = n
      /\ \A i \in 1 .. n : SubSeq(t, 1, n)[i] = t[i]
  BY <1>1, SubSeqProperties
<1>4. /\ SubSeq(u, 1, n) \in Seq(S) /\ Len(SubSeq(u, 1, n)) = n
      /\ \A i \in 1 .. n : SubSeq(u, 1, n)[i] = u[i]
  BY <1>1, <1>2, SubSeqProperties
<1>5. \A i \in 1 .. n : SubSeq(t, 1, n)[i] = SubSeq(u, 1, n)[i]
  BY <1>1, <1>2, <1>3, <1>4
<1>6. SubSeq(t, 1, n) = SubSeq(u, 1, n)
  BY <1>3, <1>4, <1>5, SeqEqual
<1> QED
  BY <1>1, <1>2, <1>6 DEF IsPrefix, n, u

\* The rows of a log and one more.
LEMMA RangeOfGrown ==
    ASSUME NEW S, NEW s \in Seq(S), NEW e \in S
    PROVE  Range(Append(s, e)) = Range(s) \cup {e}
<1>1. /\ DOMAIN Append(s, e) = 1 .. (Len(s) + 1) /\ DOMAIN s = 1 .. Len(s) /\ Len(s) \in Nat
      /\ \A i \in 1 .. Len(s) : Append(s, e)[i] = s[i]
      /\ Append(s, e)[Len(s) + 1] = e
  OBVIOUS
<1> DEFINE u == Append(s, e)
<1> HIDE DEF u
<1>2. \A i \in DOMAIN u : (i \in DOMAIN s /\ u[i] = s[i]) \/ u[i] = e
  BY <1>1 DEF u
<1>3. \A i \in DOMAIN s : i \in DOMAIN u /\ u[i] = s[i]
  BY <1>1 DEF u
<1>4. Len(s) + 1 \in DOMAIN u /\ u[Len(s) + 1] = e
  BY <1>1 DEF u
<1>5. Range(u) = Range(s) \cup {e}
  BY <1>2, <1>3, <1>4 DEF Range
<1> QED
  BY <1>5 DEF u

\* Manifests are numbered, so the next number is free.
LEMMA NextManifest ==
    ASSUME TypeOK
    PROVE  /\ ThisRef \in 0 .. MaxAnchors /\ manifests \in [1 .. ThisRef -> Entries]
           /\ DOMAIN manifests = 1 .. ThisRef
<1>1. PICK n \in 0 .. MaxAnchors : manifests \in [1 .. n -> Entries]
  BY DEF TypeOK
<1>2. DOMAIN manifests = 1 .. n /\ n \in Nat
  BY <1>1
<1>3. Cardinality(1 .. n) = n
  BY <1>2, FS_Interval
<1> QED
  BY <1>1, <1>2, <1>3 DEF ThisRef
-----------------------------------------------------------------------------
(***************************************************************************)
(* The source only grows.                                                  *)
(***************************************************************************)

\* What is there stays, and what has been a past of the log stays one.
Grows ==
    /\ blobs \subseteq blobs' /\ proofs \subseteq proofs'
    /\ \A r \in DOMAIN manifests : r \in DOMAIN manifests' /\ manifests'[r] = manifests[r]
    /\ Len(db.log) <= Len(db'.log)
    /\ \A s \in Seq(Contents) : IsPrefix(s, db.log) => IsPrefix(s, db'.log)
    /\ UNCHANGED <<backup, backed_up>>

\* A step that leaves polls.db alone lets it grow by nothing.
LEMMA SameDatabaseGrows ==
    ASSUME TypeOK, db' = db, UNCHANGED <<backup, backed_up>>,
           blobs \subseteq blobs', proofs \subseteq proofs',
           \A r \in DOMAIN manifests : r \in DOMAIN manifests' /\ manifests'[r] = manifests[r]
    PROVE  Grows
<1>1. Len(db.log) \in Nat
  BY DEF TypeOK, Databases
<1> QED
  BY <1>1 DEF Grows

\* The collector and the operator.
LEMMA CollectorGrows ==
    ASSUME TypeOK, SourceInv, Collect \/ Annotate \/ CollectorDies
    PROVE  TypeOK' /\ SourceInv' /\ Grows
<1>1. /\ db \in Databases /\ db.log \in Seq(Contents) /\ db.notes \in Nat /\ Len(db.log) \in Nat
      /\ db.anchor \in SUBSET Refs
  BY DEF TypeOK, Databases
<1>2. /\ collector \in [at : {"idle", "replace", "insert"}, content : Contents \cup {NONE}]
      /\ deaths \in 0 .. MaxDeaths
  BY DEF TypeOK
<1>3. CASE \E x \in Contents : PutBlob(x)
  <2>1. PICK x \in Contents : PutBlob(x)
    BY <1>3
  <2>2. /\ Len(db.log) < MaxPolls
        /\ \/ x \in blobs /\ collector' = [at |-> "insert", content |-> x] /\ tmps' = tmps
           \/ x \notin blobs /\ collector' = [at |-> "replace", content |-> x] /\ tmps' = tmps \cup {x}
        /\ db' = db /\ blobs' = blobs
        /\ UNCHANGED <<manifests, proofs, anchor, backup, backed_up, deaths>>
    BY <2>1 DEF PutBlob, Recording
  <2>3. TypeOK'
    BY <2>2 DEF TypeOK
  <2>4. SourceInv'
    BY <2>2 DEF SourceInv, Below
  <2>5. Grows
    BY <2>2, SameDatabaseGrows
  <2> QED
    BY <2>3, <2>4, <2>5
<1>4. CASE ReplaceTmp
  <2>1. /\ collector.at = "replace" /\ collector' = [at |-> "insert", content |-> collector.content]
        /\ blobs' = blobs \cup {collector.content} /\ tmps' = tmps \ {collector.content}
        /\ db' = db /\ UNCHANGED <<manifests, proofs, anchor, backup, backed_up, deaths>>
    BY <1>4 DEF ReplaceTmp, Recording
  <2>2. collector.content \in Contents /\ Len(db.log) < MaxPolls
    BY <2>1 DEF SourceInv
  <2>3. TypeOK'
    BY <2>1, <2>2 DEF TypeOK
  <2>4. SourceInv'
    BY <2>1, <2>2 DEF SourceInv, Below
  <2>5. Grows
    BY <2>1, SameDatabaseGrows
  <2> QED
    BY <2>3, <2>4, <2>5
<1>5. CASE InsertPoll
  <2> DEFINE x == collector.content
             log == Append(db.log, x)
  <2>1. /\ collector.at = "insert" /\ collector' = [at |-> "idle", content |-> NONE]
        /\ db' = [db EXCEPT !.log = log] /\ blobs' = blobs /\ tmps' = tmps
        /\ UNCHANGED <<manifests, proofs, anchor, backup, backed_up, deaths>>
    BY <1>5 DEF InsertPoll, Recording
  <2>2. x \in Contents /\ x \in blobs /\ Len(db.log) < MaxPolls
    BY <2>1 DEF SourceInv
  <2>3. /\ log \in Seq(Contents) /\ Len(log) = Len(db.log) + 1 /\ Range(log) = Range(db.log) \cup {x}
        /\ \A s \in Seq(Contents) : IsPrefix(s, db.log) => IsPrefix(s, log)
    BY <1>1, <2>2, RangeOfGrown, PrefixOfGrown
  <2> HIDE DEF x, log
  <2>4. db' \in Databases /\ db'.log = log /\ db'.notes = db.notes /\ db'.anchor = db.anchor
    BY <1>1, <2>1, <2>3 DEF Databases
  <2>5. TypeOK'
    BY <1>1, <2>1, <2>2, <2>3, <2>4, BackupAssumption DEF TypeOK
  <2>6. \A r \in DOMAIN manifests : manifests[r].last \in Nat
    BY NextManifest DEF Entries
  <2>7. anchor.entry.last \in Nat
    BY DEF TypeOK, Entries
  <2>8. SourceInv'
    BY <1>1, <2>1, <2>2, <2>3, <2>4, <2>6, <2>7 DEF SourceInv, Below
  <2>9. Grows
    BY <1>1, <2>1, <2>3, <2>4 DEF Grows
  <2> QED
    BY <2>5, <2>8, <2>9
<1>6. CASE Annotate
  <2>0. PICK forks \in BOOLEAN :
          db' = [db EXCEPT !.notes = db.notes + 1, !.forked = db.forked \/ forks]
    BY <1>6 DEF Annotate
  <2> DEFINE forked == db.forked \/ forks
  <2>1. /\ db.notes < MaxNotes /\ db' = [db EXCEPT !.notes = db.notes + 1, !.forked = forked]
        /\ UNCHANGED <<blobs, tmps, manifests, proofs, collector, anchor, backup, backed_up, deaths>>
    BY <1>6, <2>0 DEF Annotate
  <2>10. forked \in BOOLEAN
    OBVIOUS
  <2> HIDE DEF forked
  <2>11. db.notes + 1 \in 0 .. MaxNotes
    BY <1>1, <2>1, BackupAssumption
  <2>2. db' \in Databases /\ db'.log = db.log /\ db'.notes = db.notes + 1 /\ db'.anchor = db.anchor
    BY <1>1, <2>1, <2>10, <2>11 DEF Databases
  <2>3. TypeOK'
    BY <2>1, <2>2 DEF TypeOK
  <2>4. \A r \in DOMAIN manifests : manifests[r].notes \in Nat
    BY NextManifest DEF Entries
  <2>5. anchor.entry.notes \in Nat
    BY DEF TypeOK, Entries
  <2>6. SourceInv'
    BY <1>1, <2>1, <2>2, <2>4, <2>5 DEF SourceInv, Below
  <2>7. Grows
    BY <1>1, <2>1, <2>2 DEF Grows
  <2> QED
    BY <2>3, <2>6, <2>7
<1>7. CASE CollectorDies
  <2>1. /\ collector' = [at |-> "idle", content |-> NONE] /\ deaths < MaxDeaths /\ deaths' = deaths + 1
        /\ UNCHANGED <<db, blobs, tmps, manifests, proofs, anchor, backup, backed_up>>
    BY <1>7 DEF CollectorDies, Dies, source
  <2>5. deaths' \in 0 .. MaxDeaths
    BY <1>2, <2>1, BackupAssumption
  <2>2. TypeOK'
    BY <2>1, <2>5 DEF TypeOK
  <2>3. SourceInv'
    BY <2>1 DEF SourceInv, Below
  <2>4. Grows
    BY <2>1, SameDatabaseGrows
  <2> QED
    BY <2>2, <2>3, <2>4
<1> QED
  BY <1>3, <1>4, <1>5, <1>6, <1>7 DEF Collect

\* A run of "archive anchor" that holds nothing.
LEMMA NoAnchorKind ==
    /\ EntryAt(EmptyDb) \in Entries /\ HeadsOf(EmptyDb) \in Heads
    /\ NoAnchor = [at |-> "idle", entry |-> EntryAt(EmptyDb)]
<1>1. EmptyDb.log = << >> /\ Len(<< >>) = 0 /\ EmptyDb.notes = 0
  BY DEF EmptyDb
<1> QED
  BY <1>1, BackupAssumption DEF EntryAt, Entries, HeadsOf, Heads, NoAnchor

\* "archive anchor".
LEMMA AnchorGrows ==
    ASSUME TypeOK, SourceInv, Anchor \/ AnchorDies
    PROVE  TypeOK' /\ SourceInv' /\ Grows
<1>1. /\ db \in Databases /\ db.log \in Seq(Contents) /\ db.notes \in 0 .. MaxNotes
      /\ Len(db.log) \in 0 .. MaxPolls /\ db.anchor \in SUBSET Refs
  BY DEF TypeOK, Databases
<1>2. /\ anchor \in [at : {"idle", "read", "write", "stamp", "record"}, entry : Entries]
      /\ deaths \in 0 .. MaxDeaths
  BY DEF TypeOK
<1>9. ASSUME NEW to \in {"idle", "stamp", "record"}
      PROVE  /\ [NoAnchor EXCEPT !.at = to].at = to
             /\ [NoAnchor EXCEPT !.at = to]
                  \in [at : {"idle", "read", "write", "stamp", "record"}, entry : Entries]
  BY NoAnchorKind
<1>8. CASE BeginHeads
  <2>1. /\ anchor' = [at |-> "read", entry |-> EntryAt(db)] /\ Cardinality(DOMAIN manifests) < MaxAnchors
        /\ UNCHANGED <<db, blobs, tmps, manifests, proofs, collector, backup, backed_up, deaths>>
    BY <1>8 DEF BeginHeads, source
  <2>2. EntryAt(db) \in Entries
    BY <1>1 DEF EntryAt, Entries, HeadsOf, Heads
  <2>3. TypeOK'
    BY <2>1, <2>2 DEF TypeOK
  <2>4. SourceInv'
    BY <2>1 DEF SourceInv, Below
  <2>5. Grows
    BY <2>1, SameDatabaseGrows
  <2> QED
    BY <2>3, <2>4, <2>5
<1>3. CASE ReadHeads
  <2>0. anchor.entry \in Entries /\ anchor.entry.polls \in Nat /\ anchor.entry.notes \in Nat
    BY <1>2 DEF Entries
  <2>1. PICK p \in anchor.entry.polls .. Len(db.log), n \in anchor.entry.notes .. db.notes :
        \E q \in p .. Len(db.log), m \in n .. db.notes :
        \E last \in q .. Len(db.log) :
           anchor' = [at |-> "write",
                      entry |-> [polls |-> p, notes |-> n,
                                 combined |-> [polls |-> q, notes |-> m], last |-> last]]
    BY <1>3 DEF ReadHeads
  <2>2. PICK q \in p .. Len(db.log), m \in n .. db.notes :
        \E last \in q .. Len(db.log) :
           anchor' = [at |-> "write",
                      entry |-> [polls |-> p, notes |-> n,
                                 combined |-> [polls |-> q, notes |-> m], last |-> last]]
    BY <2>1
  <2>3. PICK last \in q .. Len(db.log) :
           anchor' = [at |-> "write",
                      entry |-> [polls |-> p, notes |-> n,
                                 combined |-> [polls |-> q, notes |-> m], last |-> last]]
    BY <2>2
  <2>4. /\ p \in 0 .. MaxPolls /\ q \in 0 .. MaxPolls /\ last \in 0 .. MaxPolls
        /\ n \in 0 .. MaxNotes /\ m \in 0 .. MaxNotes
        /\ last <= Len(db.log) /\ n <= db.notes
    <3> DEFINE polls == Len(db.log)
               notes == db.notes
               p0 == anchor.entry.polls
               n0 == anchor.entry.notes
    <3>1. polls \in 0 .. MaxPolls /\ notes \in 0 .. MaxNotes /\ p0 \in Nat /\ n0 \in Nat
      BY <1>1, <2>0
    <3>2. p \in p0 .. polls /\ q \in p .. polls /\ last \in q .. polls
      OBVIOUS
    <3>3. n \in n0 .. notes /\ m \in n .. notes
      OBVIOUS
    <3> HIDE DEF polls, notes, p0, n0
    <3>4. /\ p \in 0 .. MaxPolls /\ q \in 0 .. MaxPolls /\ last \in 0 .. MaxPolls
          /\ last <= polls
      BY <3>1, <3>2, BackupAssumption
    <3>5. n \in 0 .. MaxNotes /\ m \in 0 .. MaxNotes /\ n <= notes
      BY <3>1, <3>3, BackupAssumption
    <3> QED
      BY <3>4, <3>5 DEF polls, notes
  <2> DEFINE entry == [polls |-> p, notes |-> n,
                       combined |-> [polls |-> q, notes |-> m], last |-> last]
  <2>5. entry \in Entries /\ Below(entry, db)
    BY <2>4 DEF Entries, Heads, Below
  <2>6. anchor' = [at |-> "write", entry |-> entry]
    BY <2>3
  <2>7. /\ anchor.at = "read"
        /\ UNCHANGED <<db, blobs, tmps, manifests, proofs, collector, backup, backed_up, deaths>>
    BY <1>3 DEF ReadHeads, source
  <2> HIDE DEF entry
  <2>8. TypeOK'
    BY <2>5, <2>6, <2>7 DEF TypeOK
  <2>9. SourceInv'
    BY <2>5, <2>6, <2>7 DEF SourceInv, Below
  <2>10. Grows
    BY <2>7, SameDatabaseGrows
  <2> QED
    BY <2>8, <2>9, <2>10
<1>4. CASE WriteManifest
  <2> DEFINE n == ThisRef
  <2>1. /\ anchor.at = "write" /\ anchor' = [NoAnchor EXCEPT !.at = "stamp"]
        /\ manifests' = [r \in DOMAIN manifests \cup {n + 1} |->
                           IF r \in DOMAIN manifests THEN manifests[r] ELSE anchor.entry]
        /\ UNCHANGED <<db, blobs, tmps, proofs, collector, backup, backed_up, deaths>>
    BY <1>4 DEF WriteManifest, AnchorStep
  <2>2. n \in Nat /\ n < MaxAnchors /\ Below(anchor.entry, db) /\ anchor.entry \in Entries
    BY <1>2, <2>1, NextManifest DEF SourceInv, ThisRef
  <2>3. manifests \in [1 .. n -> Entries]
    BY NextManifest
  <2> HIDE DEF n
  <2>4. manifests' \in [1 .. (n + 1) -> Entries] /\ n + 1 \in 0 .. MaxAnchors
        /\ \A r \in DOMAIN manifests : r \in DOMAIN manifests' /\ manifests'[r] = manifests[r]
    BY <2>1, <2>2, <2>3, BackupAssumption
  <2>5. \A r \in DOMAIN manifests' : Below(manifests'[r], db)
    BY <2>1, <2>2 DEF SourceInv
  <2>6. anchor'.at = "stamp"
        /\ anchor' \in [at : {"idle", "read", "write", "stamp", "record"}, entry : Entries]
    BY <1>9, <2>1
  <2>7. TypeOK'
    <3>1. proofs' \subseteq DOMAIN manifests'
      BY <2>1, <2>4 DEF TypeOK
    <3> QED
      BY <2>1, <2>4, <2>6, <3>1 DEF TypeOK
  <2>8. SourceInv'
    <3>1. n + 1 \in DOMAIN manifests'
      BY <2>1
    <3>2. db'.anchor \subseteq DOMAIN manifests'
      BY <2>1, <2>4 DEF SourceInv
    <3> QED
      BY <2>1, <2>5, <2>6, <3>1, <3>2 DEF SourceInv, Below
  <2>9. Grows
    BY <2>1, <2>4, SameDatabaseGrows
  <2> QED
    BY <2>7, <2>8, <2>9
<1>5. CASE Stamp
  <2>1. /\ anchor.at = "stamp" /\ anchor' = [NoAnchor EXCEPT !.at = "record"]
        /\ proofs' \in {proofs, proofs \cup {ThisRef}}
        /\ UNCHANGED <<db, blobs, tmps, manifests, collector, backup, backed_up, deaths>>
    BY <1>5 DEF Stamp, AnchorStep
  <2>2. ThisRef \in DOMAIN manifests
    BY <2>1, NextManifest DEF SourceInv
  <2>6. anchor'.at = "record"
        /\ anchor' \in [at : {"idle", "read", "write", "stamp", "record"}, entry : Entries]
    BY <1>9, <2>1
  <2>3. TypeOK'
    BY <2>1, <2>2, <2>6 DEF TypeOK
  <2>4. SourceInv'
    BY <2>1, <2>2, <2>6 DEF SourceInv, Below
  <2>5. Grows
    BY <2>1, SameDatabaseGrows
  <2> QED
    BY <2>3, <2>4, <2>5
<1>6. CASE RecordAnchor
  <2>1. /\ anchor.at = "record" /\ anchor' = [NoAnchor EXCEPT !.at = "idle"]
        /\ db' = [db EXCEPT !.anchor = db.anchor \cup {ThisRef}]
        /\ UNCHANGED <<blobs, tmps, manifests, proofs, collector, backup, backed_up, deaths>>
    BY <1>6 DEF RecordAnchor, AnchorStep
  <2>2. ThisRef \in DOMAIN manifests /\ ThisRef \in Refs
    BY <2>1, NextManifest DEF SourceInv, Refs
  <2>3. /\ db' \in Databases /\ db'.log = db.log /\ db'.notes = db.notes
        /\ db'.anchor = db.anchor \cup {ThisRef}
    BY <1>1, <2>1, <2>2 DEF Databases
  <2>4. anchor'.at = "idle" /\ anchor' \in [at : {"idle", "read", "write", "stamp", "record"}, entry : Entries]
    BY <1>9, <2>1
  <2>5. TypeOK'
    BY <2>1, <2>3, <2>4 DEF TypeOK
  <2>6. SourceInv'
    BY <2>1, <2>2, <2>3, <2>4 DEF SourceInv, Below
  <2>7. Grows
    BY <1>1, <2>1, <2>3 DEF Grows
  <2> QED
    BY <2>5, <2>6, <2>7
<1>7. CASE AnchorDies
  <2>1. /\ anchor' = NoAnchor /\ deaths < MaxDeaths /\ deaths' = deaths + 1
        /\ UNCHANGED <<db, blobs, tmps, manifests, proofs, collector, backup, backed_up>>
    BY <1>7 DEF AnchorDies, Dies, source
  <2>2. anchor'.at = "idle" /\ anchor' \in [at : {"idle", "read", "write", "stamp", "record"}, entry : Entries]
    BY <2>1, NoAnchorKind
  <2>6. deaths' \in 0 .. MaxDeaths
    BY <1>2, <2>1, BackupAssumption
  <2>3. TypeOK'
    BY <2>1, <2>2, <2>6 DEF TypeOK
  <2>4. SourceInv'
    BY <2>1, <2>2 DEF SourceInv, Below
  <2>5. Grows
    BY <2>1, SameDatabaseGrows
  <2> QED
    BY <2>3, <2>4, <2>5
<1> QED
  BY <1>3, <1>4, <1>5, <1>6, <1>7, <1>8 DEF Anchor

\* What a backup has established outlives any growth of the source.
LEMMA BackupOutlivesGrowth ==
    ASSUME TypeOK, BeganInv, FsckInv, StagedInv, CompleteCopyIsWhole, TypeOK', Grows
    PROVE  BeganInv' /\ FsckInv' /\ StagedInv' /\ CompleteCopyIsWhole'
<1>1. /\ backup' = backup /\ Len(db.log) \in Nat /\ Len(db'.log) \in Nat
      /\ backup \in Backups
  BY DEF TypeOK, Databases, Grows
<1>2. /\ backup.began.polls \in Nat
      /\ backup.staged.db.log \in Seq(Contents) /\ backup.target.db.log \in Seq(Contents)
  BY <1>1 DEF Backups, Copies, Databases
<1>3. BeganInv'
  BY <1>1, <1>2 DEF BeganInv, Grows
<1>4. FsckInv'
  BY <1>1 DEF FsckInv, Checked, Grows
<1>5. StagedInv'
  <2>1. IsSnapshot(backup.staged) => IsSnapshot(backup.staged)'
    BY <1>1, <1>2 DEF IsSnapshot, Grows
  <2>2. \A r \in backup.fsck.expected : backup.at # "idle" => manifests'[r] = manifests[r]
    BY DEF FsckInv, Grows
  <2> QED
    BY <1>1, <2>1, <2>2 DEF StagedInv, Grows
<1>6. CompleteCopyIsWhole'
  BY <1>1, <1>2 DEF CompleteCopyIsWhole, Grows
<1> QED
  BY <1>3, <1>4, <1>5, <1>6
-----------------------------------------------------------------------------
(***************************************************************************)
(* The backup.                                                             *)
(***************************************************************************)

\* A step of the backup touches nothing else.
LEMMA SourceIsLeft ==
    ASSUME TypeOK, SourceInv, UNCHANGED <<source, collector, anchor>>,
           backup' \in Backups, backed_up' \in Seq(Contents), deaths' \in 0 .. MaxDeaths
    PROVE  TypeOK' /\ SourceInv'
BY DEF TypeOK, SourceInv, Below, source

\* The kinds of what a run holds, and of what it reads.
LEMMA BackupKinds ==
    ASSUME TypeOK
    PROVE  /\ backup \in Backups /\ NoBackup \in Backups /\ EmptyCopy \in Copies
           /\ backup.began.polls \in Nat
           /\ backup.staged \in Copies /\ backup.staged.db \in Databases
           /\ backup.staged.db.log \in Seq(Contents) /\ backup.target.db.log \in Seq(Contents)
           /\ db \in Databases /\ ChainsOf(db) \in Chains /\ Len(db.log) \in 0 .. MaxPolls
           /\ db.log \in Seq(Contents) /\ db.notes \in 0 .. MaxNotes
           /\ manifests \in UNION {[R -> Entries] : R \in SUBSET Refs} /\ DOMAIN manifests \subseteq Refs
           /\ proofs \subseteq Refs
<1>1. db \in Databases /\ ChainsOf(db) \in Chains /\ Len(db.log) \in 0 .. MaxPolls
      /\ db.log \in Seq(Contents) /\ db.notes \in 0 .. MaxNotes
  BY DEF TypeOK, Databases, ChainsOf, Chains
<1>2. PICK n \in 0 .. MaxAnchors : manifests \in [1 .. n -> Entries]
  BY DEF TypeOK
<1>3. 1 .. n \in SUBSET Refs
  BY <1>2, BackupAssumption DEF Refs
<1>4. manifests \in UNION {[R -> Entries] : R \in SUBSET Refs} /\ DOMAIN manifests \subseteq Refs
  BY <1>2, <1>3
<1>5. EmptyDb \in Databases /\ HeadsOf(EmptyDb) \in Heads
  <2>1. << >> \in Seq(Contents) /\ Len(<< >>) = 0
    OBVIOUS
  <2> QED
    BY <2>1, NoAnchorKind, BackupAssumption DEF EmptyDb, Databases
<1>6. EmptyCopy \in Copies
  <2>1. [r \in {} |-> EntryAt(EmptyDb)] \in UNION {[R -> Entries] : R \in SUBSET Refs}
    <3>1. [r \in {} |-> EntryAt(EmptyDb)] \in [{} -> Entries]
      OBVIOUS
    <3> QED
      BY <3>1
  <2> QED
    BY <1>5, <2>1 DEF EmptyCopy, Copies
<1>7. NoFsck \in Fscks
  BY DEF NoFsck, Fscks
<1>8. NoBackup \in Backups
  BY <1>6, <1>7, BackupAssumption DEF NoBackup, Backups
<1>9. backup \in Backups /\ proofs \subseteq Refs
  BY <1>4 DEF TypeOK
<1>10. /\ backup.began.polls \in Nat
       /\ backup.staged \in Copies /\ backup.staged.db \in Databases
       /\ backup.staged.db.log \in Seq(Contents) /\ backup.target.db.log \in Seq(Contents)
  BY <1>9 DEF Backups, Copies, Databases
<1> QED
  BY <1>1, <1>4, <1>6, <1>8, <1>9, <1>10

\* A run that has ended, or been given up, holds nothing.
LEMMA GivenUp ==
    ASSUME IInv, backup' = GiveUp, backed_up' = backed_up, deaths' \in 0 .. MaxDeaths,
           UNCHANGED <<source, collector, anchor>>
    PROVE  IInv'
<1>1. TypeOK' /\ SourceInv'
  BY SourceIsLeft, BackupKinds DEF IInv, GiveUp, TypeOK
<1>2. backup'.at = "idle"
  BY DEF GiveUp, NoBackup
<1> QED
  BY <1>1, <1>2 DEF IInv, BeganInv, FsckInv, StagedInv, CompleteCopyIsWhole

\* A run begins, or ends at once.
LEMMA BeginKeeps ==
    ASSUME IInv, BeginBackup
    PROVE  IInv'
<1> DEFINE began == [polls |-> Len(db.log), proofs |-> proofs]
<1>1. UNCHANGED <<source, collector, anchor, backed_up, deaths>>
  BY DEF BeginBackup, BackupStep
<1>2. CASE backup' = GiveUp
  BY <1>1, <1>2, GivenUp DEF IInv, TypeOK
<1>3. CASE backup' # GiveUp
  <2>1. backup' = [NoBackup EXCEPT !.at = "walk", !.began = began]
    BY <1>3 DEF BeginBackup, BackupStep
  <2>2. began \in [polls : 0 .. MaxPolls, proofs : SUBSET Refs]
    BY BackupKinds DEF IInv
  <2>3. NoBackup \in Backups /\ NoBackup.fsck.expected = {}
    BY BackupKinds DEF IInv, NoBackup, NoFsck
  <2> HIDE DEF began
  <2>4. /\ backup' \in Backups /\ backup'.at = "walk" /\ backup'.began = began
        /\ backup'.fsck.expected = {}
    BY <2>1, <2>2, <2>3 DEF Backups
  <2>5. TypeOK' /\ SourceInv'
    BY <1>1, <2>4, SourceIsLeft DEF IInv, TypeOK
  <2>6. db' = db /\ proofs' = proofs /\ Len(db.log) \in Nat
    BY <1>1, BackupKinds DEF source, IInv
  <2>7. began.polls = Len(db.log) /\ began.proofs = proofs
    BY DEF began
  <2> QED
    BY <2>4, <2>5, <2>6, <2>7 DEF IInv, BeganInv, FsckInv, StagedInv, CompleteCopyIsWhole
<1> QED
  BY <1>2, <1>3

\* An entry fsck finds nothing about was read in one piece, and one that was, and that
\* is below chains that do not fork, gives it nothing to find.
LEMMA NothingFoundIsWhole ==
    ASSUME NEW entry \in Entries, NEW chains \in Chains, EntryFindings(entry, chains) = {}
    PROVE  ~ Torn(entry)
<1>1. entry.last \in Nat /\ chains.polls \in Nat
  BY DEF Entries, Chains
<1>2. ~ (entry.last > chains.polls)
  BY DEF EntryFindings
<1>3. ~ (entry.last <= chains.polls /\ entry.polls # entry.last)
  BY DEF EntryFindings
<1>4. entry.combined = [polls |-> entry.polls, notes |-> entry.notes]
  BY DEF EntryFindings
<1> QED
  BY <1>1, <1>2, <1>3, <1>4 DEF Torn

LEMMA WholeIsNotFound ==
    ASSUME NEW entry \in Entries, NEW d \in Databases, ~ Torn(entry), Below(entry, d), ~ d.forked
    PROVE  EntryFindings(entry, ChainsOf(d)) = {}
<1>1. entry.last \in Nat /\ entry.notes \in Nat /\ Len(d.log) \in Nat /\ d.notes \in Nat
  BY DEF Entries, Databases
<1>2. /\ ~ (entry.last > Len(d.log)) /\ ~ (entry.notes > d.notes)
      /\ entry.polls = entry.last /\ entry.combined = [polls |-> entry.polls, notes |-> entry.notes]
  BY <1>1 DEF Below, Torn
<1> QED
  BY <1>2 DEF EntryFindings, ChainsOf

\* fsck of the source reads.
LEMMA FsckKeeps ==
    ASSUME IInv, WalkBlobs \/ ReadReferenced \/ ReadTable \/ ListManifests \/ CheckManifest
    PROVE  IInv'
<1>1. UNCHANGED <<source, collector, anchor, backed_up, deaths>>
  BY DEF WalkBlobs, ReadReferenced, ReadTable, ListManifests, CheckManifest, BackupStep
<1>2. backup \in Backups /\ db \in Databases /\ ChainsOf(db) \in Chains /\ DOMAIN manifests \subseteq Refs
  BY BackupKinds DEF IInv
<1>3. db.anchor \in SUBSET Refs
  BY <1>2 DEF Databases
<1>4. /\ backup.fsck \in Fscks /\ backup.fsck.findings \in SUBSET {"missing blob", "missing proof",
           "anchor ahead of log", "head mismatch", "anchored head not in chain",
           "anchored chain broken", "combined head does not follow"}
      /\ backup.fsck.left \in SUBSET Refs
  BY <1>2 DEF Backups, Fscks
<1>9. CASE WalkBlobs
  <2> DEFINE fsck == [backup.fsck EXCEPT !.on_disk = blobs]
  <2>1. /\ backup.at = "walk"
        /\ backup' = [backup EXCEPT !.at = "referenced", !.fsck.on_disk = blobs]
    BY <1>9 DEF WalkBlobs, BackupStep
  <2>2. fsck \in Fscks /\ fsck.expected = backup.fsck.expected
    BY <1>4 DEF Fscks, IInv, TypeOK
  <2>3. backup' = [backup EXCEPT !.at = "referenced", !.fsck = fsck]
    BY <2>1
  <2> HIDE DEF fsck
  <2>4. /\ backup' \in Backups /\ backup'.at = "referenced" /\ backup'.began = backup.began
        /\ backup'.fsck.expected = backup.fsck.expected
    BY <1>2, <2>2, <2>3 DEF Backups
  <2>5. TypeOK' /\ SourceInv'
    BY <1>1, <2>4, SourceIsLeft DEF IInv, TypeOK
  <2> QED
    BY <1>1, <2>1, <2>4, <2>5 DEF IInv, source, BeganInv, FsckInv, Checked, StagedInv, CompleteCopyIsWhole
<1>5. CASE ReadReferenced
  <2> DEFINE found == {"missing blob" : x \in Range(db.log) \ backup.fsck.on_disk}
             fsck == [backup.fsck EXCEPT !.findings = found]
  <2>1. /\ backup.at = "referenced"
        /\ backup' = [backup EXCEPT !.at = "table", !.fsck.findings = found]
    BY <1>5 DEF ReadReferenced, BackupStep
  <2>2. fsck \in Fscks /\ fsck.expected = backup.fsck.expected
    BY <1>4 DEF Fscks
  <2> HIDE DEF found
  <2>3. backup' = [backup EXCEPT !.at = "table", !.fsck = fsck]
    BY <2>1
  <2> HIDE DEF fsck
  <2>4. /\ backup' \in Backups /\ backup'.at = "table" /\ backup'.began = backup.began
        /\ backup'.fsck.expected = backup.fsck.expected
    BY <1>2, <2>2, <2>3 DEF Backups
  <2>5. TypeOK' /\ SourceInv'
    BY <1>1, <2>4, SourceIsLeft DEF IInv, TypeOK
  <2> QED
    BY <1>1, <2>1, <2>4, <2>5 DEF IInv, source, BeganInv, FsckInv, Checked, StagedInv, CompleteCopyIsWhole
<1>6. CASE ReadTable
  <2> DEFINE fsck == [backup.fsck EXCEPT !.recorded = db.anchor]
  <2>1. /\ backup.at = "table"
        /\ backup' = [backup EXCEPT !.at = "listing", !.fsck.recorded = db.anchor]
    BY <1>6 DEF ReadTable, BackupStep
  <2>2. fsck \in Fscks /\ fsck.expected = backup.fsck.expected
    BY <1>3, <1>4 DEF Fscks
  <2>3. backup' = [backup EXCEPT !.at = "listing", !.fsck = fsck]
    BY <2>1
  <2> HIDE DEF fsck
  <2>4. /\ backup' \in Backups /\ backup'.at = "listing" /\ backup'.began = backup.began
        /\ backup'.fsck.expected = backup.fsck.expected
    BY <1>2, <2>2, <2>3 DEF Backups
  <2>5. TypeOK' /\ SourceInv'
    BY <1>1, <2>4, SourceIsLeft DEF IInv, TypeOK
  <2> QED
    BY <1>1, <2>1, <2>4, <2>5 DEF IInv, source, BeganInv, FsckInv, Checked, StagedInv, CompleteCopyIsWhole
<1>7. CASE ListManifests
  <2> DEFINE fsck == [backup.fsck EXCEPT !.expected = DOMAIN manifests, !.left = DOMAIN manifests]
  <2>1. /\ backup.at = "listing"
        /\ backup' = [backup EXCEPT !.at = "entries", !.fsck.expected = DOMAIN manifests,
                                    !.fsck.left = DOMAIN manifests]
    BY <1>7 DEF ListManifests, BackupStep
  <2>2. fsck \in Fscks /\ fsck.expected = DOMAIN manifests /\ fsck.left = DOMAIN manifests
    BY <1>2, <1>4 DEF Fscks
  <2>3. backup' = [backup EXCEPT !.at = "entries", !.fsck = fsck]
    BY <1>2, <2>1 DEF Backups
  <2> HIDE DEF fsck
  <2>4. /\ backup' \in Backups /\ backup'.at = "entries" /\ backup'.began = backup.began
        /\ backup'.fsck.expected = DOMAIN manifests /\ backup'.fsck.left = DOMAIN manifests
    BY <1>2, <2>2, <2>3 DEF Backups
  <2>5. TypeOK' /\ SourceInv'
    BY <1>1, <2>4, SourceIsLeft DEF IInv, TypeOK
  <2> QED
    BY <1>1, <2>1, <2>4, <2>5 DEF IInv, source, BeganInv, FsckInv, Checked, StagedInv, CompleteCopyIsWhole
<1>8. CASE CheckManifest
  <2> DEFINE old == backup.fsck
             r == Min(old.left)
             chains == IF old.chains = NONE THEN ChainsOf(db) ELSE old.chains
             more == EntryFindings(manifests[r], chains)
             unproved == {"missing proof" : q \in {r} \ proofs}
             fsck == [old EXCEPT !.left = old.left \ {r}, !.chains = chains,
                                 !.findings = old.findings \cup more \cup unproved]
  <2>1. /\ backup.at = "entries"
        /\ backup' = [backup EXCEPT !.fsck.left = old.left \ {r}, !.fsck.chains = chains,
                         !.fsck.findings = old.findings \cup more \cup unproved]
    BY <1>8 DEF CheckManifest, BackupStep
  <2>2. chains \in Chains
    BY <1>2, <1>4 DEF Fscks
  <2>3. more \subseteq {"anchor ahead of log", "head mismatch", "anchored head not in chain",
                        "anchored chain broken", "combined head does not follow"}
    BY DEF EntryFindings
  <2>10. r \in DOMAIN manifests /\ more = {} => ~ Torn(manifests[r])
    <3>1. r \in DOMAIN manifests => manifests[r] \in Entries
      BY DEF IInv, TypeOK
    <3> HIDE DEF r, chains, more
    <3> QED
      BY <2>2, <3>1, NothingFoundIsWhole DEF more
  <2>11. backup.fsck.expected \subseteq DOMAIN manifests
    BY <2>1 DEF IInv, FsckInv
  <2>4. unproved \subseteq {"missing proof"} /\ (unproved = {} => r \in proofs)
    OBVIOUS
  <2> HIDE DEF r, chains, more, unproved
  <2>5. /\ fsck \in Fscks /\ fsck.expected = old.expected /\ fsck.left = old.left \ {r}
        /\ fsck.findings = old.findings \cup more \cup unproved
    BY <1>4, <2>2, <2>3, <2>4 DEF Fscks
  <2>6. backup' = [backup EXCEPT !.fsck = fsck]
    BY <1>2, <2>1 DEF Backups
  <2> HIDE DEF fsck
  <2>7. /\ backup' \in Backups /\ backup'.at = "entries" /\ backup'.began = backup.began
        /\ backup'.fsck = fsck
    BY <1>2, <2>1, <2>5, <2>6 DEF Backups
  <2>8. TypeOK' /\ SourceInv'
    BY <1>1, <2>7, SourceIsLeft DEF IInv, TypeOK
  <2>9. FsckInv'
    BY <1>1, <2>1, <2>4, <2>5, <2>7, <2>10, <2>11 DEF IInv, source, FsckInv, Checked
  <2> QED
    BY <1>1, <2>1, <2>7, <2>8, <2>9 DEF IInv, source, BeganInv, StagedInv, CompleteCopyIsWhole
<1> QED
  BY <1>5, <1>6, <1>7, <1>8, <1>9

\* fsck of the source passes or ends the run.
LEMMA FinishKeeps ==
    ASSUME IInv, FinishFsck
    PROVE  IInv'
<1>1. UNCHANGED <<source, collector, anchor, backed_up, deaths>> /\ backup.at = "entries"
  BY DEF FinishFsck, BackupStep
<1>2. backup \in Backups
  BY BackupKinds DEF IInv
<1>3. CASE backup' = GiveUp
  BY <1>1, <1>3, GivenUp DEF IInv, TypeOK
<1>4. CASE backup' # GiveUp
  <2>1. backup.fsck.left = {} /\ backup.fsck.findings = {} /\ backup' = [backup EXCEPT !.at = "snapshot"]
    BY <1>4 DEF FinishFsck, BackupStep
  <2>2. /\ backup' \in Backups /\ backup'.at = "snapshot" /\ backup'.began = backup.began
        /\ backup'.fsck = backup.fsck
    BY <1>2, <2>1 DEF Backups
  <2>3. TypeOK' /\ SourceInv'
    BY <1>1, <2>2, SourceIsLeft DEF IInv, TypeOK
  <2> QED
    BY <1>1, <2>1, <2>2, <2>3 DEF IInv, source, BeganInv, FsckInv, Checked, StagedInv, CompleteCopyIsWhole
<1> QED
  BY <1>3, <1>4

\* The snapshot, and the copies.
LEMMA SnapshotKeeps ==
    ASSUME IInv, Snapshot
    PROVE  IInv'
<1> DEFINE fsck == [NoFsck EXCEPT !.expected = backup.fsck.expected]
           staged == [backup.staged EXCEPT !.db = db]
<1>1. /\ UNCHANGED <<source, collector, anchor, backed_up, deaths>> /\ backup.at = "snapshot"
      /\ backup' = [backup EXCEPT !.at = "list", !.staged.db = db, !.fsck = fsck]
  BY DEF Snapshot, BackupStep
<1>2. /\ backup \in Backups /\ backup.staged \in Copies /\ db \in Databases /\ db.log \in Seq(Contents)
      /\ backup.fsck.expected \in SUBSET Refs
  BY BackupKinds DEF IInv, Backups, Fscks
<1>3. fsck \in Fscks /\ fsck.expected = backup.fsck.expected
  BY <1>2 DEF Fscks, NoFsck
<1>4. staged \in Copies /\ staged.db = db
  BY <1>2 DEF Copies
<1> HIDE DEF fsck
<1>5. backup' = [backup EXCEPT !.at = "list", !.staged = staged, !.fsck = fsck]
  BY <1>1
<1> HIDE DEF staged
<1>6. /\ backup' \in Backups /\ backup'.at = "list" /\ backup'.began = backup.began
      /\ backup'.fsck.expected = backup.fsck.expected /\ backup'.staged.db = db
  BY <1>2, <1>3, <1>4, <1>5 DEF Backups
<1>7. TypeOK' /\ SourceInv'
  BY <1>1, <1>6, SourceIsLeft DEF IInv, TypeOK
<1>8. IsPrefix(db.log, db.log)
  BY <1>2, PrefixOfSelf
<1>9. StagedInv'
  BY <1>1, <1>6, <1>8 DEF IInv, StagedInv, IsSnapshot, SourceInv, FsckInv, Checked, BeganInv, Below, source
<1> QED
  BY <1>1, <1>6, <1>7, <1>9 DEF IInv, source, BeganInv, FsckInv, Checked, CompleteCopyIsWhole

LEMMA CopiesKeep ==
    ASSUME IInv, ListBlobs \/ CopyBlobs \/ CopyAnchors
    PROVE  IInv'
<1>1. UNCHANGED <<source, collector, anchor, backed_up, deaths>>
  BY DEF ListBlobs, CopyBlobs, CopyAnchors, BackupStep
<1>2. /\ backup \in Backups /\ backup.staged \in Copies /\ backup.staged.db \in Databases
      /\ manifests \in UNION {[R -> Entries] : R \in SUBSET Refs} /\ proofs \subseteq Refs
      /\ blobs \subseteq Contents /\ tmps \subseteq Contents
      /\ backup.listed \in [blobs : SUBSET Contents, tmps : SUBSET Contents]
      /\ backup.staged.blobs \in SUBSET Contents
  BY BackupKinds DEF IInv, Backups, Copies, TypeOK
<1>3. CASE ListBlobs
  <2>1. backup.at = "list"
        /\ backup' = [backup EXCEPT !.at = "blobs", !.listed = [blobs |-> blobs, tmps |-> tmps]]
    BY <1>3 DEF ListBlobs, BackupStep
  <2>2. /\ backup' \in Backups /\ backup'.at = "blobs" /\ backup'.began = backup.began
        /\ backup'.fsck = backup.fsck /\ backup'.staged = backup.staged
        /\ backup'.listed.blobs = blobs
    BY <1>2, <2>1 DEF Backups
  <2>3. TypeOK' /\ SourceInv'
    BY <1>1, <2>2, SourceIsLeft DEF IInv, TypeOK
  <2> QED
    BY <1>1, <2>1, <2>2, <2>3 DEF IInv, source, BeganInv, FsckInv, Checked, StagedInv, IsSnapshot,
                                  CompleteCopyIsWhole
<1>4. CASE CopyBlobs
  <2>1. CASE backup' = GiveUp
    BY <1>1, <2>1, GivenUp DEF IInv, TypeOK
  <2>2. CASE backup' # GiveUp
    <3>1. PICK late \in SUBSET (blobs \ backup.listed.blobs) :
            /\ backup.at = "blobs"
            /\ backup' = [backup EXCEPT !.at = "anchors", !.listed = NoBackup.listed,
                                        !.staged.blobs = backup.listed.blobs \cup late]
      BY <1>4, <2>2 DEF CopyBlobs, BackupStep
    <3> DEFINE staged == [backup.staged EXCEPT !.blobs = backup.listed.blobs \cup late]
    <3>2. staged \in Copies /\ staged.db = backup.staged.db /\ backup.listed.blobs \subseteq staged.blobs
      BY <1>2 DEF Copies
    <3>3. backup' = [backup EXCEPT !.at = "anchors", !.listed = NoBackup.listed, !.staged = staged]
      BY <3>1
    <3> HIDE DEF staged
    <3>4. NoBackup.listed \in [blobs : SUBSET Contents, tmps : SUBSET Contents]
      BY DEF NoBackup
    <3>5. /\ backup' \in Backups /\ backup'.at = "anchors" /\ backup'.began = backup.began
          /\ backup'.fsck = backup.fsck /\ backup'.staged = staged
      BY <1>2, <3>2, <3>3, <3>4 DEF Backups
    <3>6. TypeOK' /\ SourceInv'
      BY <1>1, <3>5, SourceIsLeft DEF IInv, TypeOK
    <3> QED
      BY <1>1, <3>1, <3>2, <3>5, <3>6 DEF IInv, source, BeganInv, FsckInv, Checked, StagedInv, IsSnapshot,
                                          CompleteCopyIsWhole
  <2> QED
    BY <2>1, <2>2
<1>5. CASE CopyAnchors
  <2> DEFINE old == backup.staged
             staged == [old EXCEPT !.manifests = manifests, !.proofs = proofs,
                                   !.declared = HeadsOf(old.db)]
  <2>1. backup.at = "anchors"
        /\ backup' = [backup EXCEPT !.at = "verify", !.staged.manifests = manifests,
                         !.staged.proofs = proofs, !.staged.declared = HeadsOf(old.db)]
    BY <1>5 DEF CopyAnchors, BackupStep, DeclaredHeads
  <2>2. HeadsOf(old.db) \in Heads
    <3>1. IsPrefix(old.db.log, db.log)
      BY <2>1 DEF IInv, StagedInv, IsSnapshot
    <3>2. Len(old.db.log) \in Nat /\ Len(db.log) \in 0 .. MaxPolls /\ Len(old.db.log) <= Len(db.log)
      BY <1>2, <3>1, BackupKinds DEF IInv, IsPrefix, Databases
    <3>3. old.db.notes \in 0 .. MaxNotes
      BY <1>2 DEF Databases
    <3> QED
      BY <3>2, <3>3, BackupAssumption DEF HeadsOf, Heads
  <2>3. /\ staged \in Copies /\ staged.db = old.db /\ staged.blobs = old.blobs
        /\ staged.manifests = manifests /\ staged.proofs = proofs /\ staged.declared = HeadsOf(old.db)
    BY <1>2, <2>2 DEF Copies
  <2>4. backup' = [backup EXCEPT !.at = "verify", !.staged = staged]
    BY <1>2, <2>1 DEF Backups
  <2> HIDE DEF staged
  <2>5. /\ backup' \in Backups /\ backup'.at = "verify" /\ backup'.began = backup.began
        /\ backup'.fsck = backup.fsck /\ backup'.staged = staged
    BY <1>2, <2>3, <2>4 DEF Backups
  <2>6. TypeOK' /\ SourceInv'
    BY <1>1, <2>5, SourceIsLeft DEF IInv, TypeOK
  <2> QED
    BY <1>1, <2>1, <2>3, <2>5, <2>6 DEF IInv, source, BeganInv, FsckInv, Checked, StagedInv, IsSnapshot,
                                        CompleteCopyIsWhole
<1> QED
  BY <1>3, <1>4, <1>5

\* The checks of the copy, and what comes of it.
LEMMA DeliveryKeeps ==
    ASSUME IInv, VerifyCopy \/ Rename \/ Upload \/ Mark \/ Mismatch
    PROVE  IInv'
<1>1. UNCHANGED <<source, collector, anchor, deaths>>
  BY DEF VerifyCopy, Rename, Upload, Mark, Mismatch, BackupStep, Complete
<1>2. backup \in Backups /\ backup.staged \in Copies /\ deaths \in 0 .. MaxDeaths
      /\ backed_up \in Seq(Contents)
  BY BackupKinds DEF IInv, TypeOK
<1>3. CASE VerifyCopy
  <2>1. CASE backup' = GiveUp
    BY <1>1, <1>2, <1>3, <2>1, GivenUp DEF VerifyCopy, BackupStep
  <2>2. CASE backup' # GiveUp
    <3>1. /\ backup.at = "verify" /\ backed_up' = backed_up
          /\ Verifies(backup.staged.db) /\ CopyFindings(backup.staged) = {}
          /\ backup' = [backup EXCEPT !.at = "deliver"]
      BY <1>3, <2>2 DEF VerifyCopy, BackupStep
    <3>2. /\ backup' \in Backups /\ backup'.at = "deliver" /\ backup'.began = backup.began
          /\ backup'.fsck = backup.fsck /\ backup'.staged = backup.staged
      BY <1>2, <3>1 DEF Backups
    <3>3. TypeOK' /\ SourceInv'
      BY <1>1, <1>2, <3>1, <3>2, SourceIsLeft DEF IInv
    <3> QED
      BY <1>1, <3>1, <3>2, <3>3 DEF IInv, source, BeganInv, FsckInv, Checked, StagedInv, IsSnapshot,
                                    CompleteCopyIsWhole
  <2> QED
    BY <2>1, <2>2
<1>4. CASE Upload
  <2>1. PICK lost \in SUBSET backup.staged.blobs :
          /\ backup.at = "deliver" /\ backed_up' = backed_up
          /\ backup' = [backup EXCEPT !.at = "compare",
                           !.target = [backup.staged EXCEPT !.blobs = @ \ lost]]
    BY <1>4 DEF Upload, BackupStep
  <2> DEFINE target == [backup.staged EXCEPT !.blobs = @ \ lost]
  <2>2. target \in Copies
    BY <1>2 DEF Copies
  <2>3. backup' = [backup EXCEPT !.at = "compare", !.target = target]
    BY <2>1
  <2> HIDE DEF target
  <2>4. /\ backup' \in Backups /\ backup'.at = "compare" /\ backup'.began = backup.began
        /\ backup'.fsck = backup.fsck /\ backup'.staged = backup.staged
    BY <1>2, <2>2, <2>3 DEF Backups
  <2>5. TypeOK' /\ SourceInv'
    BY <1>1, <1>2, <2>1, <2>4, SourceIsLeft DEF IInv
  <2> QED
    BY <1>1, <2>1, <2>4, <2>5 DEF IInv, source, BeganInv, FsckInv, Checked, StagedInv, IsSnapshot,
                                  CompleteCopyIsWhole
<1>5. CASE Mismatch
  BY <1>1, <1>2, <1>5, GivenUp DEF Mismatch, BackupStep
<1>6. CASE Rename \/ Mark
  <2> DEFINE copy == backup.staged
             done == [NoBackup EXCEPT !.at = "complete", !.began = backup.began, !.target = copy]
  <2>1. /\ backup.at \in {"deliver", "compare"} /\ backed_up' = copy.db.log
        /\ backup' = done
    BY <1>6 DEF Rename, Mark, Complete
  <2>2. NoBackup \in Backups /\ NoBackup.fsck = NoFsck
    BY BackupKinds DEF IInv, NoBackup
  <2>3. /\ done \in Backups /\ done.at = "complete" /\ done.began = backup.began
        /\ done.target = copy /\ done.fsck = NoFsck
    BY <1>2, <2>2 DEF Backups
  <2> HIDE DEF done
  <2>4. /\ IsPrefix(copy.db.log, db.log) /\ backup.began.polls <= Len(copy.db.log)
        /\ backup.began.proofs \subseteq copy.proofs /\ Range(copy.db.log) \subseteq copy.blobs
        /\ Verifies(copy.db) /\ CopyFindings(copy) = {}
    BY <2>1 DEF IInv, StagedInv, IsSnapshot
  <2>5. Len(copy.db.log) \in 0 .. MaxPolls
    <3>1. Len(copy.db.log) \in Nat /\ Len(db.log) \in 0 .. MaxPolls /\ Len(copy.db.log) <= Len(db.log)
      BY <2>4, BackupKinds DEF IInv, IsPrefix
    <3> QED
      BY <3>1, BackupAssumption
  <2>6. TypeOK' /\ SourceInv'
    <3>1. copy.db.log \in Seq(Contents)
      BY BackupKinds DEF IInv
    <3> QED
      BY <1>1, <1>2, <2>1, <2>3, <3>1, SourceIsLeft DEF IInv
  <2>7. db' = db /\ proofs' = proofs /\ manifests' = manifests
    BY <1>1 DEF source
  <2>8. CompleteCopyIsWhole'
    <3>1. backup.began.polls \in Nat /\ Len(copy.db.log) \in Nat
      BY <2>5, BackupKinds DEF IInv
    <3> QED
      BY <2>1, <2>3, <2>4, <2>7, <3>1 DEF CompleteCopyIsWhole
  <2>9. BeganInv'
    BY <2>1, <2>3, <2>7 DEF IInv, BeganInv
  <2>10. FsckInv' /\ StagedInv'
    BY <2>1, <2>3, <2>7 DEF IInv, FsckInv, Checked, StagedInv, NoFsck
  <2> QED
    BY <2>6, <2>8, <2>9, <2>10 DEF IInv
<1> QED
  BY <1>3, <1>4, <1>5, <1>6
-----------------------------------------------------------------------------
(***************************************************************************)
(* Theorems.                                                               *)
(***************************************************************************)

\* Before the first poll and the first run.
LEMMA Initially ==
    ASSUME Init
    PROVE  IInv
<1>1. << >> \in Seq(Contents) /\ Len(<< >>) = 0 /\ DOMAIN << >> = {}
  OBVIOUS
<1>2. db = EmptyDb /\ db \in Databases /\ db.log = << >> /\ db.anchor = {}
  BY <1>1, BackupAssumption DEF Init, EmptyDb, Databases
<1>3. manifests \in [1 .. 0 -> Entries] /\ DOMAIN manifests = {}
  <2>1. manifests = [r \in {} |-> EntryAt(EmptyDb)]
    BY DEF Init, EmptyCopy
  <2>2. 1 .. 0 = {}
    OBVIOUS
  <2> QED
    BY <2>1, <2>2
<1>5. NoBackup \in Backups
  <2>1. EmptyCopy \in Copies
    <3>1. EmptyCopy.manifests \in [{} -> Entries]
      BY DEF EmptyCopy
    <3>2. EmptyCopy.manifests \in UNION {[R -> Entries] : R \in SUBSET Refs}
      BY <3>1
    <3> QED
      BY <1>2, <3>2, NoAnchorKind DEF EmptyCopy, Copies
  <2>2. NoFsck \in Fscks
    BY DEF NoFsck, Fscks
  <2> QED
    BY <2>1, <2>2, BackupAssumption DEF NoBackup, Backups
<1>4. anchor = [at |-> "idle", entry |-> EntryAt(EmptyDb)]
  BY NoAnchorKind DEF Init
<1>6. TypeOK
  BY <1>1, <1>2, <1>3, <1>4, <1>5, NoAnchorKind, BackupAssumption DEF Init, TypeOK
<1>7. SourceInv
  BY <1>1, <1>2, <1>3, <1>4 DEF Init, SourceInv, Range
<1>8. backup.at = "idle"
  BY DEF Init, NoBackup
<1> QED
  BY <1>6, <1>7, <1>8 DEF IInv, BeganInv, FsckInv, StagedInv, CompleteCopyIsWhole

\* One step of any process.
LEMMA Inductive ==
    ASSUME IInv, [Next]_vars
    PROVE  IInv'
<1>1. CASE Collect \/ Annotate \/ CollectorDies
  BY <1>1, CollectorGrows, BackupOutlivesGrowth DEF IInv
<1>2. CASE Anchor \/ AnchorDies
  BY <1>2, AnchorGrows, BackupOutlivesGrowth DEF IInv
<1>3. CASE BeginBackup
  BY <1>3, BeginKeeps
<1>4. CASE Fsck
  BY <1>4, FsckKeeps, FinishKeeps DEF Fsck
<1>5. CASE CopyAndCheck
  BY <1>5, SnapshotKeeps, CopiesKeep, DeliveryKeeps DEF CopyAndCheck
<1>6. CASE BackupDies
  <2>1. deaths' \in 0 .. MaxDeaths
    BY <1>6, BackupAssumption DEF BackupDies, Dies, IInv, TypeOK
  <2> QED
    BY <1>6, <2>1, GivenUp DEF BackupDies
<1>7. CASE UNCHANGED vars
  BY <1>7 DEF vars, source, IInv, TypeOK, SourceInv, BeganInv, FsckInv, Checked, StagedInv,
              IsSnapshot, CompleteCopyIsWhole, Below
<1> QED
  BY <1>1, <1>2, <1>3, <1>4, <1>5, <1>6, <1>7 DEF Next, Deaths

\* A staged copy that holds the manifests fsck of the source saw, and no other, passes
\* unless its annotation chain forks.
LEMMA SameAnchorsPass ==
    ASSUME IInv
    PROVE  OnlyAnchorsOrForksSpoilACopy
<1> DEFINE staged == backup.staged
<1> SUFFICES ASSUME backup.at = "verify", DOMAIN staged.manifests = backup.fsck.expected,
                    ~ staged.db.forked
             PROVE  Verifies(staged.db) /\ CopyFindings(staged) = {}
  BY DEF OnlyAnchorsOrForksSpoilACopy
<1>0. Verifies(staged.db)
  BY DEF Verifies
<1>1. Range(staged.db.log) \ staged.blobs = {}
  BY DEF IInv, StagedInv
<1>2. ASSUME NEW r \in DOMAIN staged.manifests
      PROVE  r \in staged.proofs /\ EntryFindings(staged.manifests[r], ChainsOf(staged.db)) = {}
  <2>1. r \in staged.proofs /\ staged.manifests[r] = manifests[r] /\ Below(manifests[r], staged.db)
    BY DEF IInv, StagedInv
  <2>2. r \in DOMAIN manifests /\ Checked(r)
    BY DEF IInv, FsckInv
  <2>3. manifests[r] \in Entries /\ ~ Torn(manifests[r])
    BY <2>2 DEF IInv, TypeOK, Checked
  <2>4. staged.db \in Databases
    BY BackupKinds DEF IInv
  <2> HIDE DEF staged
  <2>5. EntryFindings(manifests[r], ChainsOf(staged.db)) = {}
    BY <2>1, <2>3, <2>4, WholeIsNotFound
  <2> QED
    BY <2>1, <2>5
<1>3. staged.db.anchor \ DOMAIN staged.manifests = {} /\ {staged.declared} \ {HeadsOf(staged.db)} = {}
  BY DEF IInv, StagedInv
<1> HIDE DEF staged
<1>4. UNION {EntryFindings(staged.manifests[r], ChainsOf(staged.db)) : r \in DOMAIN staged.manifests} = {}
  BY <1>2
<1>5. DOMAIN staged.manifests \ staged.proofs = {}
  BY <1>2
<1> QED
  BY <1>0, <1>1, <1>3, <1>4, <1>5 DEF CopyFindings

\* Every variable holds a value of its kind.
THEOREM TypeCorrect == Spec => []TypeOK
<1>1. IInv => TypeOK
  BY DEF IInv
<1> QED
  BY <1>1, Initially, Inductive, PTL DEF Spec

\* A copy that is called complete can be restored, whatever was written, died or
\* got lost while it was taken.
THEOREM CompleteCopyIsAlwaysWhole == Spec => []CompleteCopyIsWhole
<1>1. IInv => CompleteCopyIsWhole
  BY DEF IInv
<1> QED
  BY <1>1, Initially, Inductive, PTL DEF Spec

\* Nothing but an anchor taken meanwhile, or annotations made at once, makes a staged
\* copy fail its checks.
THEOREM OnlyAnchorsOrForksEverSpoilACopy == Spec => []OnlyAnchorsOrForksSpoilACopy
BY SameAnchorsPass, Initially, Inductive, PTL DEF Spec
-----------------------------------------------------------------------------
(***************************************************************************)
(* From one complete copy to the next.  A run begins with no less than the *)
(* newest copy holds, and its snapshot is no less than it began with.      *)
(***************************************************************************)

NewestInv ==
    /\ IsPrefix(backed_up, db.log)
    /\ backup.at \notin {"idle", "complete"} => Len(backed_up) <= backup.began.polls

\* A prefix is the other sequence up to the prefix's length.
LEMMA PrefixIsSubSeq ==
    ASSUME NEW S, NEW s \in Seq(S), NEW t \in Seq(S), IsPrefix(s, t)
    PROVE  Len(s) \in 0 .. Len(t) /\ s = SubSeq(t, 1, Len(s))
<1>1. Len(s) \in Nat /\ Len(t) \in Nat /\ Len(s) <= Len(t)
      /\ SubSeq(s, 1, Len(s)) = SubSeq(t, 1, Len(s))
  BY DEF IsPrefix
<1>2. SubSeq(s, 1, Len(s)) = s
  OBVIOUS
<1> QED
  BY <1>1, <1>2

\* The source grows under the newest copy.
LEMMA NewestOutlivesGrowth ==
    ASSUME IInv, NewestInv, Grows
    PROVE  NewestInv'
<1>1. backed_up \in Seq(Contents)
  BY DEF IInv, TypeOK
<1> QED
  BY <1>1 DEF NewestInv, Grows

\* What is logged, and what is not, is a step of the promise.
LEMMA GrowthMaps ==
    ASSUME IInv, Collect \/ Annotate \/ CollectorDies \/ Anchor \/ AnchorDies
    PROVE  /\ backed_up' = backed_up
           /\ db'.log = db.log \/ \E x \in Contents : db'.log = Append(db.log, x)
<1>1. db \in Databases
  BY BackupKinds DEF IInv
<1>2. CASE InsertPoll
  <2>1. collector.content \in Contents
    BY <1>2 DEF InsertPoll, IInv, SourceInv
  <2>2. db'.log = Append(db.log, collector.content) /\ backed_up' = backed_up
    BY <1>1, <1>2 DEF InsertPoll, Recording, Databases
  <2> QED
    BY <2>1, <2>2
<1>3. CASE ReplaceTmp \/ \E x \in Contents : PutBlob(x)
  BY <1>3 DEF ReplaceTmp, PutBlob, Recording
<1>4. CASE Annotate
  <2>1. PICK forks \in BOOLEAN :
          db' = [db EXCEPT !.notes = db.notes + 1, !.forked = db.forked \/ forks]
    BY <1>4 DEF Annotate
  <2> DEFINE forked == db.forked \/ forks
  <2> HIDE DEF forked
  <2>2. db' = [db EXCEPT !.notes = db.notes + 1, !.forked = forked]
    BY <2>1 DEF forked
  <2>3. db'.log = db.log
    BY <1>1, <2>2 DEF Databases
  <2> QED
    BY <1>4, <2>3 DEF Annotate
<1>5. CASE RecordAnchor
  BY <1>1, <1>5 DEF RecordAnchor, AnchorStep, Databases
<1>6. CASE BeginHeads \/ ReadHeads \/ WriteManifest \/ Stamp \/ CollectorDies \/ AnchorDies
  BY <1>6 DEF BeginHeads, ReadHeads, WriteManifest, Stamp, AnchorStep, CollectorDies, AnchorDies,
              source
<1> QED
  BY <1>2, <1>3, <1>4, <1>5, <1>6 DEF Collect, Anchor

\* A run goes on with what it began with, or is over, and completes nothing.
LEMMA RunGoesOn ==
    ASSUME IInv,
           Fsck \/ Snapshot \/ ListBlobs \/ CopyBlobs \/ CopyAnchors \/ VerifyCopy
             \/ Upload \/ Mismatch \/ BackupDies
    PROVE  /\ db' = db /\ backed_up' = backed_up
           /\ \/ backup'.at = "idle"
              \/ backup.at \notin {"idle", "complete"} /\ backup'.began = backup.began
<1>1. backup \in Backups
  BY BackupKinds DEF IInv
<1>2. NoBackup.at = "idle"
  BY DEF NoBackup
<1>3. db' = db /\ backed_up' = backed_up /\ backup.at \notin {"idle", "complete"}
  BY DEF Fsck, WalkBlobs, ReadReferenced, ReadTable, ListManifests, CheckManifest, FinishFsck, Snapshot,
         ListBlobs, CopyBlobs, CopyAnchors, VerifyCopy, Upload, Mismatch, BackupDies,
         BackupStep, source
<1>4. CASE WalkBlobs
  BY <1>1, <1>2, <1>3, <1>4 DEF WalkBlobs, BackupStep, GiveUp, Backups
<1>5. CASE ReadReferenced
  BY <1>1, <1>2, <1>3, <1>5 DEF ReadReferenced, BackupStep, GiveUp, Backups
<1>6. CASE ReadTable
  BY <1>1, <1>2, <1>3, <1>6 DEF ReadTable, BackupStep, GiveUp, Backups
<1>7. CASE ListManifests
  BY <1>1, <1>2, <1>3, <1>7 DEF ListManifests, BackupStep, GiveUp, Backups
<1>8. CASE CheckManifest
  BY <1>1, <1>2, <1>3, <1>8 DEF CheckManifest, BackupStep, GiveUp, Backups
<1>9. CASE FinishFsck
  BY <1>1, <1>2, <1>3, <1>9 DEF FinishFsck, BackupStep, GiveUp, Backups
<1>10. CASE Snapshot
  BY <1>1, <1>2, <1>3, <1>10 DEF Snapshot, BackupStep, GiveUp, Backups
<1>11. CASE ListBlobs
  BY <1>1, <1>2, <1>3, <1>11 DEF ListBlobs, BackupStep, GiveUp, Backups
<1>12. CASE CopyBlobs
  <2>1. CASE backup' = GiveUp
    BY <1>2, <1>3, <2>1 DEF GiveUp
  <2>2. CASE \E late \in SUBSET (blobs \ backup.listed.blobs) :
               backup' = [backup EXCEPT !.at = "anchors", !.listed = NoBackup.listed,
                                        !.staged.blobs = backup.listed.blobs \cup late]
    <3>1. PICK late : backup' = [backup EXCEPT !.at = "anchors", !.listed = NoBackup.listed,
                                   !.staged.blobs = backup.listed.blobs \cup late]
      BY <2>2
    <3>2. backup'.began = backup.began
      BY <1>1, <3>1 DEF Backups
    <3> QED
      BY <1>3, <3>2
  <2> QED
    BY <1>12, <2>1, <2>2 DEF CopyBlobs, BackupStep
<1>13. CASE CopyAnchors
  BY <1>1, <1>2, <1>3, <1>13 DEF CopyAnchors, BackupStep, GiveUp, Backups
<1>14. CASE VerifyCopy
  BY <1>1, <1>2, <1>3, <1>14 DEF VerifyCopy, BackupStep, GiveUp, Backups
<1>15. CASE Upload
  BY <1>1, <1>2, <1>3, <1>15 DEF Upload, BackupStep, GiveUp, Backups
<1>16. CASE Mismatch
  BY <1>1, <1>2, <1>3, <1>16 DEF Mismatch, BackupStep, GiveUp, Backups
<1>17. CASE BackupDies
  BY <1>1, <1>2, <1>3, <1>17 DEF BackupDies, BackupStep, GiveUp, Backups
<1> QED
  BY <1>3, <1>4, <1>5, <1>6, <1>7, <1>8, <1>9, <1>10, <1>11, <1>12, <1>13, <1>14, <1>15, <1>16,
     <1>17 DEF Fsck

\* A copy that takes its name has the log up to some row, and all that the newest
\* copy before it had.
LEMMA CompletionMaps ==
    ASSUME IInv, NewestInv, Rename \/ Mark
    PROVE  /\ NewestInv' /\ db' = db
           /\ \E n \in Len(backed_up) .. Len(db.log) : backed_up' = SubSeq(db.log, 1, n)
<1> DEFINE log == backup.staged.db.log
<1>1. /\ backup.at \in {"deliver", "compare"} /\ backed_up' = log /\ db' = db
      /\ backup'.at = "complete"
  <2>1. backup.at \in {"deliver", "compare"} /\ Complete(backup.staged)
    BY DEF Rename, Mark
  <2>2. NoBackup \in Backups
    BY BackupKinds DEF IInv
  <2>3. [NoBackup EXCEPT !.at = "complete", !.began = backup.began,
                         !.target = backup.staged].at = "complete"
    BY <2>2 DEF Backups
  <2> QED
    BY <2>1, <2>3 DEF Complete, source
<1>2. IsPrefix(log, db.log) /\ backup.began.polls <= Len(log)
  BY <1>1 DEF IInv, StagedInv, IsSnapshot
<1>3. /\ log \in Seq(Contents) /\ db.log \in Seq(Contents) /\ backup.began.polls \in Nat
      /\ backed_up \in Seq(Contents) /\ Len(backed_up) \in Nat
  BY BackupKinds DEF IInv, TypeOK
<1>4. Len(backed_up) <= backup.began.polls
  BY <1>1 DEF NewestInv
<1> HIDE DEF log
<1>5. Len(log) \in 0 .. Len(db.log) /\ log = SubSeq(db.log, 1, Len(log))
  BY <1>2, <1>3, PrefixIsSubSeq
<1>6. Len(db.log) \in Nat /\ Len(log) \in Nat
  BY <1>3
<1>7. Len(log) \in Len(backed_up) .. Len(db.log)
  BY <1>2, <1>3, <1>4, <1>5, <1>6
<1>8. NewestInv'
  BY <1>1, <1>2 DEF NewestInv
<1> QED
  BY <1>1, <1>5, <1>7, <1>8

\* Every step keeps the invariant, and is one of the promise or none.
LEMMA StepMaps ==
    ASSUME IInv, NewestInv, [Next]_vars
    PROVE  NewestInv' /\ [Promise!Next]_(Promise!vars)
<1>1. CASE Collect \/ Annotate \/ CollectorDies \/ Anchor \/ AnchorDies
  <2>1. NewestInv'
    BY <1>1, CollectorGrows, AnchorGrows, NewestOutlivesGrowth DEF IInv
  <2> QED
    BY <1>1, <2>1, GrowthMaps DEF Promise!Next, Promise!Log, Promise!vars
<1>2. CASE BeginBackup
  <2>1. db' = db /\ backed_up' = backed_up
    BY <1>2 DEF BeginBackup, BackupStep, source
  <2>2. backup'.at = "idle" \/ backup'.began.polls = Len(db.log)
    <3>1. NoBackup \in Backups /\ NoBackup.at = "idle"
      BY BackupKinds DEF IInv, NoBackup
    <3>2. \/ backup' = NoBackup
          \/ backup' = [NoBackup EXCEPT !.at = "walk",
                          !.began = [polls |-> Len(db.log), proofs |-> proofs]]
      BY <1>2 DEF BeginBackup, BackupStep, GiveUp
    <3>3. CASE backup' = NoBackup
      BY <3>1, <3>3
    <3>4. CASE backup' = [NoBackup EXCEPT !.at = "walk",
                            !.began = [polls |-> Len(db.log), proofs |-> proofs]]
      BY <3>1, <3>4 DEF Backups
    <3> QED
      BY <3>2, <3>3, <3>4
  <2>3. Len(backed_up) <= Len(db.log)
    BY DEF NewestInv, IsPrefix
  <2>4. NewestInv'
    BY <2>1, <2>2, <2>3 DEF NewestInv
  <2> QED
    BY <2>1, <2>4 DEF Promise!vars
<1>3. CASE Rename \/ Mark
  BY <1>3, CompletionMaps DEF Promise!Next, Promise!BackUp, Promise!vars
<1>4. CASE Fsck \/ Snapshot \/ ListBlobs \/ CopyBlobs \/ CopyAnchors \/ VerifyCopy
             \/ Upload \/ Mismatch \/ BackupDies
  <2>1. /\ db' = db /\ backed_up' = backed_up
        /\ \/ backup'.at = "idle"
           \/ backup.at \notin {"idle", "complete"} /\ backup'.began = backup.began
    BY <1>4, RunGoesOn
  <2> QED
    BY <2>1 DEF NewestInv, Promise!vars
<1>5. CASE UNCHANGED vars
  BY <1>5 DEF vars, source, NewestInv, Promise!vars
<1> QED
  BY <1>1, <1>2, <1>3, <1>4, <1>5 DEF Next, CopyAndCheck, Deaths

\* Nothing is logged and nothing restorable yet.
LEMMA InitMaps ==
    ASSUME Init
    PROVE  NewestInv /\ Promise!Init
<1>1. db.log = << >> /\ backed_up = << >> /\ backup.at = "idle"
  BY DEF Init, EmptyDb, NoBackup
<1>2. IsPrefix(<< >>, << >>)
  <2>1. << >> \in Seq(Contents)
    OBVIOUS
  <2> QED
    BY <2>1, PrefixOfSelf
<1> QED
  BY <1>1, <1>2 DEF NewestInv, Promise!Init

\* Backups, whatever is written beside them and whatever dies, implement their
\* promise: what the newest complete copy would bring back is the log as it was at
\* some moment, and it is never less than before.
THEOREM BackupKeepsThePromise == Spec => KeepsACopy
<1>1. Init => IInv /\ NewestInv /\ Promise!Init
  BY Initially, InitMaps
<1>2. IInv /\ NewestInv /\ [Next]_vars
         => IInv' /\ NewestInv' /\ [Promise!Next]_(Promise!vars)
  BY Inductive, StepMaps
<1> QED
  BY <1>1, <1>2, PTL DEF Spec, KeepsACopy, Promise!Spec
=============================================================================
