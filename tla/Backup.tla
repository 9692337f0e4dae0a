------------------------------- MODULE Backup -------------------------------
(***************************************************************************)
(* The nightly copy of a live archive (deploy/backup-archive.sh): fsck of  *)
(* the source, a snapshot of polls.db, copies of blobs/ and anchors/, the  *)
(* heads written into BACKUP.txt, verify and fsck of the copy, and only    *)
(* then the name, or on a remote the marker, that calls it complete.       *)
(*                                                                         *)
(* The collector, "archive annotate" and "archive anchor" go on beside it, *)
(* and so does fsck of the source: it reads blobs/, the log, the table     *)
(* anchor and anchors/ one after the other.  The staged copy is nobody     *)
(* else's, so its fsck is one step.                                        *)
(*                                                                         *)
(* polls.db is not replaced here and chains only grow, so a head is the    *)
(* number of rows below it (Anchoring has the general case).  A poll is    *)
(* told apart by the response it commits to.  A blob file never changes    *)
(* once it has its name.  Two annotations made at once may fork their      *)
(* chain (Annotations), and heads read while rows are added may be torn.   *)
(***************************************************************************)
EXTENDS Naturals, Sequences, FiniteSets, FiniteSetsExt, SequencesExt, Functions

CONSTANTS
    NONE,
    Contents,      \* responses
    Destinations,  \* the kinds of destination a run may be given: "local", "remote"
    MaxPolls,      \* bound: rows of the poll chain
    MaxNotes,      \* bound: rows of the annotation chain
    MaxAnchors,    \* bound: runs of "archive anchor"
    MaxDeaths      \* bound: processes that die or commands that fail by themselves

ASSUME BackupAssumption ==
    /\ NONE \notin Contents
    /\ Destinations \subseteq {"local", "remote"} /\ Destinations # {}
    /\ MaxPolls \in Nat /\ MaxNotes \in Nat /\ MaxAnchors \in Nat /\ MaxDeaths \in Nat

VARIABLES
    db,         \* polls.db: log, notes and forked (the annotation chain), anchor (table)
    blobs,      \* contents with a file in blobs/
    tmps,       \* contents with a .tmp file in blobs/
    manifests,  \* anchors/*.json: ref -> the entry it commits to
    proofs,     \* refs with a .ots file
    collector,  \* the poll being recorded: [at, content]
    anchor,     \* the running "archive anchor": [at, entry]
    backup,     \* the running backup
    backed_up,  \* the log of the newest copy that is called complete
    deaths      \* counter of the bound

source == <<db, blobs, tmps, manifests, proofs>>
vars == <<source, collector, anchor, backup, backed_up, deaths>>

Refs == 1 .. MaxAnchors
Heads == [polls : 0 .. MaxPolls, notes : 0 .. MaxNotes]
HeadsOf(d) == [polls |-> Len(d.log), notes |-> d.notes]

\* An entry of a manifest: two heads, the heads combined_head was made of, last_poll_id.
Entries == [polls : 0 .. MaxPolls, notes : 0 .. MaxNotes, combined : Heads, last : 0 .. MaxPolls]
EntryAt(d) == [polls |-> Len(d.log), notes |-> d.notes, combined |-> HeadsOf(d), last |-> Len(d.log)]

\* Chains rebuilt from a database.
Chains == [polls : 0 .. MaxPolls, notes : 0 .. MaxNotes, forked : BOOLEAN]
ChainsOf(d) == [polls |-> Len(d.log), notes |-> d.notes, forked |-> d.forked]

Databases ==
    [log : Seq(Contents), notes : 0 .. MaxNotes, forked : BOOLEAN, anchor : SUBSET Refs]
EmptyDb == [log |-> << >>, notes |-> 0, forked |-> FALSE, anchor |-> {}]

NoAnchor == [at |-> "idle", entry |-> EntryAt(EmptyDb)]

\* A copy of the archive: the directory a backup leaves, and what fsck reads.
EmptyCopy ==
    [db |-> EmptyDb, blobs |-> {}, manifests |-> [r \in {} |-> EntryAt(EmptyDb)],
     proofs |-> {}, declared |-> HeadsOf(EmptyDb)]

\* What fsck of the source holds between two of its reads.
NoFsck == [on_disk |-> {}, recorded |-> {}, expected |-> {},
           left |-> {}, chains |-> NONE, findings |-> {}]

\* began says what the source held when the run started; the script keeps no such value.
NoBackup == [at |-> "idle", began |-> [polls |-> 0, proofs |-> {}], fsck |-> NoFsck,
             listed |-> [blobs |-> {}, tmps |-> {}], staged |-> EmptyCopy,
             target |-> EmptyCopy]

Init ==
    /\ db = EmptyDb /\ blobs = {} /\ tmps = {}
    /\ manifests = EmptyCopy.manifests /\ proofs = {}
    /\ collector = [at |-> "idle", content |-> NONE]
    /\ anchor = NoAnchor
    /\ backup = NoBackup /\ backed_up = << >> /\ deaths = 0
-----------------------------------------------------------------------------
(* The collector and its annotations (Collector, Annotations). *)

Recording(at, x) ==
    /\ collector' = [at |-> at, content |-> x]
    /\ UNCHANGED <<manifests, proofs, anchor, backup, backed_up, deaths>>

PutBlob(x) ==
    /\ collector.at = "idle" /\ Len(db.log) < MaxPolls
    /\ \/ x \in blobs /\ Recording("insert", x) /\ UNCHANGED <<db, blobs, tmps>>
       \/ /\ x \notin blobs /\ Recording("replace", x)
          /\ tmps' = tmps \cup {x}
          /\ UNCHANGED <<db, blobs>>

ReplaceTmp ==
    /\ collector.at = "replace"
    /\ Recording("insert", collector.content)
    /\ blobs' = blobs \cup {collector.content}
    /\ tmps' = tmps \ {collector.content}
    /\ UNCHANGED db

InsertPoll ==
    /\ collector.at = "insert"
    /\ Recording("idle", NONE)
    /\ db' = [db EXCEPT !.log = Append(@, collector.content)]
    /\ UNCHANGED <<blobs, tmps>>

\* By an operator or the collector.  The row follows the last one, or the head was
\* read before another process added that one and the chain forks for good.
Annotate ==
    /\ db.notes < MaxNotes
    /\ \E forks \in BOOLEAN :
          /\ forks => db.notes > 0
          /\ db' = [db EXCEPT !.notes = @ + 1, !.forked = @ \/ forks]
    /\ UNCHANGED <<blobs, tmps, manifests, proofs, collector, anchor, backup, backed_up, deaths>>

Dies ==
    /\ deaths < MaxDeaths
    /\ deaths' = deaths + 1

CollectorDies ==
    /\ Dies /\ collector.at # "idle"
    /\ collector' = [at |-> "idle", content |-> NONE]
    /\ UNCHANGED <<source, anchor, backup, backed_up>>
-----------------------------------------------------------------------------
(* "archive anchor" (Anchoring): heads, manifest, proof, row. *)

AnchorStep(from, to) ==
    /\ anchor.at = from
    /\ anchor' = [NoAnchor EXCEPT !.at = to]
    /\ UNCHANGED <<blobs, tmps, collector, backup, backed_up, deaths>>

\* The first of the queries of head_components.
BeginHeads ==
    /\ anchor.at = "idle" /\ db.log # << >> /\ Cardinality(DOMAIN manifests) < MaxAnchors
    /\ anchor' = [at |-> "read", entry |-> EntryAt(db)]
    /\ UNCHANGED <<source, collector, backup, backed_up, deaths>>

(* The last of them.  Each is made in a connection of its own, so each sees any
   state from the first query on, none an earlier one than the query before it:
   poll_head, annotation_head, the two of combined_head, last_poll_id.          *)
ReadHeads ==
    /\ anchor.at = "read"
    /\ \E p \in anchor.entry.polls .. Len(db.log), n \in anchor.entry.notes .. db.notes :
       \E q \in p .. Len(db.log), m \in n .. db.notes :
       \E last \in q .. Len(db.log) :
          anchor' = [at |-> "write",
                     entry |-> [polls |-> p, notes |-> n,
                                combined |-> [polls |-> q, notes |-> m], last |-> last]]
    /\ UNCHANGED <<source, collector, backup, backed_up, deaths>>

ThisRef == Cardinality(DOMAIN manifests)

\* Mutant of WriteManifest: the manifest is stamped from memory and never written.
WriteNoManifest ==
    /\ AnchorStep("write", "stamp")
    /\ UNCHANGED <<db, manifests, proofs>>

WriteManifest ==
    /\ AnchorStep("write", "stamp")
    /\ manifests' = [r \in DOMAIN manifests \cup {ThisRef + 1} |->
                       IF r \in DOMAIN manifests THEN manifests[r] ELSE anchor.entry]
    /\ UNCHANGED <<db, proofs>>

\* The client leaves a proof, or fails and leaves none; the row is recorded all the same.
Stamp ==
    /\ AnchorStep("stamp", "record")
    /\ proofs' \in {proofs, proofs \cup {ThisRef}}
    /\ UNCHANGED <<db, manifests>>

RecordAnchor ==
    /\ AnchorStep("record", "idle")
    /\ db' = [db EXCEPT !.anchor = @ \cup {ThisRef}]
    /\ UNCHANGED <<manifests, proofs>>

AnchorDies ==
    /\ Dies /\ anchor.at # "idle"
    /\ anchor' = NoAnchor
    /\ UNCHANGED <<source, collector, backup, backed_up>>
-----------------------------------------------------------------------------
(* What verify and fsck say of chains, heads and files. *)

\* verify, where the only chain that may be broken is that of the annotations; of an
\* archive without polls it recomputes nothing.
Verifies(d) == d.log = << >> \/ ~d.forked

\* _check_manifest_entry.  Of a chain that is broken it is enough that it is reported.
EntryFindings(entry, chains) ==
    {kind \in {"anchor ahead of log", "head mismatch", "anchored head not in chain",
               "anchored chain broken", "combined head does not follow"} :
       \/ kind = "anchor ahead of log" /\ entry.last > chains.polls
       \/ kind = "head mismatch" /\ entry.last <= chains.polls /\ entry.polls # entry.last
       \/ kind = "anchored head not in chain" /\ entry.notes > chains.notes
       \/ kind = "anchored chain broken" /\ chains.forked
       \/ /\ kind = "combined head does not follow"
          /\ entry.combined # [polls |-> entry.polls, notes |-> entry.notes]}

\* What makes fsck fail on a copy nobody writes to.
CopyFindings(copy) ==
    {"missing blob" : x \in Range(copy.db.log) \ copy.blobs}
    \cup UNION {EntryFindings(copy.manifests[r], ChainsOf(copy.db)) : r \in DOMAIN copy.manifests}
    \cup {"missing proof" : r \in DOMAIN copy.manifests \ copy.proofs}
    \cup {"missing manifest" : r \in copy.db.anchor \ DOMAIN copy.manifests}
    \cup {"head not as declared" : h \in {copy.declared} \ {HeadsOf(copy.db)}}
-----------------------------------------------------------------------------
(* fsck of the source, read by read. *)

BackupStep(from, to) ==
    /\ backup.at = from /\ backup' = to
    /\ UNCHANGED <<source, collector, anchor, backed_up, deaths>>

\* The run ends: it printed BACKUP FAILED and left what it left.
GiveUp == NoBackup

\* verify of the source.
BeginBackup ==
    /\ backup.at \in {"idle", "complete"}
    /\ BackupStep(backup.at,
          IF Verifies(db)
          THEN [NoBackup EXCEPT !.at = "walk",
                                !.began = [polls |-> Len(db.log), proofs |-> proofs]]
          ELSE GiveUp)

\* fsck of the source begins with blobs/.
WalkBlobs == BackupStep("walk", [backup EXCEPT !.at = "referenced", !.fsck.on_disk = blobs])

ReadReferenced ==
    BackupStep("referenced", [backup EXCEPT !.at = "table",
        !.fsck.findings = {"missing blob" : x \in Range(db.log) \ backup.fsck.on_disk}])

ReadTable ==
    BackupStep("table", [backup EXCEPT !.at = "listing", !.fsck.recorded = db.anchor])

ListManifests ==
    BackupStep("listing", [backup EXCEPT !.at = "entries",
                             !.fsck.expected = DOMAIN manifests, !.fsck.left = DOMAIN manifests])

\* The next manifest, in order of name; the chains are rebuilt for the first.
CheckManifest ==
    LET fsck   == backup.fsck
        r      == Min(fsck.left)
        chains == IF fsck.chains = NONE THEN ChainsOf(db) ELSE fsck.chains
    IN  /\ fsck.left # {}
        /\ BackupStep("entries", [backup EXCEPT
              !.fsck.left = @ \ {r}, !.fsck.chains = chains,
              !.fsck.findings = @ \cup EntryFindings(manifests[r], chains)
                                  \cup {"missing proof" : q \in {r} \ proofs}])

\* Mutant of FinishFsck: polls no proof covers yet count as damage.
FinishFsckStrictly ==
    /\ backup.fsck.left = {}
    /\ BackupStep("entries",
          IF /\ backup.fsck.findings = {}
             /\ \E r \in proofs : manifests[r].polls = Len(db.log)
             /\ backup.fsck.recorded \subseteq backup.fsck.expected
          THEN [backup EXCEPT !.at = "snapshot"] ELSE GiveUp)

\* A manifest the table names must exist; only damage fails the check.
FinishFsck ==
    /\ backup.fsck.left = {}
    /\ BackupStep("entries",
          IF backup.fsck.findings = {} /\ backup.fsck.recorded \subseteq backup.fsck.expected
          THEN [backup EXCEPT !.at = "snapshot"] ELSE GiveUp)
-----------------------------------------------------------------------------
(* The copy. *)

\* Mutant of Snapshot: polls.db is copied as a file, and the last commit may still
\* be in its journal.
SnapshotOfFile ==
    \E log \in {db.log, SubSeq(db.log, 1, Len(db.log) - 1)} :
       BackupStep("snapshot", [backup EXCEPT !.at = "list", !.staged.db = [db EXCEPT !.log = log],
           !.fsck = [NoFsck EXCEPT !.expected = backup.fsck.expected]])

\* VACUUM INTO holds a read lock: one consistent state of polls.db.  Of what fsck
\* read, only what it expected is of use to a property later on.
Snapshot ==
    BackupStep("snapshot", [backup EXCEPT !.at = "list", !.staged.db = db,
        !.fsck = [NoFsck EXCEPT !.expected = backup.fsck.expected]])

ListBlobs ==
    BackupStep("list", [backup EXCEPT !.at = "blobs",
                          !.listed = [blobs |-> blobs, tmps |-> tmps]])

\* cp fails on a .tmp it listed that has been renamed since; a blob that appeared
\* since may be copied or not.
CopyBlobs ==
    \/ /\ backup.listed.tmps \subseteq tmps
       /\ \E late \in SUBSET (blobs \ backup.listed.blobs) :
             BackupStep("blobs", [backup EXCEPT !.at = "anchors", !.listed = NoBackup.listed,
                                    !.staged.blobs = backup.listed.blobs \cup late])
    \/ /\ ~ (backup.listed.tmps \subseteq tmps)
       /\ BackupStep("blobs", GiveUp)

\* Mutant of DeclaredHeads: the heads are those of the source.
HeadsOfSource(staged) == HeadsOf(db)

\* BACKUP.txt holds the heads of the staged polls.db.
DeclaredHeads(staged) == HeadsOf(staged.db)

CopyAnchors ==
    BackupStep("anchors", [backup EXCEPT !.at = "verify",
        !.staged.manifests = manifests, !.staged.proofs = proofs,
        !.staged.declared = DeclaredHeads(backup.staged)])

VerifyCopy ==
    BackupStep("verify", IF Verifies(backup.staged.db) /\ CopyFindings(backup.staged) = {}
                         THEN [backup EXCEPT !.at = "deliver"] ELSE GiveUp)

\* The copy has its name, or its marker; it lies there until the next run and after.
Complete(copy) ==
    /\ backed_up' = copy.db.log
    /\ backup' = [NoBackup EXCEPT !.at = "complete", !.began = backup.began, !.target = copy]
    /\ UNCHANGED <<source, collector, anchor, deaths>>

Rename ==
    /\ "local" \in Destinations /\ backup.at = "deliver"
    /\ Complete(backup.staged)

\* Storage is not trusted: files may be lost on the way.
Upload ==
    /\ "remote" \in Destinations
    /\ \E lost \in SUBSET backup.staged.blobs :
          BackupStep("deliver", [backup EXCEPT !.at = "compare",
                                   !.target = [backup.staged EXCEPT !.blobs = @ \ lost]])

CleanUpload == Upload /\ backup'.target = backup.staged

\* Mutant of Mark: the exit status of "rclone check" is not looked at.
MarkAnyway == backup.at = "compare" /\ Complete(backup.target)

\* The marker is written once the hashes agree.
Mark ==
    /\ backup.at = "compare" /\ backup.target = backup.staged
    /\ Complete(backup.target)

Mismatch ==
    /\ backup.target # backup.staged
    /\ BackupStep("compare", GiveUp)

\* A command fails (no space, no network), or the run is killed.
BackupDies ==
    /\ Dies /\ backup.at \notin {"idle", "complete"}
    /\ backup' = GiveUp
    /\ UNCHANGED <<source, collector, anchor, backed_up>>
-----------------------------------------------------------------------------
Collect == ReplaceTmp \/ InsertPoll \/ \E x \in Contents : PutBlob(x)

Anchor == BeginHeads \/ ReadHeads \/ WriteManifest \/ Stamp \/ RecordAnchor

Fsck ==
    WalkBlobs \/ ReadReferenced \/ ReadTable \/ ListManifests \/ CheckManifest \/ FinishFsck

CopyAndCheck ==
    \/ Snapshot \/ ListBlobs \/ CopyBlobs \/ CopyAnchors \/ VerifyCopy
    \/ Rename \/ Upload \/ Mark \/ Mismatch

Deaths == CollectorDies \/ AnchorDies \/ BackupDies

Next == Collect \/ Annotate \/ Anchor \/ BeginBackup \/ Fsck \/ CopyAndCheck \/ Deaths

\* The timer runs the backup every night whatever became of the last; a run that
\* nothing kills goes on to its end; not every upload loses something.
Fairness ==
    /\ WF_vars(BeginBackup) /\ WF_vars(Fsck) /\ WF_vars(CopyAndCheck)
    /\ SF_vars(CleanUpload)

Spec == Init /\ [][Next]_vars /\ Fairness
-----------------------------------------------------------------------------
(* Properties. *)

Copies == [db : Databases, blobs : SUBSET Contents, proofs : SUBSET Refs,
           declared : Heads, manifests : UNION {[R -> Entries] : R \in SUBSET Refs}]

Fscks == [on_disk : SUBSET Contents, recorded : SUBSET Refs, expected : SUBSET Refs,
          left : SUBSET Refs, chains : Chains \cup {NONE},
          findings : SUBSET {"missing blob", "missing proof", "anchor ahead of log",
                             "head mismatch", "anchored head not in chain",
                             "anchored chain broken", "combined head does not follow"}]

Backups == [at : {"idle", "walk", "referenced", "table", "listing", "entries", "snapshot", "list",
                  "blobs", "anchors", "verify", "deliver", "compare", "complete"},
            began : [polls : 0 .. MaxPolls, proofs : SUBSET Refs],
            fsck : Fscks, listed : [blobs : SUBSET Contents, tmps : SUBSET Contents],
            staged : Copies, target : Copies]

\* Every variable holds a value of its kind.
TypeOK ==
    /\ db \in Databases /\ Len(db.log) <= MaxPolls
    /\ blobs \subseteq Contents /\ tmps \subseteq Contents
    /\ \E n \in 0 .. MaxAnchors : manifests \in [1 .. n -> Entries]
    /\ proofs \subseteq DOMAIN manifests
    /\ collector \in [at : {"idle", "replace", "insert"}, content : Contents \cup {NONE}]
    /\ anchor \in [at : {"idle", "read", "write", "stamp", "record"}, entry : Entries]
    /\ backup \in Backups /\ backed_up \in Seq(Contents)
    /\ deaths \in 0 .. MaxDeaths

\* A copy that is called complete can be restored: its log is a part of the
\* source's up to some row, holds every poll and its anchors every proof there
\* was when the run began, every response its log commits to is in it, and fsck
\* passes.  Whatever was written, died or was lost meanwhile.
CompleteCopyIsWhole ==
    LET copy == backup.target
    IN  backup.at = "complete" =>
           /\ IsPrefix(copy.db.log, db.log)
           /\ Len(copy.db.log) >= backup.began.polls
           /\ backup.began.proofs \subseteq copy.proofs
           /\ Range(copy.db.log) \subseteq copy.blobs
           /\ Verifies(copy.db) /\ CopyFindings(copy) = {}

\* Polls and annotations one at a time never spoil a copy that is being taken: if
\* the staged copy fails its checks, it is because of an anchor taken since fsck of
\* the source listed anchors/, or two annotations made at once.
OnlyAnchorsOrForksSpoilACopy ==
    /\ backup.at = "verify"
    /\ ~Verifies(backup.staged.db) \/ CopyFindings(backup.staged) # {}
    => DOMAIN backup.staged.manifests # backup.fsck.expected \/ backup.staged.db.forked

\* The backup implements its promise: from one complete copy to the next, local or
\* remote and whatever failed in between, what can be restored is the log as it was
\* at some moment, and no poll that could once be restored is missing from it.
Promise == INSTANCE Restorable WITH history <- db.log, restorable <- backed_up

KeepsACopy == Promise!Spec

\* An entry whose heads were read while a row was added to one of the chains.
Torn(entry) == entry.polls # entry.last \/ entry.combined # [polls |-> entry.polls, notes |-> entry.notes]

\* Every poll reaches a complete copy, unless a manifest never gets its proof, the
\* annotation chain forks or a manifest holds a torn entry: fsck or verify of the
\* source fails for good then, though nothing was edited, and so does every backup.
EveryPollIsBackedUp ==
    \A n \in 1 .. MaxPolls :
       Len(db.log) >= n
         ~> \/ Len(backed_up) >= n
            \/ [](\/ DOMAIN manifests # proofs
                  \/ db.forked
                  \/ \E r \in DOMAIN manifests : Torn(manifests[r]))
=============================================================================
