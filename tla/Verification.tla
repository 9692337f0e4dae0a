---------------------------- MODULE Verification ----------------------------
(***************************************************************************)
(* What the verifiers of an archive make of one that was edited:           *)
(* "archive verify" and "archive fsck" together (cli.py, integrity.py),    *)
(* deploy/verify_independently.py, which was written from the format's     *)
(* description and shares no code with them, and, on retained responses,   *)
(* deploy/audit_retained_responses.py.                                     *)
(*                                                                         *)
(* The collector, its annotations and "archive anchor" run one after the   *)
(* other here (Collector, Annotations and Anchoring have them step by      *)
(* step), and in between somebody with write access to the archive, a      *)
(* failing disk or a power cut changes anything in it: rows with or        *)
(* without their hashes, raw_ref, blobs, manifests, proofs, the table      *)
(* anchor and the BACKUP.txt of a restored copy.  The one thing out of     *)
(* reach is what a proof was stamped over.                                 *)
(*                                                                         *)
(* A file is modelled by the bytes it holds and a digest by the bytes it   *)
(* is of.  A blob has its own place, blobs/<digest[:2]>/, and may lie in   *)
(* another directory below blobs/ too.  The last row of a chain may be     *)
(* removed like any other, and the next row logged takes its place.        *)
(***************************************************************************)
EXTENDS ChainStore, SequencesExt

CONSTANTS
    Checks,
    Contents,     \* responses
    UNREADABLE,   \* bytes that are no gzip file, no manifest, no proof
    MaxPolls,     \* bound: rows of a poll chain
    MaxOthers,    \* bound: rows of a normalisation chain and of the annotation chain
    MaxAnchors,   \* bound: runs of "archive anchor"
    MaxEdits      \* bound: edits

ASSUME VerificationAssumption ==
    /\ NONE \notin Contents /\ UNREADABLE \notin Contents
    /\ MaxPolls \in Nat /\ MaxOthers \in Nat /\ MaxAnchors \in Nat /\ MaxEdits \in Nat

VARIABLES
    db,         \* polls.db
    blobs,      \* digest -> the bytes of the file in its own place
    elsewhere,  \* digest -> [bytes, late] of the file in another directory below blobs/,
                \* which a walk of blobs/ reaches late, after the blob's own place, or before
    manifests,  \* anchors/*.json: manifest_ref -> its entries, or UNREADABLE
    proofs,     \* anchors/*.ots: manifest_ref -> the bytes it was stamped over
    stamped,    \* manifest_ref -> the bytes stamped when it was anchored (no file)
    declared,   \* BACKUP.txt: check -> the head it declares; empty where there is none
    edits       \* counter of the bound

vars == <<db, blobs, elsewhere, manifests, proofs, stamped, declared, edits>>

Refs == 1 .. MaxAnchors
Observed == Contents \cup {NONE}
Fields == [content : Observed]

\* The formula of the combined head; 1 stands for every version but the code's own.
COMBINED_HEAD_VERSION == 2
Versions == {1, COMBINED_HEAD_VERSION}

CombinedHeads ==
    [heads : [poll : Seq(Fields), norm : Seq(Fields), ann : Seq(Fields)], v : Versions]
Entries ==
    [check : Checks, poll_head : Seq(Fields), norm_head : Seq(Fields),
     annotation_head : Seq(Fields), head_version : Versions, combined_head : CombinedHeads,
     last_poll_id : Nat \cup {NONE}]

Bytes == (SUBSET Entries) \cup {UNREADABLE}
AnchorRows == [manifest_ref : Refs, manifest_sha256 : Bytes]
Nothing == [r \in {} |-> {}]

Init ==
    /\ db = [poll |-> [c \in Checks |-> << >>], norm |-> [c \in Checks |-> << >>],
             annotation |-> << >>, anchor |-> {}]
    /\ blobs = Nothing /\ elsewhere = Nothing /\ declared = Nothing
    /\ manifests = Nothing /\ proofs = Nothing /\ stamped = Nothing
    /\ edits = 0

With(f, key, value) == [k \in DOMAIN f \cup {key} |-> IF k = key THEN value ELSE f[k]]
Without(f, key) == [k \in DOMAIN f \ {key} |-> f[k]]
-----------------------------------------------------------------------------
(* The programs. *)

Logged(rows, x, raw_ref) == Append(rows, RowOn([content |-> x], raw_ref, HeadOf(rows)))

\* Mutant of put_blob: a poll that observed nothing gets a file too.
put_blobEvenNone(x) == IF x \in DOMAIN blobs THEN blobs ELSE With(blobs, x, x)

\* put_blob looks only whether the file is in its place: damaged bytes stay.
put_blob(x) == IF x \in DOMAIN blobs \cup {NONE} THEN blobs ELSE With(blobs, x, x)

\* Mutant of RecordPoll: raw_ref is set by the poll that writes the file.
RecordPollOnceReferring(c, x) ==
    /\ Len(db.poll[c]) < MaxPolls
    /\ blobs' = put_blob(x)
    /\ db' = [db EXCEPT !.poll[c] = Logged(@, x, IF x \in DOMAIN blobs THEN NONE ELSE x)]
    /\ UNCHANGED <<elsewhere, manifests, proofs, stamped, declared, edits>>

RecordPoll(c, x) ==
    /\ Len(db.poll[c]) < MaxPolls
    /\ blobs' = put_blob(x)
    /\ db' = [db EXCEPT !.poll[c] = Logged(@, x, x)]
    /\ UNCHANGED <<elsewhere, manifests, proofs, stamped, declared, edits>>

RecordNormalisation(c, x) ==
    /\ Len(db.norm[c]) < MaxOthers
    /\ db' = [db EXCEPT !.norm[c] = Logged(@, x, NONE)]
    /\ UNCHANGED <<blobs, elsewhere, manifests, proofs, stamped, declared, edits>>

Annotate(x) ==
    /\ Len(db.annotation) < MaxOthers
    /\ db' = [db EXCEPT !.annotation = Logged(@, x, NONE)]
    /\ UNCHANGED <<blobs, elsewhere, manifests, proofs, stamped, declared, edits>>

Combined(poll, norm, ann, version) ==
    [heads |-> combine_heads(poll, norm, ann), v |-> version]

combined_head(c) ==
    Combined(HeadOf(db.poll[c]), HeadOf(db.norm[c]), HeadOf(db.annotation), COMBINED_HEAD_VERSION)

Components(c) ==
    [check |-> c, poll_head |-> HeadOf(db.poll[c]), norm_head |-> HeadOf(db.norm[c]),
     annotation_head |-> HeadOf(db.annotation), head_version |-> COMBINED_HEAD_VERSION,
     combined_head |-> combined_head(c), last_poll_id |-> Len(db.poll[c])]

check_names == {c \in Checks : db.poll[c] # << >>}

\* What "archive anchor" commits to: an entry for each check in the log.
Manifest == {Components(c) : c \in check_names}

\* Manifest, proof and row.  (A stamp that fails is a proof that is lost at once.)
Anchor(r) ==
    /\ check_names # {} /\ r \notin DOMAIN stamped
    /\ manifests' = With(manifests, r, Manifest)
    /\ proofs' = With(proofs, r, Manifest)
    /\ stamped' = With(stamped, r, Manifest)
    /\ db' = [db EXCEPT !.anchor = @ \cup {[manifest_ref |-> r, manifest_sha256 |-> Manifest]}]
    /\ UNCHANGED <<blobs, elsewhere, declared, edits>>
-----------------------------------------------------------------------------
(* Edits. *)

Edit == edits < MaxEdits /\ edits' = edits + 1

\* Rows for a history, with the hashes it has; those of table poll have a raw_ref.
Rehashed(fields, refer) ==
    [i \in DOMAIN fields |->
       RowOn(fields[i], IF refer THEN fields[i].content ELSE NONE, SubSeq(fields, 1, i - 1))]

\* One element of a history, one row, or the file a row refers to is another.
Rewrite(fields, i, x) == [fields EXCEPT ![i].content = x]
Overwrite(rows, i, x) == [rows EXCEPT ![i].fields.content = x]
Refer(rows, i, x) == [rows EXCEPT ![i].raw_ref = x]

\* A row changed or removed, and the same with every hash made anew.
Tampered(rows) ==
    {Overwrite(rows, i, x) : i \in DOMAIN rows, x \in Observed}
    \cup {RemoveAt(rows, i) : i \in DOMAIN rows}

Histories(rows) ==
    LET fields == FieldsOf(rows)
    IN  {Rewrite(fields, i, x) : i \in DOMAIN rows, x \in Observed}
        \cup {RemoveAt(fields, i) : i \in DOMAIN rows}

Referred(rows) == {Refer(rows, i, x) : i \in DOMAIN rows, x \in Observed}

EditPolls(c) ==
    /\ Edit
    /\ \E rows \in Tampered(db.poll[c])
                \cup {Rehashed(h, TRUE) : h \in Histories(db.poll[c])}
                \cup Referred(db.poll[c]) :
          db' = [db EXCEPT !.poll[c] = rows]
    /\ UNCHANGED <<blobs, elsewhere, manifests, proofs, stamped, declared>>

EditNormalisations(c) ==
    /\ Edit
    /\ \E rows \in Tampered(db.norm[c])
                \cup {Rehashed(h, FALSE) : h \in Histories(db.norm[c])} :
          db' = [db EXCEPT !.norm[c] = rows]
    /\ UNCHANGED <<blobs, elsewhere, manifests, proofs, stamped, declared>>

EditAnnotations ==
    /\ Edit
    /\ \E rows \in Tampered(db.annotation)
                \cup {Rehashed(h, FALSE) : h \in Histories(db.annotation)} :
          db' = [db EXCEPT !.annotation = rows]
    /\ UNCHANGED <<blobs, elsewhere, manifests, proofs, stamped, declared>>

\* A row of the index is removed, or gets the digest of the manifest as it is now.
EditIndex ==
    /\ Edit
    /\ \E row \in db.anchor :
          \/ db' = [db EXCEPT !.anchor = @ \ {row}]
          \/ /\ row.manifest_ref \in DOMAIN manifests
             /\ db' = [db EXCEPT !.anchor = (@ \ {row}) \cup
                         {[row EXCEPT !.manifest_sha256 = manifests[row.manifest_ref]]}]
    /\ UNCHANGED <<blobs, elsewhere, manifests, proofs, stamped, declared>>

\* A blob is lost, torn, holds other bytes, or is put there by somebody else; or
\* one takes the place of another under its own true digest.
EditBlobs ==
    /\ Edit
    /\ \/ \E x \in DOMAIN blobs : blobs' = Without(blobs, x)
       \/ \E x \in Contents, bytes \in Contents \cup {UNREADABLE} : blobs' = With(blobs, x, bytes)
       \/ \E x \in DOMAIN blobs, y \in Contents : blobs' = With(Without(blobs, x), y, y)
    /\ UNCHANGED <<db, elsewhere, manifests, proofs, stamped, declared>>

\* A blob is moved to another directory below blobs/, or a file of its name is put there.
EditDirectories ==
    /\ Edit
    /\ \E late \in BOOLEAN :
          \/ \E x \in DOMAIN blobs :
                /\ blobs' = Without(blobs, x)
                /\ elsewhere' = With(elsewhere, x, [bytes |-> blobs[x], late |-> late])
          \/ \E x \in Contents, bytes \in Contents \cup {UNREADABLE} :
                /\ elsewhere' = With(elsewhere, x, [bytes |-> bytes, late |-> late])
                /\ UNCHANGED blobs
    /\ UNCHANGED <<db, manifests, proofs, stamped, declared>>

\* BACKUP.txt is removed, or declares a head: the one there is, or another.
EditDeclaration ==
    /\ Edit
    /\ \E c \in Checks :
          \/ declared' = Without(declared, c)
          \/ \E head \in {combined_head(c),
                          Combined(GENESIS, GENESIS, GENESIS, COMBINED_HEAD_VERSION)} :
                declared' = With(declared, c, head)
    /\ UNCHANGED <<db, blobs, elsewhere, manifests, proofs, stamped>>

\* An entry with one of its parts changed, or combined by another formula.
Doctored(e) ==
    {[e EXCEPT !.last_poll_id = NONE], [e EXCEPT !.last_poll_id = 1],
     [e EXCEPT !.poll_head = GENESIS], [e EXCEPT !.norm_head = GENESIS],
     [e EXCEPT !.annotation_head = GENESIS], [e EXCEPT !.annotation_head = e.poll_head],
     [e EXCEPT !.head_version = 1], [e EXCEPT !.combined_head.v = 1],
     [e EXCEPT !.head_version = 1, !.combined_head.v = 1]}

EditManifests ==
    /\ Edit
    /\ \E r \in DOMAIN manifests :
          \/ manifests' = Without(manifests, r)
          \/ manifests' = With(manifests, r, UNREADABLE)
          \/ /\ manifests[r] # UNREADABLE
             /\ \E e \in manifests[r] : \E f \in Doctored(e) :
                   manifests' = With(manifests, r, (manifests[r] \ {e}) \cup {f})
    /\ UNCHANGED <<db, blobs, elsewhere, proofs, stamped, declared>>

\* A proof is lost, torn, or taken anew over the manifest as it is now.
EditProofs ==
    /\ Edit
    /\ \E r \in DOMAIN proofs :
          \/ proofs' = Without(proofs, r)
          \/ proofs' = With(proofs, r, UNREADABLE)
          \/ r \in DOMAIN manifests /\ proofs' = With(proofs, r, manifests[r])
    /\ UNCHANGED <<db, blobs, elsewhere, manifests, stamped, declared>>

\* The manifest is written again from the log as it is now, and stamped today.
Reanchor ==
    /\ Edit
    /\ \E r \in DOMAIN manifests :
          /\ manifests' = With(manifests, r, Manifest)
          /\ proofs' = With(proofs, r, Manifest)
    /\ UNCHANGED <<db, blobs, elsewhere, stamped, declared>>

Next ==
    \/ \E c \in Checks, x \in Observed : RecordPoll(c, x)
    \/ \E c \in Checks, x \in Contents : RecordNormalisation(c, x)
    \/ \E x \in Contents : Annotate(x)
    \/ \E r \in Refs : Anchor(r)
    \/ \E c \in Checks : EditPolls(c) \/ EditNormalisations(c)
    \/ EditAnnotations \/ EditIndex \/ EditBlobs \/ EditDirectories \/ EditDeclaration
    \/ EditManifests \/ EditProofs \/ Reanchor

Spec == Init /\ [][Next]_vars
-----------------------------------------------------------------------------
(* The walk of a chain, as both verifiers do it: row ids up to the first row
   that does not trace.  For those, the hash recomputed is the hash stored. *)

Traced(rows) == {n \in DOMAIN rows : \A i \in 1 .. n : RowTraces(rows, i)}

Hashes(rows) == {rows[n].record_hash : n \in Traced(rows)}

PollRows == UNION {{db.poll[c][i] : i \in DOMAIN db.poll[c]} : c \in Checks}

Referenced == {row.fields.content : row \in PollRows} \ {NONE}

Unbound == {row \in PollRows : row.raw_ref # row.fields.content}
-----------------------------------------------------------------------------
(* archive verify and archive fsck: their findings, each with what it is about. *)

\* Nothing is looked at in an archive without polls, the annotations included.
BrokenChains ==
    {<<"poll chain", c>> : c \in {c \in check_names : ~ ChainIntact(db.poll[c])}}
    \cup {<<"normalised chain", c>> : c \in {c \in check_names : ~ ChainIntact(db.norm[c])}}
    \cup {<<"annotation chain", NONE>> :
            c \in {c \in check_names : ~ ChainIntact(db.annotation)}}

\* _walk_blobs goes by the names of files, wherever below blobs/ they lie; of two of
\* one name it keeps the last it reaches.
on_disk ==
    [x \in DOMAIN blobs \cup DOMAIN elsewhere |->
       IF x \in DOMAIN elsewhere /\ (x \in DOMAIN blobs => elsewhere[x].late)
       THEN elsewhere[x].bytes ELSE blobs[x]]

BlobFindings ==
    {<<"unbound retained response", row.fields.content>> : row \in Unbound}
    \cup {<<"missing blob", x>> : x \in Referenced \ DOMAIN on_disk}
    \cup {<<"unreadable or corrupt blob", x>> : x \in {x \in DOMAIN on_disk : on_disk[x] # x}}

\* The combined head is what a version's formula makes of the entry's own heads.
Follows(e, version) ==
    e.combined_head = Combined(e.poll_head, e.norm_head, e.annotation_head, version)

\* Mutant of Unlocated: the manifest is compared with itself only.
LocatedByArithmetic(e) == ~ Follows(e, e.head_version)

\* Whether _check_manifest_entry finds fault with a head or its place in the log.
Unlocated(e) ==
    LET polls == db.poll[e.check]
    IN  \/ ~ ChainIntact(polls) \/ ~ ChainIntact(db.norm[e.check]) \/ ~ ChainIntact(db.annotation)
        \/ e.last_poll_id \notin Traced(polls)
        \/ polls[e.last_poll_id].record_hash # e.poll_head
        \/ e.norm_head \notin Hashes(db.norm[e.check]) \cup {GENESIS}
        \/ e.annotation_head \notin Hashes(db.annotation) \cup {GENESIS}

\* Whether it then recomputes another combined head, by the entry's own version.
DoesNotFollow(e) == Traced(db.poll[e.check]) # {} /\ ~ Follows(e, e.head_version)

Readable == {r \in DOMAIN manifests : manifests[r] # UNREADABLE}
Recorded == {row.manifest_ref : row \in db.anchor}

AnchorFindings ==
    {<<"unreadable manifest", r>> : r \in Recorded \cap (DOMAIN manifests \ Readable)}
    \cup {<<"altered manifest", r>> : r \in {r \in Readable : \E row \in db.anchor :
            row.manifest_ref = r /\ row.manifest_sha256 # manifests[r]}}
    \cup {<<"missing proof", r>> : r \in Readable \ DOMAIN proofs}
    \cup {<<"unreadable or other proof", r>> :
            r \in {r \in Readable \cap DOMAIN proofs : proofs[r] # manifests[r]}}
    \cup {<<"head not in log", r>> : r \in {r \in Readable : \E e \in manifests[r] : Unlocated(e)}}
    \cup {<<"combined head does not follow", r>> :
            r \in {r \in Readable : \E e \in manifests[r] : DoesNotFollow(e)}}
    \cup {<<"missing manifest", r>> : r \in Recorded \ DOMAIN manifests}

\* The archive is the one BACKUP.txt was written for.
DeclaredFindings ==
    {<<"check missing since backup", c>> : c \in DOMAIN declared \ check_names}
    \cup {<<"head not as declared", c>> :
            c \in {c \in DOMAIN declared \cap check_names : combined_head(c) # declared[c]}}

PluginFindings == BrokenChains \cup BlobFindings \cup AnchorFindings \cup DeclaredFindings
-----------------------------------------------------------------------------
(* verify_independently.py: whether it exits with status 0.  It ends with a
   traceback at a file it cannot read, which is not 0 either.  It looks for a
   blob in the blob's own place, and knows one version of the combined head.  *)

Located(e) ==
    /\ e.last_poll_id \in Traced(db.poll[e.check])
    /\ db.poll[e.check][e.last_poll_id].record_hash = e.poll_head
    /\ e.norm_head = GENESIS \/ e.norm_head \in Hashes(db.norm[e.check])
    /\ e.annotation_head = GENESIS \/ e.annotation_head \in Hashes(db.annotation)

EntryBound(e) == Located(e) /\ Follows(e, 2)

\* Mutant of ManifestBound: the proof is only asked to be there.
ManifestBoundByAnyProof(r) ==
    /\ manifests[r] # UNREADABLE /\ r \in DOMAIN proofs
    /\ \A e \in manifests[r] : EntryBound(e)

ManifestBound(r) ==
    /\ manifests[r] # UNREADABLE
    /\ r \in DOMAIN proofs /\ proofs[r] = manifests[r]
    /\ \A e \in manifests[r] : EntryBound(e)

InPlace(x) == x \in DOMAIN blobs /\ blobs[x] = x

IndependentPasses ==
    /\ \A c \in check_names : ChainIntact(db.poll[c]) /\ ChainIntact(db.norm[c])
    /\ ChainIntact(db.annotation)
    /\ Unbound = {}
    /\ \A x \in Referenced : InPlace(x)
    /\ \A r \in DOMAIN manifests : ManifestBound(r)

\* audit_retained_responses.py: every response a poll attests to is bound and in its
\* place.  Of an archive without polls it cannot print the table, and fails.
AuditPasses ==
    /\ PollRows # {}
    /\ \A row \in {row \in PollRows : row.fields.content # NONE} :
          row.raw_ref = row.fields.content /\ InPlace(row.fields.content)
-----------------------------------------------------------------------------
(* Properties. *)

Tables == Seq(RowsOver(Fields, Observed))

\* Every variable holds a value of its kind.
TypeOK ==
    /\ db \in [poll : [Checks -> Tables], norm : [Checks -> Tables],
               annotation : Tables, anchor : SUBSET AnchorRows]
    /\ DOMAIN blobs \subseteq Contents
    /\ \A x \in DOMAIN blobs : blobs[x] \in Contents \cup {UNREADABLE}
    /\ DOMAIN elsewhere \subseteq Contents
    /\ \A x \in DOMAIN elsewhere :
          elsewhere[x] \in [bytes : Contents \cup {UNREADABLE}, late : BOOLEAN]
    /\ DOMAIN declared \subseteq Checks
    /\ \A c \in DOMAIN declared : declared[c] \in CombinedHeads
    /\ \A files \in {manifests, proofs, stamped} :
          /\ DOMAIN files \subseteq Refs
          /\ \A r \in DOMAIN files : files[r] \in Bytes
    /\ edits \in 0 .. MaxEdits

\* What fsck alone objects to: the index, BACKUP.txt, a spoilt file of no use to any
\* poll, and a combined head that says it is of another version and is not.
OnlyForFsck(finding) ==
    \/ finding[1] \in {"missing manifest", "altered manifest",
                       "check missing since backup", "head not as declared"}
    \/ /\ finding[1] = "unreadable or corrupt blob"
       /\ finding[2] \in Referenced => InPlace(finding[2])
    \/ /\ finding[1] = "combined head does not follow"
       /\ \A e \in manifests[finding[2]] : Follows(e, 2)

\* What fsck alone lets pass: a response found only in another directory, a combined
\* head of another version, a manifest the index does not know that cannot be read,
\* and a broken annotation chain in an archive without polls.
Misplaced == {x \in Referenced \cap DOMAIN on_disk : on_disk[x] = x /\ ~ InPlace(x)}

OtherVersions ==
    {r \in Readable : \E e \in manifests[r] : Follows(e, e.head_version) /\ ~ Follows(e, 2)}

FsckMissesNothing ==
    /\ Misplaced = {} /\ OtherVersions = {}
    /\ DOMAIN manifests \ Readable \subseteq Recorded
    /\ check_names # {} \/ ChainIntact(db.annotation)

\* "If this and the plugin ever disagree, the specification is wrong or one of
\* the implementations is" (verify_independently.py).  On every archive the two
\* give one verdict, except on what only fsck objects to and what only fsck lets
\* pass.  The audit of retained responses passes an archive with polls exactly
\* when fsck objects to no response a poll attests to and finds each in its place.
VerifiersAgree ==
    /\ IndependentPasses <=>
         (\A finding \in PluginFindings : OnlyForFsck(finding)) /\ FsckMissesNothing
    /\ AuditPasses <=>
         /\ check_names # {} /\ Misplaced = {}
         /\ \A finding \in BlobFindings :
               OnlyForFsck(finding) \/ finding = <<"unbound retained response", NONE>>

\* The history a stamp committed to is still the log's, row by row, in all three
\* chains, and its responses are there.
HistoryKept(e) ==
    LET polls == db.poll[e.check]
    IN  /\ e.last_poll_id \in DOMAIN polls
        /\ e.poll_head = SubSeq(FieldsOf(polls), 1, e.last_poll_id)
        /\ \E n \in 0 .. Len(db.norm[e.check]) :
              e.norm_head = SubSeq(FieldsOf(db.norm[e.check]), 1, n)
        /\ \E n \in 0 .. Len(db.annotation) :
              e.annotation_head = SubSeq(FieldsOf(db.annotation), 1, n)
        /\ \A i \in 1 .. e.last_poll_id :
              LET x == polls[i].fields.content
              IN  x # NONE => \/ InPlace(x)
                              \/ x \in DOMAIN elsewhere /\ elsewhere[x].bytes = x

\* Whatever was edited, and however consistently: if either verifier passes, what
\* the proofs at hand were stamped over when it was anchored has not been rewritten,
\* and every response in it is retained.
AnchoredHistoryIsFixed ==
    IndependentPasses \/ PluginFindings = {} =>
       \A r \in DOMAIN stamped \cap Readable \cap DOMAIN proofs :
          proofs[r] = stamped[r] => \A e \in stamped[r] : HistoryKept(e)

\* An archive nobody edited passes, whatever was logged before and after it was
\* anchored; the audit passes it from the first poll on.
HonestArchivePasses ==
    edits = 0 => /\ IndependentPasses /\ PluginFindings = {}
                 /\ check_names # {} => AuditPasses
=============================================================================
