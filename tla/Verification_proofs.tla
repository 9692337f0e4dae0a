------------------------- MODULE Verification_proofs -------------------------
(***************************************************************************)
(* What it means that a verifier passes, for archives of any size in any   *)
(* state: the chains, blobs, manifests, proofs, the index and BACKUP.txt   *)
(* hold whatever somebody wrote into them.                                 *)
(***************************************************************************)
EXTENDS Verification, ChainStore_proofs

(***************************************************************************)
(* From what a verifier recomputes to what the log holds.                  *)
(***************************************************************************)

\* A hash at a row a walk reached is the history up to that row.
LEMMA HashIsHistory ==
    ASSUME NEW rows \in Tables, NEW n \in Traced(rows)
    PROVE  /\ n \in DOMAIN rows /\ n \in 1 .. Len(rows)
           /\ rows[n].record_hash = SubSeq(FieldsOf(rows), 1, n)
<1>1. n \in DOMAIN rows /\ \A i \in 1 .. n : RowTraces(rows, i)
  BY DEF Traced
<1>2. rows \in Seq(RowsOver(Fields, Observed))
  BY DEF Tables
<1> QED
  BY <1>1, <1>2, TracedHashIsHistory

\* A head some row of a chain has, or the genesis value, is a prefix of its history.
LEMMA HeadIsPrefix ==
    ASSUME NEW rows \in Tables, NEW head, head = GENESIS \/ head \in Hashes(rows)
    PROVE  \E n \in 0 .. Len(rows) : head = SubSeq(FieldsOf(rows), 1, n)
<1>1. Len(rows) \in Nat
  BY DEF Tables
<1>2. CASE head = GENESIS
  <2>1. SubSeq(FieldsOf(rows), 1, 0) = << >>
    BY SubSeqEmpty
  <2> QED
    BY <1>1, <1>2, <2>1 DEF GENESIS
<1>3. CASE head \in Hashes(rows)
  <2>1. PICK n \in Traced(rows) : head = rows[n].record_hash
    BY <1>3 DEF Hashes
  <2> QED
    BY <1>1, <2>1, HashIsHistory
<1> QED
  BY <1>2, <1>3

\* The parts of an archive have their kinds.
LEMMA Kinds ==
    ASSUME TypeOK, NEW r \in Readable, NEW e \in manifests[r]
    PROVE  /\ e \in Entries /\ e.check \in Checks
           /\ db.poll[e.check] \in Tables /\ db.norm[e.check] \in Tables
           /\ db.annotation \in Tables
<1>1. manifests[r] \in Bytes /\ manifests[r] # UNREADABLE
  BY DEF TypeOK, Readable
<1>2. e \in Entries
  BY <1>1 DEF Bytes
<1>3. e.check \in Checks
  BY <1>2 DEF Entries
<1> QED
  BY <1>2, <1>3 DEF TypeOK

\* A response is retained in its own place or in another directory.
Retained(x) == InPlace(x) \/ (x \in DOMAIN elsewhere /\ elsewhere[x].bytes = x)

\* An entry whose heads are in the log, with every referenced response retained.
LEMMA LocatedEntryIsKept ==
    ASSUME TypeOK, NEW r \in Readable, NEW e \in manifests[r], Located(e),
           \A x \in Referenced : Retained(x)
    PROVE  HistoryKept(e)
<1> DEFINE polls == db.poll[e.check]
           last == e.last_poll_id
<1>1. e.check \in Checks /\ polls \in Tables
  BY Kinds
<1>2. last \in Traced(polls) /\ polls[last].record_hash = e.poll_head
  BY DEF Located
<1>3. last \in 1 .. Len(polls) /\ last \in DOMAIN polls
      /\ e.poll_head = SubSeq(FieldsOf(polls), 1, last)
  BY <1>1, <1>2, HashIsHistory
<1>4. \E n \in 0 .. Len(db.norm[e.check]) :
         e.norm_head = SubSeq(FieldsOf(db.norm[e.check]), 1, n)
  BY Kinds, HeadIsPrefix DEF Located
<1>5. \E n \in 0 .. Len(db.annotation) :
         e.annotation_head = SubSeq(FieldsOf(db.annotation), 1, n)
  BY Kinds, HeadIsPrefix DEF Located
<1>6. ASSUME NEW i \in 1 .. last, polls[i].fields.content # NONE
      PROVE  polls[i].fields.content \in Referenced
  <2>1. i \in DOMAIN polls
    BY <1>1, <1>3 DEF Tables
  <2>2. polls[i] \in PollRows
    BY <1>1, <2>1 DEF PollRows
  <2> QED
    BY <1>6, <2>2 DEF Referenced
<1> QED
  BY <1>3, <1>4, <1>5, <1>6 DEF HistoryKept, Retained

\* An entry fsck finds nothing wrong with is one the independent verifier locates.
LEMMA NoFindingIsLocated ==
    ASSUME NEW e, ~ Unlocated(e)
    PROVE  Located(e)
BY DEF Unlocated, Located

\* A file fsck finds right is the blob in its place or the one in another directory.
LEMMA FoundIsRetained ==
    ASSUME NEW x \in DOMAIN on_disk, on_disk[x] = x
    PROVE  Retained(x)
BY DEF on_disk, Retained, InPlace
-----------------------------------------------------------------------------
(***************************************************************************)
(* Anchored history.                                                       *)
(***************************************************************************)

\* In any archive whatever: if a verifier passes, the history every proof at hand
\* was stamped over when it was anchored is still the log's, with its responses.
THEOREM PassingFixesHistory ==
    ASSUME TypeOK
    PROVE  AnchoredHistoryIsFixed
<1> SUFFICES ASSUME IndependentPasses \/ PluginFindings = {},
                    NEW r \in DOMAIN stamped \cap Readable \cap DOMAIN proofs,
                    proofs[r] = stamped[r], NEW e \in stamped[r]
             PROVE  HistoryKept(e)
  BY DEF AnchoredHistoryIsFixed
<1>1. CASE IndependentPasses
  <2>1. r \in DOMAIN manifests /\ ManifestBound(r)
    BY <1>1 DEF IndependentPasses, Readable
  <2>2. e \in manifests[r] /\ Located(e)
    BY <2>1 DEF ManifestBound, EntryBound
  <2>3. \A x \in Referenced : Retained(x)
    BY <1>1 DEF IndependentPasses, Retained
  <2> QED
    BY <2>2, <2>3, LocatedEntryIsKept
<1>2. CASE PluginFindings = {}
  <2>1. AnchorFindings = {} /\ BlobFindings = {}
    BY <1>2 DEF PluginFindings
  <2>2. {<<"unreadable or other proof", q>> :
            q \in {q \in Readable \cap DOMAIN proofs : proofs[q] # manifests[q]}} = {}
    BY <2>1 DEF AnchorFindings
  <2>3. proofs[r] = manifests[r]
    BY <2>2
  <2>4. {<<"head not in log", q>> :
            q \in {q \in Readable : \E f \in manifests[q] : Unlocated(f)}} = {}
    BY <2>1 DEF AnchorFindings
  <2>5. e \in manifests[r] /\ ~ Unlocated(e)
    BY <2>3, <2>4
  <2>6. ASSUME NEW x \in Referenced PROVE Retained(x)
    <3>1. {<<"missing blob", y>> : y \in Referenced \ DOMAIN on_disk} = {}
      BY <2>1 DEF BlobFindings
    <3>2. {<<"unreadable or corrupt blob", y>> :
              y \in {y \in DOMAIN on_disk : on_disk[y] # y}} = {}
      BY <2>1 DEF BlobFindings
    <3>3. x \in DOMAIN on_disk /\ on_disk[x] = x
      BY <3>1, <3>2
    <3> QED
      BY <3>3, FoundIsRetained
  <2> QED
    BY <2>5, <2>6, NoFindingIsLocated, LocatedEntryIsKept
<1> QED
  BY <1>1, <1>2
-----------------------------------------------------------------------------
(***************************************************************************)
(* The two verifiers.                                                      *)
(***************************************************************************)

\* A walk that reaches a row of a check's polls finds the check in the log.
LEMMA TracedIsInLog ==
    ASSUME NEW c \in Checks, NEW n \in Traced(db.poll[c])
    PROVE  c \in check_names
<1>1. n \in DOMAIN db.poll[c]
  BY DEF Traced
<1>2. DOMAIN << >> = {}
  OBVIOUS
<1> QED
  BY <1>1, <1>2 DEF check_names

\* Where the chains of the checks in the log are intact, fsck finds the heads the
\* independent verifier locates.
LEMMA LocatedHasNoFinding ==
    ASSUME TypeOK, NEW r \in Readable, NEW e \in manifests[r], Located(e),
           \A c \in check_names : ChainIntact(db.poll[c]) /\ ChainIntact(db.norm[c]),
           ChainIntact(db.annotation)
    PROVE  ~ Unlocated(e)
<1>1. e.check \in Checks
  BY Kinds
<1>2. e.last_poll_id \in Traced(db.poll[e.check])
  BY DEF Located
<1>3. e.check \in check_names
  BY <1>1, <1>2, TracedIsInLog
<1> QED
  BY <1>3 DEF Located, Unlocated

\* Findings about BACKUP.txt are for fsck alone.
LEMMA DeclaredIsForFsck ==
    ASSUME NEW finding \in DeclaredFindings
    PROVE  OnlyForFsck(finding)
<1>1. finding[1] \in {"check missing since backup", "head not as declared"}
  <2>1. \/ \E c \in DOMAIN declared : finding = <<"check missing since backup", c>>
        \/ \E c \in DOMAIN declared : finding = <<"head not as declared", c>>
    BY DEF DeclaredFindings
  <2>2. CASE \E c \in DOMAIN declared : finding = <<"check missing since backup", c>>
    <3>1. PICK c : finding = <<"check missing since backup", c>>
      BY <2>2
    <3> QED
      BY <3>1
  <2>3. CASE \E c \in DOMAIN declared : finding = <<"head not as declared", c>>
    <3>1. PICK c : finding = <<"head not as declared", c>>
      BY <2>3
    <3> QED
      BY <3>1
  <2> QED
    BY <2>1, <2>2, <2>3
<1> QED
  BY <1>1 DEF OnlyForFsck

\* What the independent verifier passes, archive verify and fsck pass, but for
\* what only fsck objects to; and it passes nothing only fsck lets pass.
LEMMA IndependentImpliesPlugin ==
    ASSUME TypeOK, IndependentPasses
    PROVE  (\A finding \in PluginFindings : OnlyForFsck(finding)) /\ FsckMissesNothing
<1>1. /\ \A c \in check_names : ChainIntact(db.poll[c]) /\ ChainIntact(db.norm[c])
      /\ ChainIntact(db.annotation) /\ Unbound = {}
      /\ \A x \in Referenced : InPlace(x)
      /\ \A r \in DOMAIN manifests : ManifestBound(r)
  BY DEF IndependentPasses
<1>2. BrokenChains = {}
  BY <1>1 DEF BrokenChains
<1>3. ASSUME NEW finding \in BlobFindings PROVE OnlyForFsck(finding)
  <2>1. Referenced \subseteq DOMAIN on_disk
    BY <1>1 DEF InPlace, on_disk
  <2>2. PICK x \in DOMAIN on_disk :
          on_disk[x] # x /\ finding = <<"unreadable or corrupt blob", x>>
    BY <1>1, <2>1 DEF BlobFindings
  <2>3. x \in Referenced => InPlace(x)
    BY <1>1
  <2> QED
    BY <2>2, <2>3 DEF OnlyForFsck
<1>4. DOMAIN manifests \subseteq Readable
  BY <1>1 DEF ManifestBound, Readable
<1>5. ASSUME NEW r \in Readable
      PROVE  r \in DOMAIN proofs /\ proofs[r] = manifests[r]
             /\ \A e \in manifests[r] : ~ Unlocated(e) /\ Follows(e, 2)
  <2>1. ManifestBound(r)
    BY <1>1 DEF Readable
  <2> QED
    BY <1>1, <2>1, LocatedHasNoFinding DEF ManifestBound, EntryBound
<1>6. ASSUME NEW finding \in AnchorFindings PROVE OnlyForFsck(finding)
  <2>1. \/ \E r \in Readable : finding = <<"altered manifest", r>>
        \/ \E r \in Readable : finding = <<"combined head does not follow", r>>
        \/ \E r \in Recorded : finding = <<"missing manifest", r>>
    <3>1. {<<"unreadable manifest", r>> : r \in Recorded \cap (DOMAIN manifests \ Readable)} = {}
      BY <1>4
    <3>2. {<<"missing proof", r>> : r \in Readable \ DOMAIN proofs} = {}
      BY <1>5
    <3>3. {<<"unreadable or other proof", r>> :
             r \in {r \in Readable \cap DOMAIN proofs : proofs[r] # manifests[r]}} = {}
      BY <1>5
    <3>4. {<<"head not in log", r>> :
             r \in {r \in Readable : \E e \in manifests[r] : Unlocated(e)}} = {}
      BY <1>5
    <3> QED
      BY <3>1, <3>2, <3>3, <3>4 DEF AnchorFindings
  <2>2. CASE \E r \in Readable : finding = <<"altered manifest", r>>
    <3>1. PICK r : finding = <<"altered manifest", r>>
      BY <2>2
    <3>2. finding[1] = "altered manifest"
      BY <3>1
    <3> QED
      BY <3>2 DEF OnlyForFsck
  <2>3. CASE \E r \in Readable : finding = <<"combined head does not follow", r>>
    <3>1. PICK r \in Readable : finding = <<"combined head does not follow", r>>
      BY <2>3
    <3>2. finding[1] = "combined head does not follow" /\ finding[2] = r
      BY <3>1
    <3> QED
      BY <1>5, <3>2 DEF OnlyForFsck
  <2>4. CASE \E r \in Recorded : finding = <<"missing manifest", r>>
    <3>1. PICK r : finding = <<"missing manifest", r>>
      BY <2>4
    <3>2. finding[1] = "missing manifest"
      BY <3>1
    <3> QED
      BY <3>2 DEF OnlyForFsck
  <2> QED
    BY <2>1, <2>2, <2>3, <2>4
<1>7. FsckMissesNothing
  <2>1. Misplaced = {}
    BY <1>1 DEF Misplaced
  <2>2. OtherVersions = {}
    BY <1>5 DEF OtherVersions
  <2> QED
    BY <1>1, <1>4, <2>1, <2>2 DEF FsckMissesNothing
<1> QED
  BY <1>2, <1>3, <1>6, <1>7, DeclaredIsForFsck DEF PluginFindings

\* A referenced response fsck objects to neither as missing nor, unless there is a
\* good one in its place, as corrupt, and that is not misplaced, is in its place.
LEMMA FoundIsInPlace ==
    ASSUME NEW x \in Referenced, Misplaced = {},
           \A finding \in BlobFindings :
              OnlyForFsck(finding) \/ finding = <<"unbound retained response", NONE>>
    PROVE  InPlace(x)
<1>1. x \in DOMAIN on_disk
  <2> SUFFICES ASSUME x \notin DOMAIN on_disk PROVE FALSE
    OBVIOUS
  <2> DEFINE finding == <<"missing blob", x>>
  <2>1. finding \in BlobFindings
    BY DEF BlobFindings
  <2>2. finding[1] = "missing blob"
    OBVIOUS
  <2>3. finding # <<"unbound retained response", NONE>>
    OBVIOUS
  <2> HIDE DEF finding
  <2> QED
    BY <2>1, <2>2, <2>3 DEF OnlyForFsck
<1>2. CASE on_disk[x] = x
  BY <1>1, <1>2 DEF Misplaced
<1>3. CASE on_disk[x] # x
  <2> DEFINE finding == <<"unreadable or corrupt blob", x>>
  <2>1. finding \in BlobFindings
    BY <1>1, <1>3 DEF BlobFindings
  <2>2. finding[1] = "unreadable or corrupt blob" /\ finding[2] = x
    OBVIOUS
  <2>3. finding # <<"unbound retained response", NONE>>
    OBVIOUS
  <2> HIDE DEF finding
  <2>4. OnlyForFsck(finding)
    BY <2>1, <2>3
  <2> QED
    BY <2>2, <2>4 DEF OnlyForFsck
<1> QED
  BY <1>2, <1>3

\* What archive verify and fsck pass, but for what only fsck objects to, the
\* independent verifier passes, but for what only fsck lets pass.
LEMMA PluginImpliesIndependent ==
    ASSUME TypeOK, FsckMissesNothing,
           \A finding \in PluginFindings : OnlyForFsck(finding)
    PROVE  IndependentPasses
<1>1. /\ \A finding \in BrokenChains : OnlyForFsck(finding)
      /\ \A finding \in BlobFindings : OnlyForFsck(finding)
      /\ \A finding \in AnchorFindings : OnlyForFsck(finding)
  BY DEF PluginFindings
<1>2. /\ \A c \in check_names : ChainIntact(db.poll[c]) /\ ChainIntact(db.norm[c])
      /\ ChainIntact(db.annotation)
  <2>1. ASSUME NEW c \in check_names, ~ ChainIntact(db.poll[c]) PROVE FALSE
    <3>1. <<"poll chain", c>> \in BrokenChains
      BY <2>1 DEF BrokenChains
    <3> QED
      BY <1>1, <3>1 DEF OnlyForFsck
  <2>2. ASSUME NEW c \in check_names, ~ ChainIntact(db.norm[c]) PROVE FALSE
    <3>1. <<"normalised chain", c>> \in BrokenChains
      BY <2>2 DEF BrokenChains
    <3> QED
      BY <1>1, <3>1 DEF OnlyForFsck
  <2>3. ASSUME check_names # {}, ~ ChainIntact(db.annotation) PROVE FALSE
    <3>1. <<"annotation chain", NONE>> \in BrokenChains
      BY <2>3 DEF BrokenChains
    <3> QED
      BY <1>1, <3>1 DEF OnlyForFsck
  <2> QED
    BY <2>1, <2>2, <2>3 DEF FsckMissesNothing
<1>3. Unbound = {}
  <2> SUFFICES ASSUME NEW row \in Unbound PROVE FALSE
    OBVIOUS
  <2>1. <<"unbound retained response", row.fields.content>> \in BlobFindings
    BY DEF BlobFindings
  <2> QED
    BY <1>1, <2>1 DEF OnlyForFsck
<1>4. \A x \in Referenced : InPlace(x)
  BY <1>1, FoundIsInPlace DEF FsckMissesNothing
<1>5. ASSUME NEW r \in DOMAIN manifests PROVE ManifestBound(r)
  <2>1. r \in Readable
    <3> SUFFICES ASSUME r \notin Readable PROVE FALSE
      OBVIOUS
    <3>1. <<"unreadable manifest", r>> \in AnchorFindings
      BY DEF AnchorFindings, FsckMissesNothing
    <3> QED
      BY <1>1, <3>1 DEF OnlyForFsck
  <2>2. r \in DOMAIN proofs
    <3> SUFFICES ASSUME r \notin DOMAIN proofs PROVE FALSE
      OBVIOUS
    <3>1. <<"missing proof", r>> \in AnchorFindings
      BY <2>1 DEF AnchorFindings
    <3> QED
      BY <1>1, <3>1 DEF OnlyForFsck
  <2>3. proofs[r] = manifests[r]
    <3> SUFFICES ASSUME proofs[r] # manifests[r] PROVE FALSE
      OBVIOUS
    <3>1. <<"unreadable or other proof", r>> \in AnchorFindings
      BY <2>1, <2>2 DEF AnchorFindings
    <3> QED
      BY <1>1, <3>1 DEF OnlyForFsck
  <2>4. ASSUME NEW e \in manifests[r] PROVE Located(e)
    <3>1. ~ Unlocated(e)
      <4> SUFFICES ASSUME Unlocated(e) PROVE FALSE
        OBVIOUS
      <4>1. <<"head not in log", r>> \in AnchorFindings
        BY <2>1, <2>4 DEF AnchorFindings
      <4> QED
        BY <1>1, <4>1 DEF OnlyForFsck
    <3> QED
      BY <3>1, NoFindingIsLocated
  <2>5. ASSUME NEW e \in manifests[r] PROVE Follows(e, 2)
    <3>1. CASE Follows(e, e.head_version)
      BY <2>1, <2>5, <3>1 DEF FsckMissesNothing, OtherVersions
    <3>2. CASE ~ Follows(e, e.head_version)
      <4> DEFINE finding == <<"combined head does not follow", r>>
      <4>1. DoesNotFollow(e)
        BY <2>4, <2>5, <3>2 DEF DoesNotFollow, Located
      <4>2. finding \in AnchorFindings
        BY <2>1, <2>5, <4>1 DEF AnchorFindings
      <4>3. finding[1] = "combined head does not follow" /\ finding[2] = r
        OBVIOUS
      <4> HIDE DEF finding
      <4> QED
        BY <1>1, <2>5, <4>2, <4>3 DEF OnlyForFsck
    <3> QED
      BY <3>1, <3>2
  <2> QED
    BY <2>1, <2>2, <2>3, <2>4, <2>5 DEF ManifestBound, EntryBound, Readable
<1> QED
  BY <1>2, <1>3, <1>4, <1>5 DEF IndependentPasses

\* A row of the polls and the response it refers to.
LEMMA AttestedIsReferenced ==
    /\ \A row \in PollRows : row.fields.content # NONE => row.fields.content \in Referenced
    /\ \A x \in Referenced : \E row \in PollRows : row.fields.content = x /\ x # NONE
BY DEF Referenced

\* A check is in the log exactly when it has a row.
LEMMA RowsAreInLog == ASSUME TypeOK PROVE PollRows # {} <=> check_names # {}
<1>1. ASSUME NEW c \in Checks
      PROVE  db.poll[c] # << >> <=> \E i \in DOMAIN db.poll[c] : TRUE
  <2>1. db.poll[c] \in Seq(RowsOver(Fields, Observed))
    BY DEF TypeOK, Tables
  <2>2. DOMAIN << >> = {}
    OBVIOUS
  <2>3. db.poll[c] # << >> => 1 \in DOMAIN db.poll[c]
    BY <2>1
  <2> QED
    BY <2>2, <2>3
<1>2. ASSUME PollRows # {} PROVE check_names # {}
  <2>1. PICK c \in Checks : \E i \in DOMAIN db.poll[c] : TRUE
    BY <1>2 DEF PollRows
  <2>2. c \in check_names
    BY <1>1, <2>1 DEF check_names
  <2> QED
    BY <2>2
<1>3. ASSUME check_names # {} PROVE PollRows # {}
  <2>1. PICK c \in Checks : db.poll[c] # << >>
    BY <1>3 DEF check_names
  <2>2. PICK i \in DOMAIN db.poll[c] : TRUE
    BY <1>1, <2>1
  <2>3. db.poll[c][i] \in PollRows
    BY <2>2 DEF PollRows
  <2> QED
    BY <2>3
<1> QED
  BY <1>2, <1>3

\* The audit of retained responses against what fsck says of blobs/.
LEMMA AuditAgreesWithFsck ==
    ASSUME TypeOK
    PROVE  AuditPasses <=>
             /\ check_names # {} /\ Misplaced = {}
             /\ \A finding \in BlobFindings :
                   OnlyForFsck(finding) \/ finding = <<"unbound retained response", NONE>>
<1>1. ASSUME AuditPasses
      PROVE  /\ Misplaced = {}
             /\ \A finding \in BlobFindings :
                   OnlyForFsck(finding) \/ finding = <<"unbound retained response", NONE>>
  <2>1. \A row \in PollRows : row.fields.content # NONE =>
          row.raw_ref = row.fields.content /\ InPlace(row.fields.content)
    BY <1>1 DEF AuditPasses
  <2>2. \A x \in Referenced : InPlace(x)
    BY <2>1, AttestedIsReferenced
  <2>3. \A row \in Unbound : row.fields.content = NONE
    BY <2>1 DEF Unbound
  <2>4. Referenced \subseteq DOMAIN on_disk
    BY <2>2 DEF InPlace, on_disk
  <2>5. ASSUME NEW finding \in BlobFindings
        PROVE  OnlyForFsck(finding) \/ finding = <<"unbound retained response", NONE>>
    <3>1. CASE \E row \in Unbound : finding = <<"unbound retained response", row.fields.content>>
      BY <2>3, <3>1
    <3>2. CASE \E x \in DOMAIN on_disk :
                  on_disk[x] # x /\ finding = <<"unreadable or corrupt blob", x>>
      <4>1. PICK x \in DOMAIN on_disk :
              on_disk[x] # x /\ finding = <<"unreadable or corrupt blob", x>>
        BY <3>2
      <4>2. finding[1] = "unreadable or corrupt blob" /\ finding[2] = x
        BY <4>1
      <4> QED
        BY <2>2, <4>2 DEF OnlyForFsck
    <3> QED
      BY <2>4, <2>5, <3>1, <3>2 DEF BlobFindings
  <2> QED
    BY <2>2, <2>5 DEF Misplaced
<1>2. ASSUME Misplaced = {},
             \A finding \in BlobFindings :
                OnlyForFsck(finding) \/ finding = <<"unbound retained response", NONE>>,
             NEW row \in PollRows, row.fields.content # NONE
      PROVE  row.raw_ref = row.fields.content /\ InPlace(row.fields.content)
  <2> DEFINE x == row.fields.content
  <2>1. x \in Referenced /\ x # NONE
    BY <1>2, AttestedIsReferenced
  <2>2. row.raw_ref = x
    <3> SUFFICES ASSUME row.raw_ref # x PROVE FALSE
      OBVIOUS
    <3>1. <<"unbound retained response", x>> \in BlobFindings
      BY DEF BlobFindings, Unbound
    <3> QED
      BY <1>2, <2>1, <3>1 DEF OnlyForFsck
  <2> QED
    BY <1>2, <2>1, <2>2, FoundIsInPlace
<1>3. PollRows # {} <=> check_names # {}
  BY RowsAreInLog
<1> QED
  BY <1>1, <1>2, <1>3 DEF AuditPasses

\* In any archive whatever: the verifiers give one verdict, except on what only
\* fsck objects to and what only fsck lets pass.
THEOREM VerdictsAgree ==
    ASSUME TypeOK
    PROVE  VerifiersAgree
BY IndependentImpliesPlugin, PluginImpliesIndependent, AuditAgreesWithFsck DEF VerifiersAgree
-----------------------------------------------------------------------------
(***************************************************************************)
(* Types: what the programs and the edits write stays of its kind, so the  *)
(* two theorems above hold of every state of the specification.            *)
(***************************************************************************)

\* A row logged on the head of a chain is a row of the chain.
LEMMA LoggedType ==
    ASSUME NEW rows \in Tables, NEW x \in Observed, NEW raw_ref \in Observed
    PROVE  Logged(rows, x, raw_ref) \in Tables /\ HeadOf(rows) \in Seq(Fields)
<1>1. rows \in Seq(RowsOver(Fields, Observed))
  BY DEF Tables
<1>2. [content |-> x] \in Fields
  BY DEF Fields
<1> QED
  BY <1>1, <1>2, HeadAfterInsert, HeadType DEF Logged, Tables

\* A sequence without one of its elements.
LEMMA RemovedType ==
    ASSUME NEW S, NEW s \in Seq(S), NEW i \in DOMAIN s
    PROVE  RemoveAt(s, i) \in Seq(S)
<1>1. i \in 1 .. Len(s) /\ Len(s) \in Nat
  OBVIOUS
<1>2. SubSeq(s, 1, i - 1) \in Seq(S)
  BY <1>1, SubSeqProperties
<1>3. SubSeq(s, i + 1, Len(s)) \in Seq(S)
  BY <1>1, SubSeqProperties
<1> QED
  BY <1>2, <1>3, ConcatProperties DEF RemoveAt

\* A sequence with one of its elements replaced.
LEMMA ReplacedType ==
    ASSUME NEW S, NEW s \in Seq(S), NEW i \in DOMAIN s, NEW e \in S
    PROVE  [s EXCEPT ![i] = e] \in Seq(S)
OBVIOUS

\* A row changed, or pointed elsewhere, is a row; a history changed is a history.
LEMMA ChangedType ==
    /\ \A rows \in Tables : \A i \in DOMAIN rows, x \in Observed :
          Overwrite(rows, i, x) \in Tables /\ Refer(rows, i, x) \in Tables
    /\ \A h \in Seq(Fields) : \A i \in DOMAIN h, x \in Observed :
          Rewrite(h, i, x) \in Seq(Fields)
<1>1. ASSUME NEW rows \in Tables, NEW i \in DOMAIN rows, NEW x \in Observed
      PROVE  Overwrite(rows, i, x) \in Tables /\ Refer(rows, i, x) \in Tables
  <2> DEFINE r == rows[i]
  <2>1. rows \in Seq(RowsOver(Fields, Observed))
    BY DEF Tables
  <2>2. r \in RowsOver(Fields, Observed)
    BY <2>1
  <2> HIDE DEF r
  <2>3. r.fields \in [content : Observed]
    BY <2>2 DEF RowsOver, Fields
  <2>4. [r.fields EXCEPT !.content = x] \in Fields
    BY <2>3 DEF Fields
  <2>5. ASSUME NEW f \in Fields PROVE [r EXCEPT !.fields = f] \in RowsOver(Fields, Observed)
    BY <2>2 DEF RowsOver
  <2>6. [r EXCEPT !.fields = [r.fields EXCEPT !.content = x]] \in RowsOver(Fields, Observed)
    BY <2>4, <2>5
  <2>7. [r EXCEPT !.raw_ref = x] \in RowsOver(Fields, Observed)
    BY <2>2 DEF RowsOver
  <2>8. Overwrite(rows, i, x) = [rows EXCEPT ![i] = [r EXCEPT !.fields = [r.fields EXCEPT !.content = x]]]
    BY Zenon DEF Overwrite, r
  <2>9. Refer(rows, i, x) = [rows EXCEPT ![i] = [r EXCEPT !.raw_ref = x]]
    BY Zenon DEF Refer, r
  <2>10. \A row \in RowsOver(Fields, Observed) :
            [rows EXCEPT ![i] = row] \in Seq(RowsOver(Fields, Observed))
    BY <2>1, ReplacedType
  <2>11. /\ Overwrite(rows, i, x) \in Seq(RowsOver(Fields, Observed))
         /\ Refer(rows, i, x) \in Seq(RowsOver(Fields, Observed))
    BY <2>6, <2>7, <2>8, <2>9, <2>10, Zenon
  <2> QED
    BY <2>11 DEF Tables
<1>2. ASSUME NEW h \in Seq(Fields), NEW i \in DOMAIN h, NEW x \in Observed
      PROVE  Rewrite(h, i, x) \in Seq(Fields)
  <2> DEFINE f == h[i]
  <2>1. f \in Fields
    OBVIOUS
  <2> HIDE DEF f
  <2>2. [f EXCEPT !.content = x] \in Fields
    BY <2>1 DEF Fields
  <2>3. Rewrite(h, i, x) = [h EXCEPT ![i] = [f EXCEPT !.content = x]]
    BY Zenon DEF Rewrite, f
  <2>4. \A g \in Fields : [h EXCEPT ![i] = g] \in Seq(Fields)
    BY ReplacedType
  <2> QED
    BY <2>2, <2>3, <2>4, Zenon
<1> QED
  BY <1>1, <1>2

\* A row changed or removed leaves rows.
LEMMA TamperedType ==
    ASSUME NEW rows \in Tables
    PROVE  Tampered(rows) \cup Referred(rows) \subseteq Tables
<1>1. \A i \in DOMAIN rows : RemoveAt(rows, i) \in Tables
  BY RemovedType DEF Tables
<1> QED
  BY <1>1, ChangedType DEF Tampered, Referred

\* So does a history changed and hashed anew.
LEMMA RehashedType ==
    ASSUME NEW rows \in Tables, NEW h \in Histories(rows), NEW refer \in BOOLEAN
    PROVE  Rehashed(h, refer) \in Tables
<1> DEFINE fields == FieldsOf(rows)
<1>1. fields \in Seq(Fields) /\ DOMAIN fields = DOMAIN rows
  BY FieldsType DEF FieldsOf, Tables
<1>2. Histories(rows) = {Rewrite(fields, i, x) : i \in DOMAIN rows, x \in Observed}
                          \cup {RemoveAt(fields, i) : i \in DOMAIN rows}
  BY DEF Histories
<1> HIDE DEF fields
<1>3. h \in Seq(Fields)
  <2>1. \A i \in DOMAIN rows : RemoveAt(fields, i) \in Seq(Fields)
    BY <1>1, RemovedType
  <2>2. \A i \in DOMAIN rows, x \in Observed : Rewrite(fields, i, x) \in Seq(Fields)
    BY <1>1, ChangedType
  <2> QED
    BY <1>2, <2>1, <2>2
<1>4. DOMAIN h = 1 .. Len(h) /\ Len(h) \in Nat /\ \A i \in 1 .. Len(h) : h[i] \in Fields
  BY <1>3
<1>5. ASSUME NEW i \in 1 .. Len(h)
      PROVE  RowOn(h[i], IF refer THEN h[i].content ELSE NONE, SubSeq(h, 1, i - 1))
               \in RowsOver(Fields, Observed)
  <2>1. SubSeq(h, 1, i - 1) \in Seq(Fields)
    BY <1>3, <1>4, SubSeqProperties
  <2>2. h[i] \in Fields
    BY <1>4
  <2>3. (IF refer THEN h[i].content ELSE NONE) \in Observed
    BY <2>2 DEF Fields, Observed
  <2> QED
    BY <2>1, <2>2, <2>3, RowType
<1>6. Rehashed(h, refer) \in [1 .. Len(h) -> RowsOver(Fields, Observed)]
  BY <1>4, <1>5 DEF Rehashed
<1> QED
  BY <1>4, <1>6, SeqDef DEF Tables

\* A combined head of the log, or of nothing.
LEMMA CombinedType ==
    /\ \A c \in Checks :
          db.poll[c] \in Tables /\ db.norm[c] \in Tables /\ db.annotation \in Tables
            => combined_head(c) \in CombinedHeads
    /\ Combined(GENESIS, GENESIS, GENESIS, COMBINED_HEAD_VERSION) \in CombinedHeads
<1>1. GENESIS \in Seq(Fields)
  BY DEF GENESIS
<1>2. ASSUME NEW a \in Seq(Fields), NEW b \in Seq(Fields), NEW d \in Seq(Fields)
      PROVE  Combined(a, b, d, COMBINED_HEAD_VERSION) \in CombinedHeads
  BY DEF Combined, combine_heads, CombinedHeads, Versions, COMBINED_HEAD_VERSION
<1> QED
  BY <1>1, <1>2, HeadType DEF combined_head, Tables

\* What "archive anchor" writes is a manifest.
LEMMA ManifestType ==
    ASSUME TypeOK
    PROVE  Manifest \in SUBSET Entries
<1> SUFFICES ASSUME NEW c \in check_names PROVE Components(c) \in Entries
  BY DEF Manifest
<1>1. c \in Checks /\ db.poll[c] \in Tables /\ db.norm[c] \in Tables /\ db.annotation \in Tables
  BY DEF check_names, TypeOK
<1>2. /\ HeadOf(db.poll[c]) \in Seq(Fields) /\ HeadOf(db.norm[c]) \in Seq(Fields)
      /\ HeadOf(db.annotation) \in Seq(Fields)
  BY <1>1, HeadType DEF Tables
<1>3. Len(db.poll[c]) \in Nat
  BY <1>1 DEF Tables
<1>4. combined_head(c) \in CombinedHeads
  BY <1>1, CombinedType
<1> QED
  BY <1>1, <1>2, <1>3, <1>4 DEF Components, Entries, Versions, COMBINED_HEAD_VERSION

\* An entry with a part changed is an entry.
LEMMA DoctoredType ==
    ASSUME NEW e \in Entries, NEW f \in Doctored(e)
    PROVE  f \in Entries
<1>1. GENESIS \in Seq(Fields) /\ e.poll_head \in Seq(Fields)
  BY DEF GENESIS, Entries
<1>4. [e EXCEPT !.head_version = 1] \in Entries
  BY DEF Entries, Versions
<1>5. ASSUME NEW g \in Entries PROVE [g EXCEPT !.combined_head.v = 1] \in Entries
  <2> DEFINE head == [g.combined_head EXCEPT !.v = 1]
  <2>1. g.combined_head \in CombinedHeads
    BY DEF Entries
  <2>2. head \in CombinedHeads
    BY <2>1 DEF CombinedHeads, Versions
  <2>3. [g EXCEPT !.combined_head.v = 1] = [g EXCEPT !.combined_head = head]
    OBVIOUS
  <2> HIDE DEF head
  <2> QED
    BY <2>2, <2>3 DEF Entries
<1>6. [e EXCEPT !.head_version = 1, !.combined_head.v = 1] \in Entries
  BY <1>4, <1>5
<1>2. ASSUME NEW id \in Nat \cup {NONE} PROVE [e EXCEPT !.last_poll_id = id] \in Entries
  BY DEF Entries
<1>3. ASSUME NEW h \in Seq(Fields)
      PROVE  /\ [e EXCEPT !.poll_head = h] \in Entries /\ [e EXCEPT !.norm_head = h] \in Entries
             /\ [e EXCEPT !.annotation_head = h] \in Entries
  BY DEF Entries
<1> QED
  BY <1>1, <1>2, <1>3, <1>4, <1>5, <1>6 DEF Doctored

Archive(d) ==
    d \in [poll : [Checks -> Tables], norm : [Checks -> Tables],
           annotation : Tables, anchor : SUBSET AnchorRows]
Blobs(f) == DOMAIN f \subseteq Contents /\ \A x \in DOMAIN f : f[x] \in Contents \cup {UNREADABLE}
Astray(f) ==
    /\ DOMAIN f \subseteq Contents
    /\ \A x \in DOMAIN f : f[x] \in [bytes : Contents \cup {UNREADABLE}, late : BOOLEAN]
Declared(f) == DOMAIN f \subseteq Checks /\ \A c \in DOMAIN f : f[c] \in CombinedHeads
Files(f) == DOMAIN f \subseteq Refs /\ \A r \in DOMAIN f : f[r] \in Bytes

\* TypeOK, one file system directory at a time.
LEMMA TypeParts ==
    /\ TypeOK <=> /\ Archive(db) /\ Blobs(blobs) /\ Astray(elsewhere) /\ Declared(declared)
                  /\ Files(manifests) /\ Files(proofs) /\ Files(stamped)
                  /\ edits \in 0 .. MaxEdits
    /\ TypeOK' <=> /\ Archive(db') /\ Blobs(blobs') /\ Astray(elsewhere') /\ Declared(declared')
                   /\ Files(manifests') /\ Files(proofs') /\ Files(stamped')
                   /\ edits' \in 0 .. MaxEdits
BY DEF TypeOK, Archive, Blobs, Astray, Declared, Files

\* A file written or removed leaves files.
LEMMA FilesType ==
    ASSUME NEW f, Files(f), NEW r \in Refs, NEW bytes \in Bytes
    PROVE  Files(With(f, r, bytes)) /\ Files(Without(f, r))
BY DEF Files, With, Without

\* So with blobs.
LEMMA BlobsType ==
    ASSUME NEW f, Blobs(f), NEW x \in Contents, NEW bytes \in Contents \cup {UNREADABLE}
    PROVE  Blobs(With(f, x, bytes)) /\ Blobs(Without(f, x))
BY DEF Blobs, With, Without

\* And with files in another directory, and with BACKUP.txt.
LEMMA AstrayType ==
    ASSUME NEW f, Astray(f), NEW x \in Contents, NEW late \in BOOLEAN,
           NEW bytes \in Contents \cup {UNREADABLE}
    PROVE  Astray(With(f, x, [bytes |-> bytes, late |-> late]))
BY DEF Astray, With

LEMMA DeclaredType ==
    ASSUME NEW f, Declared(f), NEW c \in Checks, NEW head \in CombinedHeads
    PROVE  Declared(With(f, c, head)) /\ Declared(Without(f, c))
BY DEF Declared, With, Without

\* A table or the index replaced by one of its kind.
LEMMA ArchiveType ==
    ASSUME NEW d, Archive(d), NEW c \in Checks, NEW rows \in Tables, NEW index \in SUBSET AnchorRows
    PROVE  /\ Archive([d EXCEPT !.poll[c] = rows]) /\ Archive([d EXCEPT !.norm[c] = rows])
           /\ Archive([d EXCEPT !.annotation = rows]) /\ Archive([d EXCEPT !.anchor = index])
BY DEF Archive

\* The archive "archive anchor" finds has its kinds.
LEMMA TypeOfAnchor ==
    ASSUME TypeOK, NEW r \in Refs, Anchor(r)
    PROVE  TypeOK'
<1>1. Manifest \in Bytes /\ Files(manifests) /\ Files(proofs) /\ Files(stamped)
  BY ManifestType, TypeParts DEF Bytes
<1>2. Files(manifests') /\ Files(proofs') /\ Files(stamped')
  BY <1>1, FilesType DEF Anchor
<1>3. /\ Archive(db) /\ db.anchor \subseteq AnchorRows /\ Blobs(blobs)
      /\ Astray(elsewhere) /\ Declared(declared) /\ edits \in 0 .. MaxEdits
  BY TypeParts DEF Archive
<1>4. [manifest_ref |-> r, manifest_sha256 |-> Manifest] \in AnchorRows
  BY <1>1 DEF AnchorRows
<1>5. Archive(db')
  BY <1>3, <1>4 DEF Anchor, Archive
<1> QED
  BY <1>2, <1>3, <1>5, TypeParts DEF Anchor

\* The programs leave every variable of its kind.
LEMMA TypeOfPrograms ==
    ASSUME TypeOK,
           \/ \E c \in Checks, x \in Observed : RecordPoll(c, x)
           \/ \E c \in Checks, x \in Contents : RecordNormalisation(c, x)
           \/ \E x \in Contents : Annotate(x)
    PROVE  TypeOK'
<1>1. /\ Archive(db) /\ Blobs(blobs) /\ Astray(elsewhere) /\ Declared(declared)
      /\ Files(manifests) /\ Files(proofs) /\ Files(stamped) /\ edits \in 0 .. MaxEdits
  BY TypeParts
<1>2. \A c \in Checks : db.poll[c] \in Tables /\ db.norm[c] \in Tables
  BY <1>1 DEF Archive
<1>3. db.annotation \in Tables
  BY <1>1 DEF Archive
<1>4. ASSUME NEW c \in Checks, NEW x \in Observed, RecordPoll(c, x) PROVE TypeOK'
  <2>1. Blobs(blobs')
    <3>1. CASE x \in DOMAIN blobs \cup {NONE}
      BY <1>1, <1>4, <3>1 DEF RecordPoll, put_blob
    <3>2. CASE x \notin DOMAIN blobs \cup {NONE}
      <4>1. x \in Contents
        BY <3>2 DEF Observed
      <4> QED
        BY <1>1, <1>4, <3>2, <4>1, BlobsType DEF RecordPoll, put_blob
    <3> QED
      BY <3>1, <3>2
  <2>2. Logged(db.poll[c], x, x) \in Tables
    BY <1>2, LoggedType
  <2>3. db' = [db EXCEPT !.poll[c] = Logged(db.poll[c], x, x)]
    BY <1>4 DEF RecordPoll
  <2>4. Archive(db')
    BY <1>1, <2>2, <2>3, ArchiveType
  <2> QED
    BY <1>1, <1>4, <2>1, <2>4, TypeParts DEF RecordPoll
<1>5. ASSUME NEW c \in Checks, NEW x \in Contents, RecordNormalisation(c, x) PROVE TypeOK'
  <2>1. Logged(db.norm[c], x, NONE) \in Tables
    BY <1>2, LoggedType DEF Observed
  <2>2. db' = [db EXCEPT !.norm[c] = Logged(db.norm[c], x, NONE)]
    BY <1>5 DEF RecordNormalisation
  <2>3. Archive(db')
    BY <1>1, <2>1, <2>2, ArchiveType
  <2> QED
    BY <1>1, <1>5, <2>3, TypeParts DEF RecordNormalisation
<1>6. ASSUME NEW x \in Contents, Annotate(x) PROVE TypeOK'
  <2>1. Logged(db.annotation, x, NONE) \in Tables
    BY <1>3, LoggedType DEF Observed
  <2>2. db' = [db EXCEPT !.annotation = Logged(db.annotation, x, NONE)]
    BY <1>6 DEF Annotate
  <2>3. Archive(db')
    BY <1>1, <2>1, <2>2 DEF Archive
  <2> QED
    BY <1>1, <1>6, <2>3, TypeParts DEF Annotate
<1> QED
  BY <1>4, <1>5, <1>6

\* So do the edits of polls.db.
LEMMA TypeOfTableEdits ==
    ASSUME TypeOK,
           (\E c \in Checks : EditPolls(c) \/ EditNormalisations(c)) \/ EditAnnotations \/ EditIndex
    PROVE  TypeOK'
<1>1. /\ Archive(db) /\ Blobs(blobs) /\ Astray(elsewhere) /\ Declared(declared)
      /\ Files(manifests) /\ Files(proofs) /\ Files(stamped) /\ edits \in 0 .. MaxEdits
  BY TypeParts
<1>2. \A c \in Checks : db.poll[c] \in Tables /\ db.norm[c] \in Tables
  BY <1>1 DEF Archive
<1>3. db.annotation \in Tables /\ db.anchor \subseteq AnchorRows
  BY <1>1 DEF Archive
<1>4. Edit => edits' \in 0 .. MaxEdits
  BY <1>1, VerificationAssumption DEF Edit
<1>5. ASSUME NEW c \in Checks, EditPolls(c) PROVE TypeOK'
  <2>1. PICK rows \in Tampered(db.poll[c])
                    \cup {Rehashed(h, TRUE) : h \in Histories(db.poll[c])}
                    \cup Referred(db.poll[c]) :
               db' = [db EXCEPT !.poll[c] = rows]
    BY <1>5, Zenon DEF EditPolls
  <2>2. rows \in Tables
    BY <1>2, <2>1, TamperedType, RehashedType
  <2>3. Archive(db')
    BY <1>1, <2>1, <2>2, ArchiveType, Zenon
  <2> QED
    BY <1>1, <1>4, <1>5, <2>3, TypeParts DEF EditPolls
<1>6. ASSUME NEW c \in Checks, EditNormalisations(c) PROVE TypeOK'
  <2>1. PICK rows \in Tampered(db.norm[c])
                    \cup {Rehashed(h, FALSE) : h \in Histories(db.norm[c])} :
               db' = [db EXCEPT !.norm[c] = rows]
    BY <1>6, Zenon DEF EditNormalisations
  <2>2. rows \in Tables
    BY <1>2, <2>1, TamperedType, RehashedType
  <2>3. Archive(db')
    BY <1>1, <2>1, <2>2, ArchiveType, Zenon
  <2> QED
    BY <1>1, <1>4, <1>6, <2>3, TypeParts DEF EditNormalisations
<1>7. ASSUME EditAnnotations PROVE TypeOK'
  <2>1. PICK rows \in Tampered(db.annotation)
                    \cup {Rehashed(h, FALSE) : h \in Histories(db.annotation)} :
               db' = [db EXCEPT !.annotation = rows]
    BY <1>7 DEF EditAnnotations
  <2>2. rows \in Tables
    BY <1>3, <2>1, TamperedType, RehashedType
  <2>3. Archive(db')
    BY <1>1, <2>1, <2>2 DEF Archive
  <2> QED
    BY <1>1, <1>4, <1>7, <2>3, TypeParts DEF EditAnnotations
<1>8. ASSUME EditIndex PROVE TypeOK'
  <2>1. \E index \in SUBSET AnchorRows : db' = [db EXCEPT !.anchor = index]
    <3>1. PICK row \in db.anchor :
            \/ db' = [db EXCEPT !.anchor = @ \ {row}]
            \/ /\ row.manifest_ref \in DOMAIN manifests
               /\ db' = [db EXCEPT !.anchor = (@ \ {row}) \cup
                           {[row EXCEPT !.manifest_sha256 = manifests[row.manifest_ref]]}]
      BY <1>8 DEF EditIndex
    <3>2. CASE db' = [db EXCEPT !.anchor = @ \ {row}]
      BY <1>3, <3>2
    <3>3. CASE /\ row.manifest_ref \in DOMAIN manifests
               /\ db' = [db EXCEPT !.anchor = (@ \ {row}) \cup
                           {[row EXCEPT !.manifest_sha256 = manifests[row.manifest_ref]]}]
      <4> DEFINE new == [row EXCEPT !.manifest_sha256 = manifests[row.manifest_ref]]
      <4>1. row \in AnchorRows /\ manifests[row.manifest_ref] \in Bytes
        BY <1>1, <1>3, <3>1, <3>3 DEF Files
      <4>2. new \in AnchorRows
        BY <4>1 DEF AnchorRows
      <4> HIDE DEF new
      <4>3. (db.anchor \ {row}) \cup {new} \in SUBSET AnchorRows
        BY <1>3, <4>2
      <4> QED
        BY <3>3, <4>3 DEF new
    <3> QED
      BY <3>1, <3>2, <3>3
  <2>2. Archive(db')
    BY <1>1, <2>1 DEF Archive
  <2> QED
    BY <1>1, <1>4, <1>8, <2>2, TypeParts DEF EditIndex
<1> QED
  BY <1>5, <1>6, <1>7, <1>8

\* And the edits of files.
LEMMA TypeOfFileEdits ==
    ASSUME TypeOK,
           EditBlobs \/ EditDirectories \/ EditDeclaration \/ EditManifests \/ EditProofs \/ Reanchor
    PROVE  TypeOK'
<1>1. /\ Archive(db) /\ Blobs(blobs) /\ Astray(elsewhere) /\ Declared(declared)
      /\ Files(manifests) /\ Files(proofs) /\ Files(stamped) /\ edits \in 0 .. MaxEdits
  BY TypeParts
<1>2. Edit => edits' \in 0 .. MaxEdits
  BY <1>1, VerificationAssumption DEF Edit
<1>3. UNREADABLE \in Bytes /\ Manifest \in Bytes
  BY ManifestType DEF Bytes
<1>4. ASSUME EditBlobs PROVE TypeOK'
  <2>1. CASE \E x \in DOMAIN blobs : blobs' = Without(blobs, x)
    <3>1. Blobs(blobs')
      BY <1>1, <2>1, BlobsType DEF Blobs
    <3> QED
      BY <1>1, <1>2, <1>4, <3>1, TypeParts DEF EditBlobs
  <2>2. CASE \E x \in Contents, bytes \in Contents \cup {UNREADABLE} :
                blobs' = With(blobs, x, bytes)
    <3>1. Blobs(blobs')
      BY <1>1, <2>2, BlobsType
    <3> QED
      BY <1>1, <1>2, <1>4, <3>1, TypeParts DEF EditBlobs
  <2>3. CASE \E x \in DOMAIN blobs, y \in Contents : blobs' = With(Without(blobs, x), y, y)
    <3>1. PICK x \in DOMAIN blobs, y \in Contents : blobs' = With(Without(blobs, x), y, y)
      BY <2>3
    <3>2. x \in Contents
      BY <1>1, <3>1 DEF Blobs
    <3>3. Blobs(Without(blobs, x))
      BY <1>1, <3>2, BlobsType
    <3>4. Blobs(blobs')
      BY <3>1, <3>3, BlobsType
    <3> QED
      BY <1>1, <1>2, <1>4, <3>4, TypeParts DEF EditBlobs
  <2> QED
    BY <1>4, <2>1, <2>2, <2>3 DEF EditBlobs
<1>8. ASSUME EditDirectories PROVE TypeOK'
  <2>1. PICK late \in BOOLEAN :
          \/ \E x \in DOMAIN blobs :
                /\ blobs' = Without(blobs, x)
                /\ elsewhere' = With(elsewhere, x, [bytes |-> blobs[x], late |-> late])
          \/ \E x \in Contents, bytes \in Contents \cup {UNREADABLE} :
                /\ elsewhere' = With(elsewhere, x, [bytes |-> bytes, late |-> late])
                /\ UNCHANGED blobs
    BY <1>8 DEF EditDirectories
  <2>2. Blobs(blobs') /\ Astray(elsewhere')
    <3>1. ASSUME NEW x \in DOMAIN blobs, blobs' = Without(blobs, x),
                 elsewhere' = With(elsewhere, x, [bytes |-> blobs[x], late |-> late])
          PROVE  Blobs(blobs') /\ Astray(elsewhere')
      <4>1. x \in Contents /\ blobs[x] \in Contents \cup {UNREADABLE}
        BY <1>1 DEF Blobs
      <4> QED
        BY <1>1, <3>1, <4>1, BlobsType, AstrayType
    <3>2. ASSUME NEW x \in Contents, NEW bytes \in Contents \cup {UNREADABLE}, UNCHANGED blobs,
                 elsewhere' = With(elsewhere, x, [bytes |-> bytes, late |-> late])
          PROVE  Blobs(blobs') /\ Astray(elsewhere')
      BY <1>1, <3>2, AstrayType
    <3> QED
      BY <2>1, <3>1, <3>2
  <2> QED
    BY <1>1, <1>2, <1>8, <2>2, TypeParts DEF EditDirectories
<1>9. ASSUME EditDeclaration PROVE TypeOK'
  <2>1. PICK c \in Checks :
          \/ declared' = Without(declared, c)
          \/ \E head \in {combined_head(c),
                          Combined(GENESIS, GENESIS, GENESIS, COMBINED_HEAD_VERSION)} :
                declared' = With(declared, c, head)
    BY <1>9 DEF EditDeclaration
  <2>2. combined_head(c) \in CombinedHeads
    BY <1>1, CombinedType DEF Archive
  <2>3. Declared(declared')
    BY <1>1, <2>1, <2>2, CombinedType, DeclaredType
  <2> QED
    BY <1>1, <1>2, <1>9, <2>3, TypeParts DEF EditDeclaration
<1>5. ASSUME EditManifests PROVE TypeOK'
  <2>1. PICK r \in DOMAIN manifests :
          \/ manifests' = Without(manifests, r)
          \/ manifests' = With(manifests, r, UNREADABLE)
          \/ /\ manifests[r] # UNREADABLE
             /\ \E e \in manifests[r] : \E f \in Doctored(e) :
                   manifests' = With(manifests, r, (manifests[r] \ {e}) \cup {f})
    BY <1>5 DEF EditManifests
  <2>2. r \in Refs /\ manifests[r] \in Bytes
    BY <1>1 DEF Files
  <2>3. Files(manifests')
    <3>1. CASE manifests' = Without(manifests, r) \/ manifests' = With(manifests, r, UNREADABLE)
      BY <1>1, <1>3, <2>2, <3>1, FilesType
    <3>2. CASE /\ manifests[r] # UNREADABLE
               /\ \E e \in manifests[r] : \E f \in Doctored(e) :
                     manifests' = With(manifests, r, (manifests[r] \ {e}) \cup {f})
      <4>1. PICK e \in manifests[r] : \E f \in Doctored(e) :
                     manifests' = With(manifests, r, (manifests[r] \ {e}) \cup {f})
        BY <3>2
      <4>2. PICK f \in Doctored(e) :
                     manifests' = With(manifests, r, (manifests[r] \ {e}) \cup {f})
        BY <4>1
      <4>3. manifests[r] \in SUBSET Entries
        BY <2>2, <3>2 DEF Bytes
      <4>4. f \in Entries
        BY <4>1, <4>2, <4>3, DoctoredType
      <4>5. (manifests[r] \ {e}) \cup {f} \in Bytes
        BY <4>3, <4>4 DEF Bytes
      <4> QED
        BY <1>1, <2>2, <4>2, <4>5, FilesType
    <3> QED
      BY <2>1, <3>1, <3>2
  <2> QED
    BY <1>1, <1>2, <1>5, <2>3, TypeParts DEF EditManifests
<1>6. ASSUME EditProofs PROVE TypeOK'
  <2>1. PICK r \in DOMAIN proofs :
          \/ proofs' = Without(proofs, r)
          \/ proofs' = With(proofs, r, UNREADABLE)
          \/ r \in DOMAIN manifests /\ proofs' = With(proofs, r, manifests[r])
    BY <1>6 DEF EditProofs
  <2>2. r \in Refs /\ (r \in DOMAIN manifests => manifests[r] \in Bytes)
    BY <1>1 DEF Files
  <2>3. Files(proofs')
    BY <1>1, <1>3, <2>1, <2>2, FilesType
  <2> QED
    BY <1>1, <1>2, <1>6, <2>3, TypeParts DEF EditProofs
<1>7. ASSUME Reanchor PROVE TypeOK'
  <2>1. PICK r \in DOMAIN manifests :
          manifests' = With(manifests, r, Manifest) /\ proofs' = With(proofs, r, Manifest)
    BY <1>7 DEF Reanchor
  <2>2. r \in Refs
    BY <1>1 DEF Files
  <2>3. Files(manifests') /\ Files(proofs')
    BY <1>1, <1>3, <2>1, <2>2, FilesType
  <2> QED
    BY <1>1, <1>2, <1>7, <2>3, TypeParts DEF Reanchor
<1> QED
  BY <1>4, <1>5, <1>6, <1>7, <1>8, <1>9

\* An empty archive has its kinds.
LEMMA TypeInit ==
    ASSUME Init
    PROVE  TypeOK
<1>1. << >> \in Tables
  BY DEF Tables
<1>2. Archive(db)
  BY <1>1 DEF Init, Archive
<1>3. DOMAIN Nothing = {}
  BY DEF Nothing
<1>4. /\ Blobs(blobs) /\ Astray(elsewhere) /\ Declared(declared)
      /\ Files(manifests) /\ Files(proofs) /\ Files(stamped)
  BY <1>3 DEF Init, Blobs, Astray, Declared, Files
<1>5. edits \in 0 .. MaxEdits
  BY VerificationAssumption DEF Init
<1> QED
  BY <1>2, <1>4, <1>5, TypeParts

\* One step of any kind keeps every variable of its kind.
LEMMA TypeInductive ==
    ASSUME TypeOK, [Next]_vars
    PROVE  TypeOK'
<1>1. CASE UNCHANGED vars
  BY <1>1 DEF vars, TypeOK
<1>2. CASE Next
  BY <1>2, TypeOfPrograms, TypeOfAnchor, TypeOfTableEdits, TypeOfFileEdits DEF Next
<1> QED
  BY <1>1, <1>2

\* Every variable of an edited archive holds a value of its kind.
THEOREM TypeCorrect == Spec => []TypeOK
BY TypeInit, TypeInductive, PTL DEF Spec

\* Over any edits to any archive: while a verifier passes, the history under the
\* proofs at hand is the one they were stamped over.
THEOREM AnchoredHistoryIsAlwaysFixed == Spec => []AnchoredHistoryIsFixed
BY TypeCorrect, PassingFixesHistory, PTL

\* Over any edits to any archive: the verifiers agree.
THEOREM VerifiersAlwaysAgree == Spec => []VerifiersAgree
BY TypeCorrect, VerdictsAgree, PTL
-----------------------------------------------------------------------------
(***************************************************************************)
(* The archive nobody edited.                                              *)
(***************************************************************************)

\* What holds of an archive only the programs have written to.
Honest ==
    /\ \A c \in Checks : ChainIntact(db.poll[c]) /\ ChainIntact(db.norm[c])
    /\ ChainIntact(db.annotation)
    /\ \A row \in PollRows : row.raw_ref = row.fields.content
    /\ \A row \in PollRows : row.fields.content \in DOMAIN blobs \cup {NONE}
    /\ \A x \in DOMAIN blobs : blobs[x] = x
    /\ DOMAIN elsewhere = {} /\ DOMAIN declared = {}
    /\ DOMAIN manifests = DOMAIN stamped /\ DOMAIN proofs = DOMAIN stamped
    /\ Recorded = DOMAIN stamped
    /\ \A r \in DOMAIN manifests : manifests[r] # UNREADABLE /\ proofs[r] = manifests[r]
    /\ \A row \in db.anchor : row.manifest_sha256 = manifests[row.manifest_ref]
    /\ \A r \in DOMAIN manifests : \A e \in manifests[r] :
          Located(e) /\ e.head_version = COMBINED_HEAD_VERSION /\ Follows(e, COMBINED_HEAD_VERSION)

\* The verifiers pass it.
LEMMA HonestPasses ==
    ASSUME TypeOK, Honest
    PROVE  /\ IndependentPasses /\ PluginFindings = {}
           /\ check_names # {} => AuditPasses
<1>1. Unbound = {}
  BY DEF Honest, Unbound
<1>2. \A x \in Referenced : InPlace(x)
  BY AttestedIsReferenced DEF Honest, InPlace
<1>3. /\ \A c \in check_names : ChainIntact(db.poll[c]) /\ ChainIntact(db.norm[c])
      /\ ChainIntact(db.annotation)
  BY DEF Honest, check_names
<1>4. \A r \in DOMAIN manifests : ManifestBound(r)
  BY DEF Honest, ManifestBound, EntryBound, COMBINED_HEAD_VERSION
<1>5. IndependentPasses
  BY <1>1, <1>2, <1>3, <1>4 DEF IndependentPasses
<1>9. check_names # {} => AuditPasses
  BY <1>2, RowsAreInLog, AttestedIsReferenced DEF Honest, AuditPasses
<1>10. DeclaredFindings = {}
  BY DEF DeclaredFindings, Honest
<1>6. BrokenChains = {}
  BY <1>3 DEF BrokenChains
<1>7. BlobFindings = {}
  <2>2. Referenced \subseteq DOMAIN on_disk
    BY <1>2 DEF InPlace, on_disk
  <2>3. DOMAIN on_disk = DOMAIN blobs /\ \A x \in DOMAIN on_disk : on_disk[x] = x
    BY DEF on_disk, Honest
  <2> QED
    BY <1>1, <2>2, <2>3 DEF BlobFindings
<1>8. AnchorFindings = {}
  <2>1. Readable = DOMAIN manifests /\ Recorded = DOMAIN manifests /\ DOMAIN proofs = DOMAIN manifests
    BY DEF Honest, Readable
  <2>2. \A r \in DOMAIN manifests : proofs[r] = manifests[r]
    BY DEF Honest
  <2>3. \A row \in db.anchor : row.manifest_sha256 = manifests[row.manifest_ref]
    BY DEF Honest
  <2>4. ASSUME NEW r \in Readable, NEW e \in manifests[r] PROVE ~ Unlocated(e) /\ ~ DoesNotFollow(e)
    <3>1. Located(e) /\ Follows(e, e.head_version)
      BY <2>1 DEF Honest
    <3> QED
      BY <1>3, <3>1, LocatedHasNoFinding DEF DoesNotFollow
  <2>5. {<<"unreadable manifest", r>> : r \in Recorded \cap (DOMAIN manifests \ Readable)} = {}
    BY <2>1
  <2>6. {r \in Readable : \E row \in db.anchor :
            row.manifest_ref = r /\ row.manifest_sha256 # manifests[r]} = {}
    BY <2>3
  <2>7. {<<"missing proof", r>> : r \in Readable \ DOMAIN proofs} = {}
    BY <2>1
  <2>8. {r \in Readable \cap DOMAIN proofs : proofs[r] # manifests[r]} = {}
    BY <2>1, <2>2
  <2>9. /\ {r \in Readable : \E e \in manifests[r] : Unlocated(e)} = {}
        /\ {r \in Readable : \E e \in manifests[r] : DoesNotFollow(e)} = {}
    BY <2>4
  <2>10. {<<"missing manifest", r>> : r \in Recorded \ DOMAIN manifests} = {}
    BY <2>1
  <2> QED
    BY <2>5, <2>6, <2>7, <2>8, <2>9, <2>10 DEF AnchorFindings
<1> QED
  BY <1>5, <1>6, <1>7, <1>8, <1>9, <1>10 DEF PluginFindings

\* Every row of an intact chain is reached, and its head is some row's, or the
\* genesis value.
LEMMA IntactIsTraced ==
    ASSUME NEW rows \in Tables, ChainIntact(rows)
    PROVE  /\ Traced(rows) = DOMAIN rows
           /\ rows # << >> => Len(rows) \in Traced(rows)
                              /\ rows[Len(rows)].record_hash = HeadOf(rows)
           /\ HeadOf(rows) = GENESIS \/ HeadOf(rows) \in Hashes(rows)
<1>1. DOMAIN rows = 1 .. Len(rows) /\ Len(rows) \in Nat
  BY DEF Tables
<1>2. \A n \in DOMAIN rows : \A i \in 1 .. n : i \in DOMAIN rows
  BY <1>1
<1>3. Traced(rows) = DOMAIN rows
  BY <1>2 DEF Traced, ChainIntact
<1>4. rows # << >> => Len(rows) \in DOMAIN rows
  BY <1>1 DEF Tables
<1> QED
  BY <1>3, <1>4 DEF HeadOf, Hashes

Grown(rows, new) ==
    /\ \A n \in Traced(rows) : n \in Traced(new) /\ new[n] = rows[n]
    /\ Hashes(rows) \subseteq Hashes(new)

\* A walk of a table that was appended to reaches what it reached before.
LEMMA AppendedIsGrown ==
    ASSUME NEW rows \in Tables, NEW row \in RowsOver(Fields, Observed)
    PROVE  Grown(rows, Append(rows, row)) /\ Grown(rows, rows)
<1> DEFINE new == Append(rows, row)
<1>1. /\ DOMAIN new = 1 .. (Len(rows) + 1) /\ DOMAIN rows = 1 .. Len(rows) /\ Len(rows) \in Nat
      /\ \A i \in 1 .. Len(rows) : new[i] = rows[i]
  BY AppendedRow DEF Tables
<1> HIDE DEF new
<1>2. ASSUME NEW i \in 1 .. Len(rows), RowTraces(rows, i) PROVE RowTraces(new, i)
  <2>1. i = 1 \/ i - 1 \in 1 .. Len(rows)
    BY <1>1
  <2> QED
    BY <1>1, <1>2, <2>1 DEF RowTraces
<1>3. ASSUME NEW n \in Traced(rows) PROVE n \in Traced(new) /\ new[n] = rows[n]
  <2>1. n \in 1 .. Len(rows) /\ \A i \in 1 .. n : RowTraces(rows, i)
    BY <1>1 DEF Traced
  <2>2. \A i \in 1 .. n : i \in 1 .. Len(rows)
    BY <1>1, <2>1
  <2>3. \A i \in 1 .. n : RowTraces(new, i)
    BY <1>2, <2>1, <2>2
  <2>4. n \in DOMAIN new
    BY <1>1, <2>1
  <2> QED
    BY <1>1, <2>1, <2>3, <2>4 DEF Traced
<1>4. Grown(rows, new)
  BY <1>3 DEF Grown, Hashes
<1> QED
  BY <1>4 DEF Grown, new

\* An entry located in the log stays so while the log is appended to.
LEMMA LocatedStays ==
    ASSUME NEW e \in Entries, Located(e),
           \A c \in Checks : Grown(db.poll[c], db'.poll[c]) /\ Grown(db.norm[c], db'.norm[c]),
           Grown(db.annotation, db'.annotation)
    PROVE  Located(e)'
<1>1. e.check \in Checks
  BY DEF Entries
<1> QED
  BY <1>1 DEF Located, Grown

\* The entries "archive anchor" writes are located in the log.
LEMMA NewEntryIsLocated ==
    ASSUME TypeOK, Honest, NEW c \in check_names
    PROVE  LET e == Components(c)
           IN  Located(e) /\ e.head_version = COMBINED_HEAD_VERSION /\ Follows(e, COMBINED_HEAD_VERSION)
<1>1. /\ c \in Checks /\ db.poll[c] # << >>
      /\ db.poll[c] \in Tables /\ db.norm[c] \in Tables /\ db.annotation \in Tables
  BY DEF check_names, TypeOK
<1>2. ChainIntact(db.poll[c]) /\ ChainIntact(db.norm[c]) /\ ChainIntact(db.annotation)
  BY <1>1 DEF Honest
<1>3. Located(Components(c))
  BY <1>1, <1>2, IntactIsTraced DEF Located, Components
<1> QED
  BY <1>3 DEF Follows, Components, combined_head

\* A manifest that does not parse is none that "archive anchor" writes.  (TLC's
\* model values are unequal to any set; the module itself cannot say so to TLC.)
UnreadableIsNoManifest == UNREADABLE \notin SUBSET Entries

\* Logging to an archive keeps it honest.
LEMMA HonestLogging ==
    ASSUME TypeOK, Honest,
           \/ \E c \in Checks, x \in Observed : RecordPoll(c, x)
           \/ \E c \in Checks, x \in Contents : RecordNormalisation(c, x)
           \/ \E x \in Contents : Annotate(x)
    PROVE  Honest'
<1>1. /\ Archive(db) /\ \A c \in Checks : db.poll[c] \in Tables /\ db.norm[c] \in Tables
      /\ db.annotation \in Tables
  BY TypeParts DEF Archive
<1>2. ASSUME NEW rows \in Tables, ChainIntact(rows), NEW x \in Observed, NEW ref \in Observed
      PROVE  /\ ChainIntact(Logged(rows, x, ref)) /\ Grown(rows, Logged(rows, x, ref))
             /\ Logged(rows, x, ref) \in Tables
             /\ \A i \in DOMAIN Logged(rows, x, ref) :
                  \/ i \in DOMAIN rows /\ Logged(rows, x, ref)[i] = rows[i]
                  \/ Logged(rows, x, ref)[i] = RowOn([content |-> x], ref, HeadOf(rows))
  <2> DEFINE row == RowOn([content |-> x], ref, HeadOf(rows))
  <2>1. rows \in Seq(RowsOver(Fields, Observed)) /\ [content |-> x] \in Fields
    BY DEF Tables, Fields
  <2>2. row \in RowsOver(Fields, Observed)
    BY <2>1, HeadType, RowType
  <2>3. ChainIntact(Append(rows, row))
    BY <1>2, <2>1, IntactAfterInsert
  <2> HIDE DEF row
  <2>4. Grown(rows, Append(rows, row))
    BY <2>2, AppendedIsGrown
  <2>5. \A i \in DOMAIN Append(rows, row) :
          (i \in DOMAIN rows /\ Append(rows, row)[i] = rows[i]) \/ Append(rows, row)[i] = row
    BY <2>1, <2>2, AppendedRow
  <2>6. Logged(rows, x, ref) = Append(rows, row)
    BY DEF Logged, row
  <2> QED
    BY <2>3, <2>4, <2>5, <2>6, LoggedType DEF row
<1>3. ASSUME NEW c \in Checks PROVE Grown(db.poll[c], db.poll[c]) /\ Grown(db.norm[c], db.norm[c])
  BY DEF Grown
<1>4. Grown(db.annotation, db.annotation)
  BY DEF Grown
<1>5. \A r \in DOMAIN manifests : \A e \in manifests[r] : e \in Entries /\ Located(e)
  BY Kinds DEF Honest, Readable
<1>6. ASSUME NEW c \in Checks, NEW x \in Observed, RecordPoll(c, x) PROVE Honest'
  <2> DEFINE new == Logged(db.poll[c], x, x)
  <2>1. /\ ChainIntact(new) /\ Grown(db.poll[c], new)
        /\ \A i \in DOMAIN new :
             \/ i \in DOMAIN db.poll[c] /\ new[i] = db.poll[c][i]
             \/ new[i] = RowOn([content |-> x], x, HeadOf(db.poll[c]))
    BY <1>1, <1>2 DEF Honest
  <2>2. /\ db' = [db EXCEPT !.poll[c] = new] /\ blobs' = put_blob(x)
        /\ UNCHANGED <<elsewhere, manifests, proofs, stamped, declared, edits>>
    BY <1>6 DEF RecordPoll
  <2> HIDE DEF new
  <2>3. /\ db'.poll = [db.poll EXCEPT ![c] = new]
        /\ db'.norm = db.norm /\ db'.annotation = db.annotation /\ db'.anchor = db.anchor
    BY <1>1, <2>2 DEF Archive
  <2>4. db'.poll[c] = new /\ \A d \in Checks : d # c => db'.poll[d] = db.poll[d]
    BY <1>1, <2>3 DEF Archive
  <2>5. \A row \in PollRows' : \/ row \in PollRows
                               \/ row = RowOn([content |-> x], x, HeadOf(db.poll[c]))
    <3> SUFFICES ASSUME NEW d \in Checks, NEW i \in DOMAIN db'.poll[d]
                 PROVE  \/ db'.poll[d][i] \in PollRows
                        \/ db'.poll[d][i] = RowOn([content |-> x], x, HeadOf(db.poll[c]))
      BY DEF PollRows
    <3>1. CASE d = c
      BY <2>1, <2>4, <3>1 DEF PollRows
    <3>2. CASE d # c
      BY <2>4, <3>2 DEF PollRows
    <3> QED
      BY <3>1, <3>2
  <2>6. \A row \in PollRows' : row.raw_ref = row.fields.content
    BY <2>5 DEF Honest, RowOn
  <2>7. /\ DOMAIN blobs \subseteq DOMAIN blobs' /\ x \in DOMAIN blobs' \cup {NONE}
        /\ \A y \in DOMAIN blobs' : blobs'[y] = y
    BY <2>2 DEF put_blob, With, Honest
  <2>8. \A row \in PollRows' : row.fields.content \in DOMAIN blobs' \cup {NONE}
    BY <2>5, <2>7 DEF Honest, RowOn
  <2>9. \A d \in Checks : Grown(db.poll[d], db'.poll[d]) /\ Grown(db.norm[d], db'.norm[d])
    BY <1>3, <2>1, <2>3, <2>4
  <2>10. \A r \in DOMAIN manifests' : \A e \in manifests'[r] : Located(e)'
    BY <1>4, <1>5, <2>2, <2>3, <2>9, LocatedStays
  <2>11. \A d \in Checks : ChainIntact(db'.poll[d]) /\ ChainIntact(db'.norm[d])
    BY <2>1, <2>3, <2>4 DEF Honest
  <2> QED
    BY <2>2, <2>3, <2>6, <2>7, <2>8, <2>10, <2>11 DEF Honest, Recorded
<1>7. ASSUME NEW c \in Checks, NEW x \in Contents, RecordNormalisation(c, x) PROVE Honest'
  <2> DEFINE new == Logged(db.norm[c], x, NONE)
  <2>1. ChainIntact(new) /\ Grown(db.norm[c], new)
    BY <1>1, <1>2 DEF Honest, Observed
  <2>2. /\ db' = [db EXCEPT !.norm[c] = new]
        /\ UNCHANGED <<blobs, elsewhere, manifests, proofs, stamped, declared, edits>>
    BY <1>7 DEF RecordNormalisation
  <2> HIDE DEF new
  <2>3. /\ db'.norm = [db.norm EXCEPT ![c] = new]
        /\ db'.poll = db.poll /\ db'.annotation = db.annotation /\ db'.anchor = db.anchor
    BY <1>1, <2>2 DEF Archive
  <2>4. db'.norm[c] = new /\ \A d \in Checks : d # c => db'.norm[d] = db.norm[d]
    BY <1>1, <2>3 DEF Archive
  <2>5. PollRows' = PollRows
    BY <2>3 DEF PollRows
  <2>6. \A d \in Checks : Grown(db.poll[d], db'.poll[d]) /\ Grown(db.norm[d], db'.norm[d])
    BY <1>3, <2>1, <2>3, <2>4
  <2>7. \A r \in DOMAIN manifests' : \A e \in manifests'[r] : Located(e)'
    BY <1>4, <1>5, <2>2, <2>3, <2>6, LocatedStays
  <2>8. \A d \in Checks : ChainIntact(db'.poll[d]) /\ ChainIntact(db'.norm[d])
    BY <2>1, <2>3, <2>4 DEF Honest
  <2> QED
    BY <2>2, <2>3, <2>5, <2>7, <2>8 DEF Honest, Recorded
<1>8. ASSUME NEW x \in Contents, Annotate(x) PROVE Honest'
  <2> DEFINE new == Logged(db.annotation, x, NONE)
  <2>1. ChainIntact(new) /\ Grown(db.annotation, new)
    BY <1>1, <1>2 DEF Honest, Observed
  <2>2. /\ db' = [db EXCEPT !.annotation = new]
        /\ UNCHANGED <<blobs, elsewhere, manifests, proofs, stamped, declared, edits>>
    BY <1>8 DEF Annotate
  <2> HIDE DEF new
  <2>3. /\ db'.annotation = new
        /\ db'.poll = db.poll /\ db'.norm = db.norm /\ db'.anchor = db.anchor
    BY <1>1, <2>2 DEF Archive
  <2>4. PollRows' = PollRows
    BY <2>3 DEF PollRows
  <2>5. \A r \in DOMAIN manifests' : \A e \in manifests'[r] : Located(e)'
    BY <1>3, <1>5, <2>1, <2>2, <2>3, LocatedStays
  <2> QED
    BY <2>1, <2>2, <2>3, <2>4, <2>5 DEF Honest, Recorded
<1> QED
  BY <1>6, <1>7, <1>8

\* So does anchoring it.
LEMMA HonestAnchoring ==
    ASSUME UnreadableIsNoManifest, TypeOK, Honest, NEW r \in Refs, Anchor(r)
    PROVE  Honest'
<1>1. Archive(db)
  BY TypeParts
<1> DEFINE row == [manifest_ref |-> r, manifest_sha256 |-> Manifest]
<1>2. /\ r \notin DOMAIN stamped
      /\ manifests' = With(manifests, r, Manifest) /\ proofs' = With(proofs, r, Manifest)
      /\ stamped' = With(stamped, r, Manifest)
      /\ db' = [db EXCEPT !.anchor = db.anchor \cup {row}]
      /\ UNCHANGED <<blobs, elsewhere, declared, edits>>
  BY DEF Anchor
<1>3. row.manifest_ref = r /\ row.manifest_sha256 = Manifest
  OBVIOUS
<1> HIDE DEF row
<1>4. /\ db'.poll = db.poll /\ db'.norm = db.norm /\ db'.annotation = db.annotation
      /\ db'.anchor = db.anchor \cup {row}
  BY <1>1, <1>2 DEF Archive
<1>5. Manifest # UNREADABLE
  BY ManifestType DEF UnreadableIsNoManifest
<1>6. /\ DOMAIN manifests' = DOMAIN stamped' /\ DOMAIN proofs' = DOMAIN stamped'
      /\ DOMAIN stamped' = DOMAIN stamped \cup {r}
      /\ \A q \in DOMAIN manifests' : /\ q = r => manifests'[q] = Manifest /\ proofs'[q] = Manifest
                                      /\ q # r => /\ q \in DOMAIN manifests
                                                  /\ manifests'[q] = manifests[q]
                                                  /\ proofs'[q] = proofs[q]
  BY <1>2 DEF With, Honest
<1>7. Recorded' = Recorded \cup {r}
  BY <1>3, <1>4 DEF Recorded
<1>8. \A q \in DOMAIN manifests' : manifests'[q] # UNREADABLE /\ proofs'[q] = manifests'[q]
  BY <1>5, <1>6 DEF Honest
<1>9. ASSUME NEW entry \in db'.anchor
      PROVE  entry.manifest_sha256 = manifests'[entry.manifest_ref]
  <2>1. CASE entry = row
    BY <1>3, <1>6, <2>1
  <2>2. CASE entry # row
    <3>1. entry \in db.anchor
      BY <1>4, <2>2
    <3>2. entry.manifest_ref \in DOMAIN stamped /\ entry.manifest_ref \in DOMAIN manifests
      BY <3>1 DEF Honest, Recorded
    <3>3. entry.manifest_ref # r /\ entry.manifest_ref \in DOMAIN manifests'
      BY <1>2, <1>6, <3>2
    <3>4. entry.manifest_sha256 = manifests[entry.manifest_ref]
      BY <3>1 DEF Honest
    <3> QED
      BY <1>6, <3>3, <3>4
  <2> QED
    BY <2>1, <2>2
<1>10. ASSUME NEW q \in DOMAIN manifests', NEW e \in manifests'[q]
       PROVE  /\ Located(e)' /\ e.head_version = COMBINED_HEAD_VERSION
              /\ Follows(e, COMBINED_HEAD_VERSION)
  <2>1. /\ Located(e) /\ e.head_version = COMBINED_HEAD_VERSION
        /\ Follows(e, COMBINED_HEAD_VERSION)
    <3>1. CASE q = r
      <4>1. e \in Manifest
        BY <1>6, <1>10, <3>1
      <4>2. PICK c \in check_names : e = Components(c)
        BY <4>1 DEF Manifest
      <4> QED
        BY <4>2, NewEntryIsLocated
    <3>2. CASE q # r
      BY <1>6, <1>10, <3>2 DEF Honest
    <3> QED
      BY <3>1, <3>2
  <2> QED
    BY <1>4, <2>1 DEF Located
<1>11. PollRows' = PollRows
  BY <1>4 DEF PollRows
<1> QED
  BY <1>2, <1>4, <1>6, <1>7, <1>8, <1>9, <1>10, <1>11 DEF Honest

\* An archive nobody edited passes, whatever was logged and anchored in whatever order.
THEOREM HonestArchiveAlwaysPasses ==
    ASSUME UnreadableIsNoManifest
    PROVE  Spec => []HonestArchivePasses
<1> DEFINE Inv == TypeOK /\ (edits = 0 => Honest)
<1>1. Init => Inv
  <2> SUFFICES ASSUME Init PROVE Inv
    OBVIOUS
  <2>1. DOMAIN Nothing = {}
    BY DEF Nothing
  <2>2. \A c \in Checks : db.poll[c] = << >> /\ db.norm[c] = << >>
    BY DEF Init
  <2>3. DOMAIN << >> = {}
    OBVIOUS
  <2>4. PollRows = {}
    BY <2>2, <2>3 DEF PollRows
  <2>5. /\ \A c \in Checks : ChainIntact(db.poll[c]) /\ ChainIntact(db.norm[c])
        /\ ChainIntact(db.annotation)
    BY <2>2, <2>3 DEF Init, ChainIntact
  <2>6. db.anchor = {}
    BY DEF Init
  <2> QED
    BY <2>1, <2>4, <2>5, <2>6, TypeInit DEF Init, Honest, Recorded
<1>2. Inv /\ [Next]_vars => Inv'
  <2> SUFFICES ASSUME TypeOK, edits = 0 => Honest, [Next]_vars PROVE Inv'
    OBVIOUS
  <2>1. TypeOK'
    BY TypeInductive
  <2>2. ASSUME edits' = 0 PROVE Honest'
    <3>1. CASE UNCHANGED vars
      BY <2>2, <3>1 DEF vars, Honest, PollRows, Recorded, Located, Follows
    <3>2. CASE \/ \E c \in Checks, x \in Observed : RecordPoll(c, x)
               \/ \E c \in Checks, x \in Contents : RecordNormalisation(c, x)
               \/ \E x \in Contents : Annotate(x)
      BY <2>2, <3>2, HonestLogging DEF RecordPoll, RecordNormalisation, Annotate
    <3>3. CASE \E r \in Refs : Anchor(r)
      BY <2>2, <3>3, HonestAnchoring DEF Anchor
    <3>4. ASSUME Edit PROVE FALSE
      BY <2>2, <3>4 DEF Edit, TypeOK
    <3> QED
      BY <3>1, <3>2, <3>3, <3>4
         DEF Next, EditPolls, EditNormalisations, EditAnnotations, EditIndex, EditBlobs,
             EditDirectories, EditDeclaration, EditManifests, EditProofs, Reanchor
  <2> QED
    BY <2>1, <2>2
<1>3. Inv => HonestArchivePasses
  BY HonestPasses DEF HonestArchivePasses
<1> QED
  BY <1>1, <1>2, <1>3, PTL DEF Spec
=============================================================================
