----------------------------- MODULE Anchoring -----------------------------
(***************************************************************************)
(* Anchoring the chain heads to an external timestamp, and what fsck makes *)
(* of the result (anchor.py stamp and upgrade, store.py head_components,   *)
(* record_anchor, set_anchor_status and unanchored_polls, integrity.py     *)
(* _check_anchors), beside a collector that keeps logging.                 *)
(*                                                                         *)
(* Three processes share polls.db and anchors/: the collector, the daily   *)
(* "archive anchor" and the hourly "archive anchor-upgrade".  Every query  *)
(* opens a connection of its own, so anything can happen between two.      *)
(*                                                                         *)
(* A head commits to the rows below it and nothing else (Collector_proofs),*)
(* so a head is the chain itself and a chain is the sequence of its rows.  *)
(* A row is told apart by how often polls.db had been restored from a copy *)
(* when it was logged: two rows that follow the same history under the     *)
(* same restoration are the same row.                                      *)
(***************************************************************************)
EXTENDS ChainStore

CONSTANTS
    Checks,
    Overlap,      \* whether the collector may log while head_components reads
    MaxPolls,     \* bound: rows of a poll chain
    MaxOthers,    \* bound: rows of a normalisation chain and of the annotation chain
    MaxRuns,      \* bound: runs of "archive anchor"
    MaxRestores,  \* bound: times polls.db is replaced by an older copy
    MaxLosses     \* bound: proofs that go missing

ASSUME AnchoringAssumption ==
    /\ Overlap \in BOOLEAN
    /\ MaxPolls \in Nat /\ MaxOthers \in Nat /\ MaxRuns \in Nat
    /\ MaxRestores \in Nat /\ MaxLosses \in Nat

VARIABLES
    db,         \* polls.db: the chains and the table anchor
    copy,       \* an earlier copy of polls.db
    manifests,  \* anchors/*.json: manifest_ref -> entries
    proofs,     \* manifest_refs with a .ots file
    confirmed,  \* manifest_refs a Bitcoin block attests to (external)
    pc,         \* what "archive anchor" does next
    work,       \* its locals
    todo,       \* what the running "archive anchor-upgrade" has yet to look at
    runs, restores, losses    \* counters of the bounds

anchoring == <<pc, work, runs>>
world == <<copy, confirmed, restores, losses>>
vars == <<db, manifests, proofs, anchoring, todo, world>>

Chains == Seq(Nat)
Refs == 1 .. MaxRuns

CombinedHeads == [poll : Chains, norm : Chains, ann : Chains]
Entries ==
    [check : Checks, poll_head : Chains, norm_head : Chains,
     annotation_head : Chains, combined_head : CombinedHeads, last_poll_id : Nat]

AnchorRows ==
    [check : Checks, last_poll_id : Nat, manifest_ref : Refs,
     status : {"pending", "complete", "failed"}]

Databases ==
    [poll : [Checks -> Chains], norm : [Checks -> Chains], annotation : Chains,
     anchor : Seq(AnchorRows)]

NoWork == [left |-> {}, check |-> NONE, read |-> << >>, entries |-> {}, proved |-> FALSE]

Init ==
    /\ db = [poll |-> [c \in Checks |-> << >>], norm |-> [c \in Checks |-> << >>],
             annotation |-> << >>, anchor |-> << >>]
    /\ copy = db
    /\ manifests = [r \in {} |-> {}] /\ proofs = {} /\ confirmed = {}
    /\ pc = "idle" /\ work = NoWork /\ todo = {}
    /\ runs = 0 /\ restores = 0 /\ losses = 0
-----------------------------------------------------------------------------
(* The collector and its annotations. *)

MayLog(rows, bound) == Len(rows) < bound /\ (Overlap \/ pc # "heads")

LogPoll(c) ==
    /\ MayLog(db.poll[c], MaxPolls)
    /\ db' = [db EXCEPT !.poll[c] = Append(@, restores)]
    /\ UNCHANGED <<manifests, proofs, anchoring, todo, world>>

LogNorm(c) ==
    /\ MayLog(db.norm[c], MaxOthers)
    /\ db' = [db EXCEPT !.norm[c] = Append(@, restores)]
    /\ UNCHANGED <<manifests, proofs, anchoring, todo, world>>

LogAnnotation ==
    /\ MayLog(db.annotation, MaxOthers)
    /\ db' = [db EXCEPT !.annotation = Append(@, restores)]
    /\ UNCHANGED <<manifests, proofs, anchoring, todo, world>>
-----------------------------------------------------------------------------
(* "archive anchor". *)

check_names == {c \in Checks : db.poll[c] # << >>}

\* For every check in the log, or for one named on the command line.
Begin ==
    /\ pc = "idle" /\ runs < MaxRuns
    /\ runs' = runs + 1
    /\ \E names \in {check_names} \cup {{c} : c \in Checks} :
          work' = [NoWork EXCEPT !.left = names]
    /\ pc' = "names"
    /\ UNCHANGED <<db, manifests, proofs, todo, world>>

\* Mutant of NextName: a check that has no rows is anchored all the same.
NextNameEvenEmpty ==
    /\ pc = "names"
    /\ \E c \in work.left :
          work' = [work EXCEPT !.left = @ \ {c}, !.check = c, !.read = << >>]
    /\ pc' = "heads"
    /\ UNCHANGED <<db, manifests, proofs, runs, todo, world>>

\* build_manifest takes the next check, which it skips if nothing is recorded.
NextName ==
    /\ pc = "names"
    /\ \E c \in work.left :
          \/ /\ db.poll[c] = << >>
             /\ work' = [work EXCEPT !.left = @ \ {c}]
             /\ UNCHANGED pc
          \/ /\ db.poll[c] # << >>
             /\ work' = [work EXCEPT !.left = @ \ {c}, !.check = c, !.read = << >>]
             /\ pc' = "heads"
    /\ UNCHANGED <<db, manifests, proofs, runs, todo, world>>

\* The seven queries of head_components, in order: the three heads, the three
\* heads again for combined_head, and last_poll_id.
Answer(c, query) ==
    CASE query \in {1, 4} -> db.poll[c]
      [] query \in {2, 5} -> db.norm[c]
      [] query \in {3, 6} -> db.annotation
      [] query = 7        -> Len(db.poll[c])

\* Mutant of Components: the heads are combined in another order.
ComponentsSwapped(c, read) ==
    [check |-> c, poll_head |-> read[1], norm_head |-> read[2],
     annotation_head |-> read[3],
     combined_head |-> combine_heads(read[5], read[4], read[6]),
     last_poll_id |-> read[7]]

Components(c, read) ==
    [check |-> c, poll_head |-> read[1], norm_head |-> read[2],
     annotation_head |-> read[3],
     combined_head |-> combine_heads(read[4], read[5], read[6]),
     last_poll_id |-> read[7]]

ReadHeads ==
    LET read == Append(work.read, Answer(work.check, Len(work.read) + 1))
    IN  /\ pc = "heads"
        /\ \/ /\ Len(read) < 7
              /\ work' = [work EXCEPT !.read = read]
              /\ UNCHANGED pc
           \/ /\ Len(read) = 7
              /\ work' = [work EXCEPT !.read = << >>, !.check = NONE,
                             !.entries = @ \cup {Components(work.check, read)}]
              /\ pc' = "names"
        /\ UNCHANGED <<db, manifests, proofs, runs, todo, world>>

\* Nothing to anchor: AnchorError, before anything is written.
NothingToAnchor ==
    /\ pc = "names" /\ work.left = {} /\ work.entries = {}
    /\ pc' = "idle" /\ work' = NoWork
    /\ UNCHANGED <<db, manifests, proofs, runs, todo, world>>

\* Mutants of WriteManifest: the manifest is stamped from memory and never
\* written; and one name is used for every manifest, so that only the newest stays.
WriteNoManifest ==
    /\ pc = "names" /\ work.left = {} /\ work.entries # {}
    /\ pc' = "stamp"
    /\ UNCHANGED <<db, manifests, proofs, work, runs, todo, world>>

WriteOnlyManifest ==
    /\ pc = "names" /\ work.left = {} /\ work.entries # {}
    /\ manifests' = [r \in DOMAIN manifests \cup {runs} |-> work.entries]
    /\ pc' = "stamp"
    /\ UNCHANGED <<db, proofs, work, runs, todo, world>>

\* The manifest of run n is manifest_ref n.
WriteManifest ==
    /\ pc = "names" /\ work.left = {} /\ work.entries # {}
    /\ manifests' = [r \in DOMAIN manifests \cup {runs} |->
                       IF r = runs THEN work.entries ELSE manifests[r]]
    /\ pc' = "stamp"
    /\ UNCHANGED <<db, proofs, work, runs, todo, world>>

\* The OpenTimestamps client leaves a proof, or fails or times out and leaves none.
Stamp ==
    /\ pc = "stamp"
    /\ \E proved \in BOOLEAN :
          /\ proofs' = IF proved THEN proofs \cup {runs} ELSE proofs
          /\ work' = [work EXCEPT !.proved = proved]
    /\ pc' = "record"
    /\ UNCHANGED <<db, manifests, runs, todo, world>>

\* Mutant of RecordAnchor: what became of the stamp is not looked at.
RecordPending ==
    /\ pc = "record"
    /\ \E e \in work.entries :
          /\ db' = [db EXCEPT !.anchor = Append(@,
                      [check |-> e.check, last_poll_id |-> e.last_poll_id,
                       manifest_ref |-> runs, status |-> "pending"])]
          /\ work' = IF work.entries = {e} THEN NoWork
                     ELSE [work EXCEPT !.entries = @ \ {e}]
          /\ pc' = IF work.entries = {e} THEN "idle" ELSE "record"
    /\ UNCHANGED <<manifests, proofs, runs, todo, world>>

\* record_anchor, once for each entry.
RecordAnchor ==
    /\ pc = "record"
    /\ \E e \in work.entries :
          /\ db' = [db EXCEPT !.anchor = Append(@,
                      [check |-> e.check, last_poll_id |-> e.last_poll_id,
                       manifest_ref |-> runs,
                       status |-> IF work.proved THEN "pending" ELSE "failed"])]
          /\ work' = IF work.entries = {e} THEN NoWork
                     ELSE [work EXCEPT !.entries = @ \ {e}]
          /\ pc' = IF work.entries = {e} THEN "idle" ELSE "record"
    /\ UNCHANGED <<manifests, proofs, runs, todo, world>>

\* The run is killed, or an exception it does not catch ends it.
AnchorDies ==
    /\ pc # "idle"
    /\ pc' = "idle" /\ work' = NoWork
    /\ UNCHANGED <<db, manifests, proofs, runs, todo, world>>
-----------------------------------------------------------------------------
(* "archive anchor-upgrade". *)

Pending == {db.anchor[i].manifest_ref :
              i \in {j \in DOMAIN db.anchor : db.anchor[j].status = "pending"}}

BeginUpgrade ==
    /\ todo = {} /\ Pending # {}
    /\ todo' = Pending
    /\ UNCHANGED <<db, manifests, proofs, anchoring, world>>

\* set_anchor_status: every row of the manifest.
WithStatus(rows, ref, status) ==
    [i \in DOMAIN rows |-> IF rows[i].manifest_ref = ref
                           THEN [rows[i] EXCEPT !.status = status] ELSE rows[i]]

LookedAt(ref) ==
    /\ ref \in todo
    /\ todo' = todo \ {ref}
    /\ UNCHANGED <<manifests, proofs, anchoring, world>>

\* Mutant of UpgradeGone: a proof that is gone is looked for again next hour.
UpgradeStillGone(ref) ==
    LookedAt(ref) /\ ref \notin proofs /\ UNCHANGED db

UpgradeGone(ref) ==
    /\ LookedAt(ref) /\ ref \notin proofs
    /\ db' = [db EXCEPT !.anchor = WithStatus(@, ref, "failed")]

UpgradeComplete(ref) ==
    /\ LookedAt(ref) /\ ref \in proofs \cap confirmed
    /\ db' = [db EXCEPT !.anchor = WithStatus(@, ref, "complete")]

\* No block yet, or the calendar cannot be reached.
UpgradeWaits(ref) ==
    /\ LookedAt(ref) /\ ref \in proofs
    /\ UNCHANGED db

UpgradeDies ==
    /\ todo # {}
    /\ todo' = {}
    /\ UNCHANGED <<db, manifests, proofs, anchoring, world>>
-----------------------------------------------------------------------------
(* The world: a block commits to a stamp, a proof file goes missing, polls.db
   is copied and later replaced by the copy while anchors/ stays.          *)

Confirm(ref) ==
    /\ ref \in proofs \ confirmed
    /\ confirmed' = confirmed \cup {ref}
    /\ UNCHANGED <<db, manifests, proofs, anchoring, todo, copy, restores, losses>>

LoseProof ==
    /\ losses < MaxLosses
    /\ losses' = losses + 1
    /\ \E ref \in proofs : proofs' = proofs \ {ref}
    /\ UNCHANGED <<db, manifests, anchoring, todo, copy, confirmed, restores>>

Copy ==
    /\ restores < MaxRestores
    /\ copy' = db
    /\ UNCHANGED <<db, manifests, proofs, anchoring, todo, confirmed, restores, losses>>

Restore ==
    /\ restores < MaxRestores /\ pc = "idle" /\ todo = {}
    /\ restores' = restores + 1
    /\ db' = copy
    /\ UNCHANGED <<manifests, proofs, anchoring, todo, copy, confirmed, losses>>
-----------------------------------------------------------------------------
Log == LogAnnotation \/ \E c \in Checks : LogPoll(c) \/ LogNorm(c)

Anchor ==
    \/ NextName \/ ReadHeads \/ NothingToAnchor \/ WriteManifest \/ Stamp
    \/ RecordAnchor

Resolve(ref) == UpgradeGone(ref) \/ UpgradeComplete(ref)

Upgrading == BeginUpgrade \/ \E ref \in Refs : Resolve(ref) \/ UpgradeWaits(ref)

World == LoseProof \/ Copy \/ Restore \/ \E ref \in Refs : Confirm(ref)

Next == Log \/ Begin \/ Anchor \/ AnchorDies \/ Upgrading \/ UpgradeDies \/ World

\* The hourly timer runs the upgrade again whatever became of the last one, and
\* one of its runs gets through; a block comes.
Fairness ==
    /\ WF_vars(BeginUpgrade)
    /\ \A ref \in Refs : SF_vars(Resolve(ref)) /\ WF_vars(Confirm(ref))

Spec == Init /\ [][Next]_vars /\ Fairness
-----------------------------------------------------------------------------
(* What is read off an archive. *)

\* The heads a chain has had since it was empty: what a verifier recomputes.
Heads(rows) == {SubSeq(rows, 1, n) : n \in 1 .. Len(rows)}
InChain(head, rows) == head = GENESIS \/ head \in Heads(rows)

\* Mutant of EntryFindings: an anchor is held against the length of the log only.
EntryFindingsByLength(d, e) ==
    LET polls == d.poll[e.check]
    IN  IF polls = << >> THEN {"anchor names unknown check"}
        ELSE {"anchor ahead of log" : id \in {e.last_poll_id} \ DOMAIN polls}

\* _check_manifest_entry, for chains that recompute.
EntryFindings(d, e) ==
    LET polls == d.poll[e.check]
    IN  IF polls = << >> THEN {"anchor names unknown check"}
        ELSE {kind \in {"anchor ahead of log", "head mismatch",
                        "anchored head not in chain", "combined head does not follow"} :
              CASE kind = "anchor ahead of log" -> e.last_poll_id \notin DOMAIN polls
                [] kind = "head mismatch" ->
                      /\ e.last_poll_id \in DOMAIN polls
                      /\ SubSeq(polls, 1, e.last_poll_id) # e.poll_head
                [] kind = "anchored head not in chain" ->
                      \/ ~InChain(e.norm_head, d.norm[e.check])
                      \/ ~InChain(e.annotation_head, d.annotation)
                [] kind = "combined head does not follow" ->
                      e.combined_head # combine_heads(e.poll_head, e.norm_head,
                                                      e.annotation_head)}

\* The findings about the seam between the log and the proofs beside it.
SeamFindings(d, files) ==
    UNION {EntryFindings(d, e) : e \in UNION {files[r] : r \in DOMAIN files}}

\* _check_anchors: the findings that make "archive fsck" fail.
AnchorFindings(d, files, ots) ==
    SeamFindings(d, files)
    \cup {"missing proof" : r \in DOMAIN files \ ots}
    \cup {"missing manifest" : i \in {j \in DOMAIN d.anchor :
                                        d.anchor[j].manifest_ref \notin DOMAIN files}}

\* Mutant of Unanchored: a failed anchor counts.
UnanchoredCountingFailures(c) ==
    LET anchored == {db.anchor[i].last_poll_id :
                       i \in {j \in DOMAIN db.anchor : db.anchor[j].check = c}}
        last == Max(anchored \cup {0})
    IN  {id \in DOMAIN db.poll[c] : id > last}

\* unanchored_polls: the polls past the last row an anchor that did not fail names.
Unanchored(c) ==
    LET anchored == {db.anchor[i].last_poll_id :
                       i \in {j \in DOMAIN db.anchor : /\ db.anchor[j].check = c
                                                       /\ db.anchor[j].status # "failed"}}
        last == Max(anchored \cup {0})
    IN  {id \in DOMAIN db.poll[c] : id > last}

\* What audit_retained_responses.py reports as anchored: the polls up to the last
\* one any row of the table names.
AuditAnchored(c) ==
    LET upto == {db.anchor[i].last_poll_id :
                   i \in {j \in DOMAIN db.anchor : db.anchor[j].check = c}}
    IN  {id \in DOMAIN db.poll[c] : id <= Max(upto \cup {0})}

\* The polls of a check some proof covers.
Covered(c) ==
    {id \in DOMAIN db.poll[c] :
       \E r \in proofs : \E e \in manifests[r] :
          e.check = c /\ id <= Len(e.poll_head) /\ InChain(e.poll_head, db.poll[c])}
-----------------------------------------------------------------------------
(* Properties. *)

\* Every variable holds a value of its kind.
TypeOK ==
    /\ db \in Databases /\ copy \in Databases
    /\ DOMAIN manifests \subseteq Refs
    /\ manifests \in [DOMAIN manifests -> SUBSET Entries]
    /\ proofs \subseteq DOMAIN manifests /\ confirmed \subseteq DOMAIN manifests
    /\ pc \in {"idle", "names", "heads", "stamp", "record"}
    /\ work \in [left : SUBSET Checks, check : Checks \cup {NONE}, read : Seq(Chains),
                 entries : SUBSET Entries, proved : BOOLEAN]
    /\ todo \subseteq Refs
    /\ runs \in 0 .. MaxRuns /\ restores \in Nat /\ losses \in Nat

\* While polls.db was never replaced, each head a manifest names is one its
\* chain has had, even if the heads were read at different moments: fsck never
\* finds an anchored head to be out of its chain or of an unknown check.
AnchoredHeadsStayInTheLog ==
    restores = 0 =>
       \A r \in DOMAIN manifests : \A e \in manifests[r] :
          /\ InChain(e.poll_head, db.poll[e.check]) /\ e.poll_head # GENESIS
          /\ InChain(e.norm_head, db.norm[e.check])
          /\ InChain(e.annotation_head, db.annotation)
          /\ e.last_poll_id \in DOMAIN db.poll[e.check]

\* "The signature of a polls.db restored from an older copy" (integrity.py): if
\* the log no longer holds a head some manifest committed to, fsck says so,
\* however much was logged and anchored since.
LossIsSeen ==
    (\E r \in DOMAIN manifests : \E e \in manifests[r] :
        \/ ~InChain(e.poll_head, db.poll[e.check])
        \/ ~InChain(e.norm_head, db.norm[e.check])
        \/ ~InChain(e.annotation_head, db.annotation))
      => SeamFindings(db, manifests) # {}

\* Damage is not outgrown: nothing the collector logs and no later anchor makes
\* the seam of an archive whole again; only a restore can.
DamageIsNotOutgrown ==
    [][SeamFindings(db, manifests) # {} /\ restores' = restores
         => SeamFindings(db, manifests)' # {}]_vars

\* Wherever a run dies, the table names no manifest that is not on disk, and
\* only proofs that were taken count as coverage.
TableFollowsFiles ==
    \A i \in DOMAIN db.anchor :
       LET row == db.anchor[i]
       IN  /\ row.manifest_ref \in DOMAIN manifests
           /\ row.status # "failed" /\ losses = 0 => row.manifest_ref \in proofs
           /\ row.status = "complete" => row.manifest_ref \in confirmed

\* A proof that was stamped does not stay pending: it is upgraded, or its loss
\* is recorded.
PendingResolves == \A ref \in Refs : ref \in Pending ~> ref \notin Pending

\* While heads are read with no row logged in between (Overlap = FALSE), the
\* archive is sound: wherever runs and upgrades die or fail, fsck has nothing to
\* say before polls.db is replaced but that a manifest has no proof.
QuietSeamIsSound ==
    restores = 0 => AnchorFindings(db, manifests, proofs) \subseteq {"missing proof"}

\* ... and exposure is never understated: a poll that is not counted as unanchored
\* is covered by a proof as long as none was lost, and so is a poll the audit
\* counts as anchored as long as fsck misses no proof, though the audit counts the
\* rows of failed stamps.
ExposureNeverUnderstated ==
    restores = 0 =>
       \A c \in Checks :
          /\ losses = 0 => DOMAIN db.poll[c] \ Unanchored(c) \subseteq Covered(c)
          /\ DOMAIN manifests \subseteq proofs => AuditAnchored(c) \subseteq Covered(c)
-----------------------------------------------------------------------------
(* Statements of the documentation that the code does not keep. *)

\* "This is the signature of a polls.db restored from an older copy": the seam
\* fails only in an archive whose polls.db was replaced.
SeamMeansRestored ==
    SeamFindings(db, manifests) # {} => restores > 0
=============================================================================
