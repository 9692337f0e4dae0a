# A verification of the evidence archive

The evidence archive polls public pages on a schedule, keeps every response and
logs every poll in hash chains, so that somebody who does not trust its keeper
can check what a page said and when. These modules model the parts of the code
in which that promise could break: the fetch of a page, the collector writing
its chains, the annotation chain that two processes share and the gaps that are
read off it, the anchoring of the chain heads to an external timestamp, the
nightly copy of the live archive, and the programs that decide whether an
archive somebody had in his hands is still the one that was anchored. TLC checks
small instances, TLAPS proves what matters most for every value of the constants.

Paths below are relative to the repository; `KA` stands for
`tools/kibitzr-archive/kibitzr_archive`.

## The system

| Component | State | Operations | Interacts with |
|---|---|---|---|
| store (`KA/store.py`) | `polls.db`: tables poll, normalisation (one chain per check), annotation (one chain), anchor (no chain); `blobs/` | record_poll, put_blob, record_normalisation, record_annotation, declare_\*, head_components, record_anchor, set_anchor_status; readers and chain walks | every other component, each query in a connection of its own |
| promoter (`KA/promoter.py`) | last_response and one session per check, in memory | fetch with retries, redirects, limits; \_record | kibitzr's scheduler calls it, it calls the store |
| hook (`KA/hook.py`) | wrappers round the transform pipeline | install, declare_intent, before_start | kibitzr at start and after each fetch that is ok; the store |
| anchor (`KA/anchor.py`) | `anchors/*.json`, `*.ots` | stamp, upgrade, verify, committed_digest | a daily and an hourly timer; the OpenTimestamps client; the store |
| integrity (`KA/integrity.py`) | none | archive fsck: blobs, seam with the anchors, declared heads | reads the archive beside the live collector |
| cli (`KA/cli.py`) | none | annotate, anchor, anchor-upgrade; reports | operators |
| `deploy/backup-archive.sh` | a staged copy | fsck the source, snapshot, copy, verify the copy, rename or upload | a timer; the archive |
| `deploy/verify_independently.py`, `audit_retained_responses.py` | none | a second implementation of the checks | a copy of the archive |
| pinning, security (`KA`) | pins of one fetch | vetting of targets | promoter |
| systemd units, `wait-for-resolvable.sh` | none | start and restart | all processes |
| `trials/gov-contracts` | none | a probe script, configuration | — |

What is hard here:

- *Crashes.* The collector is restarted by systemd whenever it dies; a poll is
  several effects on disk (a temporary file, a rename, a row, another row).
- *Swallowed errors.* Archiving must never stop the check it observes, so every
  exception out of the store is logged and dropped, and the steps that follow
  run on an archive that lacks what they suppose.
- *State that outlives its poll.* `last_response`, "the last poll in the log".
- *Readers and writers in separate transactions.* SQLite opens the write
  transaction at the INSERT, not at the SELECT before it, and head_components
  is seven SELECTs in seven connections.
- *Time.* One thread polls every check, so a page that trickles its body, or
  redirects, or fails again and again, delays all of them; a deadline is only
  looked at between blocking calls. Silence is judged later, against a schedule
  that changes and that an operator may declare in hindsight.
- *Copies of something that is being written.* The backup reads database, blobs
  and anchors one after the other, and must be right about what it calls complete.
- *Edits.* Whoever has write access can make every hash anew. What still gives
  him away is spread over three programs, two of them deliberately independent.
- *Restores.* The seam between the log and the proofs beside it is what fsck is
  for; the log may grow past the seam again after a restore.

What makes each part correct: chains that recompute after any crash; a file for
every response the log commits to; `changed` and `poll_id` that mean what a
reader takes them to mean; declarations made exactly when something changed;
manifests that name heads the log has had; proofs whose coverage is never
overstated; damage that is always seen and never outgrown; a fetch that ends in
time and returns what a vetted host answered; gaps that are those of the
configuration in force; copies that can be restored when they are called
complete; verifiers that agree, and that pass no rewritten history. `PROJECT.json` lists
the hazards line by line, with the property that would catch each.

## Modules

| Module | Models |
|---|---|
| `ChainStore` | Rows, hashes and chain walks of the store, as operators |
| `EvidenceLog` | What the archive promises, with no hashes, files, steps or crashes (abstract specification) |
| `Restorable` | What nightly backups promise: a history that grows, and what of it can be restored, which never becomes less (abstract specification) |
| `Collector` | The collector: one poll as ten steps, storage errors and crashes between any two |
| `Annotations` | The annotation chain: the collector declaring its intent at each start, and operators |
| `Anchoring` | archive anchor, archive anchor-upgrade, a live log, restores, lost proofs, and the seam checks of fsck |
| `Gaps` | declared intent and the report of gaps, over a clock |
| `Fetch` | One fetch: vetting and pinning of hops, redirects, the body, retries, back-off, and the time all this takes |
| `Backup` | backup-archive.sh step by step beside a live collector, operator and anchor run, fsck of the source as several reads |
| `Verification` | archive verify with fsck, verify_independently.py and audit_retained_responses.py on an archive edited anywhere |
| `MCCollector`, `MCAnnotations`, `MCAnchoring`, `MCGaps`, `MCFetch`, `MCBackup`, `MCVerification` | Constants of the instances that are not plain values |
| `ChainStore_proofs`, `Collector_proofs`, `Annotations_proofs`, `Anchoring_proofs`, `Fetch_proofs`, `Verification_proofs`, `Backup_proofs`, `Gaps_proofs` | Theorems and their lemmas |

**Hashes.** SHA-256 is taken as collision free, so a hash is the history it
commits to: `compute_record_hash(fields, prev) == Append(prev, fields)`. This
makes "the heads are equal" and "the histories are equal" the same statement,
which is what the code relies on. `Anchoring` goes one step further: since
`Collector` shows that a head commits to the rows below it and to nothing else,
a head *is* its chain there, and a row is told apart by how often the database
had been restored when it was logged.

**Collector.** `pc` is where the one thread is between two effects. `RecordPoll`
is record_poll up to put_blob together with the status promoter.py reads off
`last_response`; `WriteTmp`, `ReplaceTmp` are put_blob; `ReadHead`, `InsertPoll`
the SELECT and the INSERT; `Transform`, `Derive`, `InsertNorm` the hook and
record_normalisation. `PollNotRecorded` and `NormNotRecorded` are the swallowed
exceptions. `FetchAnswered`, `FetchRaised`, `FetchBrowser` cover every result
the fetch loop can return: a status in or outside valid_http, a body that is
too short, does not decode or never ends, no response at all, and what kibitzr's
Firefox fetcher returns, which is the page or, not ok, the text of its own error. Not told
apart: URLs, times, ETags, error texts, how many retries it took.

**Annotations.** `ReadHead(w)` and `Insert(w)` are record_annotation for each
writer, deliberately two steps. The collector's `pc` follows declare_intent:
"schedule", "fetch_regime", "note". A detail is one value: a period, a
fingerprint, the control role, something else, or something without keys, on
which `.get` fails. `Start` may find any configuration.

**Anchoring.** `ReadHeads` takes the seven queries of head_components one at a
time; with `Overlap = FALSE` the collector logs nothing while they are taken,
which separates what that interleaving breaks from what dying runs break. Runs
are numbered and manifest n is that of run n. `Stamp` is the external client,
which leaves a proof or does not. A row that is logged again after a restore
gets the id of the row that was lost; in the code it may get another, which
fsck finds even more easily (the id is not there), so the harder case is the
one modelled. `AnchorFindings` omits findings about bytes on disk (altered or
unreadable manifests and proofs) and about chains that do not recompute;
`Verification` has those.

**Gaps.** `now` is what the collector's clock shows, in steps of one second.
`Tick` lets it pass, `Poll` logs a row, `Start` is before_start with any set of
rules: declare_intent declares their period, none if they do not reduce to one
(declare_schedule's comparison with the last declaration about exactly this check
decides whether a row is written), or raises, which before_start logs and drops,
so that the collector polls with a period it has not declared. `Stop` is the end
of the process, `Annotate` an operator's archive annotate with one of `Notes`,
in hindsight or ahead, about this check or every check. `gaps`
and `period_at` are the report, over the rows and declarations there are. The
annotation chain is a sequence here; its writers are the subject of
`Annotations`. declared_period reduces the rules of a check to a period, or to
none when they are cron rules.

**Fetch.** One step per place where the code looks at the clock or at what came
back. A blocking call takes any time its timeouts allow: a lookup up to
`MaxLookup`, a connect up to one clipped timeout per address, headers or a chunk
up to one read timeout per read from the socket (`requests` limits a single
read, not a call). `deadline` is that of the attempt and `pins` are forgotten
with it; the back-off is what kibitzr would sleep, clipped to what is left of
the budget. An origin is the check's own or another, and `peer` says whether
the addresses connected to so far are public. The deadline is checked after a
chunk but not at the end of the body, which the model follows.

**Backup.** A copy is the record fsck reads. `BeginBackup` is verify of the
source, which fails once the annotation chain has forked. `WalkBlobs` to
`FinishFsck` are its fsck: blobs, the log, the table anchor, the list of
manifests, then one manifest at a time, the chains rebuilt when the first is
checked.
`Snapshot` is VACUUM INTO, `ListBlobs` and `CopyBlobs` are `cp` (which fails on
a `.tmp` that has got its name since), `CopyAnchors`, `VerifyCopy`, then
`Rename`, or `Upload`, `Mark` and `Mismatch`. `backed_up` is the log in
the newest complete copy, local or remote. The collector and `archive anchor`
are cut down to the steps that change files, but head_components stays a first
query (`BeginHeads`) and others that see any later states in order (`ReadHeads`),
so an entry may be torn. `Annotate` may fork its chain, once there is a row. A head
is the number of rows below it, since nothing replaces polls.db here.

**Verification.** Programs take one step each, for what they do step by step is
in the other modules. An edit changes or removes a row with or without making
the hashes after it anew, changes raw_ref, a blob, the directory a blob lies in,
a head BACKUP.txt declares, an entry of a manifest (its combined head and its
head_version too), a row of the index, a proof, or writes and stamps a manifest
again. What nobody can do is to have something stamped in the past: `stamped`
keeps what was stamped when. `elsewhere` holds blobs below blobs/ that are not
in their own place, and whether a walk of blobs/ reaches them late: fsck goes by
names and judges the last file of a name, the other two programs look only in its
own place. The combined head is one of two versions: fsck recomputes the
one the entry names, the independent verifier its fixed one. The plugin's verdict is
a set of findings, each with what it is about; those of the independent verifier
and the audit are their exit status, which is not 0 after a traceback either.

Operators whose name or comment says *mutant* are deliberate bugs: each is the
body some definition would have if the code had a plausible mistake, and shows
that a property of a run notices it. No specification uses them.

## Runs

Passing runs, with the number of distinct states:

| Configuration | Shows | States |
|---|---|---|
| `Collector` | Two checks in one process, one polled three times and one with a browser, a body that decodes and an empty one, an error status, one crash: `ChainsIntact`, `ResponsesRetained`, `MessOnlyFromLostPolls`, `DocumentsNameTheirPolls`, `ContentHasItsOwnStatus`, that `Collector` implements `EvidenceLog`, and that every check keeps being polled | 531,283 |
| `Annotations` | The collector alone, three starts with any configuration, one storage error: declarations happen exactly on change (`AppendOnChange`), and what runs is on the chain (`IntentOnTheChain`) | 107,506 |
| `AnnotationsShared` | The collector and an operator: rows form a tree, which is a chain as long as the writers take turns, and the collector always comes up | 945,195 |
| `Anchoring` | Two runs over a live log, one restore: `AnchoredHeadsStayInTheLog` until it, `LossIsSeen` and `DamageIsNotOutgrown` after | 1,109,978 |
| `AnchoringQuiet` | Two checks, no logging while heads are read; a run and the upgrades beside it fail or die, a proof is lost: fsck finds nothing but missing proofs, neither the plugin nor the audit understates exposure, the table follows the files, no proof stays pending | 54,270 |
| `Gaps` | Three polls, three starts with any of two periods or none, any of which may fail to declare, a declaration by an operator: a silence is held against the period of the last start that could declare one (`GapsFollowTheConfiguration`), and no declaration rejudges an interval from before it takes effect (`HistoryIsNotRejudged`) | 1,593,382 |
| `Fetch` | Three attempts of up to two redirects: the scheduler is held no longer than a bound, an answer is the page of a vetted host, every step uses up a part of what the settings allow (`EveryStepCountsDown`), and a fetch ends | 140,250 |
| `Backup` | Two polls, two annotations that may fork, an anchor run whose entry may be torn, a death, either kind of destination: a copy called complete is whole, only an anchor taken meanwhile or a fork spoils one (`OnlyAnchorsOrForksSpoilACopy`), what can be restored never becomes less (`KeepsACopy`: `Backup` implements `Restorable`), and every poll reaches a copy unless a stamp failed for good, the annotations forked or an entry is torn (`EveryPollIsBackedUp`) | 413,356 |
| `Verification` | Two polls, a row on each other chain, an anchor and two edits in any order: the verifiers agree, but for what only fsck looks at and what only fsck lets pass (`VerifiersAgree` names each), what passes has its anchored history, and an honest archive passes | 673,065 |

Runs whose property is a statement of a doc, a comment or a message, and which
TLC refutes:

| Configuration | The statement | What the code does |
|---|---|---|
| `StatusOfThisFetch` | The status is that of this poll's response | The row of a fetch that raised before any response has the status of an earlier answer, of a poll that need not even have been stored |
| `BrokenMeansEdited` | A chain that fails was edited | Two honest writers fork it |
| `SeamMeansRestored` | A seam that fails was restored from an older copy | A poll logged while heads are read does it too |

Met while modelling, with no run of their own:

- "one row per poll, always" (`tools/kibitzr-archive/README.md:149`): a poll that
  cannot be stored is dropped by the `except` of `_record`, and the transforms run
  all the same. Their document then names an earlier poll (or none) as the poll it
  was derived from; `DocumentsNameTheirPolls` holds as long as no poll was lost,
  which is why it says so.
- The interleaving of `SeamMeansRestored` also understates exposure: a poll logged
  after the head and before `last_poll_id` is read counts as anchored though no
  proof covers it. `ExposureNeverUnderstated` is checked with `Overlap = FALSE`.
- "a failure here leaves the archive exactly as it was"
  (`deploy/evidence-anchor.service:31`): a failed stamp leaves its manifest, for
  which fsck reports a missing proof. `QuietSeamIsSound` allows that one finding.
  It also ends every later backup, whose source has to pass verify and fsck first
  (`deploy/backup-archive.sh:152`). So does the fork of `BrokenMeansEdited`, and so
  does the torn entry of `SeamMeansRestored`: nothing was edited or restored, and no
  backup is made again. `EveryPollIsBackedUp` has to except all three.
- A failed poll with a body (a 500 with an error page) counts as a change when
  its body differs (`KA/store.py:528`); the plugin's README:154 says the page is
  what may change.
- An empty document leaves no normalisation row (`KA/hook.py:77`), so a control
  check whose selector stops matching shows no stall (`KA/store.py:805`).
- A detail recorded by `annotate` that is JSON but no object makes every later
  declaration about the check raise (`KA/store.py:733`); the collector logs the
  error and polls without it. `AlwaysComesUp` is what is left of the promise.
- When a check's rules stop reducing to a period, nothing is declared
  (`KA/hook.py:136`), and when a declaration raises it is dropped
  (`KA/hook.py:215`): either way the schedule before stays in force for gaps though
  the collector polls by another. `GapsFollowTheConfiguration` says so. An
  operator's note may do worse: one that is back-dated, or about every check, can
  replace a check's own schedule (`KA/store.py:861`), so beside notes the
  property holds only for silences no such note reaches, and a detail that is
  no object makes the report itself raise. The docstring of gaps
  (`KA/store.py:845`) says that intervals without a schedule come back with
  `period: None`; they are dropped. A silence that has not ended is no gap yet.
- effective_from is compared as text, so another spelling of an offset orders
  differently (`KA/store.py:860`).
- "safe against a live collector" (`KA/integrity.py:471`): fsck lists blobs/ before
  it reads the log, so a poll recorded in between is a missing blob to it. The
  backup that meets this gives up and the next one is fine (`EveryPollIsBackedUp`).
- The deadline of a fetch (`KA/promoter.py:44`) is a time after which no call is
  begun. What is under way then may take `Overshoot` longer, and the end of the
  body is accepted however late.
- `archive verify` looks at nothing in an archive without polls, the annotations
  included, while the independent verifier checks them; a manifest that was
  deleted is only missed by fsck, through the table; an unreadable one the
  table does not know is a note to fsck and an error to the independent
  verifier. `VerifiersAgree` names these exceptions and the next three.
- A response whose file was moved to another directory below blobs/ is there to
  fsck, which goes by names (`KA/integrity.py:92`), and gone to the independent
  verifier and the audit. A spoilt second file of its name can do the opposite.
- An entry that says `head_version` 1 is recomputed by that version in fsck and by
  version 2 in `deploy/verify_independently.py:139`, though
  "An anchor taken under `head_version` 1 stays checkable after the formula moves
  to 2" (`deploy/VERIFYING.md:93`).
- The heads of BACKUP.txt are checked by fsck alone, and a copy that is restored
  and logged to is at odds with its BACKUP.txt ever after.
- The audit of an archive without polls ends in an exception: `max()` of nothing
  (`deploy/audit_retained_responses.py:93`).
- The audit counts a poll as covered by an existing proof if any row of the table
  reaches it, a failed stamp's too (`deploy/audit_retained_responses.py:64`). That
  is right as long as fsck misses no proof, which is what `ExposureNeverUnderstated`
  says of it.

**Bounds.** `MaxPolls`, `MaxCrashes`, `MaxStarts`, `MaxNotes`, `MaxErrors`,
`MaxOthers`, `MaxRuns`, `MaxRestores`, `MaxLosses` only stop counters.
Three polls are needed for content that moves away and back across a failed
poll; one crash reaches every step of a poll and leaves polls to come back to
what it left; two checks are enough for one to disturb another. Four starts
allow a setting to change and change back with an interrupted start between.
Two anchor runs and one restore (`Anchoring`) allow an anchor before the loss and
one after the log has grown past it; one run over two checks (`AnchoringQuiet`)
allows a batch that is half recorded when an upgrade looks at it. The theorems remove these bounds where they exist.
In `Collector`, `MaxPolls` gives every check a bound of its own: three polls
where the histories matter, one where only the sharing does. In `Gaps` five
seconds and periods of one and two seconds with a tolerance of one make
intervals that are gaps under one schedule and not under another; three starts
allow a period to change and change back, or to change and fail to be declared. In
`Fetch` timeouts are longer than
what is left of a deadline at some points and shorter at others, and the
back-off of a second retry exceeds its budget. In `Backup` a poll, the
anchor or an annotation falls between any two reads of a run, and a poll or an
annotation between two queries of the anchor; two annotations are what a fork
takes. Deaths are bounded, runs are not. In `Verification` two edits are what it takes to
cover up the first, such as a row rewritten with its hashes and a manifest
written to match, or a blob moved and another file put in its place, and the proofs show that no number of further edits helps.
Except in `Backup`, where runs go on for ever, deadlock is not checked: a
behaviour ends when its bounds are used up.

**Fairness.** The collector's `Start` is weakly fair because the unit has
`Restart=always` with `StartLimitIntervalSec=0`; its steps are weakly fair
because nothing in them waits for another process for ever (SQLite's lock has a
timeout, a fetch a deadline, and an error counts as a step). A fetch of each
check is strongly fair: kibitzr's scheduler comes round to every check, but a
crash may put it off. Crashes are not fair and are bounded; a collector that
dies for ever polls nothing. The hourly upgrade timer makes `BeginUpgrade`
weakly fair; `Resolve` of one proof is strongly fair, which says that of
infinitely many hourly runs one reaches the client for that proof and the
client answers; and a block is eventually found. Operators and `archive anchor`
are never assumed to act. A fetch is weakly fair as a whole (`WF_vars(Next)`):
every blocking call has a timeout. The nightly timer makes `BeginBackup` weakly
fair, and a run that nothing kills goes on (`Fsck`, `CopyAndCheck`); of
infinitely many uploads one loses nothing (`SF_vars(CleanUpload)`), without
which no remote copy need ever be complete.

## What is proved

All eight proof modules are checked to the last leaf, from the named assumptions
of the modules (kinds of constants, nothing about their sizes), the finite-set
and sequence theorems of the standard library and PTL.

- `ChainStore_proofs`: appending a row hashed on the head keeps a chain intact,
  and the head of an intact chain commits to exactly the fields of its rows. For
  tables of unknown origin, `TracedHashIsHistory`: as far as the rows of a chain
  trace, whoever wrote them, the hash a row stores is the history below it. That
  is an induction along the chain; the prover cannot apply an induction rule to
  an operator, so it is done by the least row that would be an exception, which
  exists because `<` on the naturals is well-founded (`LeastElement`).
- `Collector_proofs`. The inductive invariant strengthens the properties with
  what each step has already established: a `poll_head` that was read is still
  the head when it is used (there is one process and it writes one chain), the
  content of a job past put_blob is in `blobs`, `changed` was computed on the
  rows still there. `ChainsIntact` alone is not inductive: it says nothing of
  the head a poll in progress holds. From it: `TypeCorrect`,
  `ChainsAlwaysIntact`, `ResponsesAlwaysRetained`, and
  `CollectorKeepsThePromise`, the refinement of `EvidenceLog` in which a check's
  history is what its chain head commits to.
  A second invariant, `LostInv`, counts polls: one that is neither in the log nor
  still to be inserted was lost. While none of a check's was, the last poll in its
  log is the one being transformed, so "the last poll" is the right one for
  `poll_id` (`DocumentsAlwaysNameTheirPolls`), and what is in no row is in transit
  (`MessIsAlwaysFromLostPolls`).
  A third, `StatusInv`, follows `last_response` through a poll: an answer overwrites
  it before the poll is recorded, and a fetch that raised retains nothing. So a
  stale status only ever stands beside an error (`ContentAlwaysHasItsOwnStatus`),
  which is how far `StatusOfThisFetch` goes wrong.
  `AlwaysAppendOnly`, that a step logs at most one row and rewrites nothing, is
  proved but in no run, where the refinement already looks at it.
- `Annotations_proofs`. The invariant says of every writer that the head it
  holds was the genesis value or the hash of some row: that is true even when
  the row is no longer the last. From it `RowsAlwaysFollow` for any number of
  writers. As long as no two
  writers are between their SELECT and their INSERT at once, the head a writer holds
  *is* the last (`TurnsAlwaysKeepTheChain`, for any number of writers); a sole writer
  always takes turns, whence `SoleWriterKeepsTheChain`. The pair says exactly what
  concurrency costs, and that a lock taken before the SELECT would save it.
  `SoleDeclarer` adds to this what the sole collector has declared at each `pc`
  and that a row it is about to write says something the chain does not: hence
  `DeclarationsAlwaysSayNews` and `IntentIsAlwaysOnTheChain`. That the table is
  only appended to holds for any writers (`AnnotationsAreOnlyAppended`).
- `Anchoring_proofs`. Everything a run has read, and everything in a manifest,
  is a prefix of the chain it was read from, because chains only grow until a
  restore: `AnchoredHeadsAlwaysStay`, whatever interleaves. `LossIsAlwaysSeen`
  is a fact about the checks of fsck on any database and manifests that are
  well-formed: a head that is not in its chain cannot pass them.
  `DamageIsNeverOutgrown` needs `SeamInv`: a row tells which restoration it was
  logged after, no head in a manifest holds a row of the current one where its
  chain has none, so nothing logged later can stand in for a row that is lost.
  `FilesInv` keeps table and files in step at every point where a run or an
  upgrade can die (`TableAlwaysFollowsFiles`). `QuietInv`, for `Overlap = FALSE`,
  says that what a run has read so far is what the log holds, and that an entry's
  last poll and combined head are those of its heads: from it `QuietSeamIsAlwaysSound` and
  `ExposureIsNeverUnderstated`. Neither holds without that assumption. What is left
  of the first is `RacesLookLikeNoLoss`: rows logged while heads are read can only
  cause two of the findings, and each of the others, but a missing proof, does mean
  that something was lost.
- `Fetch_proofs`. `InTime` bounds the clock at every `pc` by what the calls
  since the last look at it may have taken; an attempt only begins while the
  budget of the retries lasts, and its deadline bounds everything up to the call
  under way. Hence `SchedulerIsAlwaysHeldAtMost` for any number of retries,
  redirects and addresses. `Vetting` keeps what a hop has established until the
  next one: from it `EveryHopIsAlwaysVetted` and `AnswerIsAlwaysThePage`.
  `StepsLeft` is the most steps a fetch can still take: each step lowers it, it is
  never negative (`EveryStepAlwaysCountsDown`), and it begins at RETRIES times
  `AttemptSteps` (`StepsAreBounded`). With `EveryHopIsAlwaysVetted`, that no fetch is
  stuck at the adapter, this is all of `FetchEnds` but its fairness.
- `Verification_proofs`. `PassingFixesHistory` and `VerdictsAgree` are facts about
  any archive, misplaced files, BACKUP.txt and other head versions included, whose parts have their kinds, however it came to be: no number of
  edits is assumed. The first goes from what a verifier recomputes, by
  `TracedHashIsHistory`, to what the log holds; the second finding by
  finding, and each exception it names is one the programs do make: TLC refutes
  it with any of them left out.
  `TypeCorrect` shows that logging, anchoring and editing keep the kinds, so both
  hold in every state of the specification.
  `HonestArchiveAlwaysPasses` is the other direction: until something is edited
  `Honest` holds, which says that every part is as the writers leave it, and an
  honest archive has no findings. It assumes that what cannot be parsed is no
  manifest (`UnreadableIsNoManifest`), which TLC's model values satisfy.
- `Backup_proofs`. The invariant says what each part of a run's past still means
  while the source moves on: what held when the run began is still there
  (`BeganInv`), what fsck has checked has a proof (`FsckInv`), and the staged copy
  is a past of the source as far as it was read (`StagedInv`), whose responses
  were in `blobs/` when they were listed because the source never names a file it
  lacks (`SourceInv`). All of it survives any growth of the source, which is one
  lemma for the collector and one for `archive anchor`. Hence
  `CompleteCopyIsAlwaysWhole` and `OnlyAnchorsOrForksEverSpoilACopy`: a copy whose
  annotation chain has not forked fails only on a manifest fsck had not listed. `NewestInv` links one
  run to the next: a run begins with a log no shorter than the newest complete
  copy's, and its snapshot is no shorter than that. This is the refinement of
  `Restorable` (`BackupKeepsThePromise`).

- `Gaps_proofs`. `StatedInv` says of every start that could declare a
  period that its period is on record by then. While the collector alone declares,
  the period in force at any moment is that of the last such start (`DeclaredInv`),
  and nothing on record lies in the future (`PastInv`), so a declaration made now leaves every
  moment before now as it was. The declaration in force is the last in a sequence
  that qualifies, which the proofs reach as the largest index of a bounded set.
  `GapsAlwaysFollowTheConfiguration`, `HistoryIsNeverRejudged` (for operators
  too) and `OwnDeclarationsAlwaysLookAhead` follow, for any periods, tolerance and
  times. The last is in no run, since what it says of the collector
  `HistoryIsNotRejudged` says of anybody.

Every safety property of a passing run is stated by a theorem. Some hold under an
assumption on the constants that their run satisfies as well: `AnnotationsIntact`,
`AppendOnChange` and `IntentOnTheChain` for a collector without operators,
`QuietSeamIsSound` and `ExposureNeverUnderstated` for `Overlap = FALSE`, and
`HonestArchivePasses` under `UnreadableIsNoManifest`.

Only model-checked: liveness (`EveryCheckKeepsBeingPolled`, `AlwaysComesUp`,
`PendingResolves`, `EveryPollIsBackedUp`, `FetchEnds`), which is beyond the prover.

## What is not modelled

- A clock that is set back, and times as text.
- Power loss as an event: a crash is that of a process, and what was written stays
  written. What a power cut leaves (an empty or torn blob, a row that is gone) is
  among the edits of `Verification`, where the verifiers must report it.
- A manifest that is read while it is being written, and two anchor runs in one
  second, which share a file name.
- The bytes of .ots files and their parser: a proof is what it was stamped over,
  or unreadable. `archive anchor-verify` runs the client and reads nothing back.
- Proxies, and connections kept alive from an earlier fetch.
- `status`, `calibration`, `head`, `annotations`: they print what they read.
- The trial's probe script and configuration.
- The additive schema upgrade, which runs once on archives of an older version.

## What is left

- Two anchor runs in one second, and a power cut as an event of `Collector`.

## Running the checks

    tlc -config Collector.cfg MCCollector.tla      (likewise the other runs)
    tlapm Collector_proofs.tla                      (likewise the other proofs)
