-------------------------- MODULE Anchoring_proofs --------------------------
(***************************************************************************)
(* For any checks and any number of polls, runs, lost proofs and restores, *)
(* with the collector logging at any moment: until polls.db is replaced,   *)
(* every head a manifest names is one its chain has had; a head the log    *)
(* does not hold never goes unnoticed, nor does logging more answer it;    *)
(* the table claims no more than the files beside it.  And if no row is    *)
(* logged while heads are read, the seam is sound and exposure is never    *)
(* understated.                                                            *)
(***************************************************************************)
EXTENDS Anchoring, ChainStore_proofs

\* A head stays a head as its chain grows.
LEMMA HeadStays ==
    ASSUME NEW rows \in Chains, NEW x \in Nat, NEW h, InChain(h, rows)
    PROVE  InChain(h, Append(rows, x))
<1> DEFINE grown == Append(rows, x)
<1>1. CASE h = GENESIS
  BY <1>1 DEF InChain
<1>2. CASE h # GENESIS
  <2>1. PICK n \in 1 .. Len(rows) : h = SubSeq(rows, 1, n)
    BY <1>2 DEF InChain, Heads
  <2>2. /\ grown \in Seq(Nat) /\ rows \in Seq(Nat)
        /\ Len(grown) = Len(rows) + 1 /\ Len(rows) \in Nat
        /\ \A i \in 1 .. Len(rows) : grown[i] = rows[i]
    BY DEF Chains
  <2> HIDE DEF grown
  <2>3. /\ n \in 1 .. Len(grown) /\ n \in Nat
        /\ SubSeq(grown, 1, n) \in Seq(Nat) /\ SubSeq(rows, 1, n) \in Seq(Nat)
        /\ Len(SubSeq(grown, 1, n)) = n /\ Len(SubSeq(rows, 1, n)) = n
        /\ \A i \in 1 .. n : SubSeq(grown, 1, n)[i] = grown[i]
        /\ \A i \in 1 .. n : SubSeq(rows, 1, n)[i] = rows[i]
    BY <2>2, SubSeqProperties
  <2>4. \A i \in 1 .. n : SubSeq(grown, 1, n)[i] = SubSeq(rows, 1, n)[i]
    BY <2>2, <2>3
  <2>5. SubSeq(grown, 1, n) = SubSeq(rows, 1, n)
    BY <2>3, <2>4, SeqEqual
  <2> QED
    BY <2>1, <2>3, <2>5 DEF InChain, Heads, grown
<1> QED
  BY <1>1, <1>2

\* A chain is its own newest head.
LEMMA NewestHead ==
    ASSUME NEW rows \in Chains
    PROVE  InChain(rows, rows)
<1>1. CASE rows = << >>
  BY <1>1 DEF InChain, GENESIS
<1>2. CASE rows # << >>
  <2>1. SubSeq(rows, 1, Len(rows)) = rows
    BY SubSeqFull DEF Chains
  <2>2. Len(rows) \in 1 .. Len(rows)
    BY <1>2 DEF Chains
  <2> QED
    BY <2>1, <2>2 DEF InChain, Heads
<1> QED
  BY <1>1, <1>2
-----------------------------------------------------------------------------
\* Each component an entry names is one its chain has had.
Sound(d, e) ==
    /\ InChain(e.poll_head, d.poll[e.check]) /\ e.poll_head # GENESIS
    /\ InChain(e.norm_head, d.norm[e.check])
    /\ InChain(e.annotation_head, d.annotation)
    /\ e.last_poll_id \in DOMAIN d.poll[e.check]

\* What "archive anchor" holds agrees with where it is.
LocalsFollow ==
    /\ pc = "idle" => work = NoWork
    /\ pc # "idle" => runs \in Refs
    /\ pc \in {"stamp", "record"} => runs \in DOMAIN manifests
    /\ pc = "heads" => work.check \in Checks /\ Len(work.read) < 7

\* The heads read so far for the check in hand.
ReadsSound ==
    pc = "heads" =>
       /\ db.poll[work.check] # << >>
       /\ 1 \in DOMAIN work.read =>
             InChain(work.read[1], db.poll[work.check]) /\ work.read[1] # GENESIS
       /\ 2 \in DOMAIN work.read => InChain(work.read[2], db.norm[work.check])
       /\ 3 \in DOMAIN work.read => InChain(work.read[3], db.annotation)

EntriesSound == \A e \in work.entries : Sound(db, e)

ManifestsSound ==
    restores = 0 => \A r \in DOMAIN manifests : \A e \in manifests[r] : Sound(db, e)

IInv == TypeOK /\ LocalsFollow /\ ReadsSound /\ EntriesSound /\ ManifestsSound

\* A database in which each chain is what it was, or has one more row.
ChainGrew(old, new) == new = old \/ \E x \in Nat : new = Append(old, x)
Grew(d, d2) ==
    /\ \A c \in Checks : ChainGrew(d.poll[c], d2.poll[c]) /\ ChainGrew(d.norm[c], d2.norm[c])
    /\ ChainGrew(d.annotation, d2.annotation)

LEMMA HeadStaysIfGrew ==
    ASSUME NEW old \in Chains, NEW new, ChainGrew(old, new)
    PROVE  /\ new \in Chains
           /\ \A h : InChain(h, old) => InChain(h, new)
           /\ DOMAIN old \subseteq DOMAIN new
           /\ old # << >> => new # << >>
<1>1. CASE new = old
  BY <1>1
<1>2. ASSUME NEW x \in Nat, new = Append(old, x)
      PROVE  /\ new \in Chains
             /\ DOMAIN old \subseteq DOMAIN new
             /\ new # << >>
  BY <1>2 DEF Chains
<1>3. ASSUME NEW x \in Nat, new = Append(old, x), NEW h, InChain(h, old)
      PROVE  InChain(h, new)
  BY <1>3, HeadStays
<1> QED
  BY <1>1, <1>2, <1>3 DEF ChainGrew

LEMMA SoundIfGrew ==
    ASSUME NEW d \in Databases, NEW d2 \in Databases, Grew(d, d2),
           NEW e \in Entries, Sound(d, e)
    PROVE  Sound(d2, e)
<1>1. /\ e.check \in Checks
      /\ d.poll[e.check] \in Chains /\ d.norm[e.check] \in Chains
      /\ d.annotation \in Chains
  BY DEF Entries, Databases
<1> QED
  BY <1>1, HeadStaysIfGrew DEF Grew, Sound

\* What a step that only logs, records or changes a status does to polls.db.
LEMMA LogGrows ==
    ASSUME TypeOK, Log
    PROVE  /\ db' \in Databases /\ Grew(db, db')
           /\ UNCHANGED <<manifests, proofs, anchoring, todo, world>>
<1>0. /\ restores \in Nat /\ db \in Databases
      /\ \A c \in Checks : db.poll[c] \in Chains /\ db.norm[c] \in Chains
      /\ db.annotation \in Chains
      /\ \A rows \in Chains : Append(rows, restores) \in Chains
  BY DEF TypeOK, Databases, Chains
<1>1. ASSUME NEW c \in Checks, LogPoll(c)
      PROVE  /\ db' \in Databases /\ Grew(db, db')
             /\ UNCHANGED <<manifests, proofs, anchoring, todo, world>>
  <2>1. Append(db.poll[c], restores) \in Chains
    BY <1>0
  <2>2. db' = [db EXCEPT !.poll[c] = Append(db.poll[c], restores)]
    BY <1>1 DEF LogPoll
  <2> DEFINE grown == Append(db.poll[c], restores)
  <2>3. ChainGrew(db.poll[c], grown)
    BY <1>0 DEF ChainGrew
  <2> HIDE DEF grown
  <2>4. db' = [db EXCEPT !.poll[c] = grown] /\ grown \in Chains
    BY <2>1, <2>2 DEF grown
  <2> QED
    BY <1>0, <1>1, <2>3, <2>4 DEF Databases, Grew, ChainGrew, LogPoll
<1>2. ASSUME NEW c \in Checks, LogNorm(c)
      PROVE  /\ db' \in Databases /\ Grew(db, db')
             /\ UNCHANGED <<manifests, proofs, anchoring, todo, world>>
  <2> DEFINE grown == Append(db.norm[c], restores)
  <2>3. ChainGrew(db.norm[c], grown) /\ grown \in Chains
    BY <1>0 DEF ChainGrew
  <2>4. db' = [db EXCEPT !.norm[c] = grown]
    BY <1>2 DEF LogNorm
  <2> HIDE DEF grown
  <2> QED
    BY <1>0, <1>2, <2>3, <2>4 DEF Databases, Grew, ChainGrew, LogNorm
<1>3. CASE LogAnnotation
  <2> DEFINE grown == Append(db.annotation, restores)
  <2>3. ChainGrew(db.annotation, grown) /\ grown \in Chains
    BY <1>0 DEF ChainGrew
  <2>4. db' = [db EXCEPT !.annotation = grown]
    BY <1>3 DEF LogAnnotation
  <2> HIDE DEF grown
  <2> QED
    BY <1>0, <1>3, <2>3, <2>4 DEF Databases, Grew, ChainGrew, LogAnnotation
<1> QED
  BY <1>1, <1>2, <1>3 DEF Log

LEMMA NewAnchorTable ==
    ASSUME NEW d \in Databases, NEW rows \in Seq(AnchorRows)
    PROVE  [d EXCEPT !.anchor = rows] \in Databases /\ Grew(d, [d EXCEPT !.anchor = rows])
BY DEF Databases, Grew, ChainGrew

LEMMA StatusType ==
    ASSUME NEW rows \in Seq(AnchorRows), NEW ref,
           NEW status \in {"pending", "complete", "failed"}
    PROVE  WithStatus(rows, ref, status) \in Seq(AnchorRows)
<1>1. /\ Len(rows) \in Nat /\ DOMAIN rows = 1 .. Len(rows)
      /\ \A i \in 1 .. Len(rows) : rows[i] \in AnchorRows
  OBVIOUS
<1>2. \A row \in AnchorRows : [row EXCEPT !.status = status] \in AnchorRows
  BY DEF AnchorRows
<1>3. WithStatus(rows, ref, status) \in [1 .. Len(rows) -> AnchorRows]
  BY <1>1, <1>2 DEF WithStatus
<1> QED
  BY <1>1, <1>3, SeqDef
-----------------------------------------------------------------------------
Works == [left : SUBSET Checks, check : Checks \cup {NONE}, read : Seq(Chains),
          entries : SUBSET Entries, proved : BOOLEAN]

LEMMA NoWorkType ==
    NoWork \in Works /\ NoWork.entries = {} /\ NoWork.left = {} /\ NoWork.read = << >>
BY DEF NoWork, Works

\* Whatever happens beside "archive anchor" only makes the log grow.
LEMMA BesideKeeps ==
    ASSUME IInv, db' \in Databases, Grew(db, db'),
           UNCHANGED <<manifests, anchoring, restores>>,
           proofs' \subseteq DOMAIN manifests, confirmed' \subseteq DOMAIN manifests,
           copy' \in Databases, todo' \subseteq Refs, losses' \in Nat
    PROVE  IInv'
<1>1. TypeOK'
  BY DEF IInv, TypeOK, anchoring
<1>2. LocalsFollow'
  BY DEF IInv, LocalsFollow, anchoring
<1>3. ReadsSound'
  <2> SUFFICES ASSUME pc = "heads"
               PROVE  ReadsSound'
    BY DEF ReadsSound, anchoring
  <2>1. /\ work.check \in Checks /\ work' = work
        /\ db.poll[work.check] \in Chains /\ db.norm[work.check] \in Chains
        /\ db.annotation \in Chains
    BY DEF IInv, LocalsFollow, TypeOK, Databases, anchoring
  <2>2. /\ \A h : InChain(h, db.poll[work.check]) => InChain(h, db'.poll[work.check])
        /\ \A h : InChain(h, db.norm[work.check]) => InChain(h, db'.norm[work.check])
        /\ \A h : InChain(h, db.annotation) => InChain(h, db'.annotation)
        /\ db.poll[work.check] # << >> => db'.poll[work.check] # << >>
    BY <2>1, HeadStaysIfGrew DEF Grew
  <2> QED
    BY <2>1, <2>2 DEF IInv, ReadsSound
<1>4. \A e \in Entries : Sound(db, e) => Sound(db', e)
  BY SoundIfGrew DEF IInv, TypeOK
<1>5. EntriesSound'
  BY <1>4 DEF IInv, TypeOK, EntriesSound, anchoring
<1>6. ManifestsSound'
  BY <1>4 DEF IInv, TypeOK, ManifestsSound
<1> QED
  BY <1>1, <1>2, <1>3, <1>5, <1>6 DEF IInv

LEMMA LogKeeps ==
    ASSUME IInv, Log
    PROVE  IInv'
<1>1. /\ db' \in Databases /\ Grew(db, db')
      /\ UNCHANGED <<manifests, proofs, anchoring, todo, world>>
  BY LogGrows DEF IInv
<1> QED
  BY <1>1, BesideKeeps DEF IInv, TypeOK, world

LEMMA UpgradeKeeps ==
    ASSUME IInv, Upgrading \/ UpgradeDies
    PROVE  IInv'
<1>0. /\ db \in Databases /\ db.anchor \in Seq(AnchorRows) /\ Grew(db, db)
      /\ todo \subseteq Refs
  BY DEF IInv, TypeOK, Databases, Grew, ChainGrew
<1>1. ASSUME NEW ref \in Refs, LookedAt(ref),
             NEW status \in {"complete", "failed"},
             db' = [db EXCEPT !.anchor = WithStatus(@, ref, status)]
      PROVE  IInv'
  <2>1. WithStatus(db.anchor, ref, status) \in Seq(AnchorRows)
    BY <1>0, StatusType
  <2>2. db' \in Databases /\ Grew(db, db')
    BY <1>0, <1>1, <2>1, NewAnchorTable
  <2> QED
    BY <1>0, <1>1, <2>2, BesideKeeps DEF LookedAt, IInv, TypeOK, world
<1>2. ASSUME NEW ref \in Refs, UpgradeWaits(ref)
      PROVE  IInv'
  BY <1>0, <1>2, BesideKeeps DEF UpgradeWaits, LookedAt, IInv, TypeOK, world
<1>3. CASE BeginUpgrade
  <2>1. Pending \subseteq Refs
    <3>1. \A j \in DOMAIN db.anchor : db.anchor[j] \in AnchorRows
      BY <1>0
    <3> QED
      BY <3>1 DEF Pending, AnchorRows
  <2> QED
    BY <1>0, <1>3, <2>1, BesideKeeps DEF BeginUpgrade, IInv, TypeOK, world
<1>4. CASE UpgradeDies
  BY <1>0, <1>4, BesideKeeps DEF UpgradeDies, IInv, TypeOK, world
<1> QED
  BY <1>1, <1>2, <1>3, <1>4 DEF Upgrading, Resolve, UpgradeGone, UpgradeComplete

LEMMA WorldKeeps ==
    ASSUME IInv, World
    PROVE  IInv'
<1>0. /\ db \in Databases /\ Grew(db, db)
      /\ proofs \subseteq DOMAIN manifests /\ confirmed \subseteq DOMAIN manifests
      /\ copy \in Databases /\ todo \subseteq Refs
      /\ losses \in Nat /\ restores \in Nat
  BY DEF IInv, TypeOK, Databases, Grew, ChainGrew
<1>1. CASE \/ LoseProof \/ Copy \/ \E ref \in Refs : Confirm(ref)
  BY <1>0, <1>1, BesideKeeps DEF LoseProof, Copy, Confirm
<1>2. CASE Restore
  <2>1. /\ db' = copy /\ restores' = restores + 1 /\ pc = "idle"
        /\ UNCHANGED <<manifests, proofs, anchoring, todo, copy, confirmed, losses>>
    BY <1>2 DEF Restore
  <2>2. TypeOK'
    BY <1>0, <2>1 DEF IInv, TypeOK, anchoring
  <2>3. LocalsFollow' /\ ReadsSound'
    BY <2>1 DEF IInv, LocalsFollow, ReadsSound, anchoring
  <2>4. EntriesSound'
    BY <2>1, NoWorkType DEF IInv, LocalsFollow, EntriesSound, anchoring
  <2>5. restores' # 0
    BY <1>0, <2>1
  <2>6. ManifestsSound'
    BY <2>5 DEF ManifestsSound
  <2> QED
    BY <2>2, <2>3, <2>4, <2>6 DEF IInv
<1> QED
  BY <1>1, <1>2 DEF World
-----------------------------------------------------------------------------
\* A run that goes from one place to another with nothing but sound entries.
LEMMA MoveKeeps ==
    ASSUME IInv, NEW w \in Works,
           work' = w,
           pc' \in {"idle", "names", "stamp", "record"},
           pc' = "idle" => w = NoWork,
           pc' # "idle" => runs \in Refs,
           pc' \in {"stamp", "record"} => runs \in DOMAIN manifests,
           \A e \in w.entries : Sound(db, e),
           proofs' \subseteq DOMAIN manifests,
           UNCHANGED <<db, manifests, runs, todo, world>>
    PROVE  IInv'
<1>1. TypeOK'
  BY DEF IInv, TypeOK, Works, world
<1>2. LocalsFollow' /\ ReadsSound'
  BY DEF IInv, LocalsFollow, ReadsSound
<1>3. EntriesSound' /\ ManifestsSound'
  BY DEF IInv, EntriesSound, ManifestsSound, world
<1> QED
  BY <1>1, <1>2, <1>3 DEF IInv

LEMMA WorkFacts ==
    ASSUME IInv
    PROVE  /\ work \in Works /\ proofs \subseteq DOMAIN manifests
           /\ \A e \in work.entries : Sound(db, e)
           /\ pc # "idle" => runs \in Refs
           /\ pc \in {"stamp", "record"} => runs \in DOMAIN manifests
BY DEF IInv, TypeOK, Works, LocalsFollow, EntriesSound

\* The locals stay of their kind as a check is taken or skipped, a query answered,
\* an entry added.
LEMMA TakeType ==
    ASSUME NEW c \in work.left, work \in Works
    PROVE  LET v == [work EXCEPT !.left = @ \ {c}, !.check = c, !.read = << >>]
               u == [work EXCEPT !.left = @ \ {c}]
           IN  /\ v \in Works /\ v.entries = work.entries
               /\ v.check = c /\ v.read = << >>
               /\ u \in Works /\ u.entries = work.entries
<1>1. << >> \in Seq(Chains)
  OBVIOUS
<1> QED
  BY <1>1 DEF Works

LEMMA ReadType ==
    ASSUME NEW r \in Seq(Chains), work \in Works
    PROVE  LET v == [work EXCEPT !.read = r]
           IN  /\ v \in Works /\ v.read = r
               /\ v.check = work.check /\ v.entries = work.entries
BY DEF Works

LEMMA AddType ==
    ASSUME NEW e \in Entries, work \in Works
    PROVE  LET v == [work EXCEPT !.read = << >>, !.check = NONE, !.entries = @ \cup {e}]
           IN  v \in Works /\ v.entries = work.entries \cup {e}
<1>1. << >> \in Seq(Chains)
  OBVIOUS
<1>2. work.entries \cup {e} \in SUBSET Entries
  BY DEF Works
<1> QED
  BY <1>1, <1>2 DEF Works

\* A run ends: its entries are dropped.
LEMMA EndKeeps ==
    ASSUME IInv, AnchorDies \/ NothingToAnchor
    PROVE  IInv'
<1>1. /\ work' = NoWork /\ pc' = "idle"
      /\ UNCHANGED <<db, manifests, proofs, runs, todo, world>>
  BY DEF AnchorDies, NothingToAnchor
<1>2. /\ NoWork \in Works /\ \A e \in NoWork.entries : Sound(db, e)
      /\ pc' \in {"idle", "names", "stamp", "record"}
      /\ proofs' \subseteq DOMAIN manifests
      /\ pc' \notin {"stamp", "record"}
  BY <1>1, NoWorkType, WorkFacts
<1> QED
  BY <1>1, <1>2, MoveKeeps

LEMMA BeginKeeps ==
    ASSUME IInv, Begin, AnchoringAssumption
    PROVE  IInv'
<1>1. PICK names \in {check_names} \cup {{c} : c \in Checks} :
         work' = [NoWork EXCEPT !.left = names]
  BY DEF Begin
<1> DEFINE w == [NoWork EXCEPT !.left = names]
<1>2. names \subseteq Checks
  BY DEF check_names
<1>3. w \in Works /\ w.entries = {}
  BY <1>2, NoWorkType DEF Works, NoWork
<1>4. work' = w
  BY <1>1
<1> HIDE DEF w
<1>5. pc' = "names" /\ runs' = runs + 1
      /\ UNCHANGED <<db, manifests, proofs, todo, world>>
  BY DEF Begin
<1>6. runs' \in Refs /\ runs' \in 0 .. MaxRuns
  BY <1>5, AnchoringAssumption DEF Begin, IInv, TypeOK, Refs
<1>7. TypeOK'
  BY <1>3, <1>4, <1>5, <1>6 DEF IInv, TypeOK, Works, world
<1>8. LocalsFollow' /\ ReadsSound'
  BY <1>5, <1>6 DEF LocalsFollow, ReadsSound
<1>9. EntriesSound' /\ ManifestsSound'
  BY <1>3, <1>4, <1>5 DEF IInv, EntriesSound, ManifestsSound, world
<1> QED
  BY <1>7, <1>8, <1>9 DEF IInv

LEMMA NextNameKeeps ==
    ASSUME IInv, NextName
    PROVE  IInv'
<1>1. PICK c \in work.left :
          \/ /\ db.poll[c] = << >>
             /\ work' = [work EXCEPT !.left = @ \ {c}]
             /\ UNCHANGED pc
          \/ /\ db.poll[c] # << >>
             /\ work' = [work EXCEPT !.left = @ \ {c}, !.check = c, !.read = << >>]
             /\ pc' = "heads"
  BY DEF NextName
<1>2. pc = "names" /\ UNCHANGED <<db, manifests, proofs, runs, todo, world>>
  BY DEF NextName
<1>3. work \in Works /\ c \in Checks
  BY WorkFacts DEF Works
<1>4. /\ work' \in Works /\ work'.entries = work.entries
      /\ \/ pc' = "names"
         \/ pc' = "heads" /\ work'.check = c /\ work'.read = << >> /\ db.poll[c] # << >>
  <2>1. CASE work' = [work EXCEPT !.left = @ \ {c}] /\ UNCHANGED pc
    BY <1>2, <1>3, <2>1, TakeType
  <2>2. CASE /\ db.poll[c] # << >>
             /\ work' = [work EXCEPT !.left = @ \ {c}, !.check = c, !.read = << >>]
             /\ pc' = "heads"
    BY <1>3, <2>2, TakeType
  <2> QED
    BY <1>1, <2>1, <2>2
<1>5. TypeOK'
  BY <1>2, <1>4 DEF IInv, TypeOK, Works, world
<1>6. LocalsFollow' /\ ReadsSound'
  BY <1>2, <1>3, <1>4 DEF IInv, LocalsFollow, ReadsSound
<1>7. EntriesSound' /\ ManifestsSound'
  BY <1>2, <1>4 DEF IInv, EntriesSound, ManifestsSound, world
<1> QED
  BY <1>5, <1>6, <1>7 DEF IInv

\* Each query adds the chain it finds, or the id of its last row.
LEMMA ReadHeadsKeeps ==
    ASSUME IInv, ReadHeads
    PROVE  IInv'
<1> DEFINE c == work.check
           at == Len(work.read) + 1
           read == Append(work.read, Answer(c, at))
<1>1. /\ c \in Checks /\ work \in Works /\ work.read \in Seq(Chains)
      /\ Len(work.read) \in 0 .. 6
      /\ db.poll[c] \in Chains /\ db.norm[c] \in Chains /\ db.annotation \in Chains
      /\ db.poll[c] # << >>
      /\ pc = "heads" /\ runs \in Refs
  <2>1. pc = "heads"
    BY DEF ReadHeads
  <2>2. work \in Works /\ c \in Checks /\ Len(work.read) < 7 /\ runs \in Refs
    BY <2>1, WorkFacts DEF IInv, LocalsFollow
  <2>3. work.read \in Seq(Chains)
    BY <2>2 DEF Works
  <2> HIDE DEF c
  <2>4. db.poll[c] \in Chains /\ db.norm[c] \in Chains /\ db.annotation \in Chains
    BY <2>2 DEF IInv, TypeOK, Databases
  <2>5. db.poll[c] # << >>
    BY <2>1 DEF IInv, ReadsSound, c
  <2>6. Len(work.read) \in 0 .. 6
    <3>1. Len(work.read) \in Nat
      BY <2>3
    <3>2. Len(work.read) < 7
      BY <2>2
    <3>3. \A n \in Nat : n < 7 => n \in 0 .. 6
      OBVIOUS
    <3> QED
      BY <3>1, <3>2, <3>3, Zenon
  <2> QED
    BY <2>1, <2>2, <2>3, <2>4, <2>5, <2>6
<1>2. /\ \/ /\ Len(read) < 7
            /\ work' = [work EXCEPT !.read = read]
            /\ pc' = pc
         \/ /\ Len(read) = 7
            /\ work' = [work EXCEPT !.read = << >>, !.check = NONE,
                           !.entries = @ \cup {Components(c, read)}]
            /\ pc' = "names"
      /\ UNCHANGED <<db, manifests, proofs, runs, todo, world>>
  BY DEF ReadHeads
<1>3. /\ InChain(db.poll[c], db.poll[c]) /\ InChain(db.norm[c], db.norm[c])
      /\ InChain(db.annotation, db.annotation)
      /\ db.poll[c] # GENESIS
  BY <1>1, NewestHead DEF GENESIS
<1>4. /\ Len(read) = at
      /\ \A q \in 1 .. Len(work.read) : read[q] = work.read[q]
      /\ read[at] = Answer(c, at)
  BY <1>1
<1>5. /\ 1 \in DOMAIN work.read =>
            InChain(work.read[1], db.poll[c]) /\ work.read[1] # GENESIS
      /\ 2 \in DOMAIN work.read => InChain(work.read[2], db.norm[c])
      /\ 3 \in DOMAIN work.read => InChain(work.read[3], db.annotation)
      /\ DOMAIN work.read = 1 .. Len(work.read)
  BY <1>1 DEF IInv, ReadsSound
<1>6. /\ at = 1 => Answer(c, at) = db.poll[c]
      /\ at = 2 => Answer(c, at) = db.norm[c]
      /\ at = 3 => Answer(c, at) = db.annotation
      /\ at < 7 => Answer(c, at) \in Chains
      /\ at = 7 => Answer(c, at) = Len(db.poll[c])
  BY <1>1 DEF Answer
<1>7. /\ InChain(read[1], db.poll[c]) /\ read[1] # GENESIS
      /\ at >= 2 => InChain(read[2], db.norm[c])
      /\ at >= 3 => InChain(read[3], db.annotation)
  BY <1>1, <1>3, <1>4, <1>5, <1>6
<1>8. CASE Len(read) < 7
  <2>1. read \in Seq(Chains) /\ DOMAIN read = 1 .. at
    BY <1>1, <1>4, <1>6, <1>8
  <2>0. work' = [work EXCEPT !.read = read] /\ pc' = pc
    <3>1. Len(read) # 7
      BY <1>1, <1>4, <1>8
    <3> HIDE DEF read
    <3> QED
      BY <1>2, <3>1
  <2> HIDE DEF read, at
  <2>2. /\ work' \in Works /\ work'.read = read /\ work'.check = c
        /\ work'.entries = work.entries /\ pc' = "heads"
    BY <1>1, <2>0, <2>1, ReadType
  <2> HIDE DEF c
  <2>3. TypeOK'
    BY <1>2, <2>2 DEF IInv, TypeOK, Works, world
  <2>4. LocalsFollow'
    BY <1>1, <1>2, <1>8, <2>2 DEF IInv, LocalsFollow
  <2>5. ReadsSound'
    BY <1>1, <1>2, <1>7, <2>1, <2>2 DEF ReadsSound
  <2>6. EntriesSound' /\ ManifestsSound'
    BY <1>2, <2>2 DEF IInv, EntriesSound, ManifestsSound, world
  <2> QED
    BY <2>3, <2>4, <2>5, <2>6 DEF IInv
<1>9. CASE Len(read) = 7
  <2> DEFINE e == Components(c, read)
             w == [work EXCEPT !.read = << >>, !.check = NONE, !.entries = @ \cup {e}]
  <2>1. /\ at = 7
        /\ \A q \in 1 .. 6 : read[q] \in Chains
        /\ read[7] = Len(db.poll[c])
    BY <1>1, <1>4, <1>6, <1>9
  <2>2. Len(db.poll[c]) \in Nat /\ Len(db.poll[c]) \in DOMAIN db.poll[c]
    BY <1>1 DEF Chains
  <2> HIDE DEF read, at
  <2>3. e \in Entries
    BY <1>1, <2>1, <2>2 DEF Components, Entries, CombinedHeads, combine_heads
  <2>4. Sound(db, e)
    BY <1>7, <2>1, <2>2 DEF Sound, Components
  <2>5. work' = w /\ pc' = "names"
    BY <1>2, <1>9
  <2> HIDE DEF e
  <2>6. w \in Works /\ w.entries = work.entries \cup {e}
    BY <1>1, <2>3, AddType
  <2> HIDE DEF w, c
  <2>7. \A x \in w.entries : Sound(db, x)
    BY <2>4, <2>6, WorkFacts
  <2>8. proofs' \subseteq DOMAIN manifests
    BY <1>2, WorkFacts
  <2> QED
    BY <1>1, <1>2, <2>5, <2>6, <2>7, <2>8, MoveKeeps
<1> QED
  BY <1>1, <1>4, <1>8, <1>9

LEMMA WriteManifestKeeps ==
    ASSUME IInv, WriteManifest
    PROVE  IInv'
<1>1. /\ pc = "names" /\ pc' = "stamp"
      /\ manifests' = [r \in DOMAIN manifests \cup {runs} |->
                         IF r = runs THEN work.entries ELSE manifests[r]]
      /\ UNCHANGED <<db, proofs, work, runs, todo, world>>
  BY DEF WriteManifest
<1>2. /\ DOMAIN manifests' = DOMAIN manifests \cup {runs}
      /\ manifests'[runs] = work.entries
      /\ \A r \in DOMAIN manifests \ {runs} : manifests'[r] = manifests[r]
  BY <1>1
<1>3. /\ work.entries \in SUBSET Entries /\ runs \in Refs
      /\ DOMAIN manifests \subseteq Refs
      /\ manifests \in [DOMAIN manifests -> SUBSET Entries]
  BY <1>1, WorkFacts DEF IInv, TypeOK, Works
<1>4. manifests' \in [DOMAIN manifests' -> SUBSET Entries]
  BY <1>1, <1>2, <1>3
<1>5. TypeOK'
  BY <1>1, <1>2, <1>3, <1>4 DEF IInv, TypeOK, world
<1>6. LocalsFollow' /\ ReadsSound'
  BY <1>1, <1>2, <1>3 DEF LocalsFollow, ReadsSound
<1>7. EntriesSound'
  BY <1>1 DEF IInv, EntriesSound
<1>8. ManifestsSound'
  <2> SUFFICES ASSUME restores = 0, NEW r \in DOMAIN manifests', NEW e \in manifests'[r]
               PROVE  Sound(db, e)
    BY <1>1 DEF ManifestsSound, world
  <2>1. CASE r = runs
    BY <1>2, <2>1 DEF IInv, EntriesSound
  <2>2. CASE r # runs
    BY <1>2, <2>2 DEF IInv, ManifestsSound
  <2> QED
    BY <2>1, <2>2
<1> QED
  BY <1>5, <1>6, <1>7, <1>8 DEF IInv

LEMMA StampKeeps ==
    ASSUME IInv, Stamp
    PROVE  IInv'
<1>1. PICK proved \in BOOLEAN :
         /\ proofs' = IF proved THEN proofs \cup {runs} ELSE proofs
         /\ work' = [work EXCEPT !.proved = proved]
  BY DEF Stamp
<1>2. /\ pc = "stamp" /\ pc' = "record"
      /\ UNCHANGED <<db, manifests, runs, todo, world>>
  BY DEF Stamp
<1>3. work' \in Works /\ work'.entries = work.entries
  BY <1>1, WorkFacts DEF Works
<1>4. /\ proofs' \subseteq DOMAIN manifests
      /\ runs \in Refs /\ runs \in DOMAIN manifests
      /\ \A e \in work'.entries : Sound(db, e)
  BY <1>1, <1>2, <1>3, WorkFacts
<1> QED
  BY <1>2, <1>3, <1>4, MoveKeeps

LEMMA RecordAnchorKeeps ==
    ASSUME IInv, RecordAnchor
    PROVE  IInv'
<1>1. PICK e \in work.entries :
          /\ db' = [db EXCEPT !.anchor = Append(@,
                      [check |-> e.check, last_poll_id |-> e.last_poll_id,
                       manifest_ref |-> runs,
                       status |-> IF work.proved THEN "pending" ELSE "failed"])]
          /\ work' = IF work.entries = {e} THEN NoWork
                     ELSE [work EXCEPT !.entries = @ \ {e}]
          /\ pc' = IF work.entries = {e} THEN "idle" ELSE "record"
  BY DEF RecordAnchor
<1>2. /\ pc = "record" /\ UNCHANGED <<manifests, proofs, runs, todo, world>>
  BY DEF RecordAnchor
<1> DEFINE row == [check |-> e.check, last_poll_id |-> e.last_poll_id,
                   manifest_ref |-> runs,
                   status |-> IF work.proved THEN "pending" ELSE "failed"]
<1>3. /\ work \in Works /\ e \in Entries /\ runs \in Refs /\ runs \in DOMAIN manifests
      /\ \A x \in work.entries : Sound(db, x)
  BY <1>1, <1>2, WorkFacts DEF Works
<1>4. row \in AnchorRows
  BY <1>3 DEF AnchorRows, Entries
<1>5. db' = [db EXCEPT !.anchor = Append(@, row)]
  BY <1>1
<1> HIDE DEF row
<1>6. db \in Databases /\ Append(db.anchor, row) \in Seq(AnchorRows)
  BY <1>4 DEF IInv, TypeOK, Databases
<1>7. db' \in Databases /\ Grew(db, db')
  BY <1>5, <1>6, NewAnchorTable
<1>8. \A x \in Entries : Sound(db, x) => Sound(db', x)
  BY <1>6, <1>7, SoundIfGrew
<1>9. /\ work' \in Works /\ work'.entries \subseteq work.entries
      /\ pc' = "idle" => work' = NoWork
      /\ pc' \in {"idle", "record"}
  <2>1. CASE work.entries = {e}
    BY <1>1, <2>1, NoWorkType
  <2>2. CASE work.entries # {e}
    <3>1. work' = [work EXCEPT !.entries = @ \ {e}] /\ pc' = "record"
      BY <1>1, <2>2
    <3>2. work.entries \ {e} \in SUBSET Entries
      BY <1>3 DEF Works
    <3> QED
      BY <1>3, <3>1, <3>2 DEF Works
  <2> QED
    BY <2>1, <2>2
<1>10. TypeOK'
  BY <1>2, <1>7, <1>9 DEF IInv, TypeOK, Works, world
<1>11. LocalsFollow' /\ ReadsSound'
  BY <1>2, <1>3, <1>9 DEF LocalsFollow, ReadsSound
<1>12. EntriesSound'
  BY <1>3, <1>8, <1>9 DEF EntriesSound, Works
<1>13. ManifestsSound'
  BY <1>2, <1>8 DEF IInv, TypeOK, ManifestsSound, world
<1> QED
  BY <1>10, <1>11, <1>12, <1>13 DEF IInv
-----------------------------------------------------------------------------
\* The inductive invariant holds at the start and is kept by every step.
THEOREM Invariance == Spec => []IInv
<1>1. Init => IInv
  <2> SUFFICES ASSUME Init
               PROVE  IInv
    OBVIOUS
  <2>1. db \in Databases
    BY DEF Init, Databases, Chains
  <2>2. TypeOK
    BY <2>1, AnchoringAssumption, NoWorkType DEF Init, TypeOK, Works, Refs
  <2>3. LocalsFollow /\ ReadsSound /\ EntriesSound /\ ManifestsSound
    BY NoWorkType DEF Init, LocalsFollow, ReadsSound, EntriesSound, ManifestsSound
  <2> QED
    BY <2>2, <2>3 DEF IInv
<1>2. IInv /\ [Next]_vars => IInv'
  <2> SUFFICES ASSUME IInv, [Next]_vars
               PROVE  IInv'
    OBVIOUS
  <2>1. CASE UNCHANGED vars
    BY <2>1 DEF vars, anchoring, world, IInv, TypeOK, LocalsFollow, ReadsSound,
                EntriesSound, ManifestsSound
  <2>2. CASE Next
    BY <2>2, AnchoringAssumption, LogKeeps, UpgradeKeeps, WorldKeeps, BeginKeeps,
       NextNameKeeps, ReadHeadsKeeps, EndKeeps, WriteManifestKeeps, StampKeeps,
       RecordAnchorKeeps DEF Next, Anchor
  <2> QED
    BY <2>1, <2>2
<1> QED
  BY <1>1, <1>2, PTL DEF Spec

\* Every variable keeps its kind, for any constants.
THEOREM TypeCorrect == Spec => []TypeOK
BY Invariance, PTL DEF IInv

\* However head_components' queries interleave with the collector, and wherever
\* runs die, each head a manifest names is one its chain has had.
THEOREM AnchoredHeadsAlwaysStay == Spec => []AnchoredHeadsStayInTheLog
<1>1. IInv => AnchoredHeadsStayInTheLog
  BY DEF IInv, ManifestsSound, Sound, AnchoredHeadsStayInTheLog
<1> QED
  BY <1>1, Invariance, PTL

\* If a head an entry names is not in the log, then whatever last_poll_id the
\* entry states, one of fsck's comparisons fails.
LEMMA LossShows ==
    ASSUME NEW d \in Databases, NEW e \in Entries,
           \/ ~InChain(e.poll_head, d.poll[e.check])
           \/ ~InChain(e.norm_head, d.norm[e.check])
           \/ ~InChain(e.annotation_head, d.annotation)
    PROVE  EntryFindings(d, e) # {}
<1> DEFINE polls == d.poll[e.check]
<1>1. polls \in Chains
  BY DEF Entries, Databases
<1>2. CASE polls = << >>
  BY <1>2 DEF EntryFindings
<1>3. CASE polls # << >> /\ ~InChain(e.poll_head, polls)
  <2>1. CASE e.last_poll_id \notin DOMAIN polls
    <3>1. "anchor ahead of log" \in EntryFindings(d, e)
      BY <1>3, <2>1 DEF EntryFindings
    <3> QED
      BY <3>1
  <2>2. CASE e.last_poll_id \in DOMAIN polls
    <3>1. SubSeq(polls, 1, e.last_poll_id) \in Heads(polls)
      <4>1. DOMAIN polls = 1 .. Len(polls)
        BY <1>1 DEF Chains
      <4> HIDE DEF polls
      <4> QED
        BY <2>2, <4>1, Zenon DEF Heads
    <3>2. SubSeq(polls, 1, e.last_poll_id) # e.poll_head
      BY <1>3, <3>1 DEF InChain
    <3>3. "head mismatch" \in EntryFindings(d, e)
      BY <1>3, <2>2, <3>2 DEF EntryFindings
    <3> QED
      BY <3>3
  <2> QED
    BY <2>1, <2>2
<1>4. CASE /\ polls # << >>
           /\ \/ ~InChain(e.norm_head, d.norm[e.check])
              \/ ~InChain(e.annotation_head, d.annotation)
  <2>1. "anchored head not in chain" \in EntryFindings(d, e)
    BY <1>4 DEF EntryFindings
  <2> QED
    BY <2>1
<1> QED
  BY <1>2, <1>3, <1>4

\* "The signature of a polls.db restored from an older copy": whenever the log
\* no longer holds a head some manifest names, the seam check finds something.
THEOREM LossIsAlwaysSeen == Spec => []LossIsSeen
<1>1. TypeOK => LossIsSeen
  <2> SUFFICES ASSUME TypeOK, NEW r \in DOMAIN manifests, NEW e \in manifests[r],
                      \/ ~InChain(e.poll_head, db.poll[e.check])
                      \/ ~InChain(e.norm_head, db.norm[e.check])
                      \/ ~InChain(e.annotation_head, db.annotation)
               PROVE  SeamFindings(db, manifests) # {}
    BY DEF LossIsSeen
  <2>1. EntryFindings(db, e) # {}
    BY LossShows DEF TypeOK
  <2> QED
    BY <2>1 DEF SeamFindings
<1> QED
  BY <1>1, TypeCorrect, PTL
-----------------------------------------------------------------------------
(* The table anchor and the files beside it.                                   *)

\* Each row names a manifest that is there, and claims no more than its proof.
Follows(rows, refs, ots, blocks, lost) ==
    \A i \in DOMAIN rows :
       /\ rows[i].manifest_ref \in refs
       /\ rows[i].status # "failed" /\ lost = 0 => rows[i].manifest_ref \in ots
       /\ rows[i].status = "complete" => rows[i].manifest_ref \in blocks

\* A run writes its manifest once, under a name no run before it had.
NamesFresh ==
    /\ \A r \in DOMAIN manifests : r <= runs
    /\ pc \in {"names", "heads"} => runs \notin DOMAIN manifests

FilesInv ==
    /\ Follows(db.anchor, DOMAIN manifests, proofs, confirmed, losses)
    /\ Follows(copy.anchor, DOMAIN manifests, proofs, confirmed, losses)
    /\ pc = "record" /\ work.proved /\ losses = 0 => runs \in proofs
    /\ NamesFresh

LEMMA FollowsStays ==
    ASSUME NEW rows, NEW refs, NEW ots, NEW blocks, NEW lost,
           NEW refs2, NEW ots2, NEW blocks2, NEW lost2,
           Follows(rows, refs, ots, blocks, lost),
           refs \subseteq refs2, blocks \subseteq blocks2,
           lost2 = 0 => lost = 0 /\ ots \subseteq ots2
    PROVE  Follows(rows, refs2, ots2, blocks2, lost2)
BY DEF Follows

\* set_anchor_status never claims what the proof does not give.
LEMMA FollowsStatus ==
    ASSUME NEW rows \in Seq(AnchorRows), NEW refs, NEW ots, NEW blocks, NEW lost, NEW ref,
           NEW status \in {"complete", "failed"},
           Follows(rows, refs, ots, blocks, lost),
           status = "complete" => ref \in ots \cap blocks
    PROVE  Follows(WithStatus(rows, ref, status), refs, ots, blocks, lost)
<1> DEFINE new == WithStatus(rows, ref, status)
<1>1. DOMAIN new = DOMAIN rows
  BY DEF WithStatus
<1>2. \A i \in DOMAIN rows :
         /\ new[i].manifest_ref = rows[i].manifest_ref
         /\ new[i].status = IF rows[i].manifest_ref = ref THEN status ELSE rows[i].status
  <2>1. \A row \in AnchorRows : /\ [row EXCEPT !.status = status].status = status
                                /\ [row EXCEPT !.status = status].manifest_ref
                                     = row.manifest_ref
    BY DEF AnchorRows
  <2>2. \A i \in DOMAIN rows : rows[i] \in AnchorRows
    OBVIOUS
  <2> QED
    BY <2>1, <2>2 DEF WithStatus
<1> HIDE DEF new
<1> QED
  BY <1>1, <1>2 DEF Follows, new

LEMMA FollowsAppend ==
    ASSUME NEW rows \in Seq(AnchorRows), NEW refs, NEW ots, NEW blocks, NEW lost,
           NEW row \in AnchorRows,
           Follows(rows, refs, ots, blocks, lost),
           row.manifest_ref \in refs, row.status # "complete",
           row.status # "failed" /\ lost = 0 => row.manifest_ref \in ots
    PROVE  Follows(Append(rows, row), refs, ots, blocks, lost)
<1> DEFINE more == Append(rows, row)
<1>1. /\ Len(rows) \in Nat /\ DOMAIN rows = 1 .. Len(rows)
      /\ DOMAIN more = 1 .. (Len(rows) + 1)
      /\ \A i \in 1 .. Len(rows) : more[i] = rows[i]
      /\ more[Len(rows) + 1] = row
  BY AppendedRow
<1> HIDE DEF more
<1> SUFFICES ASSUME NEW i \in DOMAIN more
             PROVE  /\ more[i].manifest_ref \in refs
                    /\ more[i].status # "failed" /\ lost = 0 => more[i].manifest_ref \in ots
                    /\ more[i].status = "complete" => more[i].manifest_ref \in blocks
  BY DEF Follows, more
<1>2. i \in 1 .. Len(rows) \/ i = Len(rows) + 1
  BY <1>1
<1> QED
  BY <1>1, <1>2 DEF Follows

\* Neither the collector nor "archive anchor" before its last step touches the table.
LEMMA TableUntouched ==
    ASSUME TypeOK, Log
    PROVE  db'.anchor = db.anchor
BY DEF TypeOK, Databases, Log, LogPoll, LogNorm, LogAnnotation

\* Steps that leave the runs alone.
LEMMA FilesKeepBeside ==
    ASSUME IInv, FilesInv, UNCHANGED <<manifests, pc, work, runs>>,
           Follows(db'.anchor, DOMAIN manifests, proofs', confirmed', losses'),
           Follows(copy'.anchor, DOMAIN manifests, proofs', confirmed', losses'),
           losses' = 0 => losses = 0 /\ proofs \subseteq proofs'
    PROVE  FilesInv'
<1>1. NamesFresh'
  BY DEF FilesInv, NamesFresh
<1> QED
  BY <1>1 DEF FilesInv

LEMMA FilesKeepOutside ==
    ASSUME IInv, FilesInv, Log \/ Upgrading \/ UpgradeDies \/ World
    PROVE  FilesInv'
<1>1. CASE Log
  <2>1. db'.anchor = db.anchor /\ UNCHANGED <<manifests, proofs, anchoring, todo, world>>
    BY <1>1, TableUntouched, LogGrows DEF IInv
  <2> QED
    BY <2>1, FilesKeepBeside DEF FilesInv, anchoring, world
<1>2. CASE Upgrading \/ UpgradeDies
  <2>1. UNCHANGED <<manifests, proofs, anchoring, world>>
    BY <1>2 DEF Upgrading, UpgradeDies, Resolve, BeginUpgrade, UpgradeWaits, UpgradeGone,
                UpgradeComplete, LookedAt
  <2>2. \/ db' = db
        \/ \E ref \in Refs, status \in {"complete", "failed"} :
              /\ db' = [db EXCEPT !.anchor = WithStatus(@, ref, status)]
              /\ status = "complete" => ref \in proofs \cap confirmed
    BY <1>2 DEF Upgrading, UpgradeDies, Resolve, BeginUpgrade, UpgradeWaits, UpgradeGone,
                UpgradeComplete
  <2>3. ASSUME NEW ref \in Refs, NEW status \in {"complete", "failed"},
               db' = [db EXCEPT !.anchor = WithStatus(@, ref, status)],
               status = "complete" => ref \in proofs \cap confirmed
        PROVE  Follows(db'.anchor, DOMAIN manifests, proofs, confirmed, losses)
    <3>1. /\ db'.anchor = WithStatus(db.anchor, ref, status)
          /\ db.anchor \in Seq(AnchorRows)
      BY <2>3 DEF IInv, TypeOK, Databases
    <3> QED
      BY <2>3, <3>1, FollowsStatus DEF FilesInv
  <2>4. Follows(db'.anchor, DOMAIN manifests, proofs, confirmed, losses)
    BY <2>2, <2>3 DEF FilesInv
  <2> QED
    BY <2>1, <2>4, FilesKeepBeside DEF FilesInv, anchoring, world
<1>3. CASE LoseProof \/ \E ref \in Refs : Confirm(ref)
  <2>1. /\ UNCHANGED <<db, copy, manifests, anchoring>>
        /\ confirmed \subseteq confirmed'
        /\ losses' = 0 => losses = 0 /\ proofs \subseteq proofs'
    BY <1>3 DEF LoseProof, Confirm, IInv, TypeOK
  <2> QED
    BY <2>1, FollowsStays, FilesKeepBeside DEF FilesInv, anchoring
<1>4. CASE Copy \/ Restore
  BY <1>4, FilesKeepBeside DEF Copy, Restore, FilesInv, anchoring
<1> QED
  BY <1>1, <1>2, <1>3, <1>4 DEF World

\* The steps of a run.
LEMMA FilesKeepRun ==
    ASSUME IInv, FilesInv, AnchoringAssumption, Begin \/ Anchor \/ AnchorDies
    PROVE  FilesInv'
<1>1. CASE Begin
  <2>1. /\ UNCHANGED <<db, copy, manifests, proofs, confirmed, losses>>
        /\ runs' = runs + 1 /\ pc' = "names"
    BY <1>1 DEF Begin, world
  <2>2. runs \in Nat /\ DOMAIN manifests \subseteq Nat
    BY AnchoringAssumption DEF IInv, TypeOK, Refs
  <2>3. NamesFresh'
    BY <2>1, <2>2 DEF FilesInv, NamesFresh
  <2> QED
    BY <2>1, <2>3 DEF FilesInv
<1>2. CASE NextName \/ ReadHeads \/ NothingToAnchor \/ AnchorDies
  <2>1. /\ UNCHANGED <<db, copy, manifests, proofs, confirmed, losses, runs>>
        /\ pc' \in {"idle", "names", "heads"}
        /\ pc' # "idle" => pc \in {"names", "heads"}
    BY <1>2 DEF NextName, ReadHeads, NothingToAnchor, AnchorDies, world
  <2>2. NamesFresh'
    BY <2>1 DEF FilesInv, NamesFresh
  <2> QED
    BY <2>1, <2>2 DEF FilesInv
<1>3. CASE WriteManifest
  <2>1. /\ UNCHANGED <<db, copy, proofs, confirmed, losses, runs>>
        /\ pc' = "stamp" /\ DOMAIN manifests' = DOMAIN manifests \cup {runs}
    BY <1>3 DEF WriteManifest, world
  <2>2. NamesFresh'
    BY <2>1 DEF FilesInv, NamesFresh, IInv, TypeOK
  <2> QED
    BY <2>1, <2>2, FollowsStays DEF FilesInv
<1>4. CASE Stamp
  <2>1. PICK proved \in BOOLEAN :
           /\ proofs' = IF proved THEN proofs \cup {runs} ELSE proofs
           /\ work' = [work EXCEPT !.proved = proved]
    BY <1>4 DEF Stamp
  <2>2. /\ UNCHANGED <<db, copy, manifests, confirmed, losses, runs>>
        /\ pc' = "record"
    BY <1>4 DEF Stamp, world
  <2>3. work'.proved = proved
    BY <2>1, WorkFacts DEF Works
  <2>4. NamesFresh'
    BY <2>2 DEF FilesInv, NamesFresh
  <2> QED
    BY <2>1, <2>2, <2>3, <2>4, FollowsStays DEF FilesInv
<1>5. CASE RecordAnchor
  <2>1. PICK e \in work.entries :
           /\ db' = [db EXCEPT !.anchor = Append(@,
                       [check |-> e.check, last_poll_id |-> e.last_poll_id,
                        manifest_ref |-> runs,
                        status |-> IF work.proved THEN "pending" ELSE "failed"])]
           /\ work' = IF work.entries = {e} THEN NoWork
                      ELSE [work EXCEPT !.entries = @ \ {e}]
           /\ pc' = IF work.entries = {e} THEN "idle" ELSE "record"
    BY <1>5 DEF RecordAnchor
  <2>2. /\ pc = "record" /\ pc' \in {"idle", "record"}
        /\ UNCHANGED <<copy, manifests, proofs, confirmed, losses, runs>>
    BY <1>5, <2>1 DEF RecordAnchor, world
  <2> DEFINE row == [check |-> e.check, last_poll_id |-> e.last_poll_id,
                     manifest_ref |-> runs,
                     status |-> IF work.proved THEN "pending" ELSE "failed"]
  <2>3. work \in Works /\ e \in Entries /\ runs \in Refs /\ runs \in DOMAIN manifests
    BY <2>1, <2>2, WorkFacts DEF Works
  <2>4. /\ row \in AnchorRows /\ row.manifest_ref = runs
        /\ row.status = IF work.proved THEN "pending" ELSE "failed"
    BY <2>3 DEF AnchorRows, Entries
  <2>5. db' = [db EXCEPT !.anchor = Append(@, row)]
    BY <2>1
  <2> HIDE DEF row
  <2>6. db'.anchor = Append(db.anchor, row) /\ db.anchor \in Seq(AnchorRows)
    BY <2>5 DEF IInv, TypeOK, Databases
  <2>7. Follows(db'.anchor, DOMAIN manifests, proofs, confirmed, losses)
    BY <2>2, <2>3, <2>4, <2>6, FollowsAppend DEF FilesInv
  <2>8. work'.proved => work.proved
    BY <2>1, <2>3 DEF NoWork, Works
  <2>9. NamesFresh'
    BY <2>2 DEF FilesInv, NamesFresh
  <2> QED
    BY <2>2, <2>7, <2>8, <2>9 DEF FilesInv
<1> QED
  BY <1>1, <1>2, <1>3, <1>4, <1>5 DEF Anchor

\* Table and files agree in every state, wherever a run or an upgrade dies.
THEOREM FilesInvariance == Spec => []FilesInv
<1>1. Init => FilesInv
  BY DEF Init, FilesInv, Follows, NamesFresh
<1>2. IInv /\ FilesInv /\ [Next]_vars => FilesInv'
  <2> SUFFICES ASSUME IInv, FilesInv, [Next]_vars
               PROVE  FilesInv'
    OBVIOUS
  <2>1. CASE UNCHANGED vars
    BY <2>1 DEF vars, anchoring, world, FilesInv, NamesFresh
  <2> QED
    BY <2>1, AnchoringAssumption, FilesKeepOutside, FilesKeepRun DEF Next
<1> QED
  BY <1>1, <1>2, Invariance, PTL DEF Spec

\* Wherever runs and upgrades die, no row of the table names a manifest that is
\* not on disk or claims a proof that was not taken.
THEOREM TableAlwaysFollowsFiles == Spec => []TableFollowsFiles
<1>1. FilesInv => TableFollowsFiles
  BY DEF FilesInv, Follows, TableFollowsFiles
<1> QED
  BY <1>1, FilesInvariance, PTL
-----------------------------------------------------------------------------
(* Heads read with no row logged in between.                                   *)

\* The heads of an entry are those of one moment.
Exact(e) ==
    /\ e.last_poll_id = Len(e.poll_head)
    /\ e.combined_head = combine_heads(e.poll_head, e.norm_head, e.annotation_head)

\* Each row of the table is about an entry of the manifest it names.
Named(rows, files) ==
    \A i \in DOMAIN rows : \E e \in files[rows[i].manifest_ref] :
       e.check = rows[i].check /\ e.last_poll_id = rows[i].last_poll_id

\* The answers in hand are what the queries would answer now.
ReadsExact ==
    pc = "heads" =>
       \A c \in Checks : c = work.check =>
          \A q \in DOMAIN work.read : work.read[q] = Answer(c, q)

QuietInv ==
    /\ ReadsExact
    /\ \A e \in work.entries : Exact(e)
    /\ \A r \in DOMAIN manifests : \A e \in manifests[r] : Exact(e)
    /\ pc \in {"stamp", "record"} => work.entries \subseteq manifests[runs]
    /\ restores = 0 => Named(db.anchor, manifests)

LEMMA NamedStatus ==
    ASSUME NEW rows \in Seq(AnchorRows), NEW files, NEW ref,
           NEW status \in {"complete", "failed"}, Named(rows, files)
    PROVE  Named(WithStatus(rows, ref, status), files)
<1> DEFINE new == WithStatus(rows, ref, status)
<1>1. DOMAIN new = DOMAIN rows
  BY DEF WithStatus
<1>2. \A i \in DOMAIN rows :
         /\ new[i].manifest_ref = rows[i].manifest_ref
         /\ new[i].check = rows[i].check
         /\ new[i].last_poll_id = rows[i].last_poll_id
  <2>1. \A row \in AnchorRows :
           LET changed == [row EXCEPT !.status = status]
           IN  /\ changed.manifest_ref = row.manifest_ref
               /\ changed.check = row.check
               /\ changed.last_poll_id = row.last_poll_id
    BY DEF AnchorRows
  <2>2. \A i \in DOMAIN rows : rows[i] \in AnchorRows
    OBVIOUS
  <2> QED
    BY <2>1, <2>2 DEF WithStatus
<1> HIDE DEF new
<1> QED
  BY <1>1, <1>2 DEF Named, new

\* Steps beside a run: while heads are read, they change no chain.
LEMMA QuietKeepsBeside ==
    ASSUME QuietInv, UNCHANGED <<manifests, pc, work, runs>>,
           pc = "heads" => /\ db'.poll = db.poll /\ db'.norm = db.norm
                           /\ db'.annotation = db.annotation,
           restores' = 0 => restores = 0 /\ (Named(db.anchor, manifests)
                                               => Named(db'.anchor, manifests))
    PROVE  QuietInv'
<1>1. ReadsExact'
  <2> SUFFICES ASSUME pc = "heads", NEW c \in Checks, c = work.check,
                      NEW q \in DOMAIN work.read
               PROVE  work.read[q] = Answer(c, q)'
    BY DEF ReadsExact
  <2>1. work.read[q] = Answer(c, q)
    BY DEF QuietInv, ReadsExact
  <2>2. Answer(c, q)' = Answer(c, q)
    BY DEF Answer
  <2> QED
    BY <2>1, <2>2
<1> QED
  BY <1>1 DEF QuietInv

LEMMA QuietKeepsOutside ==
    ASSUME IInv, QuietInv, Overlap = FALSE, Log \/ Upgrading \/ UpgradeDies \/ World
    PROVE  QuietInv'
<1>1. CASE Log
  <2>1. db'.anchor = db.anchor /\ UNCHANGED <<manifests, proofs, anchoring, todo, world>>
    BY <1>1, TableUntouched, LogGrows DEF IInv
  <2>2. pc # "heads"
    BY <1>1 DEF Log, LogPoll, LogNorm, LogAnnotation, MayLog
  <2> QED
    BY <2>1, <2>2, QuietKeepsBeside DEF anchoring, world
<1>2. CASE Upgrading \/ UpgradeDies
  <2>1. UNCHANGED <<manifests, proofs, anchoring, world>>
    BY <1>2 DEF Upgrading, UpgradeDies, Resolve, BeginUpgrade, UpgradeWaits, UpgradeGone,
                UpgradeComplete, LookedAt
  <2>2. \/ db' = db
        \/ \E ref \in Refs, status \in {"complete", "failed"} :
              db' = [db EXCEPT !.anchor = WithStatus(@, ref, status)]
    BY <1>2 DEF Upgrading, UpgradeDies, Resolve, BeginUpgrade, UpgradeWaits, UpgradeGone,
                UpgradeComplete
  <2>3. ASSUME NEW ref \in Refs, NEW status \in {"complete", "failed"},
               db' = [db EXCEPT !.anchor = WithStatus(@, ref, status)]
        PROVE  /\ db'.poll = db.poll /\ db'.norm = db.norm
               /\ db'.annotation = db.annotation
               /\ Named(db.anchor, manifests) => Named(db'.anchor, manifests)
    <3>1. /\ db'.anchor = WithStatus(db.anchor, ref, status)
          /\ db.anchor \in Seq(AnchorRows)
          /\ db'.poll = db.poll /\ db'.norm = db.norm
          /\ db'.annotation = db.annotation
      BY <2>3 DEF IInv, TypeOK, Databases
    <3> QED
      BY <3>1, NamedStatus
  <2>4. /\ db'.poll = db.poll /\ db'.norm = db.norm
        /\ db'.annotation = db.annotation
        /\ Named(db.anchor, manifests) => Named(db'.anchor, manifests)
    BY <2>2, <2>3
  <2> QED
    BY <2>1, <2>4, QuietKeepsBeside DEF anchoring, world
<1>3. CASE LoseProof \/ Copy \/ \E ref \in Refs : Confirm(ref)
  BY <1>3, QuietKeepsBeside DEF LoseProof, Copy, Confirm, anchoring
<1>4. CASE Restore
  <2>1. /\ UNCHANGED <<manifests, pc, work, runs>> /\ pc = "idle" /\ restores' # 0
    BY <1>4 DEF Restore, IInv, TypeOK, anchoring
  <2> QED
    BY <2>1, QuietKeepsBeside
<1> QED
  BY <1>1, <1>2, <1>3, <1>4 DEF World

\* A query's answer joins those in hand; seven of them make an exact entry.
LEMMA QuietKeepsRead ==
    ASSUME IInv, QuietInv, ReadHeads
    PROVE  QuietInv'
<1>1. /\ pc = "heads" /\ work \in Works /\ work.check \in Checks
      /\ work.read \in Seq(Chains)
      /\ UNCHANGED <<db, manifests, runs, restores>>
  BY WorkFacts DEF ReadHeads, IInv, LocalsFollow, Works, world
<1>2. PICK c \in Checks : c = work.check
  BY <1>1
<1> DEFINE at == Len(work.read) + 1
           read == Append(work.read, Answer(c, at))
<1>3. \/ pc' = pc /\ work' = [work EXCEPT !.read = read]
      \/ /\ Len(read) = 7 /\ pc' = "names"
         /\ work' = [work EXCEPT !.read = << >>, !.check = NONE,
                        !.entries = @ \cup {Components(c, read)}]
  BY <1>2 DEF ReadHeads
<1>4. /\ Len(work.read) \in Nat /\ Len(read) = at
      /\ DOMAIN read = 1 .. at /\ DOMAIN work.read = 1 .. Len(work.read)
      /\ \A q \in 1 .. Len(work.read) : read[q] = work.read[q]
      /\ read[at] = Answer(c, at)
  BY <1>1
<1>5. \A q \in 1 .. Len(work.read) : work.read[q] = Answer(c, q)
  BY <1>1, <1>2, <1>4 DEF QuietInv, ReadsExact
<1> HIDE DEF read
<1>6. \A q \in 1 .. at : read[q] = Answer(c, q)
  BY <1>4, <1>5
<1> HIDE DEF at
<1>7. CASE pc' = pc /\ work' = [work EXCEPT !.read = read]
  <2>1. work'.read = read /\ work'.check = c /\ work'.entries = work.entries
    BY <1>1, <1>2, <1>7 DEF Works
  <2>2. \A q \in DOMAIN read : Answer(c, q)' = Answer(c, q)
    BY <1>1 DEF Answer
  <2>3. ReadsExact'
    BY <1>4, <1>6, <2>1, <2>2 DEF ReadsExact
  <2> QED
    BY <1>1, <1>7, <2>1, <2>3 DEF QuietInv
<1>8. CASE /\ Len(read) = 7 /\ pc' = "names"
           /\ work' = [work EXCEPT !.read = << >>, !.check = NONE,
                          !.entries = @ \cup {Components(c, read)}]
  <2>1. /\ read[1] = db.poll[c] /\ read[4] = db.poll[c]
        /\ read[2] = db.norm[c] /\ read[5] = db.norm[c]
        /\ read[3] = db.annotation /\ read[6] = db.annotation
        /\ read[7] = Len(db.poll[c])
    <3>1. at = 7
      BY <1>4, <1>8
    <3>2. /\ read[1] = Answer(c, 1) /\ read[2] = Answer(c, 2) /\ read[3] = Answer(c, 3)
          /\ read[4] = Answer(c, 4) /\ read[5] = Answer(c, 5) /\ read[6] = Answer(c, 6)
          /\ read[7] = Answer(c, 7)
      BY <1>6, <3>1
    <3> QED
      BY <3>2 DEF Answer
  <2>2. Exact(Components(c, read))
    BY <2>1 DEF Exact, Components
  <2>3. work'.entries = work.entries \cup {Components(c, read)}
    BY <1>1, <1>8 DEF Works
  <2>4. ReadsExact'
    BY <1>8 DEF ReadsExact
  <2> QED
    BY <1>1, <1>8, <2>2, <2>3, <2>4 DEF QuietInv
<1> QED
  BY <1>3, <1>7, <1>8

LEMMA QuietKeepsRun ==
    ASSUME IInv, FilesInv, QuietInv, Begin \/ Anchor \/ AnchorDies
    PROVE  QuietInv'
<1>1. CASE Begin \/ NothingToAnchor \/ AnchorDies
  <2>1. /\ UNCHANGED <<db, manifests, restores>> /\ pc' \in {"names", "idle"}
        /\ work'.entries = {}
    BY <1>1, NoWorkType DEF Begin, NothingToAnchor, AnchorDies, world, NoWork
  <2> QED
    BY <2>1 DEF QuietInv, ReadsExact
<1>2. CASE NextName
  <2>1. PICK c \in work.left :
            \/ /\ work' = [work EXCEPT !.left = @ \ {c}]
               /\ pc' = pc
            \/ /\ work' = [work EXCEPT !.left = @ \ {c}, !.check = c, !.read = << >>]
               /\ pc' = "heads"
    BY <1>2 DEF NextName
  <2>2. /\ pc = "names" /\ work \in Works
        /\ UNCHANGED <<db, manifests, runs, restores>>
    BY <1>2, WorkFacts DEF NextName, world
  <2>3. /\ work'.entries = work.entries /\ pc' \in {"names", "heads"}
        /\ pc' = "heads" => work'.read = << >>
    <3>1. CASE work' = [work EXCEPT !.left = @ \ {c}] /\ pc' = pc
      BY <2>2, <3>1, TakeType
    <3>2. CASE /\ work' = [work EXCEPT !.left = @ \ {c}, !.check = c, !.read = << >>]
               /\ pc' = "heads"
      BY <2>2, <3>2, TakeType
    <3> QED
      BY <2>1, <3>1, <3>2
  <2>4. ReadsExact'
    BY <2>3 DEF ReadsExact
  <2> QED
    BY <2>2, <2>3, <2>4 DEF QuietInv
<1>3. CASE ReadHeads
  BY <1>3, QuietKeepsRead
<1>4. CASE WriteManifest
  <2>1. /\ pc = "names" /\ pc' = "stamp" /\ UNCHANGED <<db, work, runs, restores>>
        /\ manifests' = [r \in DOMAIN manifests \cup {runs} |->
                           IF r = runs THEN work.entries ELSE manifests[r]]
    BY <1>4 DEF WriteManifest, world
  <2>2. /\ DOMAIN manifests' = DOMAIN manifests \cup {runs}
        /\ manifests'[runs] = work.entries
        /\ \A r \in DOMAIN manifests : manifests'[r] = manifests[r]
    BY <2>1 DEF FilesInv, NamesFresh
  <2>3. Named(db.anchor, manifests) => Named(db.anchor, manifests')
    BY <2>2 DEF FilesInv, Follows, Named
  <2> QED
    BY <2>1, <2>2, <2>3 DEF QuietInv, ReadsExact
<1>5. CASE Stamp
  <2>1. /\ UNCHANGED <<db, manifests, runs, restores>> /\ pc = "stamp" /\ pc' = "record"
        /\ work'.entries = work.entries
    BY <1>5, WorkFacts DEF Stamp, world, Works
  <2> QED
    BY <2>1 DEF QuietInv, ReadsExact
<1>6. CASE RecordAnchor
  <2>1. PICK e \in work.entries :
           /\ db' = [db EXCEPT !.anchor = Append(@,
                       [check |-> e.check, last_poll_id |-> e.last_poll_id,
                        manifest_ref |-> runs,
                        status |-> IF work.proved THEN "pending" ELSE "failed"])]
           /\ work' = IF work.entries = {e} THEN NoWork
                      ELSE [work EXCEPT !.entries = @ \ {e}]
           /\ pc' = IF work.entries = {e} THEN "idle" ELSE "record"
    BY <1>6 DEF RecordAnchor
  <2>2. /\ pc = "record" /\ pc' \in {"idle", "record"}
        /\ UNCHANGED <<manifests, runs, restores>>
    BY <1>6, <2>1 DEF RecordAnchor, world
  <2> DEFINE row == [check |-> e.check, last_poll_id |-> e.last_poll_id,
                     manifest_ref |-> runs,
                     status |-> IF work.proved THEN "pending" ELSE "failed"]
             more == Append(db.anchor, row)
  <2>3. work \in Works /\ e \in Entries /\ runs \in Refs /\ e \in manifests[runs]
    BY <2>1, <2>2, WorkFacts DEF Works, QuietInv
  <2>4. /\ row \in AnchorRows /\ row.manifest_ref = runs /\ row.check = e.check
        /\ row.last_poll_id = e.last_poll_id
    BY <2>3 DEF AnchorRows, Entries
  <2>5. db' = [db EXCEPT !.anchor = Append(@, row)]
    BY <2>1
  <2> HIDE DEF row
  <2>6. db'.anchor = more /\ db.anchor \in Seq(AnchorRows)
    BY <2>5 DEF IInv, TypeOK, Databases
  <2>7. /\ Len(db.anchor) \in Nat /\ DOMAIN db.anchor = 1 .. Len(db.anchor)
        /\ DOMAIN more = 1 .. (Len(db.anchor) + 1)
        /\ \A i \in 1 .. Len(db.anchor) : more[i] = db.anchor[i]
        /\ more[Len(db.anchor) + 1] = row
    BY <2>4, <2>6, AppendedRow
  <2> HIDE DEF more
  <2>8. Named(db.anchor, manifests) => Named(more, manifests)
    <3> SUFFICES ASSUME Named(db.anchor, manifests), NEW i \in DOMAIN more
                 PROVE  \E x \in manifests[more[i].manifest_ref] :
                           /\ x.check = more[i].check
                           /\ x.last_poll_id = more[i].last_poll_id
      BY DEF Named
    <3>1. i \in 1 .. Len(db.anchor) \/ i = Len(db.anchor) + 1
      BY <2>7
    <3> QED
      BY <2>3, <2>4, <2>7, <3>1 DEF Named
  <2>9. work'.entries \subseteq work.entries
    BY <2>1, <2>3, NoWorkType DEF Works
  <2>10. ReadsExact'
    BY <2>2 DEF ReadsExact
  <2> QED
    BY <2>2, <2>6, <2>8, <2>9, <2>10 DEF QuietInv
<1> QED
  BY <1>1, <1>2, <1>3, <1>4, <1>5, <1>6 DEF Anchor

\* What a run and the manifests hold, while nothing is logged as heads are read.
THEOREM QuietInvariance == Overlap = FALSE /\ Spec => []QuietInv
<1>1. Init => QuietInv
  BY NoWorkType DEF Init, QuietInv, ReadsExact, Named
<1>2. CASE Overlap = FALSE
  <2>1. IInv /\ FilesInv /\ QuietInv /\ [Next]_vars => QuietInv'
    <3> SUFFICES ASSUME IInv, FilesInv, QuietInv, [Next]_vars
                 PROVE  QuietInv'
      OBVIOUS
    <3>1. CASE UNCHANGED vars
      BY <3>1, QuietKeepsBeside DEF vars, anchoring, world
    <3> QED
      BY <1>2, <3>1, QuietKeepsOutside, QuietKeepsRun DEF Next
  <2> QED
    BY <1>1, <2>1, Invariance, FilesInvariance, PTL DEF Spec
<1> QED
  BY <1>2

\* An exact entry whose heads are in the log is one fsck has nothing to say of.
LEMMA ExactMeansWhole ==
    ASSUME TypeOK, NEW e \in Entries, Sound(db, e), Exact(e)
    PROVE  EntryFindings(db, e) = {}
<1> DEFINE polls == db.poll[e.check]
           last == e.last_poll_id
<1>1. polls \in Chains /\ last \in DOMAIN polls /\ InChain(e.poll_head, polls)
      /\ e.poll_head # GENESIS
  BY DEF TypeOK, Entries, Databases, Sound
<1>2. /\ InChain(e.norm_head, db.norm[e.check])
      /\ InChain(e.annotation_head, db.annotation)
      /\ e.combined_head = combine_heads(e.poll_head, e.norm_head, e.annotation_head)
      /\ last = Len(e.poll_head)
  BY DEF Sound, Exact
<1> HIDE DEF polls, last
<1>3. PICK n \in 1 .. Len(polls) : e.poll_head = SubSeq(polls, 1, n)
  BY <1>1 DEF InChain, Heads
<1>4. Len(SubSeq(polls, 1, n)) = n
  BY <1>1 DEF Chains
<1>5. SubSeq(polls, 1, last) = e.poll_head
  BY <1>2, <1>3, <1>4
<1>6. polls # << >>
  BY <1>1
<1> QED
  BY <1>1, <1>2, <1>5, <1>6 DEF EntryFindings, polls, last

\* While no row is logged as heads are read, nothing but a missing proof ever
\* spoils an archive whose polls.db was not replaced.
THEOREM QuietSeamIsAlwaysSound == Overlap = FALSE /\ Spec => []QuietSeamIsSound
<1>1. IInv /\ FilesInv /\ QuietInv => QuietSeamIsSound
  <2> SUFFICES ASSUME IInv, FilesInv, QuietInv, restores = 0
               PROVE  AnchorFindings(db, manifests, proofs) \subseteq {"missing proof"}
    BY DEF QuietSeamIsSound
  <2>1. \A r \in DOMAIN manifests : \A e \in manifests[r] : EntryFindings(db, e) = {}
    <3> TAKE r \in DOMAIN manifests
    <3> TAKE e \in manifests[r]
    <3>1. e \in Entries /\ Sound(db, e) /\ Exact(e) /\ TypeOK
      BY DEF IInv, TypeOK, ManifestsSound, QuietInv
    <3> QED
      BY <3>1, ExactMeansWhole
  <2>2. SeamFindings(db, manifests) = {}
    BY <2>1 DEF SeamFindings
  <2>3. \A i \in DOMAIN db.anchor : db.anchor[i].manifest_ref \in DOMAIN manifests
    BY DEF FilesInv, Follows
  <2> QED
    BY <2>2, <2>3 DEF AnchorFindings
<1> QED
  BY <1>1, Invariance, FilesInvariance, QuietInvariance, PTL

\* What exact entries with a proof name are polls of the log.
LEMMA NamedIsBounded ==
    ASSUME TypeOK, restores = 0, ManifestsSound, QuietInv,
           NEW c \in Checks, NEW id \in DOMAIN db.poll[c], NEW named,
           \A m \in named : \E r \in proofs : \E e \in manifests[r] :
              e.check = c /\ e.last_poll_id = m
    PROVE  /\ named \cup {0} \in SUBSET (0 .. Len(db.poll[c]))
           /\ id \in 1 .. Len(db.poll[c]) /\ Len(db.poll[c]) \in Nat
           /\ Max(named \cup {0}) \in named \cup {0}
           /\ id \in Nat /\ Max(named \cup {0}) \in Nat
<1> DEFINE polls == db.poll[c]
           n == Len(polls)
<1>1. polls \in Chains /\ n \in Nat /\ DOMAIN polls = 1 .. n /\ id \in 1 .. n
  <2>1. polls \in Chains /\ id \in DOMAIN polls
    BY DEF TypeOK, Databases
  <2> HIDE DEF polls
  <2> QED
    BY <2>1 DEF Chains
<1>2. \A r \in proofs : \A e \in manifests[r] : e.check = c => e.last_poll_id \in 1 .. n
  <2> SUFFICES ASSUME NEW r \in proofs, NEW e \in manifests[r], e.check = c
               PROVE  e.last_poll_id \in 1 .. n
    OBVIOUS
  <2>1. r \in DOMAIN manifests
    BY DEF TypeOK
  <2>2. Sound(db, e)
    BY <2>1 DEF ManifestsSound
  <2> QED
    BY <1>1, <2>2 DEF Sound
<1>3. named \cup {0} \in SUBSET (0 .. n)
  BY <1>1, <1>2
<1> HIDE DEF n
<1>4. Max(named \cup {0}) \in named \cup {0}
  BY <1>1, <1>3, LargestNumber
<1> QED
  BY <1>1, <1>3, <1>4 DEF n

\* A poll at or below the last one some entries name, each of them with a proof
\* and exact, is covered.
LEMMA NamedIsCovered ==
    ASSUME TypeOK, restores = 0, ManifestsSound, QuietInv,
           NEW c \in Checks, NEW id \in DOMAIN db.poll[c], NEW named,
           \A m \in named : \E r \in proofs : \E e \in manifests[r] :
              e.check = c /\ e.last_poll_id = m,
           id <= Max(named \cup {0})
    PROVE  id \in Covered(c)
<1>1. PICK m \in named \cup {0} : m \in Nat /\ id <= m /\ id \in Nat /\ id # 0
  BY NamedIsBounded
<1>2. PICK r \in proofs : \E e \in manifests[r] : e.check = c /\ e.last_poll_id = m
  BY <1>1
<1>3. PICK e \in manifests[r] : e.check = c /\ e.last_poll_id = m
  BY <1>2
<1>4. Sound(db, e) /\ Exact(e)
  BY <1>2, <1>3 DEF TypeOK, ManifestsSound, QuietInv
<1>5. InChain(e.poll_head, db.poll[c]) /\ id <= Len(e.poll_head)
  BY <1>1, <1>3, <1>4 DEF Sound, Exact
<1> QED
  BY <1>2, <1>3, <1>5 DEF Covered

\* While no row is logged as heads are read, a poll that is not counted as
\* unanchored is covered by a proof, and a poll the audit counts as anchored is
\* covered by one unless fsck misses a proof.
THEOREM ExposureIsNeverUnderstated ==
    Overlap = FALSE /\ Spec => []ExposureNeverUnderstated
<1>1. IInv /\ FilesInv /\ QuietInv => ExposureNeverUnderstated
  <2> SUFFICES ASSUME IInv, FilesInv, QuietInv, restores = 0, NEW c \in Checks,
                      NEW id \in DOMAIN db.poll[c]
               PROVE  /\ losses = 0 /\ id \notin Unanchored(c) => id \in Covered(c)
                      /\ DOMAIN manifests \subseteq proofs /\ id \in AuditAnchored(c)
                            => id \in Covered(c)
    BY DEF ExposureNeverUnderstated, AuditAnchored
  <2> DEFINE rows == db.anchor
             good == {rows[i].last_poll_id :
                        i \in {j \in DOMAIN rows : /\ rows[j].check = c
                                                   /\ rows[j].status # "failed"}}
             upto == {rows[i].last_poll_id :
                        i \in {j \in DOMAIN rows : rows[j].check = c}}
  <2>1. \A i \in DOMAIN rows :
           /\ rows[i].manifest_ref \in DOMAIN manifests
           /\ rows[i].status # "failed" /\ losses = 0 => rows[i].manifest_ref \in proofs
    BY DEF FilesInv, Follows
  <2>2. \A i \in DOMAIN rows : \E e \in manifests[rows[i].manifest_ref] :
           e.check = rows[i].check /\ e.last_poll_id = rows[i].last_poll_id
    BY DEF QuietInv, Named
  <2>3. ASSUME losses = 0, id \notin Unanchored(c)
        PROVE  id \in Covered(c)
    <3>1. \A m \in good : \E r \in proofs : \E e \in manifests[r] :
             e.check = c /\ e.last_poll_id = m
      <4> SUFFICES ASSUME NEW i \in DOMAIN rows,
                          rows[i].check = c, rows[i].status # "failed"
                   PROVE  \E r \in proofs : \E e \in manifests[r] :
                             e.check = c /\ e.last_poll_id = rows[i].last_poll_id
        OBVIOUS
      <4>1. rows[i].manifest_ref \in proofs
        BY <2>1, <2>3
      <4>2. PICK e \in manifests[rows[i].manifest_ref] :
                e.check = rows[i].check /\ e.last_poll_id = rows[i].last_poll_id
        BY <2>2
      <4> HIDE DEF rows
      <4> QED
        BY <4>1, <4>2
    <3>2. id <= Max(good \cup {0})
      <4>1. ~ (id > Max(good \cup {0}))
        BY <2>3 DEF Unanchored
      <4>2. id \in Nat /\ Max(good \cup {0}) \in Nat
        BY <3>1, NamedIsBounded DEF IInv
      <4> HIDE DEF good
      <4> QED
        BY <4>1, <4>2
    <3> HIDE DEF good
    <3> QED
      BY <3>1, <3>2, NamedIsCovered DEF IInv
  <2>4. ASSUME DOMAIN manifests \subseteq proofs, id \in AuditAnchored(c)
        PROVE  id \in Covered(c)
    <3>1. \A m \in upto : \E r \in proofs : \E e \in manifests[r] :
             e.check = c /\ e.last_poll_id = m
      <4> SUFFICES ASSUME NEW i \in DOMAIN rows, rows[i].check = c
                   PROVE  \E r \in proofs : \E e \in manifests[r] :
                             e.check = c /\ e.last_poll_id = rows[i].last_poll_id
        OBVIOUS
      <4>1. rows[i].manifest_ref \in proofs
        BY <2>1, <2>4
      <4>2. PICK e \in manifests[rows[i].manifest_ref] :
                e.check = rows[i].check /\ e.last_poll_id = rows[i].last_poll_id
        BY <2>2
      <4> HIDE DEF rows
      <4> QED
        BY <4>1, <4>2
    <3>2. id <= Max(upto \cup {0})
      BY <2>4 DEF AuditAnchored
    <3> HIDE DEF upto
    <3> QED
      BY <3>1, <3>2, NamedIsCovered DEF IInv
  <2> QED
    BY <2>3, <2>4
<1> QED
  BY <1>1, Invariance, FilesInvariance, QuietInvariance, PTL

\* What the interleaving of SeamMeansRestored can look like: as long as polls.db was
\* not replaced, whatever is logged while heads are read, fsck says of the anchors
\* at most that a proof is missing, that a head is not that of the poll it names,
\* or that the combined head does not follow.  An anchor ahead of the log, a head
\* out of its chain, an unknown check or a missing manifest does mean a loss.
THEOREM RacesLookLikeNoLoss ==
    Spec => [](restores = 0 =>
                 AnchorFindings(db, manifests, proofs) \subseteq
                    {"missing proof", "head mismatch", "combined head does not follow"})
<1> DEFINE Races == {"missing proof", "head mismatch", "combined head does not follow"}
           RacesOnly == restores = 0 => AnchorFindings(db, manifests, proofs) \subseteq Races
<1>1. ASSUME IInv, FilesInv, restores = 0, NEW r \in DOMAIN manifests,
             NEW e \in manifests[r], NEW kind \in EntryFindings(db, e)
      PROVE  kind \in Races
  <2>1. Sound(db, e)
    BY <1>1 DEF IInv, ManifestsSound
  <2>2. /\ db.poll[e.check] # << >> /\ e.last_poll_id \in DOMAIN db.poll[e.check]
        /\ InChain(e.norm_head, db.norm[e.check]) /\ InChain(e.annotation_head, db.annotation)
    BY <2>1 DEF Sound
  <2>3. kind \in {"anchor ahead of log", "head mismatch", "anchored head not in chain",
                  "combined head does not follow"}
    BY <2>2, Zenon DEF EntryFindings
  <2>4. kind # "anchor ahead of log"
    BY <2>2, Zenon DEF EntryFindings
  <2>5. kind # "anchored head not in chain"
    BY <2>2, Zenon DEF EntryFindings
  <2> QED
    BY <2>3, <2>4, <2>5, Zenon
<1>2. ASSUME IInv, FilesInv, restores = 0, NEW kind \in AnchorFindings(db, manifests, proofs)
      PROVE  kind \in Races
  <2>1. \A i \in DOMAIN db.anchor : db.anchor[i].manifest_ref \in DOMAIN manifests
    BY <1>2 DEF FilesInv, Follows
  <2>2. CASE kind = "missing proof"
    BY <2>2, Zenon
  <2>3. CASE kind \in SeamFindings(db, manifests)
    <3>1. PICK r \in DOMAIN manifests : \E e \in manifests[r] : kind \in EntryFindings(db, e)
      BY <2>3, Zenon DEF SeamFindings
    <3> QED
      BY <1>1, <1>2, <3>1, Zenon
  <2> QED
    BY <1>2, <2>1, <2>2, <2>3, Zenon DEF AnchorFindings
<1>3. IInv /\ FilesInv => RacesOnly
  BY <1>2, Zenon
<1> QED
  BY <1>3, Invariance, FilesInvariance, PTL
-----------------------------------------------------------------------------
(* The seam after a loss.                                                      *)

\* No row is of a restoration yet to come; a head holds rows of the current
\* restoration only where its chain has rows now.
Past(rows, k) == \A i \in DOMAIN rows : rows[i] <= k
HeadPast(head, rows, k) ==
    \A i \in DOMAIN head : head[i] <= k /\ (head[i] = k => i \in DOMAIN rows)

RowsPast(d, k) ==
    /\ \A c \in Checks : Past(d.poll[c], k) /\ Past(d.norm[c], k)
    /\ Past(d.annotation, k)
EntryPast(d, e, k) ==
    /\ e.poll_head # GENESIS
    /\ HeadPast(e.poll_head, d.poll[e.check], k)
    /\ HeadPast(e.norm_head, d.norm[e.check], k)
    /\ HeadPast(e.annotation_head, d.annotation, k)

SeamInv ==
    /\ RowsPast(db, restores) /\ RowsPast(copy, restores)
    /\ \A r \in DOMAIN manifests : \A e \in manifests[r] : EntryPast(db, e, restores)

\* The chains of a database as the collector may have left them.
GrewBy(old, new, k) == new = old \/ new = Append(old, k)
LogGrewBy(d, d2, k) ==
    /\ \A c \in Checks : GrewBy(d.poll[c], d2.poll[c], k) /\ GrewBy(d.norm[c], d2.norm[c], k)
    /\ GrewBy(d.annotation, d2.annotation, k)

LEMMA GrownChain ==
    ASSUME NEW old \in Chains, NEW k \in Nat, NEW new, GrewBy(old, new, k)
    PROVE  /\ new \in Chains /\ Len(old) \in Nat
           /\ DOMAIN old = 1 .. Len(old)
           /\ DOMAIN old \subseteq DOMAIN new
           /\ DOMAIN new \subseteq 1 .. (Len(old) + 1)
           /\ \A i \in DOMAIN old : new[i] = old[i]
           /\ Len(old) + 1 \in DOMAIN new => new[Len(old) + 1] = k
           /\ DOMAIN new = 1 .. Len(new) /\ Len(new) \in {Len(old), Len(old) + 1}
           /\ Len(new) \in Nat
<1>1. old \in Seq(Nat) /\ Len(old) \in Nat /\ DOMAIN old = 1 .. Len(old)
  BY DEF Chains
<1>2. CASE new = old
  BY <1>1, <1>2
<1>3. CASE new = Append(old, k)
  <2>1. /\ new \in Seq(Nat) /\ Len(new) = Len(old) + 1
        /\ DOMAIN new = 1 .. (Len(old) + 1)
        /\ \A i \in 1 .. Len(old) : new[i] = old[i]
        /\ new[Len(old) + 1] = k
    BY <1>1, <1>3, AppendedRow
  <2> QED
    BY <1>1, <2>1 DEF Chains
<1> QED
  BY <1>2, <1>3 DEF GrewBy

LEMMA PastGrows ==
    ASSUME NEW old \in Chains, NEW k \in Nat, NEW new, GrewBy(old, new, k), Past(old, k)
    PROVE  Past(new, k)
<1>1. /\ Len(old) \in Nat /\ DOMAIN old = 1 .. Len(old)
      /\ DOMAIN new \subseteq 1 .. (Len(old) + 1)
      /\ \A i \in DOMAIN old : new[i] = old[i]
      /\ Len(old) + 1 \in DOMAIN new => new[Len(old) + 1] = k
  BY GrownChain
<1> QED
  BY <1>1 DEF Past

\* What a chain has had holds no more than the chain.
LEMMA HadIsPast ==
    ASSUME NEW rows \in Chains, NEW k \in Nat, Past(rows, k), NEW h, InChain(h, rows)
    PROVE  HeadPast(h, rows, k)
<1>1. CASE h = GENESIS
  BY <1>1 DEF HeadPast, GENESIS
<1>2. CASE h # GENESIS
  <2>1. PICK n \in 1 .. Len(rows) : h = SubSeq(rows, 1, n)
    BY <1>2 DEF InChain, Heads
  <2>2. /\ Len(rows) \in Nat /\ DOMAIN rows = 1 .. Len(rows)
        /\ DOMAIN h = 1 .. n /\ \A i \in 1 .. n : h[i] = rows[i]
    BY <2>1 DEF Chains
  <2> QED
    BY <2>2 DEF HeadPast, Past
<1> QED
  BY <1>1, <1>2

\* A head the chain lost does not come back as the collector logs.
LEMMA LostStaysLost ==
    ASSUME NEW rows \in Chains, NEW k \in Nat, NEW new \in Chains,
           GrewBy(rows, new, k),
           NEW h \in Chains, HeadPast(h, rows, k), ~InChain(h, rows)
    PROVE  ~InChain(h, new)
<1>1. CASE new = rows
  BY <1>1
<1>2. CASE new = Append(rows, k)
  <2> SUFFICES ASSUME InChain(h, new)
               PROVE  FALSE
    OBVIOUS
  <2> DEFINE m == Len(rows)
  <2>1. /\ m \in Nat /\ rows \in Seq(Nat) /\ new \in Seq(Nat)
        /\ DOMAIN rows = 1 .. m /\ Len(new) = m + 1
        /\ \A i \in 1 .. m : new[i] = rows[i]
        /\ new[m + 1] = k
    BY <1>2, AppendedRow DEF Chains
  <2>2. PICK n \in 1 .. Len(new) : h = SubSeq(new, 1, n)
    BY DEF InChain, Heads
  <2> HIDE DEF m
  <2>3. n \in Nat /\ n >= 1 /\ n <= m + 1
    BY <2>1, <2>2
  <2>4. /\ h \in Seq(Nat) /\ Len(h) = n /\ DOMAIN h = 1 .. n
        /\ \A i \in 1 .. n : h[i] = new[i]
    BY <2>1, <2>2, <2>3, SubSeqProperties
  <2>5. CASE n <= m
    <3>1. /\ SubSeq(rows, 1, n) \in Seq(Nat) /\ Len(SubSeq(rows, 1, n)) = n
          /\ \A i \in 1 .. n : SubSeq(rows, 1, n)[i] = rows[i]
      BY <2>1, <2>3, <2>5, SubSeqProperties DEF m
    <3>2. \A i \in 1 .. n : h[i] = SubSeq(rows, 1, n)[i]
      BY <2>1, <2>3, <2>4, <2>5, <3>1
    <3>3. h = SubSeq(rows, 1, n)
      BY <2>4, <3>1, <3>2, SeqEqual
    <3>4. n \in 1 .. Len(rows)
      BY <2>1, <2>3, <2>5 DEF m
    <3> QED
      BY <3>3, <3>4 DEF InChain, Heads
  <2>6. CASE n = m + 1
    <3>1. n \in DOMAIN h /\ n \notin DOMAIN rows /\ h[n] = k
      BY <2>1, <2>3, <2>4, <2>6
    <3> QED
      BY <3>1 DEF HeadPast
  <2> QED
    BY <2>1, <2>3, <2>5, <2>6
<1> QED
  BY <1>1, <1>2 DEF GrewBy

\* A finding about an entry is not answered by logging more.
LEMMA FindingsStay ==
    ASSUME NEW d \in Databases, NEW d2 \in Databases, NEW k \in Nat, LogGrewBy(d, d2, k),
           NEW e \in Entries, EntryPast(d, e, k), EntryFindings(d, e) # {}
    PROVE  EntryFindings(d2, e) # {}
<1> DEFINE polls == d.poll[e.check]
           polls2 == d2.poll[e.check]
           last == e.last_poll_id
<1>1. /\ e.check \in Checks /\ last \in Nat
      /\ polls \in Chains /\ d.norm[e.check] \in Chains /\ d.annotation \in Chains
      /\ polls2 \in Chains /\ d2.norm[e.check] \in Chains /\ d2.annotation \in Chains
      /\ e.poll_head \in Chains /\ e.norm_head \in Chains /\ e.annotation_head \in Chains
  BY DEF Entries, Databases
<1>2. CASE \/ ~InChain(e.poll_head, polls)
           \/ ~InChain(e.norm_head, d.norm[e.check])
           \/ ~InChain(e.annotation_head, d.annotation)
  <2>1. \/ ~InChain(e.poll_head, d2.poll[e.check])
        \/ ~InChain(e.norm_head, d2.norm[e.check])
        \/ ~InChain(e.annotation_head, d2.annotation)
    BY <1>1, <1>2, LostStaysLost DEF LogGrewBy, EntryPast
  <2> QED
    BY <2>1, LossShows
<1>3. CASE /\ InChain(e.poll_head, polls)
           /\ InChain(e.norm_head, d.norm[e.check])
           /\ InChain(e.annotation_head, d.annotation)
  <2>1. PICK n \in 1 .. Len(polls) : e.poll_head = SubSeq(polls, 1, n)
    BY <1>3 DEF EntryPast, InChain, Heads
  <2>2. /\ polls2 \in Chains /\ Len(polls) \in Nat
        /\ DOMAIN polls = 1 .. Len(polls) /\ DOMAIN polls2 = 1 .. Len(polls2)
        /\ DOMAIN polls \subseteq DOMAIN polls2
    BY <1>1, GrownChain DEF LogGrewBy
  <2>3. n \in DOMAIN polls /\ n \in DOMAIN polls2 /\ n \in Nat
    BY <2>1, <2>2
  <2>4. polls # << >> /\ polls2 # << >>
    BY <2>3
  <2>5. Len(e.poll_head) = n
    BY <1>1, <2>1 DEF Chains
  <2> HIDE DEF polls, polls2, last
  <2>6. CASE last = n
    <3>1. SubSeq(polls, 1, last) = e.poll_head /\ last \in DOMAIN polls
      BY <2>1, <2>3, <2>6
    <3>2. EntryFindings(d, e) \subseteq {"combined head does not follow"}
      BY <1>3, <2>4, <3>1 DEF EntryFindings, polls, last
    <3>3. e.combined_head # combine_heads(e.poll_head, e.norm_head, e.annotation_head)
      BY <2>4, <3>2 DEF EntryFindings, polls
    <3>4. "combined head does not follow" \in EntryFindings(d2, e)
      BY <2>4, <3>3 DEF EntryFindings, polls2
    <3> QED
      BY <3>4
  <2>7. CASE last # n
    <3>1. CASE last \notin DOMAIN polls2
      <4>1. "anchor ahead of log" \in EntryFindings(d2, e)
        BY <2>4, <3>1 DEF EntryFindings, polls2, last
      <4> QED
        BY <4>1
    <3>2. CASE last \in DOMAIN polls2
      <4>1. Len(SubSeq(polls2, 1, last)) = last
        BY <2>2, <3>2 DEF Chains
      <4>2. SubSeq(polls2, 1, last) # e.poll_head
        BY <2>5, <2>7, <4>1
      <4>3. "head mismatch" \in EntryFindings(d2, e)
        BY <2>4, <3>2, <4>2 DEF EntryFindings, polls2, last
      <4> QED
        BY <4>3
    <3> QED
      BY <3>1, <3>2
  <2> QED
    BY <2>6, <2>7
<1> QED
  BY <1>2, <1>3

\* What one step does to the chains: the collector logs, or nothing, unless
\* polls.db is replaced.
LEMMA StepGrowsBy ==
    ASSUME TypeOK, [Next]_vars, ~Restore
    PROVE  LogGrewBy(db, db', restores) /\ restores' = restores
<1>1. CASE Log
  <2>0. /\ db \in Databases /\ restores' = restores
    BY <1>1 DEF TypeOK, Log, LogPoll, LogNorm, LogAnnotation, world
  <2>1. ASSUME NEW c \in Checks, LogPoll(c)
        PROVE  LogGrewBy(db, db', restores)
    <3> DEFINE grown == Append(db.poll[c], restores)
    <3>1. GrewBy(db.poll[c], grown, restores)
      BY DEF GrewBy
    <3>2. db' = [db EXCEPT !.poll[c] = grown]
      BY <2>1 DEF LogPoll
    <3> HIDE DEF grown
    <3> QED
      BY <2>0, <3>1, <3>2 DEF Databases, LogGrewBy, GrewBy
  <2>2. ASSUME NEW c \in Checks, LogNorm(c)
        PROVE  LogGrewBy(db, db', restores)
    <3> DEFINE grown == Append(db.norm[c], restores)
    <3>1. GrewBy(db.norm[c], grown, restores)
      BY DEF GrewBy
    <3>2. db' = [db EXCEPT !.norm[c] = grown]
      BY <2>2 DEF LogNorm
    <3> HIDE DEF grown
    <3> QED
      BY <2>0, <3>1, <3>2 DEF Databases, LogGrewBy, GrewBy
  <2>3. CASE LogAnnotation
    <3> DEFINE grown == Append(db.annotation, restores)
    <3>1. GrewBy(db.annotation, grown, restores)
      BY DEF GrewBy
    <3>2. db' = [db EXCEPT !.annotation = grown]
      BY <2>3 DEF LogAnnotation
    <3> HIDE DEF grown
    <3> QED
      BY <2>0, <3>1, <3>2 DEF Databases, LogGrewBy, GrewBy
  <2> QED
    BY <1>1, <2>0, <2>1, <2>2, <2>3 DEF Log
<1>2. ASSUME NEW rows, db' = [db EXCEPT !.anchor = rows]
      PROVE  LogGrewBy(db, db', restores)
  BY <1>2 DEF TypeOK, Databases, LogGrewBy, GrewBy
<1>3. CASE RecordAnchor
  <2>1. restores' = restores
    BY <1>3 DEF RecordAnchor, world
  <2>2. PICK e \in work.entries :
           db' = [db EXCEPT !.anchor = Append(@,
                    [check |-> e.check, last_poll_id |-> e.last_poll_id,
                     manifest_ref |-> runs,
                     status |-> IF work.proved THEN "pending" ELSE "failed"])]
    BY <1>3 DEF RecordAnchor
  <2> QED
    BY <1>2, <2>1, <2>2
<1>4. CASE Upgrading \/ UpgradeDies
  <2>1. restores' = restores
    BY <1>4 DEF Upgrading, UpgradeDies, Resolve, BeginUpgrade, UpgradeWaits, UpgradeGone,
                UpgradeComplete, LookedAt, world
  <2>2. db' = db \/ \E ref, status : db' = [db EXCEPT !.anchor = WithStatus(@, ref, status)]
    BY <1>4 DEF Upgrading, UpgradeDies, Resolve, BeginUpgrade, UpgradeWaits, UpgradeGone,
                UpgradeComplete
  <2> QED
    BY <1>2, <2>1, <2>2 DEF LogGrewBy, GrewBy
<1>5. CASE \/ Begin \/ AnchorDies \/ NextName \/ ReadHeads \/ NothingToAnchor
           \/ WriteManifest \/ Stamp \/ LoseProof \/ Copy \/ (\E ref \in Refs : Confirm(ref))
           \/ UNCHANGED vars
  <2>1. db' = db /\ restores' = restores
    BY <1>5 DEF Begin, AnchorDies, NextName, ReadHeads, NothingToAnchor, WriteManifest,
                Stamp, LoseProof, Copy, Confirm, vars, world
  <2> QED
    BY <2>1 DEF LogGrewBy, GrewBy
<1> QED
  BY <1>1, <1>3, <1>4, <1>5 DEF Next, Anchor, World

\* Manifests are written once: only the run that has none yet writes one.
LEMMA ManifestsStay ==
    ASSUME IInv, FilesInv, [Next]_vars
    PROVE  /\ \A r \in DOMAIN manifests :
                 r \in DOMAIN manifests' /\ manifests'[r] = manifests[r]
           /\ \A r \in DOMAIN manifests' \ DOMAIN manifests :
                 manifests'[r] = work.entries /\ db' = db /\ restores' = restores
<1>1. CASE WriteManifest
  <2>1. /\ pc = "names" /\ UNCHANGED <<db, restores>>
        /\ manifests' = [r \in DOMAIN manifests \cup {runs} |->
                           IF r = runs THEN work.entries ELSE manifests[r]]
    BY <1>1 DEF WriteManifest, world
  <2> QED
    BY <2>1 DEF FilesInv, NamesFresh
<1>2. CASE Log \/ Upgrading \/ UpgradeDies \/ World
  <2>1. manifests' = manifests
    BY <1>2 DEF Log, LogPoll, LogNorm, LogAnnotation, Upgrading, UpgradeDies, Resolve,
                BeginUpgrade, UpgradeWaits, UpgradeGone, UpgradeComplete, LookedAt,
                World, LoseProof, Copy, Restore, Confirm
  <2> QED
    BY <2>1
<1>3. CASE \/ Begin \/ AnchorDies \/ NextName \/ ReadHeads \/ NothingToAnchor
           \/ Stamp \/ RecordAnchor \/ UNCHANGED vars
  <2>1. manifests' = manifests
    BY <1>3 DEF Begin, AnchorDies, NextName, ReadHeads, NothingToAnchor, Stamp,
                RecordAnchor, vars
  <2> QED
    BY <2>1
<1> QED
  BY <1>1, <1>2, <1>3 DEF Next, Anchor

LEMMA RowsPastGrow ==
    ASSUME NEW d \in Databases, NEW d2, NEW k \in Nat, LogGrewBy(d, d2, k), RowsPast(d, k)
    PROVE  RowsPast(d2, k)
<1>1. /\ d.annotation \in Chains
      /\ \A c \in Checks : d.poll[c] \in Chains /\ d.norm[c] \in Chains
  BY DEF Databases
<1> QED
  BY <1>1, PastGrows DEF LogGrewBy, RowsPast

LEMMA EntryPastGrows ==
    ASSUME NEW d \in Databases, NEW d2, NEW k \in Nat, LogGrewBy(d, d2, k),
           NEW e \in Entries, EntryPast(d, e, k)
    PROVE  EntryPast(d2, e, k)
<1>1. /\ e.check \in Checks /\ d.annotation \in Chains
      /\ d.poll[e.check] \in Chains /\ d.norm[e.check] \in Chains
  BY DEF Databases, Entries
<1>2. /\ DOMAIN d.poll[e.check] \subseteq DOMAIN d2.poll[e.check]
      /\ DOMAIN d.norm[e.check] \subseteq DOMAIN d2.norm[e.check]
      /\ DOMAIN d.annotation \subseteq DOMAIN d2.annotation
  BY <1>1, GrownChain DEF LogGrewBy
<1> QED
  BY <1>2 DEF EntryPast, HeadPast

LEMMA SeamKeeps ==
    ASSUME IInv, FilesInv, SeamInv, [Next]_vars
    PROVE  SeamInv'
<1>0. /\ db \in Databases /\ copy \in Databases /\ restores \in Nat
      /\ \A r \in DOMAIN manifests : manifests[r] \subseteq Entries
      /\ work.entries \subseteq Entries /\ \A e \in work.entries : Sound(db, e)
  BY DEF IInv, TypeOK, EntriesSound
<1>1. CASE ~Restore
  <2>1. LogGrewBy(db, db', restores) /\ restores' = restores
    BY <1>1, StepGrowsBy DEF IInv
  <2>2. RowsPast(db', restores)
    BY <1>0, <2>1, RowsPastGrow DEF SeamInv
  <2>3. copy' = copy \/ copy' = db
    BY <1>1 DEF Next, vars, world, Log, LogPoll, LogNorm, LogAnnotation, Begin, Anchor,
                NextName, ReadHeads, NothingToAnchor, WriteManifest, Stamp, RecordAnchor,
                AnchorDies, Upgrading, UpgradeDies, Resolve, BeginUpgrade, UpgradeWaits,
                UpgradeGone, UpgradeComplete, LookedAt, World, LoseProof, Copy, Confirm
  <2>4. ASSUME NEW e \in work.entries
        PROVE  EntryPast(db, e, restores)
    <3>1. /\ e.check \in Checks /\ db.annotation \in Chains /\ Sound(db, e)
          /\ db.poll[e.check] \in Chains /\ db.norm[e.check] \in Chains
      BY <1>0, <2>4 DEF Databases, Entries
    <3> QED
      BY <1>0, <3>1, HadIsPast DEF SeamInv, RowsPast, Sound, EntryPast
  <2>5. ASSUME NEW r \in DOMAIN manifests', NEW e \in manifests'[r]
        PROVE  EntryPast(db', e, restores)
    <3>1. e \in Entries /\ EntryPast(db, e, restores)
      BY <1>0, <2>4, <2>5, ManifestsStay DEF SeamInv
    <3> QED
      BY <1>0, <2>1, <3>1, EntryPastGrows
  <2> QED
    BY <2>1, <2>2, <2>3, <2>5 DEF SeamInv
<1>2. CASE Restore
  <2>1. /\ db' = copy /\ copy' = copy /\ manifests' = manifests
        /\ restores' = restores + 1
    BY <1>2 DEF Restore
  <2>2. RowsPast(copy, restores')
    <3>1. ASSUME NEW rows \in Chains, Past(rows, restores)
          PROVE  Past(rows, restores')
      <4>1. \A i \in DOMAIN rows : rows[i] \in Nat
        BY DEF Chains
      <4> QED
        BY <1>0, <2>1, <3>1, <4>1 DEF Past
    <3>2. /\ copy.annotation \in Chains
          /\ \A c \in Checks : copy.poll[c] \in Chains /\ copy.norm[c] \in Chains
      BY <1>0 DEF Databases
    <3> QED
      BY <3>1, <3>2 DEF SeamInv, RowsPast
  <2>3. ASSUME NEW r \in DOMAIN manifests, NEW e \in manifests[r]
        PROVE  EntryPast(copy, e, restores')
    <3>1. ASSUME NEW h \in Chains, NEW rows, NEW rows2, HeadPast(h, rows, restores)
          PROVE  HeadPast(h, rows2, restores')
      <4>1. \A i \in DOMAIN h : h[i] \in Nat
        BY DEF Chains
      <4> QED
        BY <1>0, <2>1, <3>1, <4>1 DEF HeadPast
    <3>2. /\ e.poll_head \in Chains /\ e.norm_head \in Chains /\ e.annotation_head \in Chains
          /\ EntryPast(db, e, restores)
      BY <1>0, <2>3 DEF SeamInv, Entries
    <3> QED
      BY <3>1, <3>2 DEF EntryPast
  <2> QED
    BY <2>1, <2>2, <2>3 DEF SeamInv
<1> QED
  BY <1>1, <1>2

\* What every chain keeps of its past, through any number of restores.
THEOREM SeamInvariance == Spec => []SeamInv
<1>1. Init => SeamInv
  BY DEF Init, SeamInv, RowsPast, Past
<1>2. IInv /\ FilesInv /\ SeamInv /\ [Next]_vars => SeamInv'
  BY SeamKeeps
<1> QED
  BY <1>1, <1>2, Invariance, FilesInvariance, PTL DEF Spec

\* Nothing the collector logs, no later anchor and no upgrade makes the seam of a
\* damaged archive whole again: only replacing polls.db can.
THEOREM DamageIsNeverOutgrown == Spec => DamageIsNotOutgrown
<1>1. IInv /\ IInv' /\ FilesInv /\ SeamInv /\ [Next]_vars =>
         [SeamFindings(db, manifests) # {} /\ restores' = restores
            => SeamFindings(db, manifests)' # {}]_vars
  <2> SUFFICES ASSUME IInv, IInv', FilesInv, SeamInv, [Next]_vars,
                      SeamFindings(db, manifests) # {}, restores' = restores
               PROVE  SeamFindings(db', manifests') # {}
    OBVIOUS
  <2>1. PICK r \in DOMAIN manifests : \E e \in manifests[r] : EntryFindings(db, e) # {}
    BY DEF SeamFindings
  <2>2. PICK e \in manifests[r] : EntryFindings(db, e) # {}
    BY <2>1
  <2>3. /\ db \in Databases /\ db' \in Databases /\ restores \in Nat /\ e \in Entries
        /\ EntryPast(db, e, restores)
    BY DEF IInv, TypeOK, SeamInv
  <2>4. LogGrewBy(db, db', restores)
    <3>1. ~Restore
      BY <2>3 DEF Restore
    <3> QED
      BY <3>1, StepGrowsBy DEF IInv
  <2>5. EntryFindings(db', e) # {}
    BY <2>2, <2>3, <2>4, FindingsStay
  <2>6. r \in DOMAIN manifests' /\ e \in manifests'[r]
    BY ManifestsStay
  <2> QED
    BY <2>5, <2>6 DEF SeamFindings
<1> QED
  BY <1>1, Invariance, FilesInvariance, SeamInvariance, PTL DEF Spec, DamageIsNotOutgrown
=============================================================================
