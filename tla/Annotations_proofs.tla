-------------------------- MODULE Annotations_proofs --------------------------
(***************************************************************************)
(* For any set of checks, configurations and operators, and any number of  *)
(* annotations, restarts and storage errors: annotations are only appended *)
(* and every one is hashed on top of one before it, whoever wrote it; and  *)
(* while the collector is the only writer the chain recomputes, no         *)
(* declaration repeats the one before it, and a collector that came up has *)
(* its intent on the chain.                                                *)
(***************************************************************************)
EXTENDS Annotations, ChainStore_proofs

AnnRows == Seq(RowsOver(AnnFields, {NONE}))

\* A writer that is to read the head or insert has a row to write, and the
\* collector writes about the check it is declaring.
WritersFollow ==
    /\ \A w \in Writers : pc[w] \in {"head", "insert"} => writing[w].fields \in AnnFields
    /\ pc[Collector] \in Declaring \cup {"head", "insert"} => current \in Checks
    /\ pc[Collector] \in {"head", "insert"} => writing[Collector].fields.kind \in Declaring
    /\ \A o \in Operators : pc[o] \in {"idle", "head", "insert"}

\* A head is one the table had: nothing else was there to be read.
HeadKnown(h) ==
    h = GENESIS \/ \E j \in DOMAIN annotation : h = annotation[j].record_hash

HeadsKnown == \A w \in Writers : pc[w] = "insert" => HeadKnown(writing[w].head)

IInv == TypeOK /\ WritersFollow /\ HeadsKnown /\ EveryRowFollowsARow
-----------------------------------------------------------------------------
\* The steps that only move one writer on: what its place and its row become.
Moves(w, place, row) ==
    /\ annotation' = annotation
    /\ pc' = [pc EXCEPT ![w] = place]
    /\ writing' = [writing EXCEPT ![w] = row]
    /\ UNCHANGED conf
    /\ starts' \in Nat /\ notes' \in Nat /\ errors' \in Nat

RowsToWrite == [fields : AnnFields \cup {NONE}, head : Seq(AnnFields)]
Places == {"down", "up", "next", "idle", "head", "insert"} \cup Declaring

LEMMA GenesisType == GENESIS \in Seq(AnnFields) /\ NoRow \in RowsToWrite
BY DEF GENESIS, NoRow, RowsToWrite

\* The head of the table is one of its hashes.
LEMMA HeadIsKnown ==
    ASSUME TypeOK
    PROVE  HeadOf(annotation) \in Seq(AnnFields) /\ HeadKnown(HeadOf(annotation))
<1>1. annotation \in Seq(RowsOver(AnnFields, {NONE}))
  BY DEF TypeOK
<1>2. HeadOf(annotation) \in Seq(AnnFields)
  BY <1>1, HeadType
<1>3. annotation = << >> \/ Len(annotation) \in DOMAIN annotation
  BY <1>1
<1> QED
  BY <1>2, <1>3 DEF HeadKnown, HeadOf

\* Every step but an INSERT moves at most one writer, which then holds a row
\* if it is to write one, built on nothing or on a head of the table.
LEMMA QuietStep ==
    ASSUME IInv, NEW w \in Writers, NEW place \in Places, NEW row \in RowsToWrite,
           Moves(w, place, row), left' \subseteq Checks, undeclared' \subseteq Checks,
           current' \in Checks \cup {NONE},
           place \in {"head", "insert"} => row.fields \in AnnFields,
           place = "insert" => HeadKnown(row.head),
           w = Collector /\ place \in Declaring \cup {"head", "insert"}
              => current' \in Checks,
           w = Collector /\ place \in {"head", "insert"} => row.fields.kind \in Declaring,
           w # Collector => place \in {"idle", "head", "insert"} /\ current' = current
    PROVE  IInv'
<1>1. /\ pc \in [Writers -> Places]
      /\ writing \in [Writers -> RowsToWrite]
  BY DEF IInv, TypeOK, Places, RowsToWrite
<1>2. /\ pc' \in [Writers -> Places]
      /\ writing' \in [Writers -> RowsToWrite]
      /\ pc'[w] = place /\ writing'[w] = row
      /\ \A v \in Writers \ {w} : pc'[v] = pc[v] /\ writing'[v] = writing[v]
  BY <1>1 DEF Moves
<1>3. TypeOK'
  BY <1>2 DEF IInv, TypeOK, Moves, Places, RowsToWrite
<1>4. Collector \in Writers /\ Operators \subseteq Writers /\ Collector \notin Operators
  BY AnnotationsAssumption DEF Writers
<1>5. WritersFollow'
  BY <1>2, <1>4 DEF IInv, WritersFollow
<1>6. HeadsKnown'
  BY <1>2 DEF IInv, HeadsKnown, HeadKnown, Moves
<1>7. EveryRowFollowsARow'
  BY DEF IInv, EveryRowFollowsARow, Moves
<1> QED
  BY <1>3, <1>5, <1>6, <1>7 DEF IInv

\* What IInv says of the collector and of the place a writer is at.
LEMMA Facts ==
    ASSUME IInv
    PROVE  /\ Collector \in Writers
           /\ Operators \subseteq Writers
           /\ Collector \notin Operators
           /\ pc \in [Writers -> Places]
           /\ writing \in [Writers -> RowsToWrite]
           /\ \A w \in Writers :
                 /\ [writing EXCEPT ![w] = writing[w]] = writing
                 /\ [pc EXCEPT ![w] = pc[w]] = pc
           /\ starts \in Nat /\ notes \in Nat /\ errors \in Nat
           /\ left \subseteq Checks /\ undeclared \subseteq Checks
           /\ current \in Checks \cup {NONE}
           /\ conf \in [Checks -> Confs]
BY AnnotationsAssumption DEF IInv, TypeOK, Places, RowsToWrite, Writers

LEMMA ReadHeadKeeps ==
    ASSUME IInv, NEW w \in Writers, ReadHead(w)
    PROVE  IInv'
<1> DEFINE row == [writing[w] EXCEPT !.head = HeadOf(annotation)]
<1>1. HeadOf(annotation) \in Seq(AnnFields) /\ HeadKnown(HeadOf(annotation))
  BY HeadIsKnown DEF IInv
<1>2. /\ row \in RowsToWrite
      /\ row.fields = writing[w].fields
      /\ row.head = HeadOf(annotation)
  <2>1. writing[w] \in RowsToWrite
    BY Facts
  <2> QED
    BY <1>1, <2>1 DEF RowsToWrite
<1>3. Moves(w, "insert", row)
  BY Facts DEF ReadHead, Moves
<1>4. /\ writing[w].fields \in AnnFields
      /\ w = Collector => current \in Checks /\ writing[w].fields.kind \in Declaring
  BY DEF IInv, WritersFollow, ReadHead
<1>5. left' = left /\ undeclared' = undeclared /\ current' = current
  BY DEF ReadHead
<1>6. "insert" \in Places
  BY DEF Places
<1> HIDE DEF row
<1>7. left' \subseteq Checks /\ undeclared' \subseteq Checks /\ current' \in Checks \cup {NONE}
  BY <1>5, Facts
<1> QED
  BY <1>1, <1>2, <1>3, <1>4, <1>5, <1>6, <1>7, QuietStep

LEMMA AbandonKeeps ==
    ASSUME IInv, Abandon, errors' \in Nat, current \in Checks
    PROVE  IInv'
<1>1. Moves(Collector, "next", NoRow)
  BY Facts DEF Abandon, Moves
<1>2. "next" \in Places /\ "next" \notin Declaring \cup {"head", "insert"}
  BY DEF Places, Declaring
<1>3. left' = left /\ undeclared' \subseteq Checks /\ current' = current
  BY Facts DEF Abandon
<1> QED
  BY <1>1, <1>2, <1>3, Facts, GenesisType, QuietStep

LEMMA StorageErrorKeeps ==
    ASSUME IInv, NEW w \in Writers, StorageError(w)
    PROVE  IInv'
<1>1. errors' \in Nat
  BY Facts DEF StorageError
<1>2. CASE w = Collector
  <2>1. Abandon /\ current \in Checks
    BY <1>2 DEF StorageError, IInv, WritersFollow
  <2> QED
    BY <1>1, <2>1, AbandonKeeps
<1>3. CASE w # Collector
  <2>1. Moves(w, "idle", NoRow)
    BY <1>1, <1>3, Facts DEF StorageError, Moves
  <2>2. "idle" \in Places
    BY DEF Places
  <2>3. left' = left /\ undeclared' = undeclared /\ current' = current
    BY <1>3 DEF StorageError
  <2> QED
    BY <1>3, <2>1, <2>2, <2>3, Facts, GenesisType, QuietStep
<1> QED
  BY <1>2, <1>3

\* A declaration that has something to say holds the row it is to write.
LEMMA DeclareKeeps ==
    ASSUME IInv, current \in Checks, NEW kind \in Declaring, NEW detail \in Details,
           Declare(kind, detail)
    PROVE  IInv'
<1> DEFINE f == [kind |-> kind, check |-> current, detail |-> detail]
           row == [fields |-> f, head |-> GENESIS]
<1>1. f \in AnnFields /\ f.kind \in Declaring
  BY DEF AnnFields, Kinds, Declaring
<1> HIDE DEF f
<1>2. row \in RowsToWrite /\ row.fields = f
  BY <1>1, GenesisType DEF RowsToWrite
<1>3. Moves(Collector, "head", row)
  BY Facts DEF Declare, Moves, f
<1>4. left' = left /\ undeclared' = undeclared /\ current' = current
  BY DEF Declare
<1>5. "head" \in Places
  BY DEF Places
<1> HIDE DEF row
<1> QED
  BY <1>1, <1>2, <1>3, <1>4, <1>5, Facts, QuietStep

\* What comes after a declaration.
LEMMA AfterKindType ==
    ASSUME NEW kind \in Declaring
    PROVE  AfterKind(kind) \in Declaring \cup {"next"}
BY DEF AfterKind, Declaring

LEMMA SkipKeeps ==
    ASSUME IInv, current \in Checks, NEW kind \in Declaring, Skip(kind)
    PROVE  IInv'
<1> DEFINE place == AfterKind(kind)
<1>1. place \in Declaring \cup {"next"}
  BY AfterKindType
<1>2. place \in Places /\ place \notin {"head", "insert"}
  BY <1>1 DEF Places, Declaring
<1>3. Moves(Collector, place, writing[Collector])
  BY Facts DEF Skip, Moves
<1>4. left' = left /\ undeclared' = undeclared /\ current' = current
  BY DEF Skip
<1>5. writing[Collector] \in RowsToWrite
  BY Facts
<1> HIDE DEF place
<1> QED
  BY <1>1, <1>2, <1>3, <1>4, <1>5, Facts, QuietStep

LEMMA DeclarationKeeps ==
    ASSUME IInv, Declaration
    PROVE  IInv'
<1>1. ASSUME NEW kind \in Declaring, NEW detail \in Details \cup {NONE},
             DeclareOnChange(kind, detail)
      PROVE  IInv'
  <2>1. current \in Checks
    BY <1>1 DEF DeclareOnChange, IInv, WritersFollow
  <2>2. \/ Skip(kind) \/ (Abandon /\ UNCHANGED errors)
        \/ detail \in Details /\ Declare(kind, detail)
    BY <1>1 DEF DeclareOnChange
  <2> QED
    BY <2>1, <2>2, Facts, SkipKeeps, DeclareKeeps, AbandonKeeps
<1>2. CASE NextCheck
  <2>1. PICK c \in left : /\ current' = c
                          /\ left' = left \ {c}
                          /\ pc' = [pc EXCEPT ![Collector] = "schedule"]
    BY <1>2 DEF NextCheck
  <2>2. Moves(Collector, "schedule", writing[Collector]) /\ undeclared' = undeclared
    BY <1>2, <2>1, Facts DEF NextCheck, Moves
  <2>3. "schedule" \in Places /\ writing[Collector] \in RowsToWrite /\ c \in Checks
    BY Facts DEF Places, Declaring
  <2>4. "schedule" \notin {"head", "insert"}
    OBVIOUS
  <2> QED
    BY <2>1, <2>2, <2>3, <2>4, Facts, QuietStep
<1>3. CASE Up
  <2>1. Moves(Collector, "up", writing[Collector])
    BY <1>3, Facts DEF Up, Moves
  <2>2. /\ "up" \in Places /\ writing[Collector] \in RowsToWrite
        /\ "up" \notin Declaring \cup {"head", "insert"}
    BY Facts DEF Places, Declaring
  <2>3. left' = left /\ undeclared' = undeclared /\ current' = NONE
    BY <1>3 DEF Up
  <2> QED
    BY <2>1, <2>2, <2>3, Facts, QuietStep
<1>4. CASE DeclareSchedule \/ DeclareFetchRegime
  <2>1. pc[Collector] \in Declaring
    BY <1>4 DEF DeclareSchedule, DeclareFetchRegime, DeclareOnChange, Declaring
  <2>2. current \in Checks
    BY <2>1 DEF IInv, WritersFollow
  <2>3. /\ conf[current].period \in Details \cup {NONE}
        /\ conf[current].fetch_id \in Details \cup {NONE}
    BY <2>2, Facts DEF Confs, Details
  <2>4. "schedule" \in Declaring /\ "fetch_regime" \in Declaring
    BY DEF Declaring
  <2> QED
    BY <1>1, <1>4, <2>3, <2>4 DEF DeclareSchedule, DeclareFetchRegime
<1>5. CASE DeclareControl
  <2>1. "note" \in Declaring /\ current \in Checks /\ CONTROL \in Details
    BY <1>5 DEF DeclareControl, Declaring, IInv, WritersFollow, Details
  <2>2. Skip("note") \/ (Abandon /\ UNCHANGED errors) \/ Declare("note", CONTROL)
    BY <1>5 DEF DeclareControl
  <2> QED
    BY <2>1, <2>2, Facts, SkipKeeps, DeclareKeeps, AbandonKeeps
<1> QED
  BY <1>2, <1>3, <1>4, <1>5 DEF Declaration

LEMMA StartKeeps ==
    ASSUME IInv, Start
    PROVE  IInv'
<1>1. /\ pc' = [pc EXCEPT ![Collector] = "next"]
      /\ conf' \in [Checks -> Confs] /\ left' = Checks /\ undeclared' = {}
      /\ UNCHANGED <<annotation, current, writing, starts, notes, errors>>
  BY DEF Start
<1>2. pc' \in [Writers -> Places] /\ pc'[Collector] = "next"
  <2>1. "next" \in Places
    BY DEF Places
  <2> QED
    BY <1>1, <2>1, Facts
<1>3. \A v \in Writers \ {Collector} : pc'[v] = pc[v]
  BY <1>1, Facts
<1>4. TypeOK'
  BY <1>1, <1>2 DEF IInv, TypeOK, Places
<1>5. WritersFollow' /\ HeadsKnown'
  BY <1>1, <1>2, <1>3, Facts DEF IInv, WritersFollow, HeadsKnown, HeadKnown, Declaring
<1>6. EveryRowFollowsARow'
  BY <1>1 DEF IInv, EveryRowFollowsARow
<1> QED
  BY <1>4, <1>5, <1>6 DEF IInv

LEMMA StopKeeps ==
    ASSUME IInv, Stop
    PROVE  IInv'
<1>1. Moves(Collector, "down", NoRow)
  BY Facts DEF Stop, Moves
<1>2. "down" \in Places /\ "down" \notin Declaring \cup {"head", "insert"}
  BY DEF Places, Declaring
<1>3. left' = {} /\ undeclared' = {} /\ current' = NONE
  BY DEF Stop
<1> QED
  BY <1>1, <1>2, <1>3, Facts, GenesisType, QuietStep

LEMMA AnnotateKeeps ==
    ASSUME IInv, NEW o \in Operators, Annotate(o)
    PROVE  IInv'
<1>1. PICK f \in Notes : writing' = [writing EXCEPT ![o] = [NoRow EXCEPT !.fields = f]]
  BY DEF Annotate
<1> DEFINE row == [NoRow EXCEPT !.fields = f]
<1>2. f \in AnnFields
  BY AnnotationsAssumption
<1>3. row \in RowsToWrite /\ row.fields = f
  BY <1>2, GenesisType DEF RowsToWrite, NoRow
<1>4. Moves(o, "head", row)
  <2>1. writing' = [writing EXCEPT ![o] = row]
    BY <1>1
  <2> HIDE DEF row
  <2>2. notes' \in Nat
    BY Facts DEF Annotate
  <2> QED
    BY <2>1, <2>2, Facts DEF Annotate, Moves
<1>5. left' = left /\ undeclared' = undeclared /\ current' = current
  BY DEF Annotate
<1>6. "head" \in Places /\ o \in Writers /\ o # Collector
  BY Facts DEF Places
<1> HIDE DEF row
<1>7. left' \subseteq Checks /\ undeclared' \subseteq Checks /\ current' \in Checks \cup {NONE}
  BY <1>5, Facts
<1> QED
  BY <1>2, <1>3, <1>4, <1>5, <1>6, <1>7, QuietStep

\* An INSERT on a head the table had extends the tree by one honest row.
LEMMA InsertKeeps ==
    ASSUME IInv, NEW w \in Writers, Insert(w)
    PROVE  IInv'
<1> DEFINE row == RowOn(writing[w].fields, NONE, writing[w].head)
           grown == Append(annotation, row)
           place == Written(w)
<1>1. /\ annotation' = grown
      /\ pc' = [pc EXCEPT ![w] = place]
      /\ writing' = [writing EXCEPT ![w] = NoRow]
      /\ UNCHANGED <<conf, left, current, undeclared, starts, notes, errors>>
      /\ pc[w] = "insert"
  BY DEF Insert
<1>2. /\ writing[w] \in RowsToWrite
      /\ writing[w].fields \in AnnFields
      /\ writing[w].head \in Seq(AnnFields)
      /\ HeadKnown(writing[w].head)
      /\ w = Collector => current \in Checks /\ writing[w].fields.kind \in Declaring
  BY <1>1, Facts DEF IInv, WritersFollow, HeadsKnown, RowsToWrite
<1>3. /\ row \in RowsOver(AnnFields, {NONE})
      /\ row.fields = writing[w].fields
      /\ row.prev_hash = writing[w].head
      /\ row.record_hash = compute_record_hash(row.fields, row.prev_hash)
  BY <1>2, RowType DEF RowOn
<1>4. annotation \in Seq(RowsOver(AnnFields, {NONE}))
  BY DEF IInv, TypeOK
<1> HIDE DEF row
<1>5. /\ grown \in Seq(RowsOver(AnnFields, {NONE}))
      /\ Len(annotation) \in Nat
      /\ DOMAIN grown = 1 .. (Len(annotation) + 1)
      /\ DOMAIN annotation = 1 .. Len(annotation)
      /\ \A i \in 1 .. Len(annotation) : grown[i] = annotation[i]
      /\ grown[Len(annotation) + 1] = row
  BY <1>3, <1>4, AppendedRow
<1> HIDE DEF grown
<1>6. place \in Declaring \cup {"next", "idle"}
      /\ (w = Collector <=> place # "idle")
  <2>1. CASE w = Collector
    BY <1>2, <2>1, AfterKindType DEF Written, Declaring
  <2>2. CASE w # Collector
    BY <2>2 DEF Written
  <2> QED
    BY <2>1, <2>2
<1>7. place \in Places /\ place \notin {"head", "insert"}
  BY <1>6 DEF Places, Declaring
<1> HIDE DEF place
<1>8. /\ pc' \in [Writers -> Places]
      /\ writing' \in [Writers -> RowsToWrite]
      /\ pc'[w] = place /\ writing'[w] = NoRow
      /\ \A v \in Writers \ {w} : pc'[v] = pc[v] /\ writing'[v] = writing[v]
  BY <1>1, <1>7, Facts, GenesisType
<1>9. TypeOK'
  BY <1>1, <1>5, <1>8 DEF IInv, TypeOK, Places, RowsToWrite
<1>10. WritersFollow'
  BY <1>1, <1>2, <1>6, <1>7, <1>8, Facts DEF IInv, WritersFollow
<1>11. HeadsKnown'
  <2>1. ASSUME NEW h, HeadKnown(h)
        PROVE  HeadKnown(h)'
    BY <1>1, <1>5, <2>1 DEF HeadKnown
  <2> SUFFICES ASSUME NEW v \in Writers, pc'[v] = "insert"
               PROVE  HeadKnown(writing[v].head)'
    BY DEF HeadsKnown
  <2>2. v # w /\ pc[v] = "insert" /\ writing'[v] = writing[v]
    BY <1>7, <1>8
  <2>3. HeadKnown(writing[v].head)
    BY <2>2 DEF IInv, HeadsKnown
  <2> QED
    BY <1>1, <1>5, <2>2, <2>3 DEF HeadKnown
<1>12. EveryRowFollowsARow'
  <2> SUFFICES ASSUME NEW i \in DOMAIN grown
               PROVE  /\ grown[i].record_hash =
                            compute_record_hash(grown[i].fields, grown[i].prev_hash)
                      /\ \/ grown[i].prev_hash = GENESIS
                         \/ \E j \in 1 .. (i - 1) :
                               grown[i].prev_hash = grown[j].record_hash
    BY <1>1 DEF EveryRowFollowsARow
  <2>1. CASE i \in 1 .. Len(annotation)
    BY <1>5, <2>1 DEF IInv, EveryRowFollowsARow
  <2>2. CASE i = Len(annotation) + 1
    <3>1. grown[i] = row /\ i - 1 = Len(annotation)
      BY <1>5, <2>2
    <3>2. \/ row.prev_hash = GENESIS
          \/ \E j \in 1 .. Len(annotation) : row.prev_hash = annotation[j].record_hash
      BY <1>2, <1>3, <1>5 DEF HeadKnown
    <3> QED
      BY <1>3, <1>5, <3>1, <3>2
  <2> QED
    BY <1>5, <2>1, <2>2
<1> QED
  BY <1>9, <1>10, <1>11, <1>12 DEF IInv

\* The inductive invariant holds at the start and is kept by every step.
THEOREM Invariance == Spec => []IInv
<1>1. Init => IInv
  <2> SUFFICES ASSUME Init
               PROVE  IInv
    OBVIOUS
  <2>1. TypeOK
    BY GenesisType DEF Init, TypeOK, Places, RowsToWrite
  <2>2. WritersFollow /\ HeadsKnown /\ EveryRowFollowsARow
    BY AnnotationsAssumption
       DEF Init, WritersFollow, HeadsKnown, EveryRowFollowsARow, Writers, Declaring
  <2> QED
    BY <2>1, <2>2 DEF IInv
<1>2. IInv /\ [Next]_vars => IInv'
  <2> SUFFICES ASSUME IInv, [Next]_vars
               PROVE  IInv'
    OBVIOUS
  <2>1. CASE UNCHANGED vars
    BY <2>1 DEF vars, IInv, TypeOK, WritersFollow, HeadsKnown, HeadKnown,
                EveryRowFollowsARow
  <2>2. CASE Next
    BY <2>2, Facts, StartKeeps, StopKeeps, DeclarationKeeps, AnnotateKeeps,
       ReadHeadKeeps, InsertKeeps, StorageErrorKeeps DEF Next
  <2> QED
    BY <2>1, <2>2
<1> QED
  BY <1>1, <1>2, PTL DEF Spec

\* Every variable keeps its kind, for any constants.
THEOREM TypeCorrect == Spec => []TypeOK
BY Invariance, PTL DEF IInv

\* Whoever writes, and however their reads and writes interleave, the table is
\* a tree of honestly hashed rows rooted at the genesis value.
THEOREM RowsAlwaysFollow == Spec => []EveryRowFollowsARow
BY Invariance, PTL DEF IInv
-----------------------------------------------------------------------------
(* Writers that take turns.  Nothing moves the head between a SELECT and the   *)
(* INSERT on it, so the row goes where it was meant to go.                     *)

NobodyOvertaken ==
    \A w \in Writers : pc[w] = "insert" => writing[w].head = HeadOf(annotation)

InTurn == AnnotationsIntact /\ NobodyOvertaken

\* The row inserted is one on the head, and nobody else was about to insert.
LEMMA InsertInTurn ==
    ASSUME IInv, InTurn, TakeTurns, NEW w \in Writers, Insert(w)
    PROVE  InTurn'
<1>1. /\ annotation \in Seq(RowsOver(AnnFields, {NONE}))
      /\ writing[w].fields \in AnnFields
      /\ NONE \in {NONE}
  BY DEF Insert, IInv, TypeOK, WritersFollow
<1>2. annotation' = Append(annotation, RowOn(writing[w].fields, NONE, HeadOf(annotation)))
  BY DEF Insert, InTurn, NobodyOvertaken
<1>3. AnnotationsIntact'
  BY <1>1, <1>2, IntactAfterInsert DEF InTurn, AnnotationsIntact
<1>4. pc' = [pc EXCEPT ![w] = Written(w)] /\ pc[w] = "insert"
  BY DEF Insert
<1>5. Written(w) # "insert"
  <2>1. w = Collector => writing[w].fields.kind \in Declaring
    BY <1>4 DEF IInv, WritersFollow
  <2> QED
    BY <2>1, AfterKindType DEF Written, Declaring
<1>6. \A v \in Writers : pc'[v] # "insert"
  BY <1>4, <1>5, Facts DEF TakeTurns
<1> QED
  BY <1>3, <1>6 DEF InTurn, NobodyOvertaken

\* No other step touches the table, and only ReadHead begins to insert.
LEMMA OthersInTurn ==
    ASSUME IInv, [Next]_vars, \A w \in Writers : ~ Insert(w)
    PROVE  /\ annotation' = annotation
           /\ \A v \in Writers : pc'[v] = "insert" =>
                 \/ pc[v] = "insert" /\ writing'[v] = writing[v]
                 \/ writing'[v].head = HeadOf(annotation)
<1> DEFINE Quiet == /\ annotation' = annotation
                    /\ \A v \in Writers : pc'[v] = "insert" =>
                          \/ pc[v] = "insert" /\ writing'[v] = writing[v]
                          \/ writing'[v].head = HeadOf(annotation)
<1>1. ASSUME NEW w \in Writers, ReadHead(w)
      PROVE  Quiet
  <2>1. /\ annotation' = annotation
        /\ pc' = [pc EXCEPT ![w] = "insert"]
        /\ writing' = [writing EXCEPT ![w].head = HeadOf(annotation)]
    BY <1>1 DEF ReadHead
  <2>2. writing[w] \in RowsToWrite
    BY Facts
  <2>3. [writing[w] EXCEPT !.head = HeadOf(annotation)].head = HeadOf(annotation)
    BY <2>2 DEF RowsToWrite
  <2>4. writing'[w].head = HeadOf(annotation)
    BY <2>1, <2>3, Facts
  <2>5. \A v \in Writers \ {w} : pc'[v] = pc[v] /\ writing'[v] = writing[v]
    BY <2>1, Facts
  <2> QED
    BY <2>1, <2>4, <2>5
<1>2. ASSUME NEW w \in Writers, NEW place,
             annotation' = annotation, pc' = [pc EXCEPT ![w] = place], place # "insert",
             \A v \in Writers \ {w} : writing'[v] = writing[v]
      PROVE  Quiet
  BY <1>2, Facts
<1>3. ASSUME NEW w \in Writers, StorageError(w)
      PROVE  Quiet
  <2>1. CASE Abandon
    BY <2>1, <1>2, Facts DEF Abandon
  <2>2. CASE /\ annotation' = annotation
             /\ pc' = [pc EXCEPT ![w] = "idle"] /\ writing' = [writing EXCEPT ![w] = NoRow]
    BY <2>2, <1>2, Facts
  <2> QED
    BY <1>3, <2>1, <2>2 DEF StorageError
<1>4. CASE Start \/ Stop
  <2>1. CASE Start
    BY <2>1, <1>2, Facts DEF Start
  <2>2. CASE Stop
    BY <2>2, <1>2, Facts DEF Stop
  <2> QED
    BY <1>4, <2>1, <2>2
<1>5. ASSUME NEW o \in Operators, Annotate(o)
      PROVE  Quiet
  <2>1. o \in Writers
    BY DEF Writers
  <2>2. /\ annotation' = annotation /\ pc' = [pc EXCEPT ![o] = "head"]
        /\ \E row : writing' = [writing EXCEPT ![o] = row]
    BY <1>5 DEF Annotate
  <2> QED
    BY <2>1, <2>2, <1>2, Facts
<1>6. CASE Declaration
  <2>1. ASSUME NEW kind \in Declaring, NEW detail,
               Skip(kind) \/ Abandon \/ Declare(kind, detail)
        PROVE  Quiet
    <3>1. CASE Skip(kind)
      <4>1. AfterKind(kind) # "insert"
        BY AfterKindType DEF Declaring
      <4> QED
        BY <3>1, <4>1, <1>2, Facts DEF Skip
    <3>2. CASE Abandon
      BY <3>2, <1>2, Facts DEF Abandon
    <3>3. CASE Declare(kind, detail)
      BY <3>3, <1>2, Facts DEF Declare
    <3> QED
      BY <2>1, <3>1, <3>2, <3>3
  <2>2. {"schedule", "fetch_regime", "note"} = Declaring
    BY DEF Declaring
  <2>3. CASE DeclareSchedule \/ DeclareFetchRegime \/ DeclareControl
    BY <2>1, <2>2, <2>3
       DEF DeclareSchedule, DeclareFetchRegime, DeclareControl, DeclareOnChange
  <2>4. CASE NextCheck
    BY <2>4, <1>2, Facts DEF NextCheck
  <2>5. CASE Up
    BY <2>5, <1>2, Facts DEF Up
  <2> QED
    BY <1>6, <2>3, <2>4, <2>5 DEF Declaration
<1>7. CASE UNCHANGED vars
  BY <1>7 DEF vars
<1> QED
  BY <1>1, <1>3, <1>4, <1>5, <1>6, <1>7 DEF Next

LEMMA StepInTurn ==
    ASSUME IInv, InTurn, TakeTurns, [Next]_vars
    PROVE  InTurn'
<1>1. CASE \E w \in Writers : Insert(w)
  BY <1>1, InsertInTurn
<1>2. CASE \A w \in Writers : ~ Insert(w)
  BY <1>2, OthersInTurn DEF InTurn, NobodyOvertaken, AnnotationsIntact
<1> QED
  BY <1>1, <1>2

LEMMA InitInTurn == Init => InTurn
<1>1. Init => pc = [w \in Writers |-> IF w = Collector THEN "down" ELSE "idle"]
              /\ annotation = << >>
  BY DEF Init
<1> QED
  BY <1>1 DEF InTurn, NobodyOvertaken, AnnotationsIntact, ChainIntact

\* For any number of writers, whatever they write, and however they fail or are
\* killed: if no writer reads the head while another has still to insert on it,
\* the chain recomputes.  A lock around record_annotation is all it lacks.
THEOREM TurnsAlwaysKeepTheChain == Spec => TurnsKeepTheChain
<1>1. InTurn => AnnotationsIntact
  BY DEF InTurn
<1>2. IInv /\ InTurn /\ TakeTurns /\ [Next]_vars => InTurn'
  BY StepInTurn
<1> QED
  BY <1>1, <1>2, InitInTurn, Invariance, PTL DEF Spec, TurnsKeepTheChain

\* With no operator writing beside it, whatever the collector's configurations,
\* restarts and storage errors, the chain it declares its intent on recomputes.
THEOREM SoleWriterKeepsTheChain ==
    Operators = {} /\ Spec => []AnnotationsIntact
<1>1. CASE Operators = {}
  <2>1. TakeTurns
    BY <1>1 DEF TakeTurns, Writers
  <2> QED
    BY <2>1, TurnsAlwaysKeepTheChain, PTL DEF TurnsKeepTheChain
<1> QED
  BY <1>1
-----------------------------------------------------------------------------
(* The collector alone: what it declares.  A row it is about to write says     *)
(* something new, and what it was configured with is on the chain for every    *)
(* check it has finished with.                                                 *)

\* The row about to be written differs from the last of its kind about the check.
SaysSomethingNew ==
    \A f \in AnnFields :
       pc[Collector] \in {"head", "insert"} /\ f = writing[Collector].fields =>
          \/ f.kind # "note" /\ f.detail # LastDetail(f.kind, f.check)
          \/ f.kind = "note" /\ f.detail = CONTROL /\ Roles(f.check) = {}

\* What is on the chain about one check.
ScheduleOnTheChain(c) == conf[c].period \in {NONE, LastDetail("schedule", c)}
FetchOnTheChain(c) == conf[c].fetch_id = LastDetail("fetch_regime", c)
ControlOnTheChain(c) == conf[c].control => Roles(c) # {}
OnTheChain(c) == ScheduleOnTheChain(c) /\ FetchOnTheChain(c) /\ ControlOnTheChain(c)

\* The declaration of the current check has come to one of these kinds.
At(kind) ==
    \/ pc[Collector] = kind
    \/ pc[Collector] \in {"head", "insert"} /\ writing[Collector].fields.kind = kind

DeclaredSoFar ==
    /\ \A c \in Checks :
          /\ pc[Collector] # "down" /\ c \notin left \cup undeclared =>
                (c = current /\ pc[Collector] \notin {"next", "up"}) \/ OnTheChain(c)
          /\ c = current /\ (At("fetch_regime") \/ At("note")) => ScheduleOnTheChain(c)
          /\ c = current /\ At("note") => FetchOnTheChain(c)
    /\ pc[Collector] = "up" => left = {}
    /\ pc[Collector] \in {"head", "insert"} =>
          LET f == writing[Collector].fields
          IN  /\ f.check = current
              /\ f.kind = "schedule" => f.detail = conf[current].period
              /\ f.kind = "fetch_regime" => f.detail = conf[current].fetch_id
              /\ f.kind = "note" => f.detail = CONTROL


\* The table has rows of its kind; the last detail is that of its largest index.
LEMMA LastDetailIs ==
    ASSUME TypeOK, NEW kind, NEW c
    PROVE  /\ About(kind, c) \in SUBSET (1 .. Len(annotation)) /\ Len(annotation) \in Nat
           /\ About(kind, c) = {} => LastDetail(kind, c) = NONE
           /\ About(kind, c) # {} =>
                 \E i \in About(kind, c) : /\ LastDetail(kind, c) = annotation[i].fields.detail
                                           /\ \A j \in About(kind, c) : j <= i
<1>1. About(kind, c) \in SUBSET (1 .. Len(annotation)) /\ Len(annotation) \in Nat
  BY DEF TypeOK, About
<1>2. CASE About(kind, c) = {}
  BY <1>1, <1>2 DEF LastDetail
<1>3. CASE About(kind, c) # {}
  <2>1. /\ Max(About(kind, c)) \in About(kind, c)
        /\ \A j \in About(kind, c) : j <= Max(About(kind, c))
    BY <1>1, <1>3, LargestIndex
  <2> QED
    BY <1>1, <1>3, <2>1 DEF LastDetail
<1> QED
  BY <1>2, <1>3

\* An appended row is the last of its kind about its check, and changes nothing else.
LEMMA LastDetailAfter ==
    ASSUME TypeOK, NEW row \in RowsOver(AnnFields, {NONE}),
           annotation' = Append(annotation, row), NEW kind, NEW c
    PROVE  /\ LastDetail(kind, c)' = (IF row.fields.kind = kind /\ row.fields.check = c
                                      THEN row.fields.detail ELSE LastDetail(kind, c))
           /\ Roles(c) \subseteq Roles(c)'
           /\ row.fields.kind = "note" /\ row.fields.check = c /\ row.fields.detail = CONTROL
                => Roles(c)' # {}
<1> DEFINE more == annotation'
           n == Len(annotation)
           before == About(kind, c)
           after == {i \in DOMAIN more : more[i].fields.kind = kind /\ more[i].fields.check = c}
<1>1. /\ n \in Nat /\ DOMAIN annotation = 1 .. n /\ DOMAIN more = 1 .. (n + 1)
      /\ \A i \in 1 .. n : more[i] = annotation[i]
      /\ more[n + 1] = row
  BY AppendedRow DEF TypeOK
<1>2. LastDetail(kind, c)' = IF after = {} THEN NONE ELSE more[Max(after)].fields.detail
  BY DEF LastDetail, About
<1>3. LastDetail(kind, c)' = (IF row.fields.kind = kind /\ row.fields.check = c
                              THEN row.fields.detail ELSE LastDetail(kind, c))
  <2> HIDE DEF more, n
  <2>1. CASE row.fields.kind = kind /\ row.fields.check = c
    <3>1. n + 1 \in Nat /\ after \in SUBSET (1 .. (n + 1)) /\ n + 1 \in after
      BY <1>1, <2>1
    <3>2. Max(after) = n + 1
      BY <3>1, LargestIsEnd
    <3> HIDE DEF after
    <3> QED
      BY <1>1, <1>2, <2>1, <3>1, <3>2
  <2>2. CASE ~ (row.fields.kind = kind /\ row.fields.check = c)
    <3>1. after = before /\ before \in SUBSET (1 .. n)
      BY <1>1, <2>2 DEF About
    <3>2. before # {} => more[Max(before)] = annotation[Max(before)]
      BY <1>1, <3>1, LargestIndex
    <3>3. LastDetail(kind, c) =
             IF before = {} THEN NONE ELSE annotation[Max(before)].fields.detail
      BY DEF LastDetail
    <3> HIDE DEF after, before
    <3> QED
      BY <1>2, <2>2, <3>1, <3>2, <3>3
  <2> QED
    BY <2>1, <2>2
<1>4. Roles(c)' = {i \in DOMAIN more : /\ more[i].fields.kind = "note" /\ more[i].fields.check = c
                                       /\ more[i].fields.detail = CONTROL}
  BY DEF Roles, About
<1>5. Roles(c) \subseteq Roles(c)'
  BY <1>1, <1>4 DEF Roles, About
<1>6. row.fields.kind = "note" /\ row.fields.check = c /\ row.fields.detail = CONTROL
         => n + 1 \in Roles(c)'
  <2>1. n + 1 \in DOMAIN more
    BY <1>1
  <2> QED
    BY <1>1, <1>4, <2>1
<1> QED
  BY <1>3, <1>5, <1>6

\* While the table stays, so does what is on it.
LEMMA TableStays ==
    ASSUME annotation' = annotation, NEW c
    PROVE  /\ \A kind : LastDetail(kind, c)' = LastDetail(kind, c)
           /\ Roles(c)' = Roles(c)
BY DEF LastDetail, Roles, About

\* A row that says something new leaves no declaration that repeats the one before.
LEMMA InsertAppendsOnChange ==
    ASSUME IInv, SaysSomethingNew, AppendOnChange, Insert(Collector)
    PROVE  AppendOnChange'
<1> DEFINE row == RowOn(writing[Collector].fields, NONE, writing[Collector].head)
           f == writing[Collector].fields
           more == annotation'
           n == Len(annotation)
<1>1. /\ writing[Collector] \in RowsToWrite /\ f \in AnnFields
      /\ pc[Collector] = "insert" /\ annotation' = Append(annotation, row)
  BY Facts DEF Insert, IInv, WritersFollow
<1>2. row \in RowsOver(AnnFields, {NONE}) /\ row.fields = f
  BY <1>1, RowType DEF RowsToWrite, RowOn
<1>3. annotation \in Seq(RowsOver(AnnFields, {NONE}))
  BY DEF IInv, TypeOK
<1> HIDE DEF row
<1>4. /\ n \in Nat /\ DOMAIN annotation = 1 .. n /\ DOMAIN more = 1 .. (n + 1)
      /\ \A i \in 1 .. n : more[i] = annotation[i]
      /\ more[n + 1].fields = f
  BY <1>1, <1>2, <1>3, AppendedRow
<1>5. \/ f.kind # "note" /\ f.detail # LastDetail(f.kind, f.check)
      \/ f.kind = "note" /\ f.detail = CONTROL /\ Roles(f.check) = {}
  BY <1>1 DEF SaysSomethingNew
<1> HIDE DEF f, n
<1> SUFFICES ASSUME NEW i \in DOMAIN more, NEW j \in DOMAIN more, i < j,
                    more[i].fields.kind = more[j].fields.kind,
                    more[i].fields.check = more[j].fields.check,
                    more[i].fields.detail = more[j].fields.detail
             PROVE  /\ more[i].fields.kind # "note"
                    /\ \E k \in (i + 1) .. (j - 1) :
                          /\ more[k].fields.kind = more[i].fields.kind
                          /\ more[k].fields.check = more[i].fields.check
                          /\ more[k].fields.detail # more[i].fields.detail
  BY DEF AppendOnChange
<1> HIDE DEF more
<1>6. i \in 1 .. n /\ i \in Nat /\ j \in Nat /\ (j \in 1 .. n \/ j = n + 1)
  BY <1>4
<1>7. CASE j \in 1 .. n
  <2>1. more[i] = annotation[i] /\ more[j] = annotation[j]
    BY <1>4, <1>6, <1>7
  <2>2. /\ annotation[i].fields.kind # "note"
        /\ \E k \in (i + 1) .. (j - 1) :
              /\ annotation[k].fields.kind = annotation[i].fields.kind
              /\ annotation[k].fields.check = annotation[i].fields.check
              /\ annotation[k].fields.detail # annotation[i].fields.detail
    BY <1>4, <1>6, <1>7, <2>1 DEF AppendOnChange
  <2>3. \A k \in (i + 1) .. (j - 1) : more[k] = annotation[k]
    BY <1>4, <1>6, <1>7
  <2> QED
    BY <2>1, <2>2, <2>3
<1>8. CASE j = n + 1
  <2>1. /\ annotation[i].fields.kind = f.kind /\ annotation[i].fields.check = f.check
        /\ annotation[i].fields.detail = f.detail /\ more[i] = annotation[i]
    BY <1>4, <1>6, <1>8
  <2>2. i \in About(f.kind, f.check)
    BY <1>4, <1>6, <2>1 DEF About
  <2>3. f.kind # "note" /\ f.detail # LastDetail(f.kind, f.check)
    BY <1>5, <2>1, <2>2 DEF Roles
  <2>4. PICK k \in About(f.kind, f.check) :
          /\ LastDetail(f.kind, f.check) = annotation[k].fields.detail
          /\ i <= k
    BY <2>2, LastDetailIs DEF IInv
  <2>5. /\ k \in 1 .. n /\ annotation[k].fields.kind = f.kind
        /\ annotation[k].fields.check = f.check /\ annotation[k].fields.detail # f.detail
    BY <1>4, <2>3, <2>4 DEF About
  <2>6. k # i /\ k \in (i + 1) .. (j - 1) /\ more[k] = annotation[k]
    BY <1>4, <1>6, <1>8, <2>1, <2>4, <2>5
  <2> QED
    BY <2>1, <2>3, <2>5, <2>6
<1> QED
  BY <1>6, <1>7, <1>8

\* While table and configuration stay, so does what is on the chain.
LEMMA ChainStays ==
    ASSUME annotation' = annotation, conf' = conf, NEW c
    PROVE  /\ ScheduleOnTheChain(c)' <=> ScheduleOnTheChain(c)
           /\ FetchOnTheChain(c)' <=> FetchOnTheChain(c)
           /\ OnTheChain(c)' <=> OnTheChain(c)
<1>1. /\ LastDetail("schedule", c)' = LastDetail("schedule", c)
      /\ LastDetail("fetch_regime", c)' = LastDetail("fetch_regime", c)
      /\ Roles(c)' = Roles(c)
  BY TableStays
<1> QED
  BY <1>1 DEF ScheduleOnTheChain, FetchOnTheChain, ControlOnTheChain, OnTheChain

\* What a row to be written says stays new while neither it nor the table changes.
LEMMA NewsStays ==
    ASSUME SaysSomethingNew, annotation' = annotation,
           \/ pc'[Collector] \notin {"head", "insert"}
           \/ /\ pc[Collector] \in {"head", "insert"}
              /\ writing'[Collector].fields = writing[Collector].fields
    PROVE  SaysSomethingNew'
<1> SUFFICES ASSUME NEW f \in AnnFields, pc'[Collector] \in {"head", "insert"},
                    f = writing'[Collector].fields
             PROVE  \/ f.kind # "note" /\ f.detail # LastDetail(f.kind, f.check)'
                    \/ f.kind = "note" /\ f.detail = CONTROL /\ Roles(f.check)' = {}
  BY DEF SaysSomethingNew
<1>1. /\ LastDetail(f.kind, f.check)' = LastDetail(f.kind, f.check)
      /\ Roles(f.check)' = Roles(f.check)
  BY TableStays
<1> QED
  BY <1>1 DEF SaysSomethingNew

\* Done with one kind, the collector may go on to the next once what it has
\* declared so far about the check is on the chain.
LEMMA MovesOn ==
    ASSUME IInv, DeclaredSoFar, NEW c \in Checks, c = current, NEW kind \in Declaring,
           pc[Collector] \in Declaring \cup {"head", "insert"},
           pc' = [pc EXCEPT ![Collector] = AfterKind(kind)],
           UNCHANGED <<conf, left, current, undeclared>>,
           \A d \in Checks \ {c} : OnTheChain(d) => OnTheChain(d)',
           ScheduleOnTheChain(c)',
           kind # "schedule" => FetchOnTheChain(c)',
           kind = "note" => ControlOnTheChain(c)'
    PROVE  DeclaredSoFar'
<1>1. pc'[Collector] = AfterKind(kind) /\ pc'[Collector] \in Declaring \cup {"next"}
  BY Facts, AfterKindType
<1>2. pc'[Collector] \notin {"head", "insert", "up", "down"}
  BY <1>1 DEF Declaring
<1>3. /\ At("fetch_regime")' <=> kind = "schedule"
      /\ At("note")' <=> kind = "fetch_regime"
      /\ pc'[Collector] = "next" <=> kind = "note"
  BY <1>1, <1>2 DEF At, AfterKind, Declaring
<1>4. ASSUME NEW d \in Checks
      PROVE  /\ pc'[Collector] # "down" /\ d \notin left' \cup undeclared' =>
                   \/ d = current' /\ pc'[Collector] \notin {"next", "up"}
                   \/ OnTheChain(d)'
             /\ d = current' /\ (At("fetch_regime") \/ At("note"))'
                   => ScheduleOnTheChain(d)'
             /\ d = current' /\ At("note")' => FetchOnTheChain(d)'
  <2>1. CASE d = c
    <3>1. kind = "note" => OnTheChain(d)'
      BY <2>1 DEF OnTheChain
    <3> QED
      BY <1>2, <1>3, <2>1, <3>1
  <2>2. CASE d # c
    <3>1. d \notin left \cup undeclared => OnTheChain(d)
      BY <2>2 DEF DeclaredSoFar, Declaring
    <3> QED
      BY <2>2, <3>1
  <2> QED
    BY <2>1, <2>2
<1> QED
  BY <1>2, <1>4 DEF DeclaredSoFar

SoleDeclarer == DeclaredSoFar /\ SaysSomethingNew /\ AppendOnChange

\* A step that leaves the table alone keeps the invariant when it keeps the
\* collector's place in its declarations.
LEMMA QuietDeclarer ==
    ASSUME SoleDeclarer, annotation' = annotation, DeclaredSoFar',
           \/ pc'[Collector] \notin {"head", "insert"}
           \/ /\ pc[Collector] \in {"head", "insert"}
              /\ writing'[Collector].fields = writing[Collector].fields
    PROVE  SoleDeclarer'
<1>1. SaysSomethingNew'
  BY NewsStays DEF SoleDeclarer
<1>2. AppendOnChange'
  BY DEF SoleDeclarer, AppendOnChange
<1> QED
  BY <1>1, <1>2 DEF SoleDeclarer

\* Starting, stopping and coming up.
LEMMA RestartDeclares ==
    ASSUME IInv, SoleDeclarer, Start \/ Stop
    PROVE  SoleDeclarer'
<1>1. /\ pc'[Collector] \in {"next", "down"}
      /\ annotation' = annotation
      /\ pc'[Collector] = "next" => left' = Checks
  BY Facts DEF Start, Stop
<1>2. ~ At("fetch_regime")' /\ ~ At("note")'
  BY <1>1 DEF At
<1>3. DeclaredSoFar'
  BY <1>1, <1>2 DEF DeclaredSoFar
<1> QED
  BY <1>1, <1>3, QuietDeclarer

LEMMA AbandonDeclares ==
    ASSUME IInv, SoleDeclarer, Abandon, pc[Collector] \in Declaring \cup {"head", "insert"}
    PROVE  SoleDeclarer'
<1>1. /\ pc'[Collector] = "next" /\ undeclared' = undeclared \cup {current}
      /\ UNCHANGED <<annotation, conf, left, current>>
  BY Facts DEF Abandon
<1>2. ~ At("fetch_regime")' /\ ~ At("note")'
  BY <1>1 DEF At
<1>3. ASSUME NEW c \in Checks, c \notin left' \cup undeclared'
      PROVE  OnTheChain(c)'
  <2>1. c # current /\ c \notin left \cup undeclared
    BY <1>1, <1>3
  <2>2. OnTheChain(c)
    BY <2>1 DEF SoleDeclarer, DeclaredSoFar, Declaring
  <2> QED
    BY <1>1, <2>2, ChainStays
<1>4. DeclaredSoFar'
  BY <1>1, <1>2, <1>3 DEF DeclaredSoFar
<1> QED
  BY <1>1, <1>4, QuietDeclarer

LEMMA NextCheckDeclares ==
    ASSUME IInv, SoleDeclarer, NextCheck
    PROVE  SoleDeclarer'
<1>1. PICK c \in left : current' = c /\ left' = left \ {c}
  BY DEF NextCheck
<1>2. /\ pc[Collector] = "next" /\ pc'[Collector] = "schedule"
      /\ UNCHANGED <<annotation, conf, undeclared>>
  BY Facts DEF NextCheck
<1>3. ~ At("fetch_regime")' /\ ~ At("note")'
  BY <1>2 DEF At
<1>4. ASSUME NEW d \in Checks, d \notin left' \cup undeclared', d # c
      PROVE  OnTheChain(d)'
  <2>1. OnTheChain(d)
    BY <1>1, <1>2, <1>4 DEF SoleDeclarer, DeclaredSoFar
  <2> QED
    BY <1>2, <2>1, ChainStays
<1>5. DeclaredSoFar'
  BY <1>1, <1>2, <1>3, <1>4 DEF DeclaredSoFar
<1> QED
  BY <1>2, <1>5, QuietDeclarer

LEMMA UpDeclares ==
    ASSUME IInv, SoleDeclarer, Up
    PROVE  SoleDeclarer'
<1>1. /\ pc[Collector] = "next" /\ pc'[Collector] = "up" /\ left = {} /\ left' = {}
      /\ UNCHANGED <<annotation, conf, undeclared>>
  BY Facts DEF Up
<1>2. ~ At("fetch_regime")' /\ ~ At("note")'
  BY <1>1 DEF At
<1>3. ASSUME NEW c \in Checks, c \notin left' \cup undeclared'
      PROVE  OnTheChain(c)'
  <2>1. OnTheChain(c)
    BY <1>1, <1>3 DEF SoleDeclarer, DeclaredSoFar
  <2> QED
    BY <1>1, <2>1, ChainStays
<1>4. DeclaredSoFar'
  BY <1>1, <1>2, <1>3 DEF DeclaredSoFar
<1> QED
  BY <1>1, <1>4, QuietDeclarer

\* A declaration that repeats the last one, or has nothing to say, is skipped.
LEMMA SkipDeclares ==
    ASSUME IInv, SoleDeclarer, NEW c \in Checks, c = current, NEW kind \in Declaring,
           pc[Collector] = kind, Skip(kind),
           kind = "schedule" => ScheduleOnTheChain(c),
           kind = "fetch_regime" => FetchOnTheChain(c),
           kind = "note" => ControlOnTheChain(c)
    PROVE  SoleDeclarer'
<1>1. /\ pc' = [pc EXCEPT ![Collector] = AfterKind(kind)]
      /\ UNCHANGED <<annotation, conf, left, current, undeclared, writing>>
  BY DEF Skip
<1>2. pc'[Collector] \notin {"head", "insert"}
  BY <1>1, Facts, AfterKindType DEF Declaring
<1>3. /\ kind # "schedule" => ScheduleOnTheChain(c)
      /\ kind = "note" => FetchOnTheChain(c)
  BY DEF SoleDeclarer, DeclaredSoFar, At, Declaring
<1>4. /\ ScheduleOnTheChain(c)'
      /\ kind # "schedule" => FetchOnTheChain(c)'
      /\ kind = "note" => ControlOnTheChain(c)'
  <2>1. ControlOnTheChain(c)' <=> ControlOnTheChain(c)
    <3>1. Roles(c)' = Roles(c)
      BY <1>1, TableStays
    <3> QED
      BY <1>1, <3>1 DEF ControlOnTheChain
  <2> QED
    BY <1>1, <1>3, <2>1, ChainStays DEF Declaring
<1>5. \A d \in Checks \ {c} : OnTheChain(d) => OnTheChain(d)'
  BY <1>1, ChainStays
<1>6. DeclaredSoFar'
  BY <1>1, <1>4, <1>5, MovesOn DEF SoleDeclarer
<1> QED
  BY <1>1, <1>2, <1>6, QuietDeclarer

\* A declaration that says something new is the row to be written.
LEMMA NewsDeclares ==
    ASSUME IInv, SoleDeclarer, NEW c \in Checks, c = current, NEW kind \in Declaring,
           NEW detail \in Details, pc[Collector] = kind, Declare(kind, detail),
           kind = "schedule" => detail = conf[c].period /\ detail # LastDetail(kind, c),
           kind = "fetch_regime" =>
              detail = conf[c].fetch_id /\ detail # LastDetail(kind, c),
           kind = "note" => detail = CONTROL /\ Roles(c) = {}
    PROVE  SoleDeclarer'
<1> DEFINE f == [kind |-> kind, check |-> c, detail |-> detail]
<1>1. /\ writing'[Collector].fields = f /\ pc'[Collector] = "head"
      /\ UNCHANGED <<annotation, conf, left, current, undeclared>>
  BY Facts DEF Declare
<1>2. f.kind = kind /\ f.check = c /\ f.detail = detail
  OBVIOUS
<1> HIDE DEF f
<1>3. /\ \A k \in Declaring : At(k)' <=> k = kind
      /\ \A k \in Declaring : At(k) <=> k = kind
  BY <1>1, <1>2 DEF At, Declaring
<1>4. ASSUME NEW d \in Checks
      PROVE  /\ d \notin left' \cup undeclared' => d = current' \/ OnTheChain(d)'
             /\ d = current' /\ (At("fetch_regime") \/ At("note"))'
                   => ScheduleOnTheChain(d)'
             /\ d = current' /\ At("note")' => FetchOnTheChain(d)'
  <2>1. /\ d \notin left \cup undeclared => d = current \/ OnTheChain(d)
        /\ d = current /\ (At("fetch_regime") \/ At("note")) => ScheduleOnTheChain(d)
        /\ d = current /\ At("note") => FetchOnTheChain(d)
    BY DEF SoleDeclarer, DeclaredSoFar, Declaring
  <2>2. "fetch_regime" \in Declaring /\ "note" \in Declaring
    BY DEF Declaring
  <2>3. /\ At("fetch_regime")' <=> At("fetch_regime")
        /\ At("note")' <=> At("note")
    BY <1>3, <2>2
  <2> QED
    BY <1>1, <2>1, <2>3, ChainStays
<1>5. DeclaredSoFar'
  BY <1>1, <1>2, <1>4 DEF DeclaredSoFar
<1>6. SaysSomethingNew'
  <2>1. /\ LastDetail(kind, c)' = LastDetail(kind, c) /\ Roles(c)' = Roles(c)
    BY <1>1, TableStays
  <2>2. \/ kind # "note" /\ detail # LastDetail(kind, c)'
        \/ kind = "note" /\ detail = CONTROL /\ Roles(c)' = {}
    BY <2>1 DEF Declaring
  <2>3. ASSUME NEW g \in AnnFields, g = f
        PROVE  \/ g.kind # "note" /\ g.detail # LastDetail(g.kind, g.check)'
               \/ g.kind = "note" /\ g.detail = CONTROL /\ Roles(g.check)' = {}
    <3>1. g.kind = kind /\ g.check = c /\ g.detail = detail
      BY <1>2, <2>3
    <3> QED
      BY <2>2, <3>1
  <2> QED
    BY <1>1, <2>3 DEF SaysSomethingNew
<1>7. AppendOnChange'
  BY <1>1 DEF SoleDeclarer, AppendOnChange
<1> QED
  BY <1>5, <1>6, <1>7 DEF SoleDeclarer

LEMMA ReadHeadDeclares ==
    ASSUME IInv, SoleDeclarer, ReadHead(Collector)
    PROVE  SoleDeclarer'
<1>1. /\ pc[Collector] = "head" /\ pc'[Collector] = "insert"
      /\ UNCHANGED <<annotation, conf, left, current, undeclared>>
  BY Facts DEF ReadHead
<1>2. writing'[Collector].fields = writing[Collector].fields
  <2>1. writing[Collector] \in RowsToWrite /\ Collector \in Writers
    BY Facts
  <2>2. [writing[Collector] EXCEPT !.head = HeadOf(annotation)].fields
           = writing[Collector].fields
    BY <2>1 DEF RowsToWrite
  <2> QED
    BY <2>1, <2>2, Facts DEF ReadHead
<1>3. \A k : At(k) /\ k \notin {"head", "insert"}
               <=> At(k)' /\ k \notin {"head", "insert"}
  BY <1>1, <1>2 DEF At
<1>4. ASSUME NEW d \in Checks
      PROVE  /\ d \notin left' \cup undeclared' => d = current' \/ OnTheChain(d)'
             /\ d = current' /\ (At("fetch_regime") \/ At("note"))'
                   => ScheduleOnTheChain(d)'
             /\ d = current' /\ At("note")' => FetchOnTheChain(d)'
  <2>1. /\ d \notin left \cup undeclared => d = current \/ OnTheChain(d)
        /\ d = current /\ (At("fetch_regime") \/ At("note")) => ScheduleOnTheChain(d)
        /\ d = current /\ At("note") => FetchOnTheChain(d)
    BY <1>1 DEF SoleDeclarer, DeclaredSoFar
  <2>2. /\ At("fetch_regime")' <=> At("fetch_regime")
        /\ At("note")' <=> At("note")
    BY <1>3
  <2> QED
    BY <1>1, <2>1, <2>2, ChainStays
<1>5. DeclaredSoFar'
  BY <1>1, <1>2, <1>4 DEF SoleDeclarer, DeclaredSoFar
<1> QED
  BY <1>1, <1>2, <1>5, QuietDeclarer

\* The INSERT puts what is declared on the chain, and touches no other check.
LEMMA InsertDeclares ==
    ASSUME IInv, SoleDeclarer, Insert(Collector)
    PROVE  SoleDeclarer'
<1> DEFINE f == writing[Collector].fields
           row == RowOn(f, NONE, writing[Collector].head)
<1>1. /\ f \in AnnFields /\ f.kind \in Declaring /\ f.check = current /\ current \in Checks
      /\ pc[Collector] = "insert" /\ writing[Collector] \in RowsToWrite
  BY Facts DEF Insert, IInv, WritersFollow, SoleDeclarer, DeclaredSoFar
<1>2. /\ annotation' = Append(annotation, row)
      /\ pc' = [pc EXCEPT ![Collector] = AfterKind(f.kind)]
      /\ UNCHANGED <<conf, left, current, undeclared>>
  BY DEF Insert, Written
<1>3. row \in RowsOver(AnnFields, {NONE}) /\ row.fields = f
  BY <1>1, RowType DEF RowsToWrite, RowOn
<1>4. /\ f.kind = "schedule" => f.detail = conf[current].period
      /\ f.kind = "fetch_regime" => f.detail = conf[current].fetch_id
      /\ f.kind = "note" => f.detail = CONTROL
  BY <1>1 DEF SoleDeclarer, DeclaredSoFar
<1> HIDE DEF f, row
<1>5. PICK c \in Checks : c = current
  BY <1>1
<1>6. PICK kind \in Declaring : kind = f.kind
  BY <1>1
<1>7. ASSUME NEW d
      PROVE  /\ \A k : LastDetail(k, d)' = (IF kind = k /\ c = d THEN f.detail
                                                               ELSE LastDetail(k, d))
             /\ Roles(d) \subseteq Roles(d)'
             /\ kind = "note" /\ c = d => Roles(d)' # {}
  <2>1. TypeOK
    BY DEF IInv
  <2>2. row.fields.kind = kind /\ row.fields.check = c /\ row.fields.detail = f.detail
    BY <1>1, <1>3, <1>5, <1>6
  <2>3. ASSUME NEW k
        PROVE  LastDetail(k, d)' = (IF kind = k /\ c = d THEN f.detail ELSE LastDetail(k, d))
    BY <1>2, <1>3, <2>1, <2>2, LastDetailAfter
  <2>4. /\ Roles(d) \subseteq Roles(d)'
        /\ row.fields.kind = "note" /\ row.fields.check = d /\ row.fields.detail = CONTROL
              => Roles(d)' # {}
    BY <1>2, <1>3, <2>1, LastDetailAfter
  <2>5. kind = "note" => f.detail = CONTROL
    BY <1>4, <1>6
  <2> QED
    BY <2>2, <2>3, <2>4, <2>5
<1>8. \A d \in Checks \ {c} : OnTheChain(d) => OnTheChain(d)'
  BY <1>2, <1>7 DEF OnTheChain, ScheduleOnTheChain, FetchOnTheChain, ControlOnTheChain
<1>9. /\ At("fetch_regime") <=> kind = "fetch_regime"
      /\ At("note") <=> kind = "note"
  BY <1>1, <1>6 DEF At, f, Declaring
<1>10. /\ kind # "schedule" => ScheduleOnTheChain(c)
       /\ kind = "note" => FetchOnTheChain(c)
  BY <1>5, <1>9 DEF SoleDeclarer, DeclaredSoFar, Declaring
<1>11. /\ ScheduleOnTheChain(c)'
       /\ kind # "schedule" => FetchOnTheChain(c)'
       /\ kind = "note" => ControlOnTheChain(c)'
  <2>1. ScheduleOnTheChain(c)'
    BY <1>2, <1>4, <1>5, <1>6, <1>7, <1>10 DEF ScheduleOnTheChain
  <2>2. kind # "schedule" => FetchOnTheChain(c)'
    BY <1>2, <1>4, <1>5, <1>6, <1>7, <1>10 DEF FetchOnTheChain, Declaring
  <2>3. kind = "note" => ControlOnTheChain(c)'
    BY <1>7 DEF ControlOnTheChain
  <2> QED
    BY <2>1, <2>2, <2>3
<1>12. pc' = [pc EXCEPT ![Collector] = AfterKind(kind)]
  BY <1>2, <1>6
<1>13. DeclaredSoFar'
  BY <1>1, <1>2, <1>5, <1>8, <1>11, <1>12, MovesOn DEF SoleDeclarer
<1>14. pc'[Collector] \notin {"head", "insert"}
  BY <1>12, Facts, AfterKindType DEF Declaring
<1>15. SaysSomethingNew'
  BY <1>14 DEF SaysSomethingNew
<1>16. AppendOnChange'
  BY InsertAppendsOnChange DEF SoleDeclarer
<1> QED
  BY <1>13, <1>15, <1>16 DEF SoleDeclarer

LEMMA DeclarationDeclares ==
    ASSUME IInv, SoleDeclarer, Declaration
    PROVE  SoleDeclarer'
<1>1. CASE NextCheck \/ Up
  BY <1>1, NextCheckDeclares, UpDeclares
<1> SUFFICES ASSUME DeclareSchedule \/ DeclareFetchRegime \/ DeclareControl
             PROVE  SoleDeclarer'
  BY <1>1 DEF Declaration
<1>2. pc[Collector] \in Declaring
  BY DEF DeclareSchedule, DeclareFetchRegime, DeclareControl, DeclareOnChange, Declaring
<1>3. PICK c \in Checks : c = current
  BY <1>2 DEF IInv, WritersFollow
<1>4. conf[c] \in Confs /\ conf[c].fetch_id # NONE
  BY <1>3, Facts, AnnotationsAssumption DEF Confs, Details
<1>5. CASE DeclareSchedule
  <2>1. DeclareOnChange("schedule", conf[c].period)
    BY <1>3, <1>5 DEF DeclareSchedule
  <2>2. pc[Collector] = "schedule" /\ "schedule" \in Declaring
    BY <2>1 DEF DeclareOnChange, Declaring
  <2>3. \/ /\ Skip("schedule")
           /\ conf[c].period = NONE \/ LastDetail("schedule", c) = conf[c].period
        \/ Abandon
        \/ /\ Declare("schedule", conf[c].period)
           /\ conf[c].period # NONE /\ LastDetail("schedule", c) # conf[c].period
    BY <1>3, <2>1 DEF DeclareOnChange
  <2>4. CASE Skip("schedule") /\ (conf[c].period = NONE
                                    \/ LastDetail("schedule", c) = conf[c].period)
    <3>1. ScheduleOnTheChain(c)
      BY <2>4 DEF ScheduleOnTheChain
    <3> QED
      BY <1>3, <2>2, <2>4, <3>1, SkipDeclares
  <2>5. CASE /\ Declare("schedule", conf[c].period)
             /\ conf[c].period # NONE /\ LastDetail("schedule", c) # conf[c].period
    <3>1. PICK detail \in Details : detail = conf[c].period
      BY <1>4, <2>5 DEF Confs, Details
    <3> QED
      BY <1>3, <2>2, <2>5, <3>1, NewsDeclares
  <2> QED
    BY <1>2, <2>3, <2>4, <2>5, AbandonDeclares
<1>6. CASE DeclareFetchRegime
  <2>1. DeclareOnChange("fetch_regime", conf[c].fetch_id)
    BY <1>3, <1>6 DEF DeclareFetchRegime
  <2>2. pc[Collector] = "fetch_regime" /\ "fetch_regime" \in Declaring
    BY <2>1 DEF DeclareOnChange, Declaring
  <2>3. \/ Skip("fetch_regime") /\ LastDetail("fetch_regime", c) = conf[c].fetch_id
        \/ Abandon
        \/ /\ Declare("fetch_regime", conf[c].fetch_id)
           /\ LastDetail("fetch_regime", c) # conf[c].fetch_id
    BY <1>3, <1>4, <2>1 DEF DeclareOnChange
  <2>4. CASE Skip("fetch_regime") /\ LastDetail("fetch_regime", c) = conf[c].fetch_id
    <3>1. FetchOnTheChain(c)
      BY <2>4 DEF FetchOnTheChain
    <3> QED
      BY <1>3, <2>2, <2>4, <3>1, SkipDeclares
  <2>5. CASE /\ Declare("fetch_regime", conf[c].fetch_id)
             /\ LastDetail("fetch_regime", c) # conf[c].fetch_id
    <3>1. PICK detail \in Details : detail = conf[c].fetch_id
      BY <1>4 DEF Confs, Details
    <3> QED
      BY <1>3, <2>2, <2>5, <3>1, NewsDeclares
  <2> QED
    BY <1>2, <2>3, <2>4, <2>5, AbandonDeclares
<1>7. CASE DeclareControl
  <2>1. pc[Collector] = "note" /\ "note" \in Declaring /\ CONTROL \in Details
    BY <1>7 DEF DeclareControl, Declaring, Details
  <2>2. \/ Skip("note") /\ (~conf[c].control \/ Roles(c) # {})
        \/ Abandon
        \/ Declare("note", CONTROL) /\ Roles(c) = {}
    BY <1>3, <1>7 DEF DeclareControl
  <2>3. CASE Skip("note") /\ (~conf[c].control \/ Roles(c) # {})
    <3>1. ControlOnTheChain(c)
      BY <2>3 DEF ControlOnTheChain
    <3> QED
      BY <1>3, <2>1, <2>3, <3>1, SkipDeclares
  <2>4. CASE Declare("note", CONTROL) /\ Roles(c) = {}
    BY <1>3, <2>1, <2>4, NewsDeclares
  <2> QED
    BY <1>2, <2>2, <2>3, <2>4, AbandonDeclares
<1> QED
  BY <1>5, <1>6, <1>7

LEMMA StepDeclares ==
    ASSUME IInv, SoleDeclarer, Operators = {}, [Next]_vars
    PROVE  SoleDeclarer'
<1>1. CASE UNCHANGED vars
  <2>1. UNCHANGED <<annotation, conf, left, current, undeclared, pc, writing>>
    BY <1>1 DEF vars
  <2>2. /\ At("fetch_regime")' <=> At("fetch_regime")
        /\ At("note")' <=> At("note")
    BY <2>1 DEF At
  <2>3. ASSUME NEW c
        PROVE  /\ ScheduleOnTheChain(c)' <=> ScheduleOnTheChain(c)
               /\ FetchOnTheChain(c)' <=> FetchOnTheChain(c)
               /\ OnTheChain(c)' <=> OnTheChain(c)
    BY <2>1, ChainStays
  <2>4. DeclaredSoFar'
    BY <2>1, <2>2, <2>3 DEF SoleDeclarer, DeclaredSoFar
  <2> QED
    BY <2>1, <2>4, QuietDeclarer
<1>2. CASE StorageError(Collector)
  BY <1>2, AbandonDeclares DEF StorageError
<1>3. Writers = {Collector}
  BY DEF Writers
<1> QED
  BY <1>1, <1>2, <1>3, RestartDeclares, DeclarationDeclares, ReadHeadDeclares,
     InsertDeclares DEF Next

\* The invariant of the collector alone holds at the start.
LEMMA InitDeclares ==
    ASSUME Init
    PROVE  SoleDeclarer
<1>1. pc[Collector] = "down" /\ annotation = << >>
  BY DEF Init, Writers
<1> QED
  BY <1>1 DEF SoleDeclarer, DeclaredSoFar, SaysSomethingNew, AppendOnChange, At

\* What a sole collector has declared, and is about to, in every state.
THEOREM SoleWriterInvariance == Operators = {} /\ Spec => []SoleDeclarer
<1>1. CASE Operators = {}
  <2>1. IInv /\ SoleDeclarer /\ [Next]_vars => SoleDeclarer'
    BY <1>1, StepDeclares
  <2> QED
    BY <2>1, InitDeclares, Invariance, PTL DEF Spec
<1> QED
  BY <1>1

\* While only the collector writes, whatever it is configured with and however
\* often it restarts or meets an error, no declaration repeats the one before
\* it and a control is declared once (declare_intent).
THEOREM DeclarationsAlwaysSayNews == Operators = {} /\ Spec => []AppendOnChange
<1>1. SoleDeclarer => AppendOnChange
  BY DEF SoleDeclarer
<1> QED
  BY <1>1, SoleWriterInvariance, PTL

\* While only the collector writes, one that came up has its intent on the
\* chain for every check whose declaration no error cut short.
THEOREM IntentIsAlwaysOnTheChain == Operators = {} /\ Spec => []IntentOnTheChain
<1>1. SoleDeclarer => IntentOnTheChain
  BY DEF SoleDeclarer, DeclaredSoFar, IntentOnTheChain, OnTheChain,
         ScheduleOnTheChain, FetchOnTheChain, ControlOnTheChain
<1> QED
  BY <1>1, SoleWriterInvariance, PTL
-----------------------------------------------------------------------------
\* The rows before an appended one are a prefix of the table.
LEMMA PrefixStays ==
    ASSUME NEW S, NEW rows \in Seq(S), NEW row \in S
    PROVE  SubSeq(Append(rows, row), 1, Len(rows)) = rows
OBVIOUS

\* Only an INSERT touches the table, and it adds one row at its end.
LEMMA StepAppends ==
    ASSUME IInv, [Next]_vars
    PROVE  annotation' # annotation =>
              /\ Len(annotation') = Len(annotation) + 1
              /\ SubSeq(annotation', 1, Len(annotation)) = annotation
<1>1. ASSUME NEW w \in Writers, Insert(w)
      PROVE  /\ Len(annotation') = Len(annotation) + 1
             /\ SubSeq(annotation', 1, Len(annotation)) = annotation
  <2> DEFINE row == RowOn(writing[w].fields, NONE, writing[w].head)
  <2>1. annotation' = Append(annotation, row)
    BY <1>1 DEF Insert
  <2>2. writing[w] \in RowsToWrite /\ writing[w].fields \in AnnFields
    BY <1>1, Facts DEF Insert, IInv, WritersFollow
  <2>3. row \in RowsOver(AnnFields, {NONE}) /\ annotation \in Seq(RowsOver(AnnFields, {NONE}))
    BY <2>2, RowType DEF RowsToWrite, IInv, TypeOK
  <2> HIDE DEF row
  <2> QED
    BY <2>1, <2>3, AppendedRow, PrefixStays
<1>2. CASE Declaration
  BY <1>2 DEF Declaration, NextCheck, Up, DeclareSchedule, DeclareFetchRegime,
              DeclareControl, DeclareOnChange, Skip, Declare, Abandon
<1>3. ASSUME NEW w \in Writers, ReadHead(w) \/ StorageError(w)
      PROVE  annotation' = annotation
  BY <1>3 DEF ReadHead, StorageError, Abandon
<1>4. CASE Start \/ Stop \/ \E o \in Operators : Annotate(o)
  BY <1>4 DEF Start, Stop, Annotate
<1>5. CASE UNCHANGED vars
  BY <1>5 DEF vars
<1> QED
  BY <1>1, <1>2, <1>3, <1>4, <1>5 DEF Next

\* Whoever writes, and whatever errors they meet, annotations are only ever
\* appended (record_annotation is the one statement that touches the table).
THEOREM AnnotationsAreOnlyAppended == Spec => AnnotationsOnlyAppended
<1>1. IInv /\ [Next]_vars =>
         [annotation' # annotation =>
             /\ Len(annotation') = Len(annotation) + 1
             /\ SubSeq(annotation', 1, Len(annotation)) = annotation]_vars
  BY StepAppends
<1> QED
  BY <1>1, Invariance, PTL DEF Spec, AnnotationsOnlyAppended
=============================================================================
