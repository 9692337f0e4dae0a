---------------------------- MODULE Annotations ----------------------------
(***************************************************************************)
(* The annotation chain and the processes that append to it: the collector,*)
(* which declares the schedule, fetch regime and control role of each      *)
(* check every time it starts (hook.py before_start and declare_intent,    *)
(* store.py declare_schedule, declare_fetch_regime and declare_control),   *)
(* and operators running "archive annotate" (cli.py).                      *)
(*                                                                         *)
(* record_annotation reads the head and then inserts.  SQLite opens the    *)
(* write transaction at the INSERT, not at the SELECT, so the two are two  *)
(* steps between which another process may append.  A declaration reads    *)
(* the annotation it would repeat in a connection of its own, before that. *)
(***************************************************************************)
EXTENDS ChainStore

CONSTANTS
    Checks,      \* names of the archived checks
    Periods,     \* polling periods a check can be scheduled at
    FetchIds,    \* fetch fingerprints
    CONTROL,     \* the detail {"role": "control"}
    Remarks,     \* other details an operator may write
    Malformed,   \* details that are valid JSON but not objects
    Operators,   \* processes running "archive annotate"
    Notes,       \* the annotations operators write
    Collector,   \* the collector process
    MaxStarts,   \* bound: starts of the collector
    MaxNotes,    \* bound: annotations by operators
    MaxErrors    \* bound: storage errors

Details == Periods \cup FetchIds \cup {CONTROL} \cup Remarks \cup Malformed
Kinds == {"correction", "fetch_regime", "schedule", "note"}
AnnFields == [kind : Kinds, check : Checks \cup {NONE}, detail : Details]
Writers == Operators \cup {Collector}

ASSUME AnnotationsAssumption ==
    /\ Collector \notin Operators
    /\ NONE \notin Checks \cup Details
    /\ Notes \subseteq AnnFields
    /\ MaxStarts \in Nat /\ MaxNotes \in Nat /\ MaxErrors \in Nat

\* What a check's configuration says when the collector starts; a period that
\* cannot be reduced to seconds is NONE.
Confs == [period : Periods \cup {NONE}, fetch_id : FetchIds, control : BOOLEAN]

VARIABLES
    annotation,  \* the table: one chain for all checks
    conf,        \* check -> configuration the running collector read
    left,        \* checks whose intent this start has yet to declare
    current,     \* the check being declared, or NONE
    undeclared,  \* checks whose declaration an exception cut short in this start
    pc,          \* writer -> what it does next
    writing,     \* writer -> [fields, head] of the row it is about to insert
    starts, notes, errors    \* counters of the bounds

vars == <<annotation, conf, left, current, undeclared, pc, writing,
          starts, notes, errors>>

\* What the collector is to declare next, in the order of declare_intent.
Declaring == {"schedule", "fetch_regime", "note"}
AfterKind(kind) == CASE kind = "schedule" -> "fetch_regime"
                     [] kind = "fetch_regime" -> "note"
                     [] kind = "note" -> "next"

NoRow == [fields |-> NONE, head |-> GENESIS]

Init ==
    /\ annotation = << >>
    /\ conf \in [Checks -> Confs]
    /\ left = {} /\ current = NONE /\ undeclared = {}
    /\ pc = [w \in Writers |-> IF w = Collector THEN "down" ELSE "idle"]
    /\ writing = [w \in Writers |-> NoRow]
    /\ starts = 0 /\ notes = 0 /\ errors = 0
-----------------------------------------------------------------------------
(* Reading the table. *)

\* last_annotation(kind, check): only annotations of exactly that check.
About(kind, c) == {i \in DOMAIN annotation : /\ annotation[i].fields.kind = kind
                                             /\ annotation[i].fields.check = c}
\* Mutant of LastDetail: the first declaration instead of the last.
FirstDetail(kind, c) ==
    IF About(kind, c) = {} THEN NONE ELSE annotation[Min(About(kind, c))].fields.detail

LastDetail(kind, c) ==
    IF About(kind, c) = {} THEN NONE ELSE annotation[Max(About(kind, c))].fields.detail

\* declare_control looks at the notes in order: it stops at the first that
\* asserts the role, and fails at the first whose detail has no keys.
Roles(c) == {i \in About("note", c) : annotation[i].fields.detail = CONTROL}
Keyless(c) == {i \in About("note", c) : annotation[i].fields.detail \in Malformed}
ControlFails(c) ==
    \E i \in Keyless(c) : \A j \in Roles(c) : i < j
-----------------------------------------------------------------------------
(* Writing: record_annotation, for every writer. *)

ReadHead(w) ==
    /\ pc[w] = "head"
    /\ writing' = [writing EXCEPT ![w].head = HeadOf(annotation)]
    /\ pc' = [pc EXCEPT ![w] = "insert"]
    /\ UNCHANGED <<annotation, conf, left, current, undeclared, starts, notes, errors>>

\* Where a writer goes once its row is written.
Written(w) ==
    IF w = Collector THEN AfterKind(writing[w].fields.kind) ELSE "idle"

\* Mutant of Insert: the hash is computed on a head read again, while the row
\* stores the head read first.
InsertReadingTwice(w) ==
    LET f == writing[w].fields
    IN  /\ pc[w] = "insert"
        /\ annotation' = Append(annotation,
                [RowOn(f, NONE, writing[w].head) EXCEPT
                   !.record_hash = compute_record_hash(f, HeadOf(annotation))])
        /\ pc' = [pc EXCEPT ![w] = Written(w)]
        /\ writing' = [writing EXCEPT ![w] = NoRow]
        /\ UNCHANGED <<conf, left, current, undeclared, starts, notes, errors>>

Insert(w) ==
    /\ pc[w] = "insert"
    /\ annotation' = Append(annotation,
                            RowOn(writing[w].fields, NONE, writing[w].head))
    /\ pc' = [pc EXCEPT ![w] = Written(w)]
    /\ writing' = [writing EXCEPT ![w] = NoRow]
    /\ UNCHANGED <<conf, left, current, undeclared, starts, notes, errors>>

\* Mutant of Abandon: the exception is not caught and ends the process.
AbandonProcess ==
    /\ undeclared' = {}
    /\ pc' = [pc EXCEPT ![Collector] = "down"]
    /\ writing' = [writing EXCEPT ![Collector] = NoRow]
    /\ UNCHANGED <<annotation, conf, left, current, starts, notes>>

\* An exception out of a declaration is logged; the rest of that check's
\* intent goes undeclared and the next check is taken.
Abandon ==
    /\ undeclared' = undeclared \cup {current}
    /\ pc' = [pc EXCEPT ![Collector] = "next"]
    /\ writing' = [writing EXCEPT ![Collector] = NoRow]
    /\ UNCHANGED <<annotation, conf, left, current, starts, notes>>

\* The database stays locked, or the disk is full: nothing is inserted.
StorageError(w) ==
    /\ pc[w] \in Declaring \cup {"head", "insert"}
    /\ errors < MaxErrors
    /\ errors' = errors + 1
    /\ \/ w = Collector /\ Abandon
       \/ /\ w # Collector
          /\ pc' = [pc EXCEPT ![w] = "idle"]
          /\ writing' = [writing EXCEPT ![w] = NoRow]
          /\ UNCHANGED <<annotation, conf, left, current, undeclared, starts, notes>>
-----------------------------------------------------------------------------
(* The collector declares its intent. *)

\* The process starts with whatever the configuration now says.
Start ==
    /\ pc[Collector] = "down"
    /\ conf' \in [Checks -> Confs]
    /\ left' = Checks /\ undeclared' = {}
    /\ pc' = [pc EXCEPT ![Collector] = "next"]
    /\ UNCHANGED <<annotation, current, writing, starts, notes, errors>>

NextCheck ==
    /\ pc[Collector] = "next"
    /\ \E c \in left :
          /\ current' = c
          /\ left' = left \ {c}
          /\ pc' = [pc EXCEPT ![Collector] = "schedule"]
    /\ UNCHANGED <<annotation, conf, undeclared, writing, starts, notes, errors>>

\* Every check is done: the scheduler starts.
Up ==
    /\ pc[Collector] = "next" /\ left = {}
    /\ current' = NONE
    /\ pc' = [pc EXCEPT ![Collector] = "up"]
    /\ UNCHANGED <<annotation, conf, left, undeclared, writing, starts, notes, errors>>

\* Declare writes the row; Skip moves on because nothing changed.
Declare(kind, detail) ==
    /\ writing' = [writing EXCEPT ![Collector] =
                     [fields |-> [kind |-> kind, check |-> current, detail |-> detail],
                      head |-> GENESIS]]
    /\ pc' = [pc EXCEPT ![Collector] = "head"]
    /\ UNCHANGED <<annotation, conf, left, current, undeclared, starts, notes, errors>>

Skip(kind) ==
    /\ pc' = [pc EXCEPT ![Collector] = AfterKind(kind)]
    /\ UNCHANGED <<annotation, conf, left, current, undeclared, writing,
                   starts, notes, errors>>

\* Mutants of DeclareOnChange: a period that cannot be reduced to seconds is
\* declared all the same; and a value declared once is never declared again.
DeclareEvenNone(kind, detail) ==
    LET last == LastDetail(kind, current)
    IN  /\ pc[Collector] = kind
        /\ \/ last = detail /\ Skip(kind)
           \/ last # detail /\ Declare(kind, detail)

DeclareOnce(kind, detail) ==
    LET declared == {annotation[i].fields.detail : i \in About(kind, current)}
    IN  /\ pc[Collector] = kind
        /\ \/ detail \in declared \cup {NONE} /\ Skip(kind)
           \/ detail \notin declared \cup {NONE} /\ Declare(kind, detail)

\* declare_schedule and declare_fetch_regime: append on change.
DeclareOnChange(kind, detail) ==
    LET last == LastDetail(kind, current)
    IN  /\ pc[Collector] = kind
        /\ \/ detail = NONE /\ Skip(kind)
           \/ detail # NONE /\ last = detail /\ Skip(kind)
           \/ detail # NONE /\ last \in Malformed /\ Abandon /\ UNCHANGED errors
           \/ detail # NONE /\ last \notin Malformed \cup {detail} /\ Declare(kind, detail)

DeclareSchedule == DeclareOnChange("schedule", conf[current].period)

DeclareFetchRegime == DeclareOnChange("fetch_regime", conf[current].fetch_id)

\* declare_control: once for ever.
DeclareControl ==
    /\ pc[Collector] = "note"
    /\ \/ ~conf[current].control /\ Skip("note")
       \/ /\ conf[current].control /\ ControlFails(current)
          /\ Abandon /\ UNCHANGED errors
       \/ /\ conf[current].control /\ ~ControlFails(current)
          /\ Roles(current) # {} /\ Skip("note")
       \/ /\ conf[current].control /\ ~ControlFails(current)
          /\ Roles(current) = {} /\ Declare("note", CONTROL)

\* The collector stops, is killed or crashes, at any point.
Stop ==
    /\ pc[Collector] # "down"
    /\ starts < MaxStarts
    /\ starts' = starts + 1
    /\ pc' = [pc EXCEPT ![Collector] = "down"]
    /\ writing' = [writing EXCEPT ![Collector] = NoRow]
    /\ left' = {} /\ current' = NONE /\ undeclared' = {}
    /\ UNCHANGED <<annotation, conf, notes, errors>>
-----------------------------------------------------------------------------
\* "archive annotate": any kind, about one check or all, with any JSON detail.
Annotate(o) ==
    /\ pc[o] = "idle"
    /\ notes < MaxNotes
    /\ notes' = notes + 1
    /\ \E f \in Notes : writing' = [writing EXCEPT ![o] = [NoRow EXCEPT !.fields = f]]
    /\ pc' = [pc EXCEPT ![o] = "head"]
    /\ UNCHANGED <<annotation, conf, left, current, undeclared, starts, errors>>

Declaration == NextCheck \/ Up \/ DeclareSchedule \/ DeclareFetchRegime \/ DeclareControl

Next ==
    \/ Start \/ Stop \/ Declaration
    \/ \E o \in Operators : Annotate(o)
    \/ \E w \in Writers : ReadHead(w) \/ Insert(w) \/ StorageError(w)

\* A process that runs takes its next step; systemd restarts the collector.
Fairness ==
    /\ WF_vars(Start)
    /\ WF_vars(Declaration \/ ReadHead(Collector) \/ Insert(Collector)
                 \/ StorageError(Collector))

Spec == Init /\ [][Next]_vars /\ Fairness
-----------------------------------------------------------------------------
(* Properties. *)

\* Every variable holds a value of its kind.
TypeOK ==
    /\ annotation \in Seq(RowsOver(AnnFields, {NONE}))
    /\ conf \in [Checks -> Confs]
    /\ left \subseteq Checks
    /\ current \in Checks \cup {NONE}
    /\ undeclared \subseteq Checks
    /\ pc \in [Writers -> {"down", "up", "next", "idle", "head", "insert"} \cup Declaring]
    /\ writing \in [Writers -> [fields : AnnFields \cup {NONE}, head : Seq(AnnFields)]]
    /\ starts \in Nat /\ notes \in Nat /\ errors \in Nat

\* verify_annotation_chain reports no bad row.
AnnotationsIntact == ChainIntact(annotation)

\* However many processes append, every row is honestly hashed on top of the
\* genesis value or of a row before it: the table can fork into a tree, but
\* no annotation is lost, rewritten or hashed onto anything else.
EveryRowFollowsARow ==
    \A i \in DOMAIN annotation :
       /\ annotation[i].record_hash =
             compute_record_hash(annotation[i].fields, annotation[i].prev_hash)
       /\ \/ annotation[i].prev_hash = GENESIS
          \/ \E j \in 1 .. (i - 1) : annotation[i].prev_hash = annotation[j].record_hash

\* "A restart that alters nothing writes nothing" (declare_intent): while only
\* the collector writes, no declaration repeats the one before it, and a
\* control is declared once.
AppendOnChange ==
    \A i, j \in DOMAIN annotation :
       LET a == annotation[i].fields
           b == annotation[j].fields
       IN  i < j /\ a.kind = b.kind /\ a.check = b.check /\ a.detail = b.detail =>
             /\ a.kind # "note"
             /\ \E k \in (i + 1) .. (j - 1) :
                   /\ annotation[k].fields.kind = a.kind
                   /\ annotation[k].fields.check = a.check
                   /\ annotation[k].fields.detail # a.detail

\* A collector that came up knows its intent is on the chain: unless the
\* declaration was cut short, what each check runs under is the last thing
\* declared about it (while only the collector writes).
IntentOnTheChain ==
    pc[Collector] = "up" =>
       \A c \in Checks \ undeclared :
          /\ conf[c].period \in {NONE, LastDetail("schedule", c)}
          /\ conf[c].fetch_id = LastDetail("fetch_regime", c)
          /\ conf[c].control => Roles(c) # {}

\* Nothing an operator wrote, and no storage error, keeps the collector from
\* starting: "recording context about a check must never be able to stop the
\* check from running" (before_start).
AlwaysComesUp == []<>(pc[Collector] = "up")

\* Writers take turns if nobody reads the head while another has still to insert
\* on it, as they would if record_annotation began its transaction with a lock.
TakeTurns ==
    \A v, w \in Writers : pc[v] = "insert" /\ pc[w] = "insert" => v = w

\* Two writers between their SELECT and their INSERT are all that can break the
\* chain: as long as writers take turns it recomputes, whoever writes whatever,
\* and whichever of them fails or is killed halfway.
TurnsKeepTheChain == []TakeTurns => []AnnotationsIntact

\* Annotations are appended, never edited or withdrawn.
AnnotationsOnlyAppended ==
    [][annotation' # annotation =>
          /\ Len(annotation') = Len(annotation) + 1
          /\ SubSeq(annotation', 1, Len(annotation)) = annotation]_vars
-----------------------------------------------------------------------------
(* Statements of the documentation that the code does not keep. *)

\* "Either the log was edited or rows were removed" (archive verify): nobody
\* edits or removes a row here, so the chain verifies.
BrokenMeansEdited == AnnotationsIntact
=============================================================================
