----------------------------- MODULE ChainStore -----------------------------
(***************************************************************************)
(* The hash-chained tables of kibitzr_archive/store.py, as operators on    *)
(* sequences of rows.  A table holds one chain; a row is                   *)
(*                                                                         *)
(*   [fields, raw_ref, prev_hash, record_hash]                             *)
(*                                                                         *)
(* where "fields" are the columns the record hash covers and raw_ref is    *)
(* the one column outside it that a reader ever resolved a file through    *)
(* (NONE in the tables that have no such column).                          *)
(*                                                                         *)
(* SHA-256 is taken as collision free, so a hash is modelled by what it    *)
(* commits to: the hash of fields f on top of hash p is the sequence p     *)
(* followed by f, and the genesis value is the empty sequence.  Two hashes *)
(* are then equal exactly when the histories they commit to are.           *)
(*                                                                         *)
(* A row id is the row's position in its own chain.  The code numbers the  *)
(* polls of all checks with one AUTOINCREMENT, but every comparison of ids *)
(* is between rows of one check, for which the two orders agree.           *)
(***************************************************************************)
EXTENDS Naturals, Sequences, FiniteSets, FiniteSetsExt

CONSTANT NONE    \* SQL's NULL and Python's None

GENESIS == << >>

compute_record_hash(fields, prev) == Append(prev, fields)

\* The rows a table holds whose hashed columns and raw_ref range over given sets.
RowsOver(fields, refs) ==
    [fields : fields, raw_ref : refs,
     prev_hash : Seq(fields), record_hash : Seq(fields)]

\* The row an INSERT writes on top of a head read earlier.
RowOn(fields, raw_ref, prev) ==
    [fields |-> fields, raw_ref |-> raw_ref, prev_hash |-> prev,
     record_hash |-> compute_record_hash(fields, prev)]

\* Mutant of HeadOf: ORDER BY id without DESC.
HeadOfOldest(rows) == IF rows = << >> THEN GENESIS ELSE rows[1].record_hash

\* "SELECT record_hash ... ORDER BY id DESC LIMIT 1", or GENESIS.
HeadOf(rows) == IF rows = << >> THEN GENESIS ELSE rows[Len(rows)].record_hash

combine_heads(poll, norm, ann) == [poll |-> poll, norm |-> norm, ann |-> ann]

\* What a verifier recomputes from the rows alone: the hashed fields in order.
FieldsOf(rows) == [i \in DOMAIN rows |-> rows[i].fields]

\* Row i follows its predecessor and hashes to what it stores.
RowTraces(rows, i) ==
    /\ rows[i].prev_hash = (IF i = 1 THEN GENESIS ELSE rows[i - 1].record_hash)
    /\ rows[i].record_hash = compute_record_hash(rows[i].fields, rows[i].prev_hash)

\* The walk of a verifier meets no row that does not trace.
ChainIntact(rows) == \A i \in DOMAIN rows : RowTraces(rows, i)

\* Mutant of LastObserved: the last row, whether or not it observed content.
ContentOfLastRow(fields) ==
    IF fields = << >> THEN NONE ELSE fields[Len(fields)].content

\* content_sha256 of the last row that observed content, or NONE.
LastObserved(fields) ==
    LET seen == {i \in DOMAIN fields : fields[i].content # NONE}
    IN  IF seen = {} THEN NONE ELSE fields[Max(seen)].content

\* Every digest one check's poll rows oblige blobs/ to hold.
ReferencedBy(rows) == {rows[i].fields.content : i \in DOMAIN rows} \ {NONE}
=============================================================================
