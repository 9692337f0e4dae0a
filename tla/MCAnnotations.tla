--------------------------- MODULE MCAnnotations ---------------------------
(* Small instances of Annotations. *)
EXTENDS Annotations

CONSTANTS c1, c2, p1, p2, f1, f2, op1, op2, jsonList, remark

\* An operator declares a schedule in hindsight, notes something about every
\* check, and writes details that are not objects.
MCNotes ==
    {[kind |-> "schedule", check |-> c1, detail |-> p2],
     [kind |-> "schedule", check |-> c1, detail |-> jsonList],
     [kind |-> "note", check |-> c1, detail |-> jsonList],
     [kind |-> "note", check |-> NONE, detail |-> remark]}

NoNotes == {}
=============================================================================
