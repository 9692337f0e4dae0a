------------------------------- MODULE MCGaps -------------------------------
(* Instances of Gaps. *)
EXTENDS Gaps

CONSTANT c1

\* An operator declares for this check in hindsight, for every check ahead of time,
\* and writes a schedule without a period.
MCNotes ==
    {[check |-> Check, period |-> 2, effective_from |-> 0],
     [check |-> NONE, period |-> 1, effective_from |-> 2],
     [check |-> NONE, period |-> NONE, effective_from |-> 1]}
=============================================================================
