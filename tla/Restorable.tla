----------------------------- MODULE Restorable -----------------------------
(***************************************************************************)
(* What nightly backups promise, without their steps, files, anchors and   *)
(* deaths: a history that only grows, and what of it can be restored,      *)
(* which is the history as it was at some moment and never becomes less.   *)
(***************************************************************************)
EXTENDS Naturals, Sequences

CONSTANT Contents

VARIABLES
    history,     \* what was logged
    restorable   \* what the newest complete copy would bring back

vars == <<history, restorable>>

Init == history = << >> /\ restorable = << >>

Log ==
    /\ \E x \in Contents : history' = Append(history, x)
    /\ UNCHANGED restorable

\* Nothing is invented, and nothing that could be restored is given up.
BackUp ==
    /\ \E n \in Len(restorable) .. Len(history) : restorable' = SubSeq(history, 1, n)
    /\ UNCHANGED history

Next == Log \/ BackUp

Spec == Init /\ [][Next]_vars
=============================================================================
