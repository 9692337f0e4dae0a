---------------------------- MODULE EvidenceLog ----------------------------
(***************************************************************************)
(* What the archive promises, without its hashes, files, crashes or steps: *)
(* for each check a history of polls and a history of documents derived    *)
(* from them, both of which only grow, and a set of retained responses     *)
(* that only grows and always holds the response every poll names.         *)
(*                                                                         *)
(*   changed   of a poll says whether its content differs from the last    *)
(*             content this check observed; a poll without content never   *)
(*             reads as a change.                                          *)
(*   poll_id   of a derived document names a poll already in the history   *)
(*             (NONE if nothing had been logged), never an earlier one     *)
(*             than the document before it names.                          *)
(***************************************************************************)
EXTENDS Naturals, Sequences, FiniteSets, FiniteSetsExt

CONSTANTS Checks, Contents, Statuses, Docs, NONE

VARIABLES
    polls,      \* check -> history of polls
    derived,    \* check -> history of derived documents
    retained    \* responses kept

vars == <<polls, derived, retained>>

LastContent(history) ==
    LET seen == {i \in DOMAIN history : history[i].content # NONE}
    IN  IF seen = {} THEN NONE ELSE history[Max(seen)].content

Init ==
    /\ polls = [c \in Checks |-> << >>]
    /\ derived = [c \in Checks |-> << >>]
    /\ retained = {}

\* A response is kept; nothing yet refers to it.
Retain ==
    /\ \E x \in Contents : retained' = retained \cup {x}
    /\ UNCHANGED <<polls, derived>>

\* A poll joins its check's history.
Observe(c) ==
    \E ok \in BOOLEAN, status \in Statuses \cup {NONE}, x \in retained \cup {NONE} :
       /\ polls' = [polls EXCEPT ![c] = Append(@,
             [check |-> c, ok |-> ok, http_status |-> status, content |-> x,
              changed |-> x # NONE /\ x # LastContent(polls[c])])]
       /\ UNCHANGED <<derived, retained>>

\* A derived document joins its check's history.
Derive(c) ==
    \E x \in Docs :
       /\ derived' = [derived EXCEPT ![c] = Append(@,
             [check   |-> c,
              poll_id |-> IF polls[c] = << >> THEN NONE ELSE Len(polls[c]),
              doc     |-> x,
              changed |-> \/ derived[c] = << >>
                          \/ derived[c][Len(derived[c])].doc # x])]
       /\ UNCHANGED <<polls, retained>>

Next == Retain \/ \E c \in Checks : Observe(c) \/ Derive(c)

Spec == Init /\ [][Next]_vars
=============================================================================
