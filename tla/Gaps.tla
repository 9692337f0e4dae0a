-------------------------------- MODULE Gaps --------------------------------
(***************************************************************************)
(* Holes in a series, read against declared intent (store.py gaps and      *)
(* declare_schedule, hook.py declared_period and declare_intent).          *)
(*                                                                         *)
(* "archive gaps" knows only what is in polls.db: when each poll was made  *)
(* and the schedule annotations.  A collector that is restarted with other *)
(* periods, sleeps and comes back appends both; an operator may declare a  *)
(* schedule in hindsight or ahead of time.  One check; time is in seconds, *)
(* the precision of utc_now_iso, and the host's clock is not set back.     *)
(***************************************************************************)
EXTENDS Naturals, Sequences, FiniteSets, FiniteSetsExt

CONSTANTS
    NONE,
    Check,      \* the check
    Periods,    \* periods in seconds a schedule may have
    tolerance,  \* multiple of the period before a silence is a gap
    MaxTime,    \* bound: the clock
    MaxPolls,   \* bound: rows of table poll
    MaxStarts,  \* bound: starts of the collector
    Notes,      \* the schedules an operator may declare
    MaxNotes    \* bound: schedules declared by an operator

ASSUME GapsAssumption ==
    /\ Periods \subseteq Nat \ {0} /\ NONE \notin Periods /\ NONE # Check
    /\ tolerance \in Nat \ {0}
    /\ Notes \subseteq [check : {Check, NONE}, period : Periods \cup {NONE},
                        effective_from : 0 .. MaxTime]
    /\ MaxTime \in Nat /\ MaxPolls \in Nat /\ MaxStarts \in Nat /\ MaxNotes \in Nat

VARIABLES
    now,       \* the clock
    poll,      \* polled_at of each row, by id
    schedule,  \* the schedule annotations about this check or every check, by id
    up,        \* whether the collector runs
    starts,    \* every start of it: when, the period it declared and the schedules then on record
    notes      \* counter of the bound

vars == <<now, poll, schedule, up, starts, notes>>

Times == 0 .. MaxTime

\* A detail without a period (or with 0) has NONE, and rules that do not reduce to one.
Schedules == [check : {Check, NONE}, period : Periods \cup {NONE}, effective_from : Times]

Starts == [at : Times, period : Periods \cup {NONE}, seen : Nat]

Init ==
    /\ now = 0 /\ poll = << >> /\ schedule = << >>
    /\ up = FALSE /\ starts = << >> /\ notes = 0
-----------------------------------------------------------------------------
(* What the log and the annotations come from. *)

\* Mutant of Tick: the clock is read in local time.
TickEitherWay ==
    /\ now' \in Times \ {now}
    /\ UNCHANGED <<poll, schedule, up, starts, notes>>

\* Time passes, however much of it.
Tick ==
    /\ now' \in {t \in Times : t > now}
    /\ UNCHANGED <<poll, schedule, up, starts, notes>>

\* declare_schedule: the last schedule declared for exactly this check, if any.
LastDeclared ==
    LET own == {i \in DOMAIN schedule : schedule[i].check = Check}
    IN  IF own = {} THEN NONE ELSE schedule[Max(own)].period

\* Mutant of Declaration: a period that was declared before is not declared again.
DeclarationOnce(period) ==
    IF period = NONE \/ \E i \in DOMAIN schedule : schedule[i].period = period THEN << >>
    ELSE <<[check |-> Check, period |-> period, effective_from |-> now]>>

\* Nothing is declared for rules without a period, or when nothing changed.
Declaration(period) ==
    IF period \in {NONE, LastDeclared} THEN << >>
    ELSE <<[check |-> Check, period |-> period, effective_from |-> now]>>

\* A rule is its interval in seconds, or NONE if it is pinned to a time of day.
declared_period(rules) ==
    IF rules = {} \/ NONE \in rules THEN NONE ELSE Min(rules)

(* before_start: an error in declare_intent (a locked database, a detail on
   record that is no object) is logged, and the collector polls with a period
   it has not declared, as it does with rules that have none.  period is NONE
   then; a declaration that repeats the last one is made without a row.       *)
Start ==
    /\ ~up /\ Len(starts) < MaxStarts
    /\ up' = TRUE
    /\ \E rules \in SUBSET (Periods \cup {NONE}), raised \in BOOLEAN :
          LET period == IF raised THEN NONE ELSE declared_period(rules)
          IN  /\ schedule' = schedule \o Declaration(period)
              /\ starts' = Append(starts, [at |-> now, period |-> period,
                                          seen |-> Len(schedule')])
    /\ UNCHANGED <<now, poll, notes>>

Stop ==
    /\ up
    /\ up' = FALSE
    /\ UNCHANGED <<now, poll, schedule, starts, notes>>

\* A poll of the running collector, on time or not.
Poll ==
    /\ up /\ Len(poll) < MaxPolls
    /\ poll' = Append(poll, now)
    /\ UNCHANGED <<now, schedule, up, starts, notes>>

\* archive annotate --kind schedule, with any --effective-from.
Annotate ==
    /\ notes < MaxNotes
    /\ notes' = notes + 1
    /\ \E s \in Notes : schedule' = Append(schedule, s)
    /\ UNCHANGED <<now, poll, up, starts>>

Next == Tick \/ Start \/ Stop \/ Poll \/ Annotate

Spec == Init /\ [][Next]_vars
-----------------------------------------------------------------------------
(* The report. *)

\* Mutant of period_at: the schedule declared last, whenever it took effect.
PeriodDeclaredLast(declared, when) ==
    IF declared = << >> THEN NONE ELSE declared[Len(declared)].period

\* The period of the last schedule recorded of those in effect by then.
period_at(declared, when) ==
    LET active == {i \in DOMAIN declared : declared[i].effective_from <= when}
    IN  IF active = {} THEN NONE ELSE declared[Max(active)].period

\* The intervals between consecutive polls that are too long for their period.
gaps(rows, declared) ==
    {[from_poll |-> i, seconds |-> rows[i + 1] - rows[i],
      period |-> period_at(declared, rows[i])] :
        i \in {j \in 1 .. Len(rows) - 1 :
                 /\ period_at(declared, rows[j]) # NONE
                 /\ rows[j + 1] - rows[j] > period_at(declared, rows[j]) * tolerance}}
-----------------------------------------------------------------------------
(* Properties. *)

\* Every variable holds a value of its kind, and neither polls nor starts go back in time.
TypeOK ==
    /\ now \in Times /\ up \in BOOLEAN
    /\ poll \in Seq(Times) /\ \A i \in 1 .. Len(poll) - 1 : poll[i] <= poll[i + 1]
    /\ schedule \in Seq(Schedules)
    /\ starts \in Seq(Starts)
    /\ Len(poll) <= MaxPolls /\ Len(starts) <= MaxStarts /\ notes \in 0 .. MaxNotes

\* The last start by then that had a period and could declare it.
LastStated(when) ==
    LET stated == {i \in DOMAIN starts : starts[i].period # NONE /\ starts[i].at <= when}
    IN  IF stated = {} THEN [at |-> 0, period |-> NONE, seen |-> 0] ELSE starts[Max(stated)]

\* The report, read off annotations a start only adds to when something changed,
\* is the one somebody would make who knew every start: a silence is held against
\* the period of the last start that could declare one when the silence began, and
\* against none before the first.  A start that fails to declare, or has nothing to
\* declare, leaves the period before it in force.  This holds as long as only the
\* collector declares.  It holds beside an operator's declarations too, if those
\* made before that start are about this check and in effect by then, and those
\* made after it take effect after the silence began: what an operator declared
\* in hindsight does not outlive the next start.
GapsFollowTheConfiguration ==
    \A i \in 1 .. Len(poll) - 1 :
       LET last    == LastStated(poll[i])
           seconds == poll[i + 1] - poll[i]
       IN  \/ notes = 0
           \/ /\ \A j \in 1 .. last.seen : /\ schedule[j].check = Check
                                          /\ schedule[j].effective_from <= last.at
              /\ \A j \in last.seen + 1 .. Len(schedule) : schedule[j].effective_from > poll[i]
           => {g \in gaps(poll, schedule) : g.from_poll = i}
                = IF last.period # NONE /\ seconds > last.period * tolerance
                  THEN {[from_poll |-> i, seconds |-> seconds, period |-> last.period]} ELSE {}

\* "An interval is judged against the schedule in force when it opened, not the
\* current one" (README): a declaration, whoever makes it, changes the verdict
\* only on intervals that opened at or after the time it takes effect, and time,
\* polls and stops change none.
HistoryIsNotRejudged ==
    [][\A i \in 1 .. Len(poll) - 1 :
          \/ \E k \in DOMAIN schedule' \ DOMAIN schedule : schedule'[k].effective_from <= poll[i]
          \/ {g \in gaps(poll, schedule) : g.from_poll = i}
               = {g \in gaps(poll', schedule') : g.from_poll = i}]_vars

\* The collector, which always declares from now on, never takes back a gap or
\* finds one in a silence that has ended.
OwnDeclarationsOnlyLookAhead ==
    [][notes' = notes =>
         gaps(poll, schedule) =
            {g \in gaps(poll', schedule') : g.from_poll < Len(poll)}]_vars
=============================================================================
