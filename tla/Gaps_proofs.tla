---------------------------- MODULE Gaps_proofs ----------------------------
(***************************************************************************)
(* The report of gaps for any periods, tolerance, polls, starts and notes: *)
(* it is that of the periods the collector could declare, and nothing that *)
(* is declared changes the verdict on an interval from before it takes     *)
(* effect.                                                                 *)
(***************************************************************************)
EXTENDS Gaps, WellFoundedInduction, TLAPS

\* Nothing that happened lies in the future, and starts do not go back in time.
PastInv ==
    /\ \A i \in DOMAIN poll : poll[i] <= now
    /\ \A i \in DOMAIN starts : starts[i].at <= now
    /\ notes = 0 => \A i \in DOMAIN schedule : /\ schedule[i].check = Check
                                               /\ schedule[i].effective_from <= now

\* The rows of schedule that are about this check and were there at a row.
OwnUpTo(declared, n) == {j \in 1 .. n : declared[j].check = Check}

\* A start that could declare its period found or made it the last of its own rows.
StatedInv ==
    \A k \in DOMAIN starts : starts[k].period # NONE =>
       /\ starts[k].seen \in 1 .. Len(schedule)
       /\ OwnUpTo(schedule, starts[k].seen) # {}
       /\ schedule[Max(OwnUpTo(schedule, starts[k].seen))].period = starts[k].period

\* What is in force is what the collector declared last.
DeclaredInv ==
    notes = 0 => \A t \in Times : period_at(schedule, t) = LastStated(t).period

IInv == TypeOK /\ PastInv /\ StatedInv /\ DeclaredInv
-----------------------------------------------------------------------------
(***************************************************************************)
(* Least and largest elements.                                             *)
(***************************************************************************)

\* A set of naturals that is not empty has a least element.
LEMMA LeastElement ==
    ASSUME NEW T \in SUBSET Nat, T # {}
    PROVE  \E x \in T : \A y \in T : x <= y
<1> DEFINE R == OpToRel(<, Nat)
<1>1. IsWellFoundedOn(R, Nat)
  BY NatLessThanWellFounded
<1>2. \A x, y \in Nat : y < x => <<y, x>> \in R
  BY DEF OpToRel
<1> HIDE DEF R
<1>3. PICK x \in T : \A y \in T : ~ (<<y, x>> \in R)
  BY <1>1, WFMin
<1>4. \A y \in T : x \in Nat /\ y \in Nat /\ ~ (y < x)
  BY <1>2, <1>3
<1>5. \A y \in T : x <= y
  BY <1>4
<1> QED
  BY <1>5

\* A set of indices that is not empty has a largest one, and Max is it.
LEMMA LargestIndex ==
    ASSUME NEW n \in Nat, NEW T \in SUBSET (1 .. n), T # {}
    PROVE  Max(T) \in T /\ \A y \in T : y <= Max(T)
<1> DEFINE U == {n - x : x \in T}
<1>1. U \in SUBSET Nat /\ U # {}
  <2>1. \A x \in T : x \in 1 .. n /\ n - x \in Nat
    OBVIOUS
  <2> QED
    BY <2>1
<1>2. PICK u \in U : \A y \in U : u <= y
  BY <1>1, LeastElement
<1>3. PICK x \in T : u = n - x
  BY <1>2
<1>4. \A y \in T : x >= y
  <2> TAKE y \in T
  <2>1. u <= n - y
    BY <1>2
  <2> QED
    BY <1>3, <2>1
<1>5. Max(T) \in T /\ \A y \in T : Max(T) >= y
  BY <1>4 DEF Max
<1> QED
  BY <1>5

\* The largest index of a set that an end index belongs to is that end.
LEMMA LargestIsEnd ==
    ASSUME NEW n \in Nat, NEW T \in SUBSET (1 .. n), n \in T
    PROVE  Max(T) = n
<1>1. Max(T) \in 1 .. n /\ n <= Max(T)
  BY LargestIndex
<1> QED
  BY <1>1
-----------------------------------------------------------------------------
(***************************************************************************)
(* What was in force.                                                      *)
(***************************************************************************)

\* A time before any schedule takes effect has none; otherwise a recorded one.
LEMMA PeriodKind ==
    ASSUME NEW declared \in Seq(Schedules), NEW t \in Times
    PROVE  period_at(declared, t) \in Periods \cup {NONE}
<1> DEFINE active == {i \in DOMAIN declared : declared[i].effective_from <= t}
<1>1. active \in SUBSET (1 .. Len(declared)) /\ Len(declared) \in Nat
  OBVIOUS
<1>2. CASE active = {}
  BY <1>2 DEF period_at
<1>3. CASE active # {}
  <2>1. Max(active) \in DOMAIN declared
    BY <1>1, <1>3, LargestIndex
  <2>2. declared[Max(active)] \in Schedules
    BY <2>1
  <2> QED
    BY <1>3, <2>2 DEF period_at, Schedules
<1> QED
  BY <1>2, <1>3

\* A schedule that takes effect later changes nothing.
LEMMA LaterChangesNothing ==
    ASSUME NEW declared \in Seq(Schedules), NEW s \in Schedules, NEW t \in Times,
           s.effective_from > t
    PROVE  period_at(Append(declared, s), t) = period_at(declared, t)
<1> DEFINE more == Append(declared, s)
           active == {i \in DOMAIN declared : declared[i].effective_from <= t}
           then == {i \in DOMAIN more : more[i].effective_from <= t}
<1>1. /\ Len(declared) \in Nat /\ DOMAIN declared = 1 .. Len(declared)
      /\ DOMAIN more = 1 .. (Len(declared) + 1) /\ more[Len(declared) + 1] = s
      /\ \A i \in DOMAIN declared : more[i] = declared[i]
  OBVIOUS
<1>2. s.effective_from \in Nat /\ t \in Nat
  BY GapsAssumption DEF Schedules, Times
<1> HIDE DEF more
<1>3. ~ (s.effective_from <= t)
  BY <1>2
<1>4. then = active
  BY <1>1, <1>3
<1>5. active \in SUBSET (1 .. Len(declared))
  BY <1>1
<1>6. active # {} => more[Max(active)] = declared[Max(active)]
  BY <1>1, <1>5, LargestIndex
<1> HIDE DEF active, then
<1>7. period_at(declared, t) = IF active = {} THEN NONE ELSE declared[Max(active)].period
  BY DEF period_at, active
<1>8. period_at(more, t) = IF then = {} THEN NONE ELSE more[Max(then)].period
  BY DEF period_at, then
<1>9. period_at(more, t) = period_at(declared, t)
  BY <1>4, <1>6, <1>7, <1>8
<1> QED
  BY <1>9 DEF more

\* From then on it is the one in force.
LEMMA LastInEffectIsInForce ==
    ASSUME NEW declared \in Seq(Schedules), declared # << >>, NEW t \in Times,
           declared[Len(declared)].effective_from <= t
    PROVE  period_at(declared, t) = declared[Len(declared)].period
<1> DEFINE active == {i \in DOMAIN declared : declared[i].effective_from <= t}
<1>1. Len(declared) \in Nat /\ DOMAIN declared = 1 .. Len(declared) /\ Len(declared) > 0
  OBVIOUS
<1>2. active \in SUBSET (1 .. Len(declared)) /\ Len(declared) \in active
  BY <1>1
<1>3. Max(active) = Len(declared)
  BY <1>1, <1>2, LargestIsEnd
<1> QED
  BY <1>2, <1>3 DEF period_at

\* The period of rules is a period or none.
LEMMA PeriodOfRules ==
    ASSUME NEW rules \in SUBSET (Periods \cup {NONE})
    PROVE  declared_period(rules) \in Periods \cup {NONE}
<1>1. CASE rules = {} \/ NONE \in rules
  BY <1>1 DEF declared_period
<1>2. CASE rules # {} /\ NONE \notin rules
  <2>1. rules \in SUBSET Nat
    BY <1>2, GapsAssumption
  <2>2. \E x \in rules : \A y \in rules : x <= y
    BY <1>2, <2>1, LeastElement
  <2>3. Min(rules) \in rules
    BY <2>2 DEF Min
  <2> QED
    BY <1>2, <2>3 DEF declared_period
<1> QED
  BY <1>1, <1>2
-----------------------------------------------------------------------------
(***************************************************************************)
(* The invariant.                                                          *)
(***************************************************************************)

\* The last start that could declare is one of the starts, or none.
LEMMA LastStatedKind ==
    ASSUME starts \in Seq(Starts), NEW t \in Times
    PROVE  \/ LastStated(t) = [at |-> 0, period |-> NONE, seen |-> 0]
           \/ \E k \in DOMAIN starts : /\ starts[k].period # NONE /\ starts[k].at <= t
                                        /\ LastStated(t) = starts[k]
<1> DEFINE stated == {i \in DOMAIN starts : starts[i].period # NONE /\ starts[i].at <= t}
<1>1. stated \in SUBSET (1 .. Len(starts)) /\ Len(starts) \in Nat
  OBVIOUS
<1>2. CASE stated = {}
  BY <1>2 DEF LastStated
<1>3. CASE stated # {}
  <2>1. Max(stated) \in stated
    BY <1>1, <1>3, LargestIndex
  <2>2. LastStated(t) = starts[Max(stated)]
    BY <1>3 DEF LastStated
  <2> QED
    BY <2>1, <2>2
<1> QED
  BY <1>2, <1>3

\* A start that is still to come, or declares nothing, is not the last that could
\* declare; any other is, from then on.
LEMMA StatedAfterStart ==
    ASSUME starts \in Seq(Starts), NEW start \in Starts, NEW t \in Times,
           starts' = Append(starts, start)
    PROVE  LastStated(t)' = IF start.period # NONE /\ start.at <= t THEN start ELSE LastStated(t)
<1> DEFINE stated == {i \in DOMAIN starts : starts[i].period # NONE /\ starts[i].at <= t}
           then == {i \in DOMAIN starts' : starts'[i].period # NONE /\ starts'[i].at <= t}
           none == [at |-> 0, period |-> NONE, seen |-> 0]
<1>1. /\ Len(starts) \in Nat /\ DOMAIN starts = 1 .. Len(starts)
      /\ DOMAIN starts' = 1 .. (Len(starts) + 1) /\ starts'[Len(starts) + 1] = start
      /\ \A i \in DOMAIN starts : starts'[i] = starts[i]
  OBVIOUS
<1>2. LastStated(t)' = IF then = {} THEN none ELSE starts'[Max(then)]
  BY DEF LastStated
<1>3. LastStated(t) = IF stated = {} THEN none ELSE starts[Max(stated)]
  BY DEF LastStated
<1> HIDE DEF none
<1>4. CASE start.period # NONE /\ start.at <= t
  <2>1. then \in SUBSET (1 .. (Len(starts) + 1)) /\ Len(starts) + 1 \in then /\ Len(starts) + 1 \in Nat
    BY <1>1, <1>4
  <2>2. Max(then) = Len(starts) + 1
    BY <2>1, LargestIsEnd
  <2> HIDE DEF then
  <2> QED
    BY <1>1, <1>2, <1>4, <2>1, <2>2
<1>5. CASE ~ (start.period # NONE /\ start.at <= t)
  <2>1. then = stated /\ stated \in SUBSET (1 .. Len(starts))
    BY <1>1, <1>5
  <2>2. stated # {} => starts'[Max(stated)] = starts[Max(stated)]
    BY <1>1, <2>1, LargestIndex
  <2> HIDE DEF then, stated
  <2> QED
    BY <1>2, <1>3, <1>5, <2>1, <2>2
<1> QED
  BY <1>4, <1>5

\* Rows that are added leave the last of a start's own rows as it was.
LEMMA StatedStays ==
    ASSUME schedule \in Seq(Schedules), NEW s \in Schedules,
           schedule' = Append(schedule, s), starts \in Seq(Starts), StatedInv,
           NEW k \in DOMAIN starts, starts[k].period # NONE
    PROVE  /\ starts[k].seen \in 1 .. Len(schedule')
           /\ OwnUpTo(schedule', starts[k].seen) # {}
           /\ schedule'[Max(OwnUpTo(schedule', starts[k].seen))].period = starts[k].period
<1> DEFINE n == starts[k].seen
           own == OwnUpTo(schedule, n)
<1>1. /\ n \in 1 .. Len(schedule) /\ Len(schedule) \in Nat /\ own # {}
      /\ schedule[Max(own)].period = starts[k].period
  BY DEF StatedInv
<1>2. /\ Len(schedule') = Len(schedule) + 1
      /\ \A j \in 1 .. Len(schedule) : schedule'[j] = schedule[j]
  OBVIOUS
<1> HIDE DEF n
<1>3. OwnUpTo(schedule', n) = own /\ own \in SUBSET (1 .. n)
  BY <1>1, <1>2 DEF OwnUpTo
<1> HIDE DEF own
<1>4. Max(own) \in 1 .. n
  <2>1. n \in Nat /\ own \in SUBSET (1 .. n) /\ own # {}
    BY <1>1, <1>3
  <2>2. Max(own) \in own
    BY <2>1, LargestIndex
  <2> QED
    BY <2>1, <2>2
<1>5. schedule'[Max(own)] = schedule[Max(own)] /\ n \in 1 .. Len(schedule')
  BY <1>1, <1>2, <1>4
<1>6. /\ n \in 1 .. Len(schedule') /\ OwnUpTo(schedule', n) # {}
      /\ schedule'[Max(OwnUpTo(schedule', n))].period = starts[k].period
  BY <1>1, <1>3, <1>5
<1> QED
  BY <1>6 DEF n

\* What declare_schedule compares with is the last row, while only the collector declares.
LEMMA LastDeclaredIsLast ==
    ASSUME TypeOK, PastInv, notes = 0
    PROVE  LastDeclared = IF schedule = << >> THEN NONE ELSE schedule[Len(schedule)].period
<1> DEFINE own == {i \in DOMAIN schedule : schedule[i].check = Check}
<1>1. schedule \in Seq(Schedules) /\ own = DOMAIN schedule
  BY DEF TypeOK, PastInv
<1>2. CASE schedule = << >>
  BY <1>1, <1>2 DEF LastDeclared
<1>3. CASE schedule # << >>
  <2>1. Len(schedule) \in Nat /\ own = 1 .. Len(schedule) /\ Len(schedule) \in own
    BY <1>1, <1>3
  <2>2. Max(own) = Len(schedule)
    BY <2>1, LargestIsEnd
  <2> QED
    BY <1>3, <2>1, <2>2 DEF LastDeclared
<1> QED
  BY <1>2, <1>3

\* A declaration is nothing, or one row about this check that takes effect now.
LEMMA DeclarationShape ==
    ASSUME TypeOK, NEW period \in Periods \cup {NONE}
    PROVE  \/ Declaration(period) = << >> /\ schedule \o Declaration(period) = schedule
           \/ LET s == [check |-> Check, period |-> period, effective_from |-> now]
              IN  /\ s \in Schedules /\ period # NONE /\ period # LastDeclared
                  /\ schedule \o Declaration(period) = Append(schedule, s)
<1> DEFINE s == [check |-> Check, period |-> period, effective_from |-> now]
<1>1. schedule \in Seq(Schedules) /\ s \in Schedules
  BY DEF TypeOK, Schedules
<1>2. CASE period \in {NONE, LastDeclared}
  BY <1>1, <1>2 DEF Declaration
<1>3. CASE period \notin {NONE, LastDeclared}
  <2>1. Declaration(period) = <<s>>
    BY <1>3 DEF Declaration
  <2>2. schedule \o <<s>> = Append(schedule, s)
    BY <1>1
  <2> QED
    BY <1>1, <1>3, <2>1, <2>2
<1> QED
  BY <1>2, <1>3

\* Before the first second.
LEMMA Initially ==
    ASSUME Init
    PROVE  IInv
<1>1. \A S : << >> \in Seq(S) /\ Len(<< >>) = 0 /\ DOMAIN << >> = {}
  OBVIOUS
<1>2. now \in Times /\ up \in BOOLEAN /\ notes \in 0 .. MaxNotes
  <2>1. now = 0 /\ notes = 0 /\ 0 \in 0 .. MaxTime /\ 0 \in 0 .. MaxNotes
    BY GapsAssumption DEF Init
  <2>2. up \in BOOLEAN
    BY Zenon DEF Init
  <2> QED
    BY <2>1, <2>2 DEF Times
<1>3. TypeOK
  BY <1>1, <1>2, GapsAssumption DEF Init, TypeOK
<1>4. PastInv
  BY <1>1 DEF Init, PastInv
<1>5. DOMAIN schedule = {} /\ DOMAIN starts = {}
  BY <1>1 DEF Init
<1>6. \A t : LastStated(t).period = NONE /\ period_at(schedule, t) = NONE
  BY <1>5 DEF LastStated, period_at
<1> QED
  BY <1>3, <1>4, <1>5, <1>6 DEF IInv, StatedInv, DeclaredInv

\* What a start declares is the last of its own rows, whether it is there already or not.
LEMMA StatedByStart ==
    ASSUME schedule \in Seq(Schedules), now \in Times, NEW period \in Periods,
           TypeOK, schedule' = schedule \o Declaration(period)
    PROVE  LET own == OwnUpTo(schedule', Len(schedule'))
           IN  /\ Len(schedule') \in 1 .. Len(schedule') /\ own # {}
               /\ schedule'[Max(own)].period = period
<1> DEFINE s == [check |-> Check, period |-> period, effective_from |-> now]
           own == OwnUpTo(schedule', Len(schedule'))
<1>1. period # NONE
  BY GapsAssumption
<1>2. CASE period = LastDeclared
  <2>1. schedule' = schedule /\ Len(schedule) \in Nat
    BY <1>2 DEF Declaration
  <2>2. own = {i \in DOMAIN schedule : schedule[i].check = Check}
    BY <2>1 DEF OwnUpTo
  <2>3. own # {} /\ schedule[Max(own)].period = period
    BY <1>1, <1>2, <2>2 DEF LastDeclared
  <2>4. \E i : i \in 1 .. Len(schedule)
    BY <2>1, <2>3 DEF OwnUpTo
  <2>5. Len(schedule') \in 1 .. Len(schedule')
    BY <2>1, <2>4
  <2> QED
    BY <2>1, <2>3, <2>5
<1>3. CASE period # LastDeclared
  <2>1. schedule' = Append(schedule, s)
    <3>1. Declaration(period) = <<s>>
      BY <1>1, <1>3 DEF Declaration
    <3> HIDE DEF s
    <3> QED
      BY <3>1
  <2> HIDE DEF s
  <2>2. /\ Len(schedule) \in Nat /\ Len(schedule') = Len(schedule) + 1
        /\ schedule'[Len(schedule) + 1] = s
    BY <2>1
  <2>3. s.check = Check /\ s.period = period
    BY DEF s
  <2> DEFINE n == Len(schedule')
  <2>4. n \in Nat /\ n \in own /\ own \in SUBSET (1 .. n)
    BY <2>2, <2>3 DEF OwnUpTo
  <2>5. Max(own) = n
    BY <2>4, LargestIsEnd
  <2> QED
    BY <2>2, <2>3, <2>4, <2>5
<1> QED
  BY <1>2, <1>3

\* A start: the period it could declare is on record, whether it added a row or not.
LEMMA StartKeeps ==
    ASSUME IInv, Start
    PROVE  IInv'
<1>1. PICK rules \in SUBSET (Periods \cup {NONE}), raised \in BOOLEAN :
        LET period == IF raised THEN NONE ELSE declared_period(rules)
        IN  /\ schedule' = schedule \o Declaration(period)
            /\ starts' = Append(starts, [at |-> now, period |-> period,
                                        seen |-> Len(schedule')])
  BY DEF Start
<1> DEFINE period == IF raised THEN NONE ELSE declared_period(rules)
           start == [at |-> now, period |-> period, seen |-> Len(schedule')]
           s == [check |-> Check, period |-> period, effective_from |-> now]
<1>2. /\ period \in Periods \cup {NONE} /\ now \in Times
      /\ schedule' = schedule \o Declaration(period)
  BY <1>1, PeriodOfRules DEF IInv, TypeOK
<1>3. \/ schedule' = schedule /\ period \in {NONE, LastDeclared}
      \/ schedule' = Append(schedule, s) /\ s \in Schedules
  <2>1. \/ Declaration(period) = << >> /\ schedule \o Declaration(period) = schedule
        \/ s \in Schedules /\ schedule \o Declaration(period) = Append(schedule, s)
    BY <1>2, DeclarationShape DEF IInv
  <2>2. Declaration(period) = << >> => period \in {NONE, LastDeclared}
    BY DEF Declaration
  <2> QED
    BY <1>2, <2>1, <2>2
<1>4. /\ now' = now /\ poll' = poll /\ notes' = notes /\ up' = TRUE /\ Len(starts) < MaxStarts
      /\ starts' = Append(starts, start)
  BY <1>1 DEF Start
<1>5. TypeOK /\ PastInv /\ StatedInv /\ DeclaredInv
  BY DEF IInv
<1>6. /\ schedule' \in Seq(Schedules)
      /\ \A i \in DOMAIN schedule' : (i \in DOMAIN schedule /\ schedule'[i] = schedule[i]) \/ schedule'[i] = s
  <2>1. schedule \in Seq(Schedules)
    BY <1>5 DEF TypeOK
  <2> HIDE DEF s
  <2> QED
    BY <1>3, <2>1
<1>7. start \in Starts
  <2>1. Len(schedule') \in Nat
    BY <1>6
  <2> QED
    BY <1>2, <2>1 DEF Starts
<1> HIDE DEF period
<1>8. /\ starts' \in Seq(Starts) /\ starts \in Seq(Starts)
      /\ Len(starts') = Len(starts) + 1 /\ Len(starts) \in Nat
      /\ DOMAIN starts' = 1 .. (Len(starts) + 1) /\ starts'[Len(starts) + 1] = start
      /\ \A i \in DOMAIN starts : starts'[i] = starts[i]
  <2> HIDE DEF start
  <2> QED
    BY <1>4, <1>5, <1>7 DEF TypeOK
<1>9. TypeOK'
  <2>1. Len(starts') <= MaxStarts
    BY <1>4, <1>8, GapsAssumption
  <2> QED
    BY <1>4, <1>5, <1>6, <1>8, <2>1 DEF TypeOK
<1>10. PastInv'
  <2>1. \A i \in DOMAIN starts' : starts'[i].at <= now
    <3>1. now <= now
      BY <1>5, GapsAssumption DEF TypeOK, Times
    <3>2. \A i \in DOMAIN starts' : i \in DOMAIN starts \/ i = Len(starts) + 1
      BY <1>8
    <3> QED
      BY <1>5, <1>8, <3>1, <3>2 DEF PastInv
  <2>2. now <= now
    BY <1>5, GapsAssumption DEF TypeOK, Times
  <2> QED
    BY <1>4, <1>5, <1>6, <2>1, <2>2 DEF PastInv
<1>11. StatedInv'
  <2>1. schedule \in Seq(Schedules)
    BY <1>5 DEF TypeOK
  <2>2. ASSUME NEW k \in DOMAIN starts, starts[k].period # NONE
        PROVE  /\ starts[k].seen \in 1 .. Len(schedule')
               /\ OwnUpTo(schedule', starts[k].seen) # {}
               /\ schedule'[Max(OwnUpTo(schedule', starts[k].seen))].period = starts[k].period
    <3>1. CASE schedule' = schedule
      BY <1>5, <2>2, <3>1 DEF StatedInv
    <3>2. CASE schedule' = Append(schedule, s) /\ s \in Schedules
      <4> HIDE DEF s
      <4> QED
        BY <1>5, <1>8, <2>1, <2>2, <3>2, StatedStays
    <3> QED
      BY <1>3, <3>1, <3>2
  <2>3. ASSUME period # NONE
        PROVE  /\ start.seen \in 1 .. Len(schedule')
               /\ OwnUpTo(schedule', start.seen) # {}
               /\ schedule'[Max(OwnUpTo(schedule', start.seen))].period = start.period
    BY <1>2, <1>5, <2>1, <2>3, StatedByStart
  <2>4. \A k \in DOMAIN starts' : \/ k \in DOMAIN starts /\ starts'[k] = starts[k]
                                  \/ starts'[k] = start
    BY <1>8
  <2>5. start.period = period
    OBVIOUS
  <2> HIDE DEF start
  <2> QED
    BY <2>2, <2>3, <2>4, <2>5 DEF StatedInv
<1>12. DeclaredInv'
  <2> SUFFICES ASSUME notes = 0, NEW t \in Times
               PROVE  period_at(schedule', t) = LastStated(t)'.period
    BY <1>4 DEF DeclaredInv, period_at
  <2>1. LastStated(t)'.period = IF period # NONE /\ now <= t THEN period ELSE LastStated(t).period
    <3>1. LastStated(t)' = IF start.period # NONE /\ start.at <= t THEN start ELSE LastStated(t)
      BY <1>4, <1>7, <1>8, StatedAfterStart
    <3> QED
      BY <3>1
  <2>2. now \in Nat /\ t \in Nat /\ schedule \in Seq(Schedules)
    BY <1>5, GapsAssumption DEF TypeOK, Times
  <2>3. period_at(schedule, t) = LastStated(t).period
    BY <1>5 DEF DeclaredInv
  <2>4. CASE schedule' = schedule /\ (period = NONE \/ ~ (now <= t))
    BY <2>1, <2>3, <2>4
  <2>5. CASE schedule' = schedule /\ period = LastDeclared /\ period # NONE /\ now <= t
    <3>1. schedule # << >> /\ period = schedule[Len(schedule)].period
      BY <1>5, <2>5, LastDeclaredIsLast
    <3>2. Len(schedule) \in DOMAIN schedule /\ schedule[Len(schedule)] \in Schedules
      BY <2>2, <3>1
    <3>3. schedule[Len(schedule)].effective_from <= now
      BY <1>5, <3>2 DEF PastInv
    <3>4. schedule[Len(schedule)].effective_from <= t
      BY <2>2, <2>5, <3>2, <3>3, GapsAssumption DEF Schedules, Times
    <3> QED
      BY <2>1, <2>2, <2>5, <3>1, <3>4, LastInEffectIsInForce
  <2>6. CASE schedule' = Append(schedule, s) /\ s \in Schedules
    <3>0. period # NONE
      <4>1. CASE period = NONE
        <5>1. Declaration(period) = << >>
          BY <4>1 DEF Declaration
        <5>2. schedule' = schedule
          BY <1>2, <2>2, <5>1
        <5>3. Len(schedule') = Len(schedule) + 1 /\ Len(schedule) \in Nat
          <6> HIDE DEF s
          <6> QED
            BY <2>2, <2>6
        <5> QED
          BY <5>2, <5>3
      <4> QED
        BY <4>1
    <3>1. CASE now <= t
      <4>1. schedule' \in Seq(Schedules) /\ schedule' # << >> /\ schedule'[Len(schedule')] = s
        <5> HIDE DEF s
        <5> QED
          BY <2>2, <2>6
      <4>2. schedule'[Len(schedule')].effective_from <= t
        BY <3>1, <4>1
      <4>3. period_at(schedule', t) = s.period
        BY <4>1, <4>2, LastInEffectIsInForce
      <4> QED
        BY <2>1, <3>0, <3>1, <4>3
    <3>2. CASE ~ (now <= t)
      <4>1. s.effective_from > t
        BY <2>2, <3>2
      <4>2. period_at(schedule', t) = period_at(schedule, t)
        BY <2>2, <2>6, <4>1, LaterChangesNothing
      <4> QED
        BY <2>1, <2>3, <3>2, <4>2
    <3> QED
      BY <3>1, <3>2
  <2> QED
    BY <1>3, <2>4, <2>5, <2>6
<1> QED
  BY <1>9, <1>10, <1>11, <1>12 DEF IInv

\* Time passes.
LEMMA TickKeeps ==
    ASSUME IInv, Tick
    PROVE  IInv'
<1>1. now' \in Times /\ now' > now /\ UNCHANGED <<poll, schedule, up, starts, notes>>
  BY DEF Tick
<1>2. TypeOK /\ PastInv /\ StatedInv /\ DeclaredInv
  BY DEF IInv
<1>3. TypeOK'
  BY <1>1, <1>2 DEF TypeOK
<1>4. \A x \in Times : x <= now => x <= now'
  BY <1>1, <1>2, GapsAssumption DEF TypeOK, Times
<1>5. \A i \in DOMAIN schedule : schedule[i].effective_from \in Times
  <2>1. \A i \in DOMAIN schedule : schedule[i] \in Schedules
    BY <1>2 DEF TypeOK
  <2> QED
    BY <2>1 DEF Schedules
<1>6. \A i \in DOMAIN poll : poll[i] \in Times
  BY <1>2 DEF TypeOK
<1>7. \A i \in DOMAIN starts : starts[i].at \in Times
  <2>1. starts \in Seq(Starts)
    BY <1>2 DEF TypeOK
  <2>2. \A i \in DOMAIN starts : starts[i] \in Starts
    BY <2>1
  <2> QED
    BY <2>2 DEF Starts
<1>8. PastInv'
  BY <1>1, <1>2, <1>4, <1>5, <1>6, <1>7 DEF PastInv
<1>9. StatedInv' /\ DeclaredInv'
  BY <1>1, <1>2 DEF StatedInv, DeclaredInv, LastStated
<1> QED
  BY <1>3, <1>8, <1>9 DEF IInv

\* A poll.
LEMMA PollKeeps ==
    ASSUME IInv, Poll
    PROVE  IInv'
<1>1. /\ poll' = Append(poll, now) /\ Len(poll) < MaxPolls
      /\ UNCHANGED <<now, schedule, up, starts, notes>>
  BY DEF Poll
<1>2. TypeOK /\ PastInv /\ StatedInv /\ DeclaredInv
  BY DEF IInv
<1>3. poll \in Seq(Times) /\ now \in Times /\ now \in Nat /\ Times \subseteq Nat
  BY <1>2, GapsAssumption DEF TypeOK, Times
<1>4. /\ poll' \in Seq(Times) /\ Len(poll) \in Nat /\ Len(poll') = Len(poll) + 1
      /\ DOMAIN poll = 1 .. Len(poll) /\ DOMAIN poll' = 1 .. (Len(poll) + 1)
      /\ poll'[Len(poll) + 1] = now /\ \A i \in 1 .. Len(poll) : poll'[i] = poll[i]
  BY <1>1, <1>3
<1>5. \A i \in 1 .. Len(poll') - 1 : poll'[i] <= poll'[i + 1]
  <2>0. Len(poll') - 1 = Len(poll)
    BY <1>4
  <2> SUFFICES ASSUME NEW i \in 1 .. Len(poll) PROVE poll'[i] <= poll'[i + 1]
    BY <2>0
  <2>1. CASE i = Len(poll)
    <3>1. i \in DOMAIN poll /\ poll'[i + 1] = now
      BY <1>4, <2>1
    <3> QED
      BY <1>2, <1>4, <3>1 DEF PastInv
  <2>2. CASE i # Len(poll)
    <3> DEFINE n == Len(poll)
    <3>1. n \in Nat /\ i \in 1 .. n /\ i # n
      BY <1>3, <2>2
    <3> HIDE DEF n
    <3>2. i \in 1 .. n - 1 /\ i + 1 \in 1 .. n
      BY <3>1
    <3>3. poll[i] <= poll[i + 1]
      BY <1>2, <3>2 DEF TypeOK, n
    <3> QED
      BY <1>4, <3>1, <3>2, <3>3 DEF n
  <2> QED
    BY <2>1, <2>2
<1>6. TypeOK'
  <2>1. Len(poll') <= MaxPolls
    BY <1>1, <1>4, GapsAssumption
  <2> QED
    BY <1>1, <1>2, <1>4, <1>5, <2>1 DEF TypeOK
<1>7. \A i \in DOMAIN poll' : poll'[i] <= now
  <2> TAKE i \in DOMAIN poll'
  <2>1. i \in DOMAIN poll \/ i = Len(poll) + 1
    BY <1>4
  <2> QED
    BY <1>2, <1>3, <1>4, <2>1 DEF PastInv
<1>8. PastInv'
  BY <1>1, <1>2, <1>7 DEF PastInv
<1>9. StatedInv' /\ DeclaredInv'
  BY <1>1, <1>2 DEF StatedInv, DeclaredInv, LastStated
<1> QED
  BY <1>6, <1>8, <1>9 DEF IInv

\* An operator's declaration ends what the invariant says of the collector's own.
LEMMA AnnotateKeeps ==
    ASSUME IInv, Annotate
    PROVE  IInv'
<1>1. notes < MaxNotes /\ notes' = notes + 1 /\ UNCHANGED <<now, poll, up, starts>>
  BY DEF Annotate
<1>2. PICK s \in Notes : schedule' = Append(schedule, s)
  BY DEF Annotate
<1>3. s \in Schedules
  BY GapsAssumption DEF Schedules, Times
<1>4. TypeOK /\ PastInv
  BY DEF IInv
<1>5. schedule' \in Seq(Schedules) /\ schedule \in Seq(Schedules)
  BY <1>2, <1>3, <1>4 DEF TypeOK
<1>6. notes' \in 0 .. MaxNotes /\ notes' # 0
  BY <1>1, <1>4, GapsAssumption DEF TypeOK
<1>7. TypeOK'
  BY <1>1, <1>4, <1>5, <1>6 DEF TypeOK
<1>8. PastInv' /\ DeclaredInv'
  BY <1>1, <1>4, <1>6 DEF PastInv, DeclaredInv
<1>9. StatedInv'
  <2>1. starts \in Seq(Starts) /\ StatedInv
    BY <1>4 DEF IInv, TypeOK
  <2>2. ASSUME NEW k \in DOMAIN starts, starts[k].period # NONE
        PROVE  /\ starts[k].seen \in 1 .. Len(schedule')
               /\ OwnUpTo(schedule', starts[k].seen) # {}
               /\ schedule'[Max(OwnUpTo(schedule', starts[k].seen))].period = starts[k].period
    BY <1>2, <1>3, <1>5, <2>1, <2>2, StatedStays
  <2> QED
    BY <1>1, <2>2 DEF StatedInv
<1> QED
  BY <1>7, <1>8, <1>9 DEF IInv

\* One step.
LEMMA Inductive ==
    ASSUME IInv, [Next]_vars
    PROVE  IInv'
<1>1. CASE Stop
  <2>1. UNCHANGED <<now, poll, schedule, starts, notes>> /\ up' \in BOOLEAN
    BY <1>1, Zenon DEF Stop
  <2> QED
    BY <2>1 DEF IInv, TypeOK, PastInv, StatedInv, DeclaredInv, LastStated
<1>2. CASE UNCHANGED vars
  BY <1>2 DEF vars, IInv, TypeOK, PastInv, StatedInv, DeclaredInv, LastStated
<1> QED
  BY <1>1, <1>2, TickKeeps, StartKeeps, PollKeeps, AnnotateKeeps DEF Next
-----------------------------------------------------------------------------
(***************************************************************************)
(* The report.                                                             *)
(***************************************************************************)

\* What the report says of one interval.
Verdict(rows, declared, i) ==
    LET period == period_at(declared, rows[i])
        seconds == rows[i + 1] - rows[i]
    IN  IF period # NONE /\ seconds > period * tolerance
        THEN {[from_poll |-> i, seconds |-> seconds, period |-> period]} ELSE {}

\* The report consists of its verdicts on the intervals.
LEMMA ReportIsVerdicts ==
    ASSUME NEW rows \in Seq(Times), NEW declared \in Seq(Schedules),
           NEW i \in 1 .. Len(rows) - 1
    PROVE  {g \in gaps(rows, declared) : g.from_poll = i} = Verdict(rows, declared, i)
<1> DEFINE long == {j \in 1 .. Len(rows) - 1 :
                 /\ period_at(declared, rows[j]) # NONE
                 /\ rows[j + 1] - rows[j] > period_at(declared, rows[j]) * tolerance}
           gap(j) == [from_poll |-> j, seconds |-> rows[j + 1] - rows[j],
                      period |-> period_at(declared, rows[j])]
<1>1. gaps(rows, declared) = {gap(j) : j \in long}
  BY DEF gaps
<1>2. \A j : gap(j).from_poll = j
  OBVIOUS
<1>3. i \in long <=> /\ period_at(declared, rows[i]) # NONE
                     /\ rows[i + 1] - rows[i] > period_at(declared, rows[i]) * tolerance
  OBVIOUS
<1>4. Verdict(rows, declared, i) = IF i \in long THEN {gap(i)} ELSE {}
  BY <1>3 DEF Verdict
<1> HIDE DEF long, gap
<1>5. {g \in {gap(j) : j \in long} : g.from_poll = i} = IF i \in long THEN {gap(i)} ELSE {}
  BY <1>2
<1> QED
  BY <1>1, <1>4, <1>5

\* What a start could declare is in force when all that is on record since takes
\* effect later, and all that was there before is about this check and in effect.
LEMMA StatedIsInForce ==
    ASSUME TypeOK, StatedInv, NEW t \in Times,
           \A j \in 1 .. LastStated(t).seen : /\ schedule[j].check = Check
                                             /\ schedule[j].effective_from <= LastStated(t).at,
           \A j \in LastStated(t).seen + 1 .. Len(schedule) : schedule[j].effective_from > t
    PROVE  period_at(schedule, t) = LastStated(t).period
<1> DEFINE active == {j \in DOMAIN schedule : schedule[j].effective_from <= t}
           n == LastStated(t).seen
<1>1. /\ starts \in Seq(Starts) /\ schedule \in Seq(Schedules) /\ Len(schedule) \in Nat
      /\ DOMAIN schedule = 1 .. Len(schedule) /\ t \in Nat
  BY GapsAssumption DEF TypeOK, Times
<1>2. \A j \in DOMAIN schedule : schedule[j].effective_from \in Nat
  <2>1. \A j \in DOMAIN schedule : schedule[j] \in Schedules
    BY <1>1
  <2> QED
    BY <2>1, GapsAssumption DEF Schedules, Times
<1>3. n \in Nat => \A j \in active : j <= n
  <2> SUFFICES ASSUME n \in Nat, NEW j \in active PROVE j <= n
    OBVIOUS
  <2>1. j \in 1 .. Len(schedule) /\ ~ (schedule[j].effective_from > t)
    BY <1>1, <1>2
  <2> QED
    BY <1>1, <2>1
<1>4. CASE LastStated(t) = [at |-> 0, period |-> NONE, seen |-> 0]
  <2>1. n = 0 /\ LastStated(t).period = NONE
    BY <1>4
  <2>2. active = {}
    BY <1>1, <1>3, <2>1
  <2> QED
    BY <2>1, <2>2 DEF period_at
<1>5. ASSUME NEW k \in DOMAIN starts, starts[k].period # NONE, starts[k].at <= t,
             LastStated(t) = starts[k]
      PROVE  period_at(schedule, t) = LastStated(t).period
  <2>1. /\ n \in 1 .. Len(schedule) /\ OwnUpTo(schedule, n) # {}
        /\ schedule[Max(OwnUpTo(schedule, n))].period = starts[k].period
    BY <1>5 DEF StatedInv
  <2>2. starts[k] \in Starts
    BY <1>1, <1>5
  <2>3. starts[k].at \in Nat
    BY <2>2, GapsAssumption DEF Starts, Times
  <2>4. \A j \in 1 .. n : schedule[j].check = Check /\ schedule[j].effective_from <= starts[k].at
    BY <1>5
  <2> HIDE DEF n
  <2>5. n \in Nat /\ n \in OwnUpTo(schedule, n) /\ OwnUpTo(schedule, n) \in SUBSET (1 .. n)
    BY <1>1, <2>1, <2>4 DEF OwnUpTo
  <2>6. schedule[n].period = starts[k].period
    BY <2>1, <2>5, LargestIsEnd
  <2>7. n \in active /\ active \in SUBSET (1 .. n)
    <3>1. schedule[n].effective_from <= t
      BY <1>1, <1>2, <1>5, <2>1, <2>3, <2>4, <2>5
    <3> QED
      BY <1>1, <1>3, <2>1, <2>5, <3>1
  <2>8. Max(active) = n
    BY <2>5, <2>7, LargestIsEnd
  <2> QED
    BY <1>5, <2>6, <2>7, <2>8 DEF period_at
<1> QED
  BY <1>1, <1>4, <1>5, LastStatedKind

\* The report is that of the periods the collector could declare.
LEMMA ReportFollows ==
    ASSUME IInv
    PROVE  GapsFollowTheConfiguration
<1> SUFFICES ASSUME NEW i \in 1 .. Len(poll) - 1,
                    \/ notes = 0
                    \/ /\ \A j \in 1 .. LastStated(poll[i]).seen :
                             /\ schedule[j].check = Check
                             /\ schedule[j].effective_from <= LastStated(poll[i]).at
                       /\ \A j \in LastStated(poll[i]).seen + 1 .. Len(schedule) :
                             schedule[j].effective_from > poll[i]
             PROVE  {g \in gaps(poll, schedule) : g.from_poll = i}
                      = IF /\ LastStated(poll[i]).period # NONE
                           /\ poll[i + 1] - poll[i] > LastStated(poll[i]).period * tolerance
                        THEN {[from_poll |-> i, seconds |-> poll[i + 1] - poll[i],
                               period |-> LastStated(poll[i]).period]} ELSE {}
  BY DEF GapsFollowTheConfiguration
<1>1. poll \in Seq(Times) /\ schedule \in Seq(Schedules) /\ poll[i] \in Times
  BY DEF IInv, TypeOK
<1>2. period_at(schedule, poll[i]) = LastStated(poll[i]).period
  <2>1. CASE notes = 0
    BY <1>1, <2>1 DEF IInv, DeclaredInv
  <2>2. CASE notes # 0
    BY <1>1, <2>2, StatedIsInForce DEF IInv
  <2> QED
    BY <2>1, <2>2
<1> QED
  BY <1>1, <1>2, ReportIsVerdicts DEF Verdict

\* One declaration is recorded at most, and it is by an operator or takes effect now.
LEMMA OneDeclaration ==
    ASSUME IInv, [Next]_vars, schedule' # schedule
    PROVE  \E s \in Schedules : /\ schedule' = Append(schedule, s)
                                /\ poll' = poll
                                /\ notes' = notes => s.effective_from = now
<1>1. TypeOK
  BY DEF IInv
<1>2. Start \/ Annotate
  BY DEF Next, Tick, Stop, Poll, vars
<1>3. CASE Start
  <2>1. PICK rules \in SUBSET (Periods \cup {NONE}), raised \in BOOLEAN :
          schedule' = schedule \o Declaration(IF raised THEN NONE ELSE declared_period(rules))
    BY <1>3 DEF Start
  <2> DEFINE period == IF raised THEN NONE ELSE declared_period(rules)
             s == [check |-> Check, period |-> period, effective_from |-> now]
  <2>2. period \in Periods \cup {NONE} /\ schedule' = schedule \o Declaration(period)
    BY <2>1, PeriodOfRules
  <2> HIDE DEF period
  <2>4. s \in Schedules /\ schedule' = Append(schedule, s)
    BY <1>1, <2>2, DeclarationShape
  <2>3. s.effective_from = now /\ poll' = poll
    BY <1>3 DEF Start
  <2> QED
    BY <2>3, <2>4
<1>4. CASE Annotate
  <2>1. PICK s \in Notes : schedule' = Append(schedule, s)
    BY <1>4 DEF Annotate
  <2>2. s \in Schedules
    BY GapsAssumption DEF Schedules, Times
  <2>3. poll' = poll /\ notes' # notes
    BY <1>1, <1>4, GapsAssumption DEF Annotate, TypeOK
  <2> QED
    BY <2>1, <2>2, <2>3
<1> QED
  BY <1>2, <1>3, <1>4

\* Rows are appended.
LEMMA OnePoll ==
    ASSUME IInv, [Next]_vars
    PROVE  /\ poll \in Seq(Times) /\ poll' \in Seq(Times) /\ Len(poll) <= Len(poll')
           /\ \A i \in 1 .. Len(poll) : poll'[i] = poll[i]
           /\ Len(poll') = Len(poll) \/ Len(poll') = Len(poll) + 1
<1>1. poll \in Seq(Times) /\ now \in Times
  BY DEF IInv, TypeOK
<1>2. CASE poll' = poll
  BY <1>1, <1>2
<1>3. CASE Poll
  BY <1>1, <1>3 DEF Poll
<1> QED
  BY <1>2, <1>3 DEF Next, Tick, Start, Stop, Annotate, vars

\* The verdict on an interval only changes with a declaration that is in effect
\* when the interval opens.
LEMMA VerdictStands ==
    ASSUME IInv, [Next]_vars, NEW i \in 1 .. Len(poll) - 1,
           \A k \in DOMAIN schedule' \ DOMAIN schedule : ~ (schedule'[k].effective_from <= poll[i])
    PROVE  Verdict(poll, schedule, i) = Verdict(poll', schedule', i)
<1>1. /\ poll \in Seq(Times) /\ schedule \in Seq(Schedules) /\ Len(poll) \in Nat
      /\ i \in 1 .. Len(poll) /\ i + 1 \in 1 .. Len(poll) /\ poll[i] \in Times
  BY DEF IInv, TypeOK
<1>2. poll'[i] = poll[i] /\ poll'[i + 1] = poll[i + 1]
  BY <1>1, OnePoll
<1>3. period_at(schedule', poll[i]) = period_at(schedule, poll[i])
  <2>1. CASE schedule' = schedule
    BY <2>1
  <2>2. CASE schedule' # schedule
    <3>1. PICK s \in Schedules : schedule' = Append(schedule, s)
      BY <2>2, OneDeclaration
    <3>2. /\ Len(schedule) + 1 \in DOMAIN schedule' \ DOMAIN schedule
          /\ schedule'[Len(schedule) + 1] = s
      BY <1>1, <3>1
    <3>3. ~ (s.effective_from <= poll[i])
      BY <3>2
    <3>4. s.effective_from > poll[i]
      BY <1>1, <3>3, GapsAssumption DEF Schedules, Times
    <3> QED
      BY <1>1, <3>1, <3>4, LaterChangesNothing
  <2> QED
    BY <2>1, <2>2
<1> QED
  BY <1>2, <1>3 DEF Verdict

\* No step rejudges history.
LEMMA StepRejudgesNothing ==
    ASSUME IInv, [Next]_vars, NEW i \in 1 .. Len(poll) - 1,
           \A k \in DOMAIN schedule' \ DOMAIN schedule : ~ (schedule'[k].effective_from <= poll[i])
    PROVE  {g \in gaps(poll, schedule) : g.from_poll = i}
             = {g \in gaps(poll', schedule') : g.from_poll = i}
<1>1. IInv'
  BY Inductive
<1>2. poll \in Seq(Times) /\ schedule \in Seq(Schedules) /\ schedule' \in Seq(Schedules)
  BY <1>1 DEF IInv, TypeOK
<1>3. poll' \in Seq(Times) /\ i \in 1 .. Len(poll') - 1
  BY <1>2, OnePoll
<1>4. {g \in gaps(poll, schedule) : g.from_poll = i} = Verdict(poll, schedule, i)
  BY <1>2, ReportIsVerdicts
<1>5. {g \in gaps(poll', schedule') : g.from_poll = i} = Verdict(poll', schedule', i)
  BY <1>2, <1>3, ReportIsVerdicts
<1>6. Verdict(poll, schedule, i) = Verdict(poll', schedule', i)
  BY VerdictStands
<1> QED
  BY <1>4, <1>5, <1>6

\* The verdicts on the intervals that were there are all that the collector's own
\* steps leave of the report.
LEMMA OwnStepLooksAhead ==
    ASSUME IInv, [Next]_vars, notes' = notes
    PROVE  gaps(poll, schedule) = {g \in gaps(poll', schedule') : g.from_poll < Len(poll)}
<1>1. IInv'
  BY Inductive
<1>2. /\ poll \in Seq(Times) /\ schedule \in Seq(Schedules) /\ schedule' \in Seq(Schedules)
      /\ Len(poll) \in Nat
  BY <1>1 DEF IInv, TypeOK
<1>3. /\ poll' \in Seq(Times) /\ Len(poll') \in Nat /\ Len(poll) <= Len(poll')
  BY <1>2, OnePoll
<1>4. ASSUME NEW i \in 1 .. Len(poll) - 1
      PROVE  Verdict(poll, schedule, i) = Verdict(poll', schedule', i)
  <2>1. /\ i \in 1 .. Len(poll) /\ i + 1 \in 1 .. Len(poll) /\ poll[i] \in Nat /\ poll[i + 1] \in Nat
        /\ now \in Nat
    BY <1>2, GapsAssumption DEF Times, IInv, TypeOK
  <2>2. poll[i] <= poll[i + 1] /\ poll[i + 1] <= now
    BY <1>2, <2>1 DEF IInv, TypeOK, PastInv
  <2>3. CASE poll[i] = now
    <3>1. poll[i + 1] - poll[i] = 0 /\ poll'[i + 1] - poll'[i] = 0
      BY <2>1, <2>2, <2>3, OnePoll
    <3>2. \A p \in Periods : ~ (0 > p * tolerance)
      <4> TAKE p \in Periods
      <4>1. p \in Nat /\ tolerance \in Nat
        BY GapsAssumption
      <4>2. p * tolerance \in Nat
        BY <4>1
      <4> QED
        BY <4>2
    <3>3. poll[i] \in Times /\ poll'[i] \in Times
      BY <1>2, <1>3, <2>1
    <3>4. /\ period_at(schedule, poll[i]) \in Periods \cup {NONE}
          /\ period_at(schedule', poll'[i]) \in Periods \cup {NONE}
      BY <1>2, <3>3, PeriodKind
    <3> QED
      BY <3>1, <3>2, <3>4 DEF Verdict
  <2>4. CASE poll[i] # now
    <3>1. ASSUME NEW k \in DOMAIN schedule' \ DOMAIN schedule
          PROVE  ~ (schedule'[k].effective_from <= poll[i])
      <4>1. PICK s \in Schedules : schedule' = Append(schedule, s) /\ s.effective_from = now
        BY <3>1, OneDeclaration
      <4>2. k = Len(schedule) + 1
        BY <1>2, <3>1, <4>1
      <4>3. schedule'[k] = s
        BY <1>2, <4>1, <4>2
      <4> QED
        BY <2>1, <2>2, <2>4, <4>1, <4>3
    <3> QED
      BY <3>1, VerdictStands
  <2> QED
    BY <2>3, <2>4
<1>5. \A g \in gaps(poll, schedule) : g.from_poll \in 1 .. Len(poll) - 1
  BY DEF gaps
<1>6. \A g \in gaps(poll', schedule') : g.from_poll \in 1 .. Len(poll') - 1
  BY DEF gaps
<1>7. ASSUME NEW i \in 1 .. Len(poll) - 1
      PROVE  {g \in gaps(poll, schedule) : g.from_poll = i}
               = {g \in gaps(poll', schedule') : g.from_poll = i}
  <2>1. i \in 1 .. Len(poll') - 1
    BY <1>2, <1>3
  <2> QED
    BY <1>2, <1>3, <1>4, <2>1, ReportIsVerdicts
<1>8. ASSUME NEW g \in gaps(poll, schedule)
      PROVE  g \in gaps(poll', schedule') /\ g.from_poll < Len(poll)
  <2>1. g.from_poll \in 1 .. Len(poll) - 1
    BY <1>5
  <2>2. g \in gaps(poll', schedule')
    BY <1>7, <2>1
  <2> QED
    BY <1>2, <2>1, <2>2
<1>9. ASSUME NEW g \in gaps(poll', schedule'), g.from_poll < Len(poll)
      PROVE  g \in gaps(poll, schedule)
  <2>1. g.from_poll \in 1 .. Len(poll) - 1
    BY <1>2, <1>3, <1>6, <1>9
  <2> QED
    BY <1>7, <2>1
<1> QED
  BY <1>8, <1>9
-----------------------------------------------------------------------------
(***************************************************************************)
(* Theorems.                                                               *)
(***************************************************************************)

\* Polls, starts and declarations stay of their kinds, and polls in order.
THEOREM TypeCorrect == Spec => []TypeOK
<1>1. IInv => TypeOK
  BY DEF IInv
<1> QED
  BY <1>1, Initially, Inductive, PTL DEF Spec

\* For any periods and tolerance, any starts under any rules, failing to declare or
\* not, and any polls: the report read off the annotations holds each silence
\* against the period of the last start that could declare one, while the collector
\* alone declares and wherever an operator's declarations do not reach it.
THEOREM GapsAlwaysFollowTheConfiguration == Spec => []GapsFollowTheConfiguration
BY ReportFollows, Initially, Inductive, PTL DEF Spec

\* A declaration changes the verdict on no interval that opened before it takes
\* effect, and no poll, start or stop changes one at all.
THEOREM HistoryIsNeverRejudged == Spec => HistoryIsNotRejudged
<1>1. ASSUME IInv, [Next]_vars
      PROVE  [\A i \in 1 .. Len(poll) - 1 :
                \/ \E k \in DOMAIN schedule' \ DOMAIN schedule : schedule'[k].effective_from <= poll[i]
                \/ {g \in gaps(poll, schedule) : g.from_poll = i}
                     = {g \in gaps(poll', schedule') : g.from_poll = i}]_vars
  BY <1>1, StepRejudgesNothing
<1> QED
  BY <1>1, Initially, Inductive, PTL DEF Spec, HistoryIsNotRejudged

\* The collector's own declarations leave the report on past silences as it was.
THEOREM OwnDeclarationsAlwaysLookAhead == Spec => OwnDeclarationsOnlyLookAhead
<1>1. ASSUME IInv, [Next]_vars
      PROVE  [notes' = notes =>
                gaps(poll, schedule) = {g \in gaps(poll', schedule') : g.from_poll < Len(poll)}]_vars
  BY <1>1, OwnStepLooksAhead
<1> QED
  BY <1>1, Initially, Inductive, PTL DEF Spec, OwnDeclarationsOnlyLookAhead
=============================================================================
