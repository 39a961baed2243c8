---------------------------- MODULE SchedulesProofs ----------------------------
(***************************************************************************)
(* Proofs about Schedules, for any rules and tables, any length of the day, *)
(* and any lateness of the timer's thread.                                  *)
(***************************************************************************)
EXTENDS Schedules, FiniteSetTheorems, FunctionTheorems, WellFoundedInduction, TLAPS

(* The moments that are behind: before the event waited for, or before      *)
(* where the handler goes on.                                               *)
Behind(t) == (\A e \in timers : t < e.at) /\ (handler # None => t < Resumes(handler))

(* One event, or its handler, as soon as the schedule is started.           *)
Shape ==
    /\ Types
    /\ timers = {} \/ \E e \in Event : timers = {e}
    /\ timers = {} <=> (started = None \/ handler # None)
    /\ started = None => handler = None /\ executed = << >>
    /\ handler # None => handler.day <= Day(now)
    /\ call # None => handler.step = "arm"
    /\ \A e \in timers : e.token = "Tomorrow" => Sec(e.at) = 0
    /\ \A e \in timers : e.token = "NextEvent" => table # None
    /\ handler # None /\ handler.step = "arm" => table # None

(* What was told last is behind.                                            *)
Ordered == executed # << >> => Behind(Last(executed).at)

(* The active table is the one of the day that is followed, if no handler   *)
(* slipped to that day.                                                     *)
Current ==
    /\ \A e \in timers : e.token = "NextEvent" /\ Day(e.at) > slipped => table = Applicable(plan, Day(e.at))
    /\ handler # None /\ handler.step = "arm" /\ handler.day > slipped => table = Applicable(plan, handler.day)

(* What is behind was told, if it was planned after the start.              *)
Complete ==
    \A t \in Nat :
        started # None /\ started < t /\ Planned(t) # None /\ Day(t) > slipped /\ Behind(t) => Executed(t)

Books == Ordered /\ Current /\ Complete

-----------------------------------------------------------------------------
(* Days and seconds.                                                        *)
LEMMA MidnightType == \A d \in Nat : Midnight(d) \in Nat
BY ScheduleAssumption DEF Midnight

LEMMA MidnightsGrow == \A d, e \in Nat : d <= e => Midnight(d) <= Midnight(e)
BY ScheduleAssumption DEF Midnight

LEMMA NextMidnight == \A d \in Nat : Midnight(d + 1) = Midnight(d) + DayLen
BY ScheduleAssumption DEF Midnight

LEMMA DayAndSecond ==
    \A t \in Nat : Day(t) \in Nat /\ Sec(t) \in Seconds /\ t = Midnight(Day(t)) + Sec(t)
<1> SUFFICES ASSUME NEW t \in Nat
             PROVE  Day(t) \in Nat /\ Sec(t) \in Seconds /\ t = Midnight(Day(t)) + Sec(t)
  OBVIOUS
<1>1. Day(t) \in Nat
  BY ScheduleAssumption DEF Day
<1>2. Sec(t) \in Seconds
  BY ScheduleAssumption DEF Sec, Seconds
<1>3. t = Midnight(Day(t)) + Sec(t)
  BY ScheduleAssumption DEF Midnight, Day, Sec
<1> QED
  BY <1>1, <1>2, <1>3

(* A moment has one day and one second.                                     *)
LEMMA MomentOf ==
    ASSUME NEW d \in Nat, NEW s \in Seconds
    PROVE  Midnight(d) + s \in Nat /\ Day(Midnight(d) + s) = d /\ Sec(Midnight(d) + s) = s
<1> DEFINE t == Midnight(d) + s
<1>1. t \in Nat /\ s \in Nat /\ s < DayLen
  BY MidnightType, ScheduleAssumption DEF Seconds
<1>2. Day(t) \in Nat /\ Sec(t) \in Nat /\ Sec(t) < DayLen /\ t = Midnight(Day(t)) + Sec(t)
  BY <1>1, DayAndSecond, ScheduleAssumption DEF Seconds
<1> HIDE DEF t
<1>3. t = Midnight(d) + s
  BY DEF t
<1>4. ~ (Day(t) < d)
  <2> SUFFICES ASSUME Day(t) + 1 <= d PROVE FALSE
    BY <1>2
  <2>1. Midnight(Day(t)) + DayLen <= Midnight(d)
    BY <1>2, MidnightsGrow, NextMidnight
  <2> QED
    BY <2>1, <1>1, <1>2, <1>3, MidnightType, ScheduleAssumption
<1>5. ~ (d < Day(t))
  <2> SUFFICES ASSUME d + 1 <= Day(t) PROVE FALSE
    BY <1>2
  <2>1. Midnight(d) + DayLen <= Midnight(Day(t))
    BY <1>2, MidnightsGrow, NextMidnight
  <2> QED
    BY <2>1, <1>1, <1>2, <1>3, MidnightType, ScheduleAssumption
<1>6. Day(t) = d
  BY <1>2, <1>4, <1>5
<1>7. Sec(t) = s
  BY <1>1, <1>2, <1>3, <1>6, MidnightType
<1> QED
  BY <1>1, <1>6, <1>7 DEF t

LEMMA DaysGrow == \A t, u \in Nat : t <= u => Day(t) <= Day(u)
<1> SUFFICES ASSUME NEW t \in Nat, NEW u \in Nat, t <= u, Day(u) + 1 <= Day(t)
             PROVE  FALSE
  BY DayAndSecond
<1>1. Midnight(Day(u)) + DayLen <= Midnight(Day(t))
  BY DayAndSecond, MidnightsGrow, NextMidnight
<1>2. Sec(u) < DayLen
  BY DayAndSecond, ScheduleAssumption DEF Seconds
<1> QED
  BY <1>1, <1>2, DayAndSecond, MidnightType, ScheduleAssumption DEF Seconds

(* What is before the midnight after a day is of that day or earlier.       *)
LEMMA Beyond == \A t, d \in Nat : t < Midnight(d + 1) => Day(t) <= d
<1> SUFFICES ASSUME NEW t \in Nat, NEW d \in Nat, t < Midnight(d + 1), d + 1 <= Day(t)
             PROVE  FALSE
  BY DayAndSecond
<1>1. Midnight(d + 1) <= Midnight(Day(t)) /\ Midnight(d + 1) \in Nat /\ Midnight(Day(t)) \in Nat
  BY DayAndSecond, MidnightsGrow, MidnightType
<1>2. Midnight(Day(t)) <= t
  BY <1>1, DayAndSecond, ScheduleAssumption DEF Seconds
<1> QED
  BY <1>1, <1>2

LEMMA Earliest ==
    ASSUME NEW S \in SUBSET Nat, S # {}
    PROVE  Min(S) \in S /\ \A x \in S : Min(S) <= x
<1>1. PICK m \in S : \A y \in S : ~ (<< y, m >> \in OpToRel(<, Nat))
  BY NatLessThanWellFounded, WFMin
<1>2. \A x, y \in Nat : x < y => << x, y >> \in OpToRel(<, Nat)
  BY Zenon DEF OpToRel
<1>3. \A y \in S : ~ (y < m)
  BY <1>1, <1>2, Zenon
<1>4. \A y \in S : m <= y
  BY <1>3
<1> QED
  BY <1>4 DEF Min

-----------------------------------------------------------------------------
(* The calendar.                                                            *)

(* A date is followed by a date.                                            *)
LEMMA NextDateType == \A d \in Date : NextDate(d) \in Date
<1> SUFFICES ASSUME NEW d \in Date PROVE NextDate(d) \in Date
  OBVIOUS
<1> DEFINE e == NextDate(d)
<1>1. /\ d.year \in Nat /\ d.mon \in 1..12 /\ d.mday \in 1..31 /\ d.wday \in 0..6 /\ d.yday \in 0..365
      /\ d.mday <= DaysIn(d.mon, d.year) /\ d.yday = DaysBefore(d.mon, d.year) + d.mday - 1
  BY DEF Date
<1>2. CASE d.mday # DaysIn(d.mon, d.year)
  <2>1. e = [year |-> d.year, mon |-> d.mon, mday |-> d.mday + 1, wday |-> (d.wday + 1) % 7, yday |-> d.yday + 1]
    BY <1>2 DEF NextDate
  <2>2. DaysIn(d.mon, d.year) \in 28..31
    BY DEF DaysIn
  <2>3. d.mday + 1 <= DaysIn(d.mon, d.year) /\ d.mday + 1 \in 1..31 /\ (d.wday + 1) % 7 \in 0..6
    BY <1>1, <1>2, <2>2
  <2>4. d.yday + 1 \in 0..365 /\ d.yday + 1 = DaysBefore(d.mon, d.year) + (d.mday + 1) - 1
    BY <1>1, <2>3 DEF DaysBefore, DaysIn
  <2> QED
    BY <1>1, <2>1, <2>3, <2>4 DEF Date
<1>3. CASE d.mday = DaysIn(d.mon, d.year) /\ d.mon = 12
  <2>1. e = [year |-> d.year + 1, mon |-> 1, mday |-> 1, wday |-> (d.wday + 1) % 7, yday |-> 0]
    BY <1>3 DEF NextDate
  <2>2. DaysIn(1, d.year + 1) = 31 /\ DaysBefore(1, d.year + 1) = 0 /\ (d.wday + 1) % 7 \in 0..6
    BY <1>1 DEF DaysIn, DaysBefore
  <2> QED
    BY <1>1, <2>1, <2>2 DEF Date
<1>4. CASE d.mday = DaysIn(d.mon, d.year) /\ d.mon # 12
  <2>1. e = [year |-> d.year, mon |-> d.mon + 1, mday |-> 1, wday |-> (d.wday + 1) % 7, yday |-> d.yday + 1]
    BY <1>4 DEF NextDate
  <2>2. d.mon + 1 \in 1..12 /\ (d.wday + 1) % 7 \in 0..6 /\ 1 <= DaysIn(d.mon + 1, d.year)
    BY <1>1, <1>4 DEF DaysIn
  <2>3. d.yday + 1 \in 0..365 /\ d.yday + 1 = DaysBefore(d.mon + 1, d.year) + 1 - 1
    BY <1>1, <1>4 DEF DaysBefore, DaysIn
  <2> QED
    BY <1>1, <2>1, <2>2, <2>3 DEF Date
<1> QED
  BY <1>2, <1>3, <1>4

(* The days in order from the first.                                        *)
Counted(f, p, d) == f = [n \in 0..d |-> IF n = 0 THEN p.from ELSE NextDate(f[n - 1])]

LEMMA CountedExists == \A p, d : d \in Nat => \E f : Counted(f, p, d)
<1> SUFFICES ASSUME NEW p, NEW d0 \in Nat, ~ \E f : Counted(f, p, d0) PROVE FALSE
  OBVIOUS
<1> DEFINE S == {d \in Nat : ~ \E f : Counted(f, p, d)}
           d == Min(S)
<1>1. S \in SUBSET Nat /\ S # {}
  OBVIOUS
<1>2. d \in Nat /\ d \in S /\ \A x \in S : d <= x
  <2> HIDE DEF S
  <2> QED
    BY <1>1, Earliest
<1> HIDE DEF d
<1>3. CASE d = 0
  <2> DEFINE f == [n \in 0..0 |-> p.from]
  <2>1. Counted(f, p, 0)
    BY DEF Counted
  <2> QED
    BY <1>2, <1>3, <2>1
<1>4. CASE d # 0
  <2>1. d - 1 \in Nat /\ d - 1 \notin S
    BY <1>2, <1>4
  <2>2. PICK f : Counted(f, p, d - 1)
    BY <2>1
  <2> DEFINE g == [n \in 0..d |-> IF n = d THEN NextDate(f[d - 1]) ELSE f[n]]
  <2>3. \A n \in 0..(d - 1) : f[n] = IF n = 0 THEN p.from ELSE NextDate(f[n - 1])
    BY <2>2 DEF Counted
  <2>4. ASSUME NEW n \in 0..d PROVE g[n] = IF n = 0 THEN p.from ELSE NextDate(g[n - 1])
    <3>1. CASE n = d
      BY <3>1, <1>2, <1>4
    <3>2. CASE n # d
      BY <3>2, <2>3, <1>2, <1>4
    <3> QED
      BY <3>1, <3>2
  <2>5. Counted(g, p, d)
    BY <2>4 DEF Counted
  <2> QED
    BY <2>5, <1>2
<1> QED
  BY <1>3, <1>4

LEMMA DateOfType == \A p \in Plan, d \in Nat : DateOf(p, d) \in Date
<1> SUFFICES ASSUME NEW p \in Plan, NEW d \in Nat PROVE DateOf(p, d) \in Date
  OBVIOUS
<1> DEFINE f == CHOOSE g : Counted(g, p, d)
<1>1. Counted(f, p, d)
  BY CountedExists
<1>2. DateOf(p, d) = f[d]
  BY DEF DateOf, Counted
<1> HIDE DEF f
<1>3. \A n \in 0..d : f[n] = IF n = 0 THEN p.from ELSE NextDate(f[n - 1])
  BY <1>1 DEF Counted
<1>4. p.from \in Date
  BY DEF Plan
<1> DEFINE S == {n \in 0..d : f[n] \notin Date}
<1>5. CASE S = {}
  BY <1>2, <1>5
<1>6. CASE S # {}
  <2> DEFINE n == Min(S)
  <2>1. n \in S /\ \A x \in S : n <= x
    <3>1. S \in SUBSET Nat
      OBVIOUS
    <3> HIDE DEF S
    <3> QED
      BY <3>1, <1>6, Earliest
  <2> HIDE DEF n
  <2>2. n # 0 /\ n - 1 \in 0..d /\ n - 1 \notin S
    BY <2>1, <1>3, <1>4
  <2>3. f[n - 1] \in Date /\ f[n] = NextDate(f[n - 1])
    BY <2>1, <2>2, <1>3
  <2> QED
    BY <2>1, <2>3, NextDateType
<1> QED
  BY <1>5, <1>6

(* Occurrence counts the days a whole number of weeks before, and itself.   *)
LEMMA OccurrenceCounts ==
    ASSUME NEW m \in Nat
    PROVE  Cardinality({d \in 1..m : (m - d) % 7 = 0}) = m \div 7 + IF m % 7 # 0 THEN 1 ELSE 0
<1> DEFINE k == m \div 7 + IF m % 7 # 0 THEN 1 ELSE 0
           S == 1..k
           T == {d \in 1..m : (m - d) % 7 = 0}
           f == [i \in S |-> m - 7 * (i - 1)]
<1>1. k \in Nat /\ 7 * k >= m /\ 7 * (k - 1) < m
  OBVIOUS
<1>2. f \in [S -> T]
  <2> SUFFICES ASSUME NEW i \in S PROVE m - 7 * (i - 1) \in T
    OBVIOUS
  <2> HIDE DEF k
  <2>1. m - 7 * (i - 1) \in 1..m
    BY <1>1
  <2>2. (m - (m - 7 * (i - 1))) % 7 = 0
    BY <1>1
  <2> QED
    BY <2>1, <2>2
<1>3. \A i, j \in S : f[i] = f[j] => i = j
  <2> HIDE DEF k
  <2> QED
    BY <1>1
<1>4. \A d \in T : \E i \in S : f[i] = d
  <2> SUFFICES ASSUME NEW d \in T PROVE \E i \in S : f[i] = d
    OBVIOUS
  <2> DEFINE i == (m - d) \div 7 + 1
  <2>1. d \in 1..m /\ (m - d) % 7 = 0
    OBVIOUS
  <2>2. i \in Nat /\ i >= 1 /\ m - 7 * (i - 1) = d
    BY <2>1
  <2> HIDE DEF k, i
  <2>3. i \in S
    BY <1>1, <2>1, <2>2
  <2> QED
    BY <2>2, <2>3
<1>5. f \in Bijection(S, T)
  <2> HIDE DEF f, S, T
  <2> QED
    BY <1>2, <1>3, <1>4, Fun_IsBij
<1>6. IsFiniteSet(S) /\ Cardinality(S) = k
  <2> HIDE DEF k
  <2> QED
    BY <1>1, FS_Interval
<1>7. Cardinality(T) = Cardinality(S)
  <2> HIDE DEF f, S, T
  <2>1. ExistsBijection(S, T)
    BY <1>5 DEF ExistsBijection
  <2> QED
    BY <2>1, <1>6, FS_Bijection
<1> QED
  BY <1>6, <1>7

(* What the condition for the n-th of a day of the week examines.           *)
LEMMA NamedDay ==
    ASSUME NEW t \in Date, NEW i \in 1..7, NEW n \in 1..5
    PROVE  Examine([subject |-> MonthDays[i], compare |-> "EQUAL", value |-> n], t)
              <=> t.wday = i - 1 /\ Occurrence(t) = n
<1> DEFINE s == MonthDays[i]
           c == [subject |-> s, compare |-> "EQUAL", value |-> n]
<1>1. s \in Subjects /\ \A j \in 1..7 : s = MonthDays[j] <=> j = i
  BY DEF Subjects, MonthDays
<1>2. Subject(s, t) = Occurrence(t)
  BY DEF Subject, MonthDays
<1>3. ConditionCheck(Subject(s, t), "EQUAL", n % 65536) <=> Occurrence(t) = n
  BY <1>2 DEF ConditionCheck
<1> HIDE DEF s
<1>4. Examine(c, t) <=> t.wday = i - 1 /\ Occurrence(t) = n
  BY <1>1, <1>3 DEF Examine
<1> QED
  BY <1>4 DEF s

-----------------------------------------------------------------------------
(* The table of a day.                                                      *)
LEMMA ApplicableType ==
    ASSUME NEW p \in Plan, NEW d \in Nat
    PROVE  Applicable(p, d) \in Table \cup {None}
<1> DEFINE fits == {i \in DOMAIN p.rules : RuleApplies(p.rules[i].rule, DateOf(p, d))}
<1>1. CASE fits = {}
  BY <1>1 DEF Applicable, Plan
<1>2. CASE fits # {}
  <2>1. p.rules \in Seq([rule : SUBSET SUBSET Condition, table : Table])
    BY DEF Plan
  <2>2. fits \subseteq 1..Len(p.rules) /\ Len(p.rules) \in Nat
    BY <2>1
  <2>3. Min(fits) \in fits
    <3>1. fits \in SUBSET Nat /\ fits # {}
      BY <2>2, <1>2
    <3> HIDE DEF fits
    <3> QED
      BY <3>1, Earliest
  <2>4. \A i \in 1..Len(p.rules) : p.rules[i].table \in Table
    <3> DEFINE R == [rule : SUBSET SUBSET Condition, table : Table]
    <3>1. \A i \in 1..Len(p.rules) : p.rules[i] \in R
      <4>1. p.rules \in Seq(R)
        BY <2>1
      <4> HIDE DEF R
      <4> QED
        BY <4>1
    <3> QED
      BY <3>1
  <2>5. p.rules[Min(fits)].table \in Table
    BY <2>2, <2>3, <2>4, Zenon
  <2> QED
    BY <2>5, <1>2 DEF Applicable
<1> QED
  BY <1>1, <1>2

(* The seconds at which a table has an action.                              *)
LEMMA TimesType ==
    ASSUME NEW tab \in Table
    PROVE  /\ Times(tab) \subseteq Seconds
           /\ \A s \in Seconds : s \in Times(tab) <=> tab[s] # None
           /\ \A s \in Times(tab) : tab[s] \in Action
BY DEF Times, Table

(* What lies between second s of day d and the next moment of the table is  *)
(* of that day, and the table has nothing there.                            *)
Following(tab, d, s) ==
    IF After(tab, s) = {} THEN Midnight(d + 1) ELSE Midnight(d) + Min(After(tab, s))

LEMMA Between ==
    ASSUME NEW tab \in Table, NEW d \in Nat, NEW s \in -1..(DayLen - 1)
    PROVE  /\ Following(tab, d, s) \in Nat /\ Midnight(d) + s < Following(tab, d, s)
           /\ Following(tab, d, s) <= Midnight(d + 1)
           /\ \A t \in Nat : Midnight(d) + s < t /\ t < Following(tab, d, s)
                              => Day(t) = d /\ tab[Sec(t)] = None
<1> DEFINE later == After(tab, s)
           x == Following(tab, d, s)
<1>1. Midnight(d) \in Nat /\ Midnight(d + 1) = Midnight(d) + DayLen /\ DayLen \in Nat \ {0} /\ s \in Int
  BY MidnightType, NextMidnight, ScheduleAssumption
<1>2. later \in SUBSET Nat /\ later \subseteq Seconds
  BY TimesType, ScheduleAssumption DEF Seconds, After
<1>3. x = IF later = {} THEN Midnight(d + 1) ELSE Midnight(d) + Min(later)
  BY DEF Following
<1>4. \A y \in Seconds : y > s /\ tab[y] # None => y \in later
  BY TimesType DEF After
<1>5. later # {} => Min(later) \in later /\ \A y \in later : Min(later) <= y
  <2> SUFFICES ASSUME later # {} PROVE Min(later) \in later /\ \A y \in later : Min(later) <= y
    OBVIOUS
  <2> HIDE DEF later
  <2> QED
    BY <1>2, Earliest
<1>6. \A y \in later : y > s
  BY DEF After
<1> HIDE DEF later, x
<1>7. x \in Nat /\ Midnight(d) + s < x /\ x <= Midnight(d) + DayLen
  <2>1. CASE later = {}
    BY <2>1, <1>1, <1>3
  <2>2. CASE later # {}
    <3>1. Min(later) \in Seconds /\ Min(later) > s
      BY <2>2, <1>2, <1>5, <1>6
    <3>2. x = Midnight(d) + Min(later)
      BY <2>2, <1>3
    <3> QED
      BY <3>1, <3>2, <1>1 DEF Seconds
  <2> QED
    BY <2>1, <2>2
<1>8. ASSUME NEW t \in Nat, Midnight(d) + s < t, t < x
      PROVE  Day(t) = d /\ tab[Sec(t)] = None
  <2> DEFINE y == t - Midnight(d)
  <2>1. CASE t < Midnight(d)
    BY <2>1, <1>8, <1>1
  <2>2. CASE t >= Midnight(d)
    <3>1. y \in Seconds /\ t = Midnight(d) + y /\ s < y
      BY <2>2, <1>8, <1>7, <1>1 DEF Seconds
    <3>2. Day(t) = d /\ Sec(t) = y
      <4> HIDE DEF y
      <4> QED
        BY <3>1, MomentOf
    <3>3. y \notin later
      <4> HIDE DEF y
      <4> SUFFICES ASSUME y \in later PROVE FALSE
        OBVIOUS
      <4>1. Min(later) <= y /\ Min(later) \in Seconds /\ x = Midnight(d) + Min(later)
        BY <1>2, <1>3, <1>5
      <4> QED
        BY <4>1, <3>1, <1>1, <1>8 DEF Seconds
    <3> QED
      BY <3>1, <3>2, <3>3, <1>4, <1>1 DEF Seconds
  <2> QED
    BY <2>1, <2>2, <1>1
<1> QED
  BY <1>1, <1>7, <1>8 DEF x

-----------------------------------------------------------------------------
(* The shape.                                                               *)
Calls == [action : Action, left : SUBSET Listeners, in : Listeners \cup {None}, at : Nat \ {0}]

LEMMA NowType == ASSUME Types PROVE now \in Nat /\ Day(now) \in Nat /\ Sec(now) \in Seconds /\ plan \in Plan
BY DayAndSecond, ScheduleAssumption DEF Types

LEMMA HandlerIsNotNone == \A h \in Handler : h # None
BY ScheduleAssumption

(* A reading of the clock: either it is still the day taken for it, or the  *)
(* schedule slipped to the day it is.                                       *)
LEMMA Found ==
    ASSUME Types, NEW d \in Nat, FoundOn(d)
    PROVE  /\ slipped \in Int /\ slipped' \in Int /\ slipped' \in -1..Day(now)
           /\ Day(now) > slipped' => Day(now) = d /\ slipped' = slipped
BY NowType DEF Types, FoundOn

LEMMA InitShape == Init => Shape
<1> SUFFICES ASSUME Init PROVE Shape
  OBVIOUS
<1>1. now \in 0..Horizon /\ follows \in [Listeners -> Seq(Points)] /\ plan \in Plans
  BY ScheduleAssumption, FollowersAssumption DEF Init
<1>3. slipped \in -1..Day(now)
  BY ScheduleAssumption DEF Init, Day
<1>2. executed \in Seq([at : 0..now, action : Action]) /\ timers \subseteq Event
  BY DEF Init
<1>4. Types
  BY <1>1, <1>2, <1>3 DEF Init, Types
<1> QED
  BY <1>4 DEF Init, Shape

(* Without one of its elements a sequence is one of the same elements.      *)
LEMMA Shorter ==
    ASSUME NEW S, NEW q \in Seq(S), NEW i \in DOMAIN q
    PROVE  RemoveAt(q, i) \in Seq(S)
<1>1. SubSeq(q, 1, i - 1) \in Seq(S) /\ SubSeq(q, i + 1, Len(q)) \in Seq(S)
  OBVIOUS
<1> QED
  BY <1>1 DEF RemoveAt

LEMMA TellShape ==
    ASSUME Shape, (\E l \in Listeners : TakeListener(l)) \/ DropFollower \/ FollowersDone
    PROVE  Shape'
<1>1. Types /\ call \in Calls /\ handler # None
  BY DEF Shape, Types, TakeListener, DropFollower, FollowersDone, Calls
<1>2. UNCHANGED << clock, table, timers, handler, listening, present, started, executed, slipped >>
  BY DEF TakeListener, DropFollower, FollowersDone, audience
<1>3. follows' \in [Listeners -> Seq(Points)] /\ call' \in Calls
  <2>1. CASE \E l \in Listeners : TakeListener(l)
    BY <1>1, <2>1 DEF TakeListener, audience, Types, Calls
  <2>2. CASE DropFollower
    <3> DEFINE l == call.in
    <3>1. l \in Listeners /\ follows[l] \in Seq(Points) /\ call.at \in DOMAIN follows[l]
      BY <1>1, <2>2 DEF DropFollower, Types, Calls
    <3>2. RemoveAt(follows[l], call.at) \in Seq(Points)
      BY <3>1, Shorter
    <3>3. follows' \in [Listeners -> Seq(Points)]
      BY <1>1, <2>2, <3>1, <3>2 DEF DropFollower, Types
    <3> QED
      BY <1>1, <2>2, <3>3 DEF DropFollower, Calls
  <2>3. CASE FollowersDone
    <3>1. follows' = follows /\ call' = [call EXCEPT !.in = None, !.at = 1]
      BY <2>3 DEF FollowersDone, audience
    <3> DEFINE c == [call EXCEPT !.in = None]
    <3>2. c \in Calls /\ call' = [c EXCEPT !.at = 1]
      BY <1>1, <3>1 DEF Calls
    <3> HIDE DEF c
    <3>3. call' \in Calls
      BY <3>2 DEF Calls
    <3> QED
      BY <1>1, <3>1, <3>3 DEF Types
  <2> QED
    BY <2>1, <2>2, <2>3
<1>4. handler.step = "arm" /\ call' \in Calls \cup {None}
  BY <1>1, <1>3 DEF Shape, TakeListener, DropFollower, FollowersDone
<1>5. Types'
  BY <1>1, <1>2, <1>3 DEF Types, Calls, clock
<1> QED
  BY <1>1, <1>2, <1>4, <1>5 DEF Shape, clock

LEMMA QuietShape ==
    ASSUME Shape, Told \/ (\E l \in Listeners : Expire(l)) \/ (\E p \in Points : Gone(p)) \/ UNCHANGED vars
    PROVE  Shape'
<1>1. UNCHANGED << clock, table, timers, handler, started, executed, slipped >> /\ (call' = call \/ call' = None)
  BY DEF Told, Expire, Gone, vars, audience
<1>2. listening' \subseteq Listeners /\ present' \subseteq Points /\ follows' \in [Listeners -> Seq(Points)]
  BY DEF Told, Expire, Gone, vars, audience, Shape, Types
<1>3. Types'
  BY <1>1, <1>2 DEF Shape, Types, clock
<1> QED
  BY <1>1, <1>3 DEF Shape, clock

LEMMA TickShape == ASSUME Shape, Tick PROVE Shape'
<1>1. now \in Nat /\ now' = now + 1 /\ now < Horizon /\ Types
  BY NowType DEF Tick, Shape
<1>2. Day(now) \in Nat /\ Day(now') \in Nat /\ Day(now) <= Day(now')
  BY <1>1, DaysGrow, DayAndSecond
<1>3. now' \in 0..Horizon /\ 0..now \subseteq 0..now'
  BY <1>1, ScheduleAssumption
<1>4. executed' \in Seq([at : 0..now', action : Action])
  <2> DEFINE A == [at : 0..now, action : Action]
             B == [at : 0..now', action : Action]
  <2>1. executed \in Seq(A) /\ executed' = executed
    BY <1>1 DEF Types, Tick
  <2>2. A \subseteq B
    BY <1>3
  <2>3. executed' \in Seq(B)
    <3> HIDE DEF A, B
    <3> QED
      BY <2>1, <2>2
  <2> QED
    BY <2>3
<1>7. slipped' \in -1..Day(now')
  BY <1>1, <1>2 DEF Tick, Types
<1>5. Types'
  BY <1>1, <1>3, <1>4, <1>7 DEF Tick, Types, audience
<1>6. handler # None => handler.day \in Nat
  BY <1>1 DEF Types, Handler
<1> QED
  BY <1>1, <1>2, <1>5, <1>6 DEF Tick, Shape, audience

LEMMA StartShape == ASSUME Shape, Start PROVE Shape'
<1> DEFINE h == [step |-> "midnight", from |-> "start", sec |-> Sec(now), day |-> Day(now)]
<1>1. now \in Nat /\ Day(now) \in Nat /\ Sec(now) \in Seconds /\ plan \in Plan /\ Types
  BY NowType DEF Shape
<1>2. /\ started = None /\ timers = {} /\ handler = None /\ call = None /\ executed = << >>
      /\ started' = now /\ started' # None
      /\ UNCHANGED << clock, table, timers, call, audience, executed, slipped >>
  BY <1>1, ScheduleAssumption DEF Start, Shape, Types
<1>3. handler' = h /\ h \in Handler /\ h # None /\ h.step = "midnight" /\ h.day = Day(now)
  BY <1>1, HandlerIsNotNone DEF Start, Handler
<1> HIDE DEF h
<1>4. Types'
  BY <1>1, <1>2, <1>3 DEF Types, clock, audience
<1> QED
  BY <1>1, <1>2, <1>3, <1>4 DEF Shape, clock

(* The other readings of start leave a handler, of the day it is.           *)
LEMMA Reread ==
    ASSUME Shape, ReadMidnight \/ (FirstTable /\ table' # None)
    PROVE  /\ handler # None /\ handler.step \in {"midnight", "table"} /\ timers = {} /\ timers' = {}
           /\ handler' \in Handler /\ handler' # None /\ handler'.sec = handler.sec
           /\ \/ handler'.step = "table" /\ handler'.day = Day(now) /\ table' = table /\ call' = call
              \/ /\ handler'.step = "arm" /\ handler'.day = handler.day
                 /\ table' = Applicable(plan, Day(now)) /\ table' \in Table /\ call' \in Calls \cup {None}
           /\ FoundOn(handler.day) /\ UNCHANGED << clock, audience, started, executed >>
<1>1. /\ Types /\ handler # None /\ handler \in Handler /\ timers = {} /\ timers' = {}
      /\ FoundOn(handler.day) /\ UNCHANGED << clock, audience, started, executed >>
  BY DEF Shape, Types, ReadMidnight, FirstTable
<1>2. call = None \/ handler.step = "arm"
  BY DEF Shape
<1>3. CASE ReadMidnight
  <2>1. /\ handler' = [handler EXCEPT !.step = "table", !.day = Day(now)] /\ handler.step = "midnight"
        /\ table' = table /\ call' = call
    BY <1>3 DEF ReadMidnight
  <2>2. handler' \in Handler /\ handler'.step = "table" /\ handler'.day = Day(now) /\ handler'.sec = handler.sec
    BY <1>1, <2>1, NowType DEF Handler
  <2> QED
    BY <1>1, <2>1, <2>2, HandlerIsNotNone
<1>4. CASE FirstTable /\ table' # None
  <2>1. /\ handler' = [handler EXCEPT !.step = "arm"] /\ handler.step = "table" /\ SetAtStart(table')
        /\ table' = Applicable(plan, Day(now))
    BY <1>4 DEF FirstTable
  <2>2. handler' \in Handler /\ handler'.step = "arm" /\ handler'.day = handler.day /\ handler'.sec = handler.sec
    BY <1>1, <2>1 DEF Handler
  <2>3. table' \in Table /\ call = None
    BY <1>1, <1>2, <1>4, <2>1, ApplicableType, NowType
  <2>4. call' \in Calls \cup {None}
    <3> DEFINE found == BeforeOrAt(table', handler.sec)
    <3>1. CASE found # {} /\ table'[Min(found)].do = "SET"
      <4>1. found \in SUBSET Nat /\ found \subseteq Times(table')
        BY <2>3, TimesType, ScheduleAssumption DEF BeforeOrAt, Seconds
      <4>2. Min(found) \in Times(table')
        <5> HIDE DEF found
        <5> QED
          BY <3>1, <4>1, Earliest
      <4>3. table'[Min(found)] \in Action
        BY <2>3, <4>2, TimesType
      <4>4. Notify(table'[Min(found)])
        BY <2>1, <3>1 DEF SetAtStart
      <4> QED
        BY <1>1, <4>3, <4>4 DEF Notify, Calls, Types
    <3>2. CASE ~ (found # {} /\ table'[Min(found)].do = "SET")
      BY <2>1, <2>3, <3>2 DEF SetAtStart
    <3> QED
      BY <3>1, <3>2
  <2> QED
    BY <1>1, <2>1, <2>2, <2>3, <2>4, HandlerIsNotNone
<1> QED
  BY <1>3, <1>4

LEMMA RereadShape == ASSUME Shape, ReadMidnight \/ (FirstTable /\ table' # None) PROVE Shape'
<1>1. Types /\ now' = now /\ Day(now) \in Nat /\ handler.day \in Nat /\ handler.day <= Day(now)
  BY Reread, NowType DEF Shape, Types, Handler, clock
<1>2. slipped' \in -1..Day(now)
  BY <1>1, Reread, Found
<1>3. table' \in Table \cup {None} /\ call' \in Calls \cup {None} /\ (call' # None => handler'.step = "arm")
  <2>1. table \in Table \cup {None} /\ call \in Calls \cup {None} /\ (call # None => handler.step = "arm")
    BY <1>1 DEF Shape, Types, Calls
  <2> QED
    BY <2>1, Reread
<1>4. Types'
  BY <1>1, <1>2, <1>3, Reread DEF Types, Calls, clock, audience
<1>5. handler'.day <= Day(now') /\ started' # None
  BY <1>1, Reread DEF Shape
<1>6. handler'.step = "arm" => table' # None
  BY Reread, ScheduleAssumption
<1> QED
  BY <1>3, <1>4, <1>5, <1>6, Reread DEF Shape

(* What the event in hand is, and the handler it starts.                    *)
LEMMA EventInHand ==
    ASSUME Shape, NEW e \in timers, CatchTimeEvent(e)
    PROVE  /\ timers = {e} /\ timers' = {} /\ e \in Event /\ e.at \in Nat /\ e.at <= now
           /\ handler = None /\ call = None /\ started # None /\ started' = started
           /\ Day(e.at) \in Nat /\ Sec(e.at) \in Seconds /\ Day(e.at) <= Day(now)
           /\ UNCHANGED << clock, table, audience >>
           /\ (CatchTomorrow(e) /\ Sec(e.at) = 0) \/ (CatchNextEvent(e) /\ table \in Table)
<1>1. timers = {e} /\ timers' = {} /\ handler = None
  BY DEF CatchTimeEvent, Shape
<1>2. e \in Event /\ e.at \in Nat /\ e.at <= now
  BY DEF CatchTimeEvent, Shape, Types, Event
<1>3. started # None /\ call = None
  BY <1>1 DEF Shape, Types
<1>4. Day(e.at) \in Nat /\ Sec(e.at) \in Seconds /\ Day(e.at) <= Day(now)
  BY <1>2, DaysGrow, DayAndSecond, NowType DEF Shape
<1>5. (CatchTomorrow(e) /\ Sec(e.at) = 0) \/ (CatchNextEvent(e) /\ table \in Table)
  BY DEF CatchTimeEvent, CatchTomorrow, CatchNextEvent, Shape, Types
<1> QED
  BY <1>1, <1>2, <1>3, <1>4, <1>5 DEF CatchTimeEvent

(* What catching an event leaves: a handler, and one action more or none.   *)
LEMMA Caught ==
    ASSUME Shape, NEW e \in timers, CatchTimeEvent(e)
    PROVE  /\ handler' \in Handler /\ handler' # None /\ handler'.day = Day(now)
           /\ \/ /\ handler'.step = "choose" /\ call' = None /\ executed' = executed /\ Sec(e.at) = 0
              \/ /\ handler'.step = "arm" /\ handler'.sec = Sec(e.at) /\ table \in Table
                 /\ e.token = "NextEvent"
                 /\ \/ table[Sec(e.at)] = None /\ call' = None /\ executed' = executed
                    \/ /\ table[Sec(e.at)] \in Action /\ call' \in Calls
                       /\ executed' = Append(executed, [at |-> e.at, action |-> table[Sec(e.at)]])
<1>1. now \in Nat /\ Day(now) \in Nat /\ Sec(now) \in Seconds
  BY NowType DEF Shape
<1>2. CASE CatchTomorrow(e) /\ Sec(e.at) = 0
  <2>1. handler' = [step |-> "choose", from |-> "event", sec |-> Sec(now), day |-> Day(now)]
    BY <1>2 DEF CatchTomorrow
  <2>2. handler' \in Handler
    BY <1>1, <2>1 DEF Handler
  <2> QED
    BY <1>2, <2>1, <2>2, EventInHand, HandlerIsNotNone DEF CatchTomorrow
<1>3. CASE CatchNextEvent(e) /\ table \in Table
  <2>1. handler' = [step |-> "arm", from |-> "event", sec |-> Sec(e.at), day |-> Day(now)]
    BY <1>3 DEF CatchNextEvent
  <2>2. handler' \in Handler /\ handler' # None
    BY <1>1, <2>1, EventInHand, HandlerIsNotNone DEF Handler
  <2>3. CASE table[Sec(e.at)] = None
    BY <1>3, <2>1, <2>2, <2>3, EventInHand DEF CatchNextEvent
  <2>4. CASE table[Sec(e.at)] # None
    <3>1. table[Sec(e.at)] \in Action
      BY <1>3, <2>4, EventInHand DEF Table
    <3>2. /\ Notify(table[Sec(e.at)])
          /\ executed' = Append(executed, [at |-> e.at, action |-> table[Sec(e.at)]])
      BY <1>3, <2>4 DEF CatchNextEvent
    <3>3. call' \in Calls
      BY <3>1, <3>2 DEF Notify, Calls, Shape, Types
    <3> QED
      BY <1>3, <2>1, <2>2, <3>1, <3>2, <3>3 DEF CatchNextEvent
  <2> QED
    BY <2>3, <2>4
<1> QED
  BY <1>2, <1>3, EventInHand

LEMMA CatchShape == ASSUME Shape, NEW e \in timers, CatchTimeEvent(e) PROVE Shape'
<1>1. executed' \in Seq([at : 0..now, action : Action])
  <2> DEFINE A == [at : 0..now, action : Action]
             x == [at |-> e.at, action |-> table[Sec(e.at)]]
  <2>1. executed \in Seq(A)
    BY DEF Shape, Types
  <2>2. executed' = executed \/ (executed' = Append(executed, x) /\ x \in A)
    BY Caught, EventInHand, NowType DEF Shape
  <2>3. executed' \in Seq(A)
    <3> HIDE DEF A, x
    <3> QED
      BY <2>1, <2>2
  <2> QED
    BY <2>3
<1>2. slipped' \in -1..Day(now)
  BY EventInHand, Found DEF CatchTimeEvent, Shape
<1>3. call' \in Calls \cup {None} /\ (call' # None => handler'.step = "arm")
  BY Caught
<1>4. Types'
  BY <1>1, <1>2, <1>3, Caught, EventInHand DEF Shape, Types, Calls, clock, audience
<1>5. handler'.day <= Day(now') /\ Day(now') = Day(now)
  <2>1. now' = now /\ Day(now) \in Nat /\ handler'.day = Day(now)
    BY Caught, EventInHand, NowType DEF Shape, clock
  <2> QED
    BY <2>1
<1>6. handler'.step = "arm" => table' # None
  BY Caught, EventInHand, ScheduleAssumption
<1> QED
  BY <1>3, <1>4, <1>5, <1>6, Caught, EventInHand DEF Shape

(* To the end of the day.                                                   *)
LEMMA RestOfDay ==
    ASSUME NEW d \in Nat, NEW s \in -1..(DayLen - 1)
    PROVE  /\ Midnight(d + 1) \in Nat /\ Midnight(d) + s < Midnight(d + 1)
           /\ \A t \in Nat : Midnight(d) + s < t /\ t < Midnight(d + 1) => Day(t) = d
<1> DEFINE tab == [y \in Seconds |-> None]
<1>1. tab \in Table /\ Times(tab) = {}
  BY DEF Table, Times
<1> HIDE DEF tab
<1>2. After(tab, s) = {}
  BY <1>1 DEF After
<1>3. Following(tab, d, s) = Midnight(d + 1)
  BY <1>2 DEF Following
<1> QED
  BY <1>1, <1>3, Between

LEMMA TomorrowType ==
    ASSUME NEW d \in Nat
    PROVE  Tomorrow(d) \in Event /\ Tomorrow(d).at = Midnight(d + 1) /\ Sec(Tomorrow(d).at) = 0
<1>1. 0 \in Seconds /\ d + 1 \in Nat
  BY ScheduleAssumption DEF Seconds
<1>2. Midnight(d + 1) \in Nat /\ Sec(Midnight(d + 1) + 0) = 0
  BY <1>1, MomentOf, MidnightType
<1> QED
  BY <1>2 DEF Tomorrow, Event

(* What setting the next event of a table on a day leaves.                  *)
LEMMA NextOfTable ==
    ASSUME NEW tab \in Table, NEW d \in Nat, NEW s \in -1..(DayLen - 1), NEW f,
           f = IF After(tab, s) # {} THEN NextEvent(Midnight(d) + Min(After(tab, s))) ELSE Tomorrow(d)
    PROVE  /\ f \in Event /\ Midnight(d) + s < f.at /\ f.at <= Midnight(d + 1)
           /\ f.token = "Tomorrow" => Sec(f.at) = 0
           /\ f.token = "NextEvent" => Day(f.at) = d
           /\ \A t \in Nat : Midnight(d) + s < t /\ t < f.at => Day(t) = d /\ tab[Sec(t)] = None
<1> DEFINE later == After(tab, s)
<1>1. f = IF later # {} THEN NextEvent(Midnight(d) + Min(later)) ELSE Tomorrow(d)
  OBVIOUS
<1>2. later \in SUBSET Nat /\ later \subseteq Seconds
  BY TimesType, ScheduleAssumption DEF Seconds, After
<1>3. f.at = Following(tab, d, s)
  BY <1>1 DEF Tomorrow, NextEvent, Following
<1>4. /\ f.at \in Nat /\ Midnight(d) + s < f.at /\ f.at <= Midnight(d + 1)
      /\ \A t \in Nat : Midnight(d) + s < t /\ t < f.at => Day(t) = d /\ tab[Sec(t)] = None
  BY <1>3, Between
<1>5. CASE later = {}
  BY <1>1, <1>4, <1>5, TomorrowType DEF Tomorrow
<1>6. CASE later # {}
  <2> HIDE DEF later
  <2>1. f = NextEvent(Midnight(d) + Min(later)) /\ Min(later) \in Seconds
    BY <1>1, <1>2, <1>6, Earliest
  <2>2. Day(f.at) = d
    BY <2>1, MomentOf DEF NextEvent
  <2> QED
    BY <1>4, <2>1, <2>2 DEF NextEvent, Event
<1> QED
  BY <1>5, <1>6

LEMMA HandlerInHand ==
    ASSUME Shape, handler # None
    PROVE  /\ handler \in Handler /\ handler.day \in Nat /\ handler.sec \in Seconds /\ Resumes(handler) \in Nat
           /\ timers = {} /\ started # None /\ handler.day <= Day(now)
           /\ handler.step = "arm" => table \in Table
<1>1. handler \in Handler /\ timers = {} /\ started # None /\ handler.day <= Day(now)
  BY DEF Shape, Types
<1>2. handler.day \in Nat /\ handler.sec \in Seconds /\ handler.sec \in Nat
  BY <1>1, ScheduleAssumption DEF Handler, Seconds
<1>3. Resumes(handler) \in Nat
  BY <1>2, MidnightType DEF Resumes
<1>4. handler.step = "arm" => table \in Table
  BY DEF Shape, Types
<1> QED
  BY <1>1, <1>2, <1>3, <1>4

(* What the end of a handler sets: an event no earlier than where it goes   *)
(* on and no later than the next midnight, with nothing of the table in     *)
(* between if the day is still the same.                                    *)
Sets(f) ==
    /\ timers' = {f} /\ f \in Event /\ Resumes(handler) <= f.at /\ f.at <= Midnight(Day(now) + 1)
    /\ f.token = "Tomorrow" => Sec(f.at) = 0
    /\ f.token = "NextEvent" => table' \in Table /\ Day(f.at) \in {handler.day, Day(now)}
    /\ \A t \in Nat : Day(now) = handler.day /\ Resumes(handler) <= t /\ t < f.at
                      => Day(t) = handler.day /\ (table' # None => table'[Sec(t)] = None)

(* At the start: what is left of the day has no table.                      *)
LEMMA FirstSets == ASSUME Shape, FirstTable, table' = None PROVE \E f \in Event : Sets(f)
<1> DEFINE d == handler.day
<1>1. /\ handler # None /\ handler.step = "table" /\ timers = {} /\ timers' = {Tomorrow(d)}
      /\ d \in Nat /\ d <= Day(now) /\ Day(now) \in Nat
      /\ handler.sec \in Nat /\ handler.sec \in -1..(DayLen - 1)
      /\ Midnight(d) \in Nat /\ Resumes(handler) = Midnight(d) + handler.sec + 1
  <2>1. handler # None /\ handler.step = "table" /\ timers = {} /\ timers' = {Tomorrow(d)}
    BY HandlerInHand DEF FirstTable
  <2>2. d \in Nat /\ d <= Day(now) /\ Day(now) \in Nat /\ handler.sec \in Seconds /\ Midnight(d) \in Nat
    BY <2>1, HandlerInHand, MidnightType, NowType DEF Shape
  <2> QED
    BY <2>1, <2>2, ScheduleAssumption DEF Resumes, Seconds
<1>2. /\ Midnight(d + 1) \in Nat /\ Midnight(d) + handler.sec < Midnight(d + 1)
      /\ \A t \in Nat : Midnight(d) + handler.sec < t /\ t < Midnight(d + 1) => Day(t) = d
  BY <1>1, RestOfDay
<1>3. Midnight(d + 1) <= Midnight(Day(now) + 1)
  BY <1>1, MidnightsGrow
<1>4. Resumes(handler) <= Midnight(d + 1)
  BY <1>1, <1>2
<1>5. \A t \in Nat : Resumes(handler) <= t /\ t < Midnight(d + 1) => Day(t) = d
  BY <1>1, <1>2
<1>6. Tomorrow(d) \in Event /\ Tomorrow(d).at = Midnight(d + 1) /\ Sec(Tomorrow(d).at) = 0 /\ Tomorrow(d).token = "Tomorrow"
  BY <1>1, TomorrowType DEF Tomorrow
<1> QED
  BY <1>1, <1>3, <1>4, <1>5, <1>6 DEF Sets

LEMMA ChooseSets == ASSUME Shape, ChooseTable PROVE \E f \in Event : Sets(f)
<1> DEFINE d == handler.day
<1>1. /\ handler # None /\ handler.step = "choose" /\ table' = Applicable(plan, Day(now))
      /\ timers = {} /\ d \in Nat /\ Resumes(handler) = Midnight(d) /\ Midnight(d) \in Nat
  BY HandlerInHand, MidnightType DEF ChooseTable, Resumes
<1>2. table' \in Table \cup {None} /\ -1 \in -1..(DayLen - 1)
  BY <1>1, NowType, ApplicableType, ScheduleAssumption DEF Shape
<1>5. /\ Midnight(d + 1) <= Midnight(Day(now) + 1) /\ Midnight(d + 1) \in Nat
      /\ Midnight(Day(now) + 1) \in Nat
  <2>1. d \in Nat /\ d <= Day(now) /\ Day(now) \in Nat
    BY <1>1, HandlerInHand, NowType DEF Shape
  <2>2. d + 1 \in Nat /\ Day(now) + 1 \in Nat /\ d + 1 <= Day(now) + 1
    BY <2>1
  <2> QED
    BY <2>2, MidnightsGrow, MidnightType
<1>3. CASE table' = None
  <2>1. timers' = {Tomorrow(d)}
    BY <1>1, <1>3 DEF ChooseTable
  <2>2. \A t \in Nat : Midnight(d) <= t /\ t < Tomorrow(d).at => Day(t) = d
    BY <1>1, <1>2, RestOfDay, TomorrowType
  <2>3. Midnight(d) <= Tomorrow(d).at
    BY <1>1, NextMidnight, TomorrowType, ScheduleAssumption
  <2>5. Tomorrow(d).at <= Midnight(Day(now) + 1)
    BY <1>1, <1>5, TomorrowType
  <2>4. Sets(Tomorrow(d))
    BY <1>1, <1>3, <2>1, <2>2, <2>3, <2>5, TomorrowType DEF Sets, Tomorrow
  <2> QED
    BY <2>4, <1>1, TomorrowType
<1>4. CASE table' # None
  <2> DEFINE f == IF After(table', -1) # {} THEN NextEvent(Midnight(d) + Min(After(table', -1))) ELSE Tomorrow(d)
  <2>1. table' \in Table
    BY <1>2, <1>4
  <2>2. After(table', -1) = Times(table')
    BY <2>1, TimesType, ScheduleAssumption DEF After, Seconds
  <2>3. timers' = {f}
    BY <1>1, <1>4, <2>2 DEF ChooseTable
  <2>4. /\ f \in Event /\ Midnight(d) + (-1) < f.at /\ f.at <= Midnight(d + 1)
        /\ f.token = "Tomorrow" => Sec(f.at) = 0
        /\ f.token = "NextEvent" => Day(f.at) = d
        /\ \A t \in Nat : Midnight(d) + (-1) < t /\ t < f.at => Day(t) = d /\ table'[Sec(t)] = None
    BY <1>1, <1>2, <2>1, NextOfTable
  <2> HIDE DEF f
  <2>5. Sets(f)
    BY <1>1, <1>5, <2>1, <2>3, <2>4 DEF Sets, Event
  <2> QED
    BY <2>4, <2>5
<1> QED
  BY <1>3, <1>4

LEMMA ArmSets == ASSUME Shape, Arm PROVE \E f \in Event : Sets(f)
<1>1. /\ handler # None /\ handler.step = "arm" /\ table' = table /\ table \in Table /\ timers = {}
      /\ handler.day \in Nat /\ handler.sec \in Seconds /\ handler.sec \in -1..(DayLen - 1)
      /\ Resumes(handler) = Midnight(handler.day) + handler.sec + 1
      /\ Midnight(handler.day) \in Nat /\ handler.day <= Day(now) /\ Day(now) \in Nat
  <2>1. handler # None /\ handler.step = "arm" /\ table' = table
    BY DEF Arm
  <2>2. /\ table \in Table /\ timers = {} /\ handler.day \in Nat /\ handler.sec \in Seconds
        /\ Midnight(handler.day) \in Nat /\ handler.day <= Day(now) /\ Day(now) \in Nat
    BY <2>1, HandlerInHand, MidnightType, NowType DEF Shape
  <2>3. Resumes(handler) = Midnight(handler.day) + handler.sec + 1 /\ handler.sec \in -1..(DayLen - 1)
    BY <2>1, <2>2, ScheduleAssumption DEF Resumes, Seconds
  <2> QED
    BY <2>1, <2>2, <2>3
<1> DEFINE later == After(table, handler.sec)
           g(d) == IF later # {} THEN NextEvent(Midnight(d) + Min(later)) ELSE Tomorrow(d)
<1>2. PICK d \in {handler.day, Day(now)} : timers' = {g(d)}
  <2>1. CASE later # {}
    BY <1>1, <2>1 DEF Arm
  <2>2. CASE later = {} /\ handler.from = "start"
    BY <1>1, <2>2 DEF Arm
  <2>3. CASE later = {} /\ handler.from # "start"
    BY <1>1, <2>3 DEF Arm
  <2> QED
    BY <2>1, <2>2, <2>3
<1> DEFINE f == g(d)
<1>3. /\ f \in Event /\ Midnight(d) + handler.sec < f.at /\ f.at <= Midnight(d + 1)
      /\ f.token = "Tomorrow" => Sec(f.at) = 0
      /\ f.token = "NextEvent" => Day(f.at) = d
      /\ \A t \in Nat : Midnight(d) + handler.sec < t /\ t < f.at => Day(t) = d /\ table[Sec(t)] = None
  BY <1>1, NextOfTable
<1> HIDE DEF f
<1>4. timers' = {f}
  BY <1>2 DEF f
<1>5. Midnight(handler.day) <= Midnight(d) /\ Midnight(d) \in Nat /\ handler.sec \in Nat
  BY <1>1, MidnightsGrow, MidnightType, ScheduleAssumption DEF Seconds
<1>6. f.at \in Nat
  BY <1>3 DEF Event
<1>7. Resumes(handler) <= f.at
  BY <1>1, <1>3, <1>5, <1>6
<1>8. \A t \in Nat : Day(now) = handler.day /\ Resumes(handler) <= t /\ t < f.at
                     => Day(t) = handler.day /\ table'[Sec(t)] = None
  BY <1>1, <1>3, <1>5
<1>10. f.at <= Midnight(Day(now) + 1)
  <2>1. /\ Midnight(d + 1) <= Midnight(Day(now) + 1) /\ Midnight(d + 1) \in Nat
        /\ Midnight(Day(now) + 1) \in Nat
    BY <1>1, MidnightsGrow, MidnightType
  <2> QED
    BY <1>3, <1>6, <2>1
<1>9. Sets(f)
  BY <1>1, <1>3, <1>4, <1>7, <1>8, <1>10 DEF Sets
<1> QED
  BY <1>3, <1>9

(* The ends of a handler.                                                   *)
Ends == ChooseTable \/ Arm \/ (FirstTable /\ table' = None)

LEMMA HandlerEnds ==
    ASSUME Shape, Ends
    PROVE  /\ handler # None /\ handler' = None /\ call = None /\ call' = call
           /\ UNCHANGED << clock, audience, started, executed >>
           /\ FoundOn(handler.day)
           /\ table' = IF handler.step = "arm" THEN table ELSE Applicable(plan, Day(now))
           /\ \E f \in Event : Sets(f)
<1>1. CASE ChooseTable
  <2>1. call = None
    BY <1>1 DEF Shape, ChooseTable
  <2> QED
    BY <1>1, <2>1, ChooseSets DEF ChooseTable
<1>2. CASE Arm
  BY <1>2, ArmSets DEF Arm
<1>3. CASE FirstTable /\ table' = None
  <2>1. call = None
    BY <1>3 DEF Shape, FirstTable
  <2> QED
    BY <1>3, <2>1, FirstSets DEF FirstTable
<1> QED
  BY <1>1, <1>2, <1>3 DEF Ends

LEMMA EndShape == ASSUME Shape, Ends PROVE Shape'
<1>1. PICK f \in Event : Sets(f)
  BY HandlerEnds
<1>2. timers' = {f} /\ timers' \subseteq Event
  BY <1>1 DEF Sets
<1>3. table' \in Table \cup {None}
  BY HandlerEnds, NowType, ApplicableType DEF Shape, Types
<1>7. slipped' \in -1..Day(now) /\ now' = now
  BY HandlerEnds, HandlerInHand, Found DEF Shape, clock
<1>4. Types'
  BY <1>2, <1>3, <1>7, HandlerEnds DEF Shape, Types, clock, audience
<1>5. started' # None /\ handler' = None /\ call' = None
  BY HandlerEnds, HandlerInHand
<1>6. /\ f.token = "Tomorrow" => Sec(f.at) = 0
      /\ f.token = "NextEvent" => table' # None
  BY <1>1, ScheduleAssumption DEF Sets
<1> QED
  BY <1>1, <1>2, <1>4, <1>5, <1>6 DEF Shape

LEMMA NextShape == Shape /\ [Next]_vars => Shape'
BY StartShape, RereadShape, CatchShape, EndShape, TellShape, QuietShape, TickShape DEF Next, Run, Ends

(* Every variable has its type, and a schedule that was started waits for   *)
(* exactly one event or is handling it.                                     *)
THEOREM ScheduleTypeInvariant == Spec => []TypeOK
<1>1. Shape => TypeOK
  <2> SUFFICES ASSUME Shape
               PROVE  Cardinality(timers) = IF started = None \/ handler # None THEN 0 ELSE 1
    BY DEF TypeOK, Shape
  <2>1. CASE timers = {}
    BY <2>1, FS_EmptySet DEF Shape
  <2>2. CASE timers # {}
    <3>1. Cardinality(timers) = 1
      BY <2>2, FS_Singleton DEF Shape
    <3> QED
      BY <2>2, <3>1 DEF Shape
  <2> QED
    BY <2>1, <2>2
<1> QED
  BY <1>1, InitShape, NextShape, PTL DEF Spec

(* The rule for the n-th of a day of the week holds exactly on that day.    *)
THEOREM NamedDaysAreRight == Spec => []OnNamedDays
<1>1. Shape => OnNamedDays
  <2> SUFFICES ASSUME Shape, NEW i \in 1..7, NEW n \in 1..5
               PROVE  LET today == DateOf(plan, Day(now))
                      IN Examine([subject |-> MonthDays[i], compare |-> "EQUAL", value |-> n], today)
                         <=> /\ today.wday = i - 1
                             /\ Cardinality({d \in 1..today.mday : (today.mday - d) % 7 = 0}) = n
    BY DEF OnNamedDays
  <2> DEFINE today == DateOf(plan, Day(now))
  <2>1. today \in Date
    BY NowType, DateOfType DEF Shape
  <2> HIDE DEF today
  <2>2. today.mday \in Nat
    BY <2>1 DEF Date
  <2>3. Occurrence(today) = Cardinality({d \in 1..today.mday : (today.mday - d) % 7 = 0})
    BY <2>2, OccurrenceCounts DEF Occurrence
  <2>4. Examine([subject |-> MonthDays[i], compare |-> "EQUAL", value |-> n], today)
         <=> today.wday = i - 1 /\ Occurrence(today) = n
    BY <2>1, NamedDay
  <2> QED
    BY <2>3, <2>4 DEF today
<1> QED
  BY <1>1, InitShape, NextShape, PTL DEF Spec

-----------------------------------------------------------------------------
(* The books.                                                               *)
LEMMA QuietBooks ==
    ASSUME Books, UNCHANGED << plan, table, timers, handler, started, executed, slipped >>
    PROVE  Books'
<1>1. \A t : (Behind(t)' <=> Behind(t)) /\ Planned(t)' = Planned(t) /\ (Executed(t)' <=> Executed(t))
  BY DEF Behind, Planned, Executed
<1> QED
  BY <1>1 DEF Books, Ordered, Current, Complete

LEMMA LastType ==
    ASSUME Shape, executed # << >>
    PROVE  Last(executed).at \in Nat
<1> DEFINE A == [at : 0..now, action : Action]
<1>1. executed \in Seq(A) /\ now \in Nat
  BY NowType DEF Shape, Types
<1>2. Last(executed) \in A
  <2> HIDE DEF A
  <2> QED
    BY <1>1 DEF Last
<1> QED
  BY <1>1, <1>2

LEMMA StartBooks == ASSUME Shape, Books, Start PROVE Books'
<1> DEFINE h == [step |-> "midnight", from |-> "start", sec |-> Sec(now), day |-> Day(now)]
<1>1. /\ now \in Nat /\ Sec(now) \in Nat /\ Midnight(Day(now)) \in Nat
      /\ now = Midnight(Day(now)) + Sec(now)
  BY NowType, DayAndSecond, MidnightType, ScheduleAssumption DEF Shape, Seconds
<1>2. /\ timers = {} /\ timers' = {} /\ executed = << >> /\ executed' = << >> /\ started' = now
  BY DEF Start, Shape
<1>3. handler' = h /\ h \in Handler
  BY NowType DEF Start, Shape, Handler
<1>4. handler' # None /\ handler'.step = "midnight" /\ Resumes(handler') = Midnight(Day(now)) + (Sec(now) + 1)
  BY <1>3, HandlerIsNotNone DEF Resumes
<1>5. Ordered' /\ Current'
  BY <1>2, <1>4 DEF Ordered, Current
<1>6. ASSUME NEW t \in Nat, now < t, Behind(t)' PROVE FALSE
  BY <1>1, <1>4, <1>6 DEF Behind
<1>7. Complete'
  BY <1>2, <1>6 DEF Complete
<1> QED
  BY <1>5, <1>7 DEF Books

(* The start reads the clock again: nothing more is behind, but for days it *)
(* slipped to.                                                              *)
LEMMA RereadBooks ==
    ASSUME Shape, Books, ReadMidnight \/ (FirstTable /\ table' # None) PROVE Books'
<1> DEFINE d == handler.day
           r == Resumes(handler)
           r1 == Resumes(handler')
<1>1. /\ handler # None /\ d \in Nat /\ handler.sec \in Nat /\ handler.sec < DayLen /\ DayLen \in Nat
      /\ d <= Day(now) /\ Day(now) \in Nat /\ Midnight(d) \in Nat
      /\ handler.step \in {"midnight", "table"} /\ timers = {} /\ timers' = {}
      /\ plan' = plan /\ started' = started /\ executed' = executed
  <2>1. /\ handler # None /\ handler.step \in {"midnight", "table"} /\ timers = {} /\ timers' = {}
        /\ plan' = plan /\ started' = started /\ executed' = executed
    BY Reread DEF clock
  <2>2. d \in Nat /\ d <= Day(now) /\ Day(now) \in Nat /\ handler.sec \in Seconds /\ Midnight(d) \in Nat
    BY <2>1, HandlerInHand, NowType, MidnightType DEF Shape
  <2> QED
    BY <2>1, <2>2, ScheduleAssumption DEF Seconds
<1>2. /\ handler' # None /\ handler'.sec = handler.sec /\ handler'.step \in {"table", "arm"}
      /\ handler'.day \in {d, Day(now)}
  BY Reread
<1>3. r = Midnight(d) + (handler.sec + 1) /\ r1 = Midnight(handler'.day) + (handler.sec + 1)
  BY <1>1, <1>2 DEF Resumes
<1>4. /\ Midnight(d) <= Midnight(handler'.day) /\ Midnight(handler'.day) \in Nat
      /\ Midnight(handler'.day + 1) <= Midnight(Day(now) + 1) /\ Midnight(Day(now) + 1) \in Nat
      /\ Midnight(handler'.day + 1) = Midnight(handler'.day) + DayLen
  <2>1. /\ handler'.day \in Nat /\ d <= handler'.day /\ handler'.day <= Day(now)
        /\ handler'.day + 1 \in Nat /\ Day(now) + 1 \in Nat /\ handler'.day + 1 <= Day(now) + 1
    BY <1>1, <1>2
  <2> QED
    BY <1>1, <2>1, MidnightType, MidnightsGrow, NextMidnight
<1>5. r \in Nat /\ r1 \in Nat /\ r <= r1 /\ r1 <= Midnight(Day(now) + 1)
  BY <1>1, <1>3, <1>4
<1>6. /\ slipped \in Int /\ slipped' \in Int
      /\ Day(now) > slipped' => Day(now) = d /\ slipped' = slipped
  BY <1>1, Reread, Found DEF Shape
<1> HIDE DEF r, r1
<1>7. \A t : (Behind(t) <=> t < r) /\ (Behind(t)' <=> t < r1)
  BY <1>1, <1>2 DEF Behind, r, r1
<1>8. Ordered'
  <2> SUFFICES ASSUME executed # << >> PROVE Last(executed).at < r1
    BY <1>1, <1>7 DEF Ordered
  <2>1. Last(executed).at < r
    BY <1>7 DEF Books, Ordered
  <2> QED
    BY <2>1, <1>5, LastType
<1>9. Current'
  <2> SUFFICES ASSUME handler'.step = "arm", handler'.day > slipped'
               PROVE  table' = Applicable(plan, handler'.day)
    BY <1>1 DEF Current
  <2>1. handler'.day = d /\ table' = Applicable(plan, Day(now))
    BY Reread
  <2>2. Day(now) > slipped'
    BY <2>1, <1>1, <1>6
  <2> QED
    BY <2>1, <2>2, <1>6
<1>10. Complete'
  <2> SUFFICES ASSUME NEW t \in Nat, started # None, started < t, Planned(t) # None, Day(t) > slipped', t < r1
               PROVE  Executed(t)
    BY <1>1, <1>7 DEF Complete, Planned, Executed
  <2>1. Day(t) \in Nat /\ Day(t) <= Day(now)
    BY <1>1, <1>4, <1>5, Beyond, DayAndSecond
  <2>2. Day(now) = d /\ slipped' = slipped
    BY <2>1, <1>1, <1>6
  <2>3. r1 = r
    BY <2>2, <1>2, <1>3 DEF r, r1
  <2> QED
    BY <2>2, <2>3, <1>7 DEF Books, Complete
<1> QED
  BY <1>8, <1>9, <1>10 DEF Books

(* Where the handler of an event goes on: never before the event, not after *)
(* the next midnight, and just after the event if it is still its day.      *)
LEMMA CaughtResumes ==
    ASSUME Shape, NEW e \in timers, CatchTimeEvent(e)
    PROVE  /\ Resumes(handler') \in Nat /\ e.at <= Resumes(handler')
           /\ Resumes(handler') <= Midnight(Day(now) + 1)
           /\ handler'.step = "arm" => e.at < Resumes(handler')
           /\ slipped \in Int /\ slipped' \in Int
           /\ Day(now) > slipped'
                => /\ slipped' = slipped /\ Day(now) = Day(e.at)
                   /\ Resumes(handler') = IF handler'.step = "arm" THEN e.at + 1 ELSE e.at
<1>1. /\ e.at \in Nat /\ Day(e.at) \in Nat /\ Sec(e.at) \in Nat /\ e.at = Midnight(Day(e.at)) + Sec(e.at)
      /\ Day(e.at) <= Day(now) /\ Day(now) \in Nat /\ Sec(e.at) < DayLen /\ DayLen \in Nat \ {0}
  <2>1. e.at \in Nat /\ Day(e.at) \in Nat /\ Sec(e.at) \in Seconds /\ Day(e.at) <= Day(now) /\ Day(now) \in Nat
    BY EventInHand, NowType DEF Shape
  <2>2. Sec(e.at) \in Nat /\ Sec(e.at) < DayLen /\ DayLen \in Nat \ {0}
    BY <2>1, ScheduleAssumption DEF Seconds
  <2> QED
    BY <2>1, <2>2, DayAndSecond
<1>2. /\ Midnight(Day(e.at)) \in Nat /\ Midnight(Day(now)) \in Nat /\ Midnight(Day(e.at)) <= Midnight(Day(now))
      /\ Midnight(Day(now) + 1) = Midnight(Day(now)) + DayLen
  BY <1>1, MidnightType, MidnightsGrow, NextMidnight
<1>3. \/ handler'.step = "choose" /\ Sec(e.at) = 0 /\ Resumes(handler') = Midnight(Day(now)) + 0
      \/ handler'.step = "arm" /\ Resumes(handler') = Midnight(Day(now)) + (Sec(e.at) + 1)
  BY Caught DEF Resumes
<1>4. /\ slipped \in Int /\ slipped' \in Int
      /\ Day(now) > slipped' => Day(now) = Day(e.at) /\ slipped' = slipped
  BY <1>1, Found DEF CatchTimeEvent, Shape
<1>6. CASE handler'.step = "choose"
  <2>1. Sec(e.at) = 0 /\ Resumes(handler') = Midnight(Day(now)) + 0
    BY <1>3, <1>6
  <2> QED
    BY <1>1, <1>2, <1>4, <1>6, <2>1
<1>7. CASE handler'.step = "arm"
  <2>1. Resumes(handler') = Midnight(Day(now)) + (Sec(e.at) + 1)
    BY <1>3, <1>7
  <2> QED
    BY <1>1, <1>2, <1>4, <1>7, <2>1
<1> QED
  BY <1>3, <1>6, <1>7

(* What catching an event tells.                                            *)
LEMMA CaughtTells ==
    ASSUME Shape, NEW e \in timers, CatchTimeEvent(e), executed' # executed
    PROVE  /\ executed' # << >> /\ Last(executed') = [at |-> e.at, action |-> table[Sec(e.at)]]
           /\ \A t : Executed(t)' <=> Executed(t) \/ t = e.at
           /\ handler'.step = "arm" /\ table \in Table /\ e.token = "NextEvent"
<1> DEFINE A == [at : 0..now, action : Action]
           x == [at |-> e.at, action |-> table[Sec(e.at)]]
<1>1. executed \in Seq(A) /\ executed' = Append(executed, x) /\ x.at = e.at
  BY Caught DEF Shape, Types
<1>2. handler'.step = "arm" /\ table \in Table /\ e.token = "NextEvent"
  BY Caught
<1> HIDE DEF A, x
<1>3. Len(executed) \in Nat /\ Len(executed') = Len(executed) + 1 /\ executed'[Len(executed')] = x
  BY <1>1
<1>4. /\ DOMAIN executed = 1..Len(executed) /\ DOMAIN executed' = 1..Len(executed')
      /\ \A i \in 1..Len(executed) : executed'[i] = executed[i]
  BY <1>1
<1>5. executed' # << >> /\ Last(executed') = x
  BY <1>1, <1>3 DEF Last
<1>6. ASSUME NEW t PROVE Executed(t)' <=> Executed(t) \/ t = e.at
  <2>1. CASE Executed(t)
    BY <2>1, <1>3, <1>4 DEF Executed
  <2>2. CASE t = e.at
    <3>1. Len(executed') \in 1..Len(executed')
      BY <1>3
    <3>2. executed'[Len(executed')].at = t
      BY <2>2, <1>1, <1>3, Zenon
    <3> QED
      BY <2>2, <3>1, <3>2, <1>4 DEF Executed
  <2>3. ASSUME Executed(t)', t # e.at PROVE Executed(t)
    <3>1. PICK i \in 1..Len(executed') : executed'[i].at = t
      BY <2>3, <1>4 DEF Executed
    <3>2. i # Len(executed')
      BY <2>3, <3>1, <1>1, <1>3
    <3>3. i \in 1..Len(executed)
      BY <3>1, <3>2, <1>3
    <3> QED
      BY <3>1, <3>3, <1>4 DEF Executed
  <2> QED
    BY <2>1, <2>2, <2>3
<1> QED
  BY <1>2, <1>5, <1>6 DEF x

LEMMA CatchBooks == ASSUME Shape, Books, NEW e \in timers, CatchTimeEvent(e) PROVE Books'
<1>1. /\ timers = {e} /\ timers' = {} /\ handler = None /\ handler' # None /\ e.at \in Nat
      /\ started' = started /\ table' = table /\ plan' = plan
  BY EventInHand, Caught DEF clock
<1>2. \A t : Behind(t)' <=> t < Resumes(handler')
  BY <1>1 DEF Behind
<1>3. \A t : Behind(t) <=> t < e.at
  BY <1>1 DEF Behind
<1>4. Ordered'
  <2>1. CASE executed' = executed
    <3> SUFFICES ASSUME executed # << >> PROVE Last(executed).at < Resumes(handler')
      BY <2>1, <1>2 DEF Ordered
    <3>1. Last(executed).at < e.at
      BY <1>3 DEF Books, Ordered
    <3> QED
      BY <3>1, <1>1, LastType, CaughtResumes
  <2>2. CASE executed' # executed
    <3>1. Last(executed').at = e.at /\ e.at < Resumes(handler')
      BY <2>2, CaughtTells, CaughtResumes
    <3> QED
      BY <3>1, <1>2 DEF Ordered
  <2> QED
    BY <2>1, <2>2
<1>5. Current'
  <2> SUFFICES ASSUME handler'.step = "arm", handler'.day > slipped'
               PROVE  table = Applicable(plan, handler'.day)
    BY <1>1 DEF Current
  <2>1. handler'.day = Day(now) /\ e.token = "NextEvent"
    BY Caught
  <2>2. slipped' = slipped /\ Day(now) = Day(e.at)
    BY <2>1, CaughtResumes
  <2> QED
    BY <2>1, <2>2 DEF Books, Current
<1>6. Complete'
  <2> SUFFICES ASSUME NEW t \in Nat, started # None, started < t, Planned(t) # None, Day(t) > slipped', t < Resumes(handler')
               PROVE  Executed(t)'
    BY <1>1, <1>2 DEF Complete, Planned
  <2>4. Day(t) \in Nat /\ Day(t) <= Day(now) /\ Day(now) \in Nat
    <3>1. Midnight(Day(now) + 1) \in Nat /\ Day(now) \in Nat
      BY NowType, MidnightType DEF Shape
    <3> QED
      BY <3>1, CaughtResumes, Beyond, DayAndSecond
  <2>1. /\ slipped' = slipped /\ Day(now) = Day(e.at)
        /\ Resumes(handler') = IF handler'.step = "arm" THEN e.at + 1 ELSE e.at
    BY <2>4, CaughtResumes
  <2>2. CASE t < e.at
    <3>1. Executed(t)
      BY <2>1, <2>2, <1>3 DEF Books, Complete
    <3> QED
      BY <3>1, CaughtTells DEF Executed
  <2>3. CASE ~ (t < e.at)
    <3>1. t = e.at /\ handler'.step = "arm"
      BY <2>1, <2>3, <1>1
    <3>2. table \in Table /\ table = Applicable(plan, Day(e.at))
      BY <2>1, <3>1, Caught DEF Books, Current
    <3>3. table[Sec(e.at)] # None
      BY <3>1, <3>2 DEF Planned
    <3>4. executed' = Append(executed, [at |-> e.at, action |-> table[Sec(e.at)]])
      BY <3>1, <3>3, Caught
    <3>5. executed' # executed
      <4> DEFINE A == [at : 0..now, action : Action]
                 x == [at |-> e.at, action |-> table[Sec(e.at)]]
      <4>1. executed \in Seq(A) /\ executed' = Append(executed, x)
        BY <3>4 DEF Shape, Types
      <4> HIDE DEF A, x
      <4> QED
        BY <4>1
    <3> QED
      BY <3>1, <3>5, CaughtTells
  <2> QED
    BY <2>2, <2>3
<1> QED
  BY <1>4, <1>5, <1>6 DEF Books

LEMMA EndBooks == ASSUME Shape, Books, Ends PROVE Books'
<1>1. PICK f \in Event : Sets(f)
  BY HandlerEnds
<1>2. /\ handler # None /\ handler' = None /\ timers = {} /\ timers' = {f} /\ f.at \in Nat
      /\ plan' = plan /\ started' = started /\ executed' = executed
      /\ Resumes(handler) \in Nat /\ Resumes(handler) <= f.at
      /\ handler.day \in Nat /\ handler.day <= Day(now) /\ Day(now) \in Nat
      /\ Midnight(Day(now) + 1) \in Nat /\ f.at <= Midnight(Day(now) + 1)
  BY <1>1, HandlerEnds, HandlerInHand, NowType, MidnightType DEF Sets, Event, Shape, clock
<1>8. /\ slipped \in Int /\ slipped' \in Int
      /\ Day(now) > slipped' => Day(now) = handler.day /\ slipped' = slipped
  BY <1>2, HandlerEnds, Found DEF Shape
<1>3. \A t : (Behind(t) <=> t < Resumes(handler)) /\ (Behind(t)' <=> t < f.at)
  BY <1>2 DEF Behind
<1>4. Ordered'
  <2> SUFFICES ASSUME executed # << >> PROVE Last(executed).at < f.at
    BY <1>2, <1>3 DEF Ordered
  <2>1. Last(executed).at < Resumes(handler)
    BY <1>3 DEF Books, Ordered
  <2> QED
    BY <2>1, <1>2, LastType
<1>5. ASSUME Day(now) > slipped'
      PROVE  slipped' = slipped /\ Day(now) = handler.day /\ table' = Applicable(plan, handler.day)
  <2>1. slipped' = slipped /\ Day(now) = handler.day
    BY <1>5, <1>8
  <2>2. handler.step = "arm" => table = Applicable(plan, handler.day)
    BY <2>1, <1>2, <1>5 DEF Books, Current
  <2> QED
    BY <2>1, <2>2, HandlerEnds
<1>6. Current'
  <2> SUFFICES ASSUME f.token = "NextEvent", Day(f.at) > slipped' PROVE table' = Applicable(plan, Day(f.at))
    BY <1>2 DEF Current
  <2>1. Day(f.at) \in {handler.day, Day(now)}
    BY <1>1 DEF Sets
  <2>2. Day(now) > slipped'
    BY <2>1, <1>2, <1>8
  <2> QED
    BY <2>1, <2>2, <1>5
<1>7. Complete'
  <2> SUFFICES ASSUME NEW t \in Nat, started # None, started < t, Planned(t) # None, Day(t) > slipped', t < f.at
               PROVE  Executed(t)
    BY <1>2, <1>3 DEF Complete, Planned, Executed
  <2>3. Day(now) > slipped'
    <3>1. Day(t) \in Nat /\ Day(t) <= Day(now)
      BY <1>2, Beyond, DayAndSecond
    <3> QED
      BY <3>1, <1>2, <1>8
  <2>1. CASE t < Resumes(handler)
    BY <2>1, <2>3, <1>3, <1>5 DEF Books, Complete
  <2>2. CASE ~ (t < Resumes(handler))
    <3>1. Resumes(handler) <= t
      BY <2>2, <1>2
    <3>2. Day(t) = handler.day /\ (table' # None => table'[Sec(t)] = None)
      BY <3>1, <2>3, <1>1, <1>5 DEF Sets
    <3> QED
      BY <3>2, <2>3, <1>5 DEF Planned
  <2> QED
    BY <2>1, <2>2
<1> QED
  BY <1>4, <1>6, <1>7 DEF Books

LEMMA InitBooks == Init => Books
BY DEF Init, Books, Ordered, Current, Complete

LEMMA NextBooks == Shape /\ Books /\ [Next]_vars => Books'
<1> SUFFICES ASSUME Shape, Books, [Next]_vars PROVE Books'
  OBVIOUS
<1>1. CASE Start
  BY <1>1, StartBooks
<1>2. CASE \E e \in timers : CatchTimeEvent(e)
  BY <1>2, CatchBooks
<1>5. CASE ReadMidnight \/ (FirstTable /\ table' # None)
  BY <1>5, RereadBooks
<1>3. CASE Ends
  BY <1>3, EndBooks
<1>4. CASE UNCHANGED << plan, table, timers, handler, started, executed, slipped >>
  BY <1>4, QuietBooks
<1> QED
  BY <1>1, <1>2, <1>3, <1>4, <1>5
     DEF Next, Run, Ends, TakeListener, DropFollower, FollowersDone, Told, Expire, Gone, Tick, vars, clock

(* No action of the day's table is passed over, but on days that a handler  *)
(* slipped to.                                                              *)
THEOREM NothingIsMissed == Spec => []NothingMissed
<1>1. Shape /\ Books => NothingMissed
  <2> SUFFICES ASSUME Shape, Books, NEW t \in 0..now, Due(t), Day(t) > slipped, ~ Executed(t)
               PROVE  \/ \E e \in timers : e.at <= t
                      \/ handler # None /\ Resumes(handler) <= t
    BY DEF NothingMissed, Outstanding
  <2>1. t \in Nat /\ ~ Behind(t)
    BY NowType DEF Due, Books, Complete, Shape
  <2>2. CASE handler # None /\ ~ (t < Resumes(handler))
    BY <2>1, <2>2, HandlerInHand
  <2>3. CASE \E e \in timers : ~ (t < e.at)
    BY <2>1, <2>3 DEF Shape, Types, Event
  <2> QED
    BY <2>1, <2>2, <2>3 DEF Behind
<1> QED
  BY <1>1, InitShape, NextShape, InitBooks, NextBooks, PTL DEF Spec

(* Actions are told in order, once, not early, and as planned.              *)
THEOREM ActionsAreToldInOrder == Spec => ToldInOrder
<1> DEFINE Told1 ==
      executed' # executed =>
            LET e == Last(executed')
            IN /\ e.at <= now
               /\ executed # << >> => Last(executed).at < e.at
               /\ Day(e.at) > slipped' => e.action = Planned(e.at)
<1>1. Shape /\ Books /\ [Next]_vars => [Told1]_vars
  <2> SUFFICES ASSUME Shape, Books, [Next]_vars, executed' # executed PROVE Told1
    OBVIOUS
  <2>1. PICK e \in timers : CatchTimeEvent(e)
    BY HandlerEnds DEF Next, Run, Ends, Start, ReadMidnight, FirstTable, ChooseTable, Arm, TakeListener,
                       DropFollower, FollowersDone, Told, Expire, Gone, Tick, vars, clock
  <2>2. Last(executed') = [at |-> e.at, action |-> table[Sec(e.at)]] /\ table \in Table /\ e.token = "NextEvent"
    BY <2>1, CaughtTells
  <2>3. e.at <= now
    BY <2>1, EventInHand
  <2>4. executed # << >> => Last(executed).at < e.at
    BY <2>1 DEF Books, Ordered, Behind
  <2>5. Day(e.at) > slipped' => table[Sec(e.at)] = Planned(e.at)
    <3> SUFFICES ASSUME Day(e.at) > slipped' PROVE table[Sec(e.at)] = Planned(e.at)
      OBVIOUS
    <3>3. Day(now) > slipped'
      <4>1. Day(e.at) \in Nat /\ Day(e.at) <= Day(now) /\ Day(now) \in Nat
        BY <2>1, EventInHand, NowType DEF Shape
      <4> QED
        BY <2>1, <4>1, CaughtResumes
    <3>1. table = Applicable(plan, Day(e.at))
      BY <2>1, <2>2, <3>3, CaughtResumes DEF Books, Current
    <3>2. table # None
      BY <2>2, ScheduleAssumption
    <3> QED
      BY <3>1, <3>2 DEF Planned
  <2> QED
    BY <2>2, <2>3, <2>4, <2>5
<1> QED
  BY <1>1, InitShape, NextShape, InitBooks, NextBooks, PTL DEF Spec, ToldInOrder
=============================================================================
