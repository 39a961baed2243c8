------------------------------ MODULE Calendar ------------------------------
(***************************************************************************)
(* Rules of days: what ScheduleManager makes of the conditions in the       *)
(* database and how ScheduleRule examines them on a date.  A condition      *)
(* compares a subject of the date with a value; a rule applies when all     *)
(* conditions of one of its groups hold.  Subjects are uint16_t.            *)
(***************************************************************************)
EXTENDS Integers, FiniteSets

Leap(y) == y % 4 = 0 /\ (y % 100 # 0 \/ y % 400 = 0)
DaysIn(m, y) == CASE m = 2 -> IF Leap(y) THEN 29 ELSE 28
                  [] m \in {4, 6, 9, 11} -> 30
                  [] OTHER -> 31

(* Days of the year before a month.                                         *)
DaysBefore(m, y) ==
    << 0, 31, 59, 90, 120, 151, 181, 212, 243, 273, 304, 334 >>[m] + IF m > 2 /\ Leap(y) THEN 1 ELSE 0

(* localtime_r: a date with its place in the week and in the year.          *)
Date ==
    {d \in [year : Nat, mon : 1..12, mday : 1..31, wday : 0..6, yday : 0..365] :
        d.mday <= DaysIn(d.mon, d.year) /\ d.yday = DaysBefore(d.mon, d.year) + d.mday - 1}

NextDate(d) ==
    LET monthEnds == d.mday = DaysIn(d.mon, d.year)
        yearEnds == monthEnds /\ d.mon = 12
    IN [year |-> IF yearEnds THEN d.year + 1 ELSE d.year,
        mon  |-> IF yearEnds THEN 1 ELSE IF monthEnds THEN d.mon + 1 ELSE d.mon,
        mday |-> IF monthEnds THEN 1 ELSE d.mday + 1,
        wday |-> (d.wday + 1) % 7,
        yday |-> IF yearEnds THEN 0 ELSE d.yday + 1]

(* MONTH_SUNDAY to MONTH_SATURDAY.                                          *)
MonthDays == << "MONTH_SUNDAY", "MONTH_MONDAY", "MONTH_TUESDAY", "MONTH_WEDNESDAY",
                "MONTH_THURSDAY", "MONTH_FRIDAY", "MONTH_SATURDAY" >>
Subjects == {MonthDays[i] : i \in 1..7} \cup
    {"WEEK_DAY", "MONTH", "MONTH_DAY", "MONTH_WEEK", "YEAR", "YEAR_DAY", "YEAR_WEEK", "DDMM", "DDMMYYYY"}
Compares == {"GREATER", "GREATEREQUAL", "EQUAL", "NOTEQUAL", "SMALLEREQUAL", "SMALLER"}

(* Mutant of Occurrence: complete weeks.                                    *)
OccurrenceFrom0(d) == d.mday \div 7

(* The how manieth such day of the week in its month a day is.              *)
Occurrence(d) == d.mday \div 7 + IF d.mday % 7 # 0 THEN 1 ELSE 0

(* Days divided by 7, and one more when the quotient is no multiple of 7.   *)
Weeks(days) == days \div 7 + IF (days \div 7) % 7 # 0 THEN 1 ELSE 0

Subject(s, d) ==
    CASE s = "WEEK_DAY"   -> d.wday
      [] s = "MONTH"      -> d.mon
      [] s = "MONTH_DAY"  -> d.mday
      [] s = "MONTH_WEEK" -> Weeks(d.mday + 6 - d.wday)
      [] s = "YEAR"       -> d.year
      [] s = "YEAR_DAY"   -> d.yday
      [] s = "YEAR_WEEK"  -> Weeks(d.yday + 6 - d.wday)
      [] s = "DDMM"       -> d.mday * 100 + d.mon
      [] s = "DDMMYYYY"   -> ((d.mday * 100 + d.mon) * 10000 + d.year) % 65536
      [] OTHER            -> Occurrence(d)

ConditionCheck(x, compare, y) ==
    CASE compare = "GREATER"      -> x > y
      [] compare = "GREATEREQUAL" -> x >= y
      [] compare = "EQUAL"        -> x = y
      [] compare = "NOTEQUAL"     -> x # y
      [] compare = "SMALLEREQUAL" -> x <= y
      [] compare = "SMALLER"      -> x < y

Examine(c, d) ==
    /\ c.subject \in Subjects
    /\ \A i \in 1..7 : c.subject = MonthDays[i] => d.wday = i - 1
    /\ ConditionCheck(Subject(c.subject, d), c.compare, c.value % 65536)

(* A rule is a set of groups of conditions.                                 *)
RuleApplies(rule, d) == \E group \in rule : \A c \in group : Examine(c, d)

(* load_schedule_rules: a condition that is not understood is left out of   *)
(* its group, so that the group holds on more days; an empty group is left  *)
(* out of its rule.                                                         *)
Understood(c) == c.subject \in Subjects /\ c.compare \in Compares
LoadRule(rows) == {{c \in group : Understood(c)} : group \in rows} \ {{}}
=============================================================================
