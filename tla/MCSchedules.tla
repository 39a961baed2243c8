---------------------------- MODULE MCSchedules ----------------------------
(* Days of three seconds; a table with actions at both ends of the day, one *)
(* with an action in the middle, an empty one, and days without a table.    *)
EXTENDS Schedules

CONSTANTS l1, l2, p, q

MCFollowers == [l \in Listeners |-> IF l = l1 THEN << p, q >> ELSE << >>]
Ends == [x \in Seconds |-> IF x = 0 THEN [do |-> "SET"] ELSE IF x = 2 THEN [do |-> "UNSET"] ELSE None]
Middle == [x \in Seconds |-> IF x = 1 THEN [do |-> "WRITE"] ELSE None]
Empty == [x \in Seconds |-> None]

C(s, c, v) == [subject |-> s, compare |-> c, value |-> v]
Follow(groups, t) == [rule |-> LoadRule(groups), table |-> t]

(* Over 29 February; over the end of a year; over 28 February.              *)
MCPlans == {
    [from |-> [year |-> 2024, mon |-> 2, mday |-> 28, wday |-> 3, yday |-> 58],
     rules |-> << Follow({{C("MONTH_THURSDAY", "EQUAL", 5)}}, Middle),
                  Follow({{C("MONTH", "SMALLEREQUAL", 2), C("WEEK_DAY", "NOTEQUAL", 5)}}, Ends) >>,
     default |-> Empty],
    [from |-> [year |-> 2024, mon |-> 12, mday |-> 30, wday |-> 1, yday |-> 364],
     rules |-> << Follow({{C("YEAR", "GREATER", 2024)}, {C("DDMM", "EQUAL", 3112), C("RUBBISH", "EQUAL", 0)}}, Ends) >>,
     default |-> Middle],
    [from |-> [year |-> 2023, mon |-> 2, mday |-> 27, wday |-> 1, yday |-> 57],
     rules |-> << Follow({{C("MONTH_DAY", "GREATEREQUAL", 28), C("MONTH", "SMALLER", 3)}}, Ends),
                  Follow({{C("DDMMYYYY", "EQUAL", 1032023)}}, Middle) >>,
     default |-> None]}
=============================================================================
