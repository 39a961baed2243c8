---------------------------- MODULE MCAlarmStore ----------------------------
(* Alarm logic groups for AlarmStore.                                       *)
EXTENDS AlarmStore

(* A fault counter: 0 is normal, one fault HIGH, more VERY_HIGH.  The order *)
(* of the checkers matters for 2, which hits both.                          *)
MCFaultLogic ==
    << [compare |-> "GREATER_EQUAL", ref |-> 2, state |-> 2],
       [compare |-> "GREATER", ref |-> 0, state |-> 1] >>
=============================================================================
