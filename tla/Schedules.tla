----------------------------- MODULE Schedules -----------------------------
(***************************************************************************)
(* One Schedule: each day it follows the time table of the first rule that  *)
(* applies, or the default one, and tells its listeners the actions of that *)
(* table at their seconds.  It never has more than one event in EventTimer: *)
(* the next action of today, or the midnight at which the table is chosen   *)
(* anew.  Between any two readings of the clock time may pass, because      *)
(* listeners are called in between and because the timer's thread may be    *)
(* late.                                                                    *)
(*                                                                          *)
(* Time is counted in seconds from the midnight of day 0; that all days     *)
(* have the same length leaves out daylight saving.  Which rules apply on a *)
(* date is Calendar's.  Time tables are given as they ought to be, with     *)
(* seconds of the day: ScheduleManager fills them with hhmmss.              *)
(***************************************************************************)
EXTENDS Calendar, SequencesExt, FiniteSetsExt

CONSTANTS
    DayLen,         (* seconds in a day                                      *)
    Horizon,        (* bound: where the clock stops                          *)
    Plans,          (* first dates, with priority2TimeTableMap and defaultTimeTable *)
    Listeners,      (* ScheduleListeners of the Integrator                   *)
    Points,         (* points that follow a schedule                         *)
    Followers,      (* Followers[l]: the points join_schedule_and_points gave to l, in order *)
    None            (* no time table, action, time or call                   *)

Seconds == 0..(DayLen - 1)
Action == [do : {"SET", "UNSET", "WRITE"}]
Table == [Seconds -> Action \cup {None}]
Condition == [subject : STRING, compare : STRING, value : Nat]
Plan == [from : Date, rules : Seq([rule : SUBSET SUBSET Condition, table : Table]), default : Table \cup {None}]
Event == [at : Nat, token : {"Tomorrow", "NextEvent"}]
Handler == [step : {"midnight", "table", "arm", "choose"}, from : {"start", "event"}, sec : Seconds, day : Nat]

ASSUME ScheduleAssumption ==
    /\ DayLen \in Nat \ {0}
    /\ Horizon \in Nat
    /\ Plans \subseteq Plan
    /\ None \notin Action \cup Table \cup Handler \cup Nat

ASSUME FollowersAssumption == Followers \in [Listeners -> Seq(Points)]

Day(t) == t \div DayLen
Sec(t) == t % DayLen
Midnight(d) == d * DayLen

VARIABLES
    now,        (* the clock                                                 *)
    plan,       (* date of day 0, rules with their time tables, default table *)
    table,      (* activeTimeTable                                           *)
    timers,     (* events in EventTimer                                      *)
    handler,    (* what the handler in progress goes on with, or None        *)
    call,       (* the action being told, the listeners left, the one in hand *)
                (* and the place of its iterator                             *)
    listening,  (* listeners whose weak pointer has not expired              *)
    follows,    (* follows[l]: followerList of listener l                    *)
    present,    (* points that exist                                         *)
    started,    (* when start was called, or None                            *)
    executed,   (* the events executed, with their action (history)         *)
    slipped     (* the last day a handler came to that was not the day of    *)
                (* its event or of its last reading of the clock (history)   *)

clock == << now, plan >>
audience == << listening, follows, present >>
vars == << clock, table, timers, handler, call, audience, started, executed, slipped >>

Init ==
    /\ now = 0
    /\ plan \in Plans
    /\ table = None
    /\ timers = {}
    /\ handler = None
    /\ call = None
    /\ listening = Listeners
    /\ follows = Followers
    /\ present = Points
    /\ started = None
    /\ executed = << >>
    /\ slipped = -1

-----------------------------------------------------------------------------
DateOf(p, d) == LET date[n \in 0..d] == IF n = 0 THEN p.from ELSE NextDate(date[n - 1]) IN date[d]

(* The rules in the order of std::map: the lowest key first.                *)
Applicable(p, d) ==
    LET fits == {i \in DOMAIN p.rules : RuleApplies(p.rules[i].rule, DateOf(p, d))}
    IN IF fits = {} THEN p.default ELSE p.rules[Min(fits)].table

Times(tab) == {s \in Seconds : tab[s] # None}

(* Mutant of After: lower_bound instead of upper_bound.                     *)
AfterOrAt(tab, s) == {x \in Times(tab) : x >= s}

After(tab, s) == {x \in Times(tab) : x > s}

(* get_event_before_or_at finds an event with lower_bound.                  *)
BeforeOrAt(tab, s) == {x \in Times(tab) : x >= s}

NextEvent(t) == [at |-> t, token |-> "NextEvent"]

(* Mutant of Tomorrow: 24 hours from now instead of at midnight.            *)
TomorrowThisTime(d) == [at |-> now + DayLen, token |-> "Tomorrow"]

Tomorrow(d) == [at |-> Midnight(d + 1), token |-> "Tomorrow"]

(* The clock is read, where the handler took it to be day d.                *)
FoundOn(d) == slipped' = IF Day(now) = d THEN slipped ELSE Day(now)

(* notify_listener_set_event and the like begin.                            *)
Notify(a) == call' = [action |-> a, left |-> listening, in |-> None, at |-> 1]

(* start reads the clock for the second of the day, for the midnight before *)
(* and, in get_applicable_time_table, for the date.                         *)
Start ==
    /\ started = None
    /\ started' = now
    /\ handler' = [step |-> "midnight", from |-> "start", sec |-> Sec(now), day |-> Day(now)]
    /\ UNCHANGED << clock, table, timers, call, audience, executed, slipped >>

ReadMidnight ==
    /\ handler # None /\ handler.step = "midnight"
    /\ handler' = [handler EXCEPT !.step = "table", !.day = Day(now)]
    /\ FoundOn(handler.day)
    /\ UNCHANGED << clock, table, timers, call, audience, started, executed >>

(* A SET that get_event_before_or_at finds is told to the listeners at once. *)
SetAtStart(tab) ==
    LET found == BeforeOrAt(tab, handler.sec)
    IN IF found # {} /\ tab[Min(found)].do = "SET" THEN Notify(tab[Min(found)]) ELSE UNCHANGED call

FirstTable ==
    /\ handler # None /\ handler.step = "table"
    /\ table' = Applicable(plan, Day(now))
    /\ \/ /\ table' = None
          /\ timers' = timers \cup {Tomorrow(handler.day)}
          /\ handler' = None
          /\ UNCHANGED call
       \/ /\ table' # None
          /\ handler' = [handler EXCEPT !.step = "arm"]
          /\ SetAtStart(table')
          /\ UNCHANGED timers
    /\ FoundOn(handler.day)
    /\ UNCHANGED << clock, audience, started, executed >>

(* EventTimer calls catch_time_event, on time or late.                      *)
CatchTomorrow(e) ==
    /\ e.token = "Tomorrow"
    /\ handler' = [step |-> "choose", from |-> "event", sec |-> Sec(now), day |-> Day(now)]
    /\ UNCHANGED << call, executed >>

CatchNextEvent(e) ==
    /\ e.token = "NextEvent"
    /\ handler' = [step |-> "arm", from |-> "event", sec |-> Sec(e.at), day |-> Day(now)]
    /\ IF table[Sec(e.at)] # None
       THEN Notify(table[Sec(e.at)]) /\ executed' = Append(executed, [at |-> e.at, action |-> table[Sec(e.at)]])
       ELSE UNCHANGED << call, executed >>

(* Mutant of CatchTimeEvent: the event stays in the timer.                  *)
CatchTimeEventKept(e) ==
    /\ handler = None
    /\ e \in timers /\ e.at <= now
    /\ CatchTomorrow(e) \/ CatchNextEvent(e)
    /\ FoundOn(Day(e.at))
    /\ UNCHANGED << clock, table, timers, audience, started >>

CatchTimeEvent(e) ==
    /\ handler = None
    /\ e \in timers /\ e.at <= now
    /\ timers' = timers \ {e}
    /\ CatchTomorrow(e) \/ CatchNextEvent(e)
    /\ FoundOn(Day(e.at))
    /\ UNCHANGED << clock, table, audience, started >>

(* The table for the day it is now; its first event, or the next midnight,  *)
(* of the day it was when the handler began.                                *)
ChooseTable ==
    /\ handler # None /\ handler.step = "choose"
    /\ table' = Applicable(plan, Day(now))
    /\ timers' = timers \cup
        {IF table' = None \/ Times(table') = {} THEN Tomorrow(handler.day)
         ELSE NextEvent(Midnight(handler.day) + Min(Times(table')))}
    /\ handler' = None
    /\ FoundOn(handler.day)
    /\ UNCHANGED << clock, call, audience, started, executed >>

(* The next event of the table is set on the day it is now, which the       *)
(* handler reads from the clock once more.                                  *)
Arm ==
    /\ handler # None /\ handler.step = "arm" /\ call = None
    /\ LET later == After(table, handler.sec)
       IN timers' = timers \cup
            {IF later # {} THEN NextEvent(Midnight(Day(now)) + Min(later))
             ELSE Tomorrow(IF handler.from = "start" THEN handler.day ELSE Day(now))}
    /\ handler' = None
    /\ FoundOn(handler.day)
    /\ UNCHANGED << clock, table, call, audience, started, executed >>

-----------------------------------------------------------------------------
(* Mutant of TakeListener: an expired listener is erased, but the iterator  *)
(* not advanced.                                                            *)
TakeListenerAgain(l) ==
    /\ call # None /\ call.in = None /\ l \in call.left
    /\ call' = IF l \in listening THEN [call EXCEPT !.left = @ \ {l}, !.in = l] ELSE call
    /\ UNCHANGED << clock, table, timers, handler, audience, started, executed, slipped >>

(* The next listener; one that has expired is erased from the map.          *)
TakeListener(l) ==
    /\ call # None /\ call.in = None /\ l \in call.left
    /\ call' = [call EXCEPT !.left = @ \ {l}, !.in = IF l \in listening THEN l ELSE None]
    /\ UNCHANGED << clock, table, timers, handler, audience, started, executed, slipped >>

(* The listener in hand, which lives as long as it is called, erases a      *)
(* follower that is gone from its vector, after it moved its iterator on:   *)
(* the next follower takes the place of the erased one and is passed over.  *)
DropFollower ==
    /\ call # None /\ call.in # None
    /\ call.at \in DOMAIN follows[call.in] /\ follows[call.in][call.at] \notin present
    /\ follows' = [follows EXCEPT ![call.in] = RemoveAt(@, call.at)]
    /\ call' = [call EXCEPT !.at = @ + 1]
    /\ UNCHANGED << clock, table, timers, handler, listening, present, started, executed, slipped >>

(* The iterator is at the end of the vector.                                *)
FollowersDone ==
    /\ call # None /\ call.in # None
    /\ call.at = Len(follows[call.in]) + 1
    /\ call' = [call EXCEPT !.in = None, !.at = 1]
    /\ UNCHANGED << clock, table, timers, handler, audience, started, executed, slipped >>

(* A follower that is there is set, unset or written, and the iterator not  *)
(* moved on: the loop stays with it for as long as it is there.             *)
Hung ==
    /\ call # None /\ call.in # None
    /\ call.at \in DOMAIN follows[call.in] /\ follows[call.in][call.at] \in present

(* When the last follower was erased, the iterator is past the end: what    *)
(* the loop does there is undefined, but it does not return.                *)
Astray == call # None /\ call.in # None /\ call.at > Len(follows[call.in]) + 1

Told ==
    /\ call # None /\ call.left = {} /\ call.in = None
    /\ call' = None
    /\ UNCHANGED << clock, table, timers, handler, audience, started, executed, slipped >>

(* A listener, or a point, is destroyed.                                    *)
Expire(l) ==
    /\ l \in listening
    /\ listening' = listening \ {l}
    /\ UNCHANGED << clock, table, timers, handler, call, follows, present, started, executed, slipped >>

Gone(p) ==
    /\ p \in present
    /\ present' = present \ {p}
    /\ UNCHANGED << clock, table, timers, handler, call, listening, follows, started, executed, slipped >>

Tick ==
    /\ now < Horizon
    /\ now' = now + 1
    /\ UNCHANGED << plan, table, timers, handler, call, audience, started, executed, slipped >>

(* The timer's thread and, at the start, the main thread.                   *)
Run ==
    \/ ReadMidnight
    \/ FirstTable
    \/ \E e \in timers : CatchTimeEvent(e)
    \/ ChooseTable
    \/ Arm
    \/ \E l \in Listeners : TakeListener(l)
    \/ DropFollower
    \/ FollowersDone
    \/ Told

Next ==
    \/ Start
    \/ Run
    \/ \E l \in Listeners : Expire(l)
    \/ \E p \in Points : Gone(p)
    \/ Tick

Spec == Init /\ [][Next]_vars /\ WF_vars(Run)

-----------------------------------------------------------------------------
(* What the table of its day has for moment t.                              *)
Planned(t) == LET tab == Applicable(plan, Day(t)) IN IF tab = None THEN None ELSE tab[Sec(t)]

Due(t) == started # None /\ started < t /\ t <= now /\ Planned(t) # None

Executed(t) == \E i \in DOMAIN executed : executed[i].at = t

(* Due and not told, on a day that no handler slipped to.                   *)
Outstanding == {t \in 0..now : Due(t) /\ Day(t) > slipped /\ ~ Executed(t)}

(* The first moment a handler has not dealt with.                           *)
Resumes(h) == Midnight(h.day) + (IF h.step = "choose" THEN 0 ELSE h.sec + 1)

Types ==
    /\ now \in 0..Horizon
    /\ plan \in Plans
    /\ table \in Table \cup {None}
    /\ timers \subseteq Event
    /\ handler \in Handler \cup {None}
    /\ call \in [action : Action, left : SUBSET Listeners, in : Listeners \cup {None}, at : Nat \ {0}] \cup {None}
    /\ call # None => handler # None
    /\ listening \subseteq Listeners /\ present \subseteq Points
    /\ follows \in [Listeners -> Seq(Points)]
    /\ started \in 0..now \cup {None}
    /\ executed \in Seq([at : 0..now, action : Action])
    /\ slipped \in -1..Day(now)

(* Every variable has its type, and a schedule that was started is always   *)
(* waiting for exactly one event, or handling it.                           *)
TypeOK ==
    /\ Types
    /\ Cardinality(timers) = IF started = None \/ handler # None THEN 0 ELSE 1

(* No action of the day's table is passed over: once its time has come it   *)
(* has been told, or the schedule is still busy with, or waiting for, an    *)
(* earlier moment.  Only days that a handler slipped to, or that were over  *)
(* by then, are excepted: from the next midnight on nothing is missed.      *)
NothingMissed ==
    \A t \in Outstanding :
        \/ \E e \in timers : e.at <= t
        \/ handler # None /\ Resumes(handler) <= t

(* The rule for the n-th of a day of the week holds today exactly when      *)
(* today is that day of the week and it comes for the n-th time this month. *)
OnNamedDays ==
    LET today == DateOf(plan, Day(now))
    IN \A i \in 1..7, n \in 1..5 :
            Examine([subject |-> MonthDays[i], compare |-> "EQUAL", value |-> n], today)
                <=> /\ today.wday = i - 1
                    /\ Cardinality({d \in 1..today.mday : (today.mday - d) % 7 = 0}) = n

(* Actions are told in the order of their times, each at most once and not  *)
(* before its time, and as the table of their day has them, but for the     *)
(* days a handler slipped to.                                               *)
ToldInOrder ==
    [][executed' # executed =>
            LET e == Last(executed')
            IN /\ e.at <= now
               /\ executed # << >> => Last(executed).at < e.at
               /\ Day(e.at) > slipped' => e.action = Planned(e.at)]_vars

(* Unless a listener's loop over its followers keeps the timer's thread for *)
(* good, an action whose time has come is told in the end, also when other  *)
(* days were missed before it or listeners expire while they are called:    *)
(* what is told stays told, and again and again nothing is outstanding.     *)
EventuallyExecuted ==
    \/ <>[](Hung \/ Astray)
    \/ []<>(Outstanding = {})
=============================================================================
