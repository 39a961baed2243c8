----------------------------- MODULE AlarmStore -----------------------------
(***************************************************************************)
(* Alarms from a published value to the database: AlarmProcessor grades    *)
(* the value with an AlarmLogicGroup, AlarmVerifyStorePost queues the      *)
(* message to its server thread, and handle_alarm moves rows between the   *)
(* tables ActiveAlarm and HistoryAlarm, one SQL statement at a time and    *)
(* without a transaction, with point2ActiveAlarmMap as its picture of      *)
(* ActiveAlarm.  The process may die between any two statements; the       *)
(* constructor rebuilds the map from the table.  An insert into ActiveAlarm *)
(* may fail, which is the one failure handle_alarm looks for.               *)
(***************************************************************************)
EXTENDS Integers, Sequences, FiniteSets

CONSTANTS
    Points,     (* points with an alarm logic group                          *)
    Values,     (* values they publish, integers                             *)
    Logic,      (* the group's checkers, [compare, ref, state], in order     *)
    MaxQueue,   (* bound: messages waiting for the server thread             *)
    MaxId,      (* bound: rows ever inserted into ActiveAlarm                *)
    None        (* no value, or no entry in the map                          *)

NORMAL == 0
States == -2..3
Comparisons == {"GREATER", "GREATER_EQUAL", "EQUAL", "SMALLER_EQUAL", "SMALLER", "NOT_EQUAL"}

ASSUME AlarmAssumption ==
    /\ Values \subseteq Int
    /\ Logic \in Seq([compare : Comparisons, ref : Int, state : States])
    /\ MaxQueue \in Nat \ {0}
    /\ MaxId \in Nat
    /\ None \notin Values
    /\ None \notin [id : Nat, state : States]
    /\ None \notin [point : Points, value : Values, state : States]

VARIABLES
    value,      (* value[p]: the last value published by p since the start   *)
    queue,      (* messages sent to the server thread                        *)
    map,        (* point2ActiveAlarmMap                                      *)
    rows,       (* table ActiveAlarm                                         *)
    history,    (* table HistoryAlarm                                        *)
    stage,      (* the statement of handle_alarm the server thread is before *)
    msg,        (* the message it handles                                    *)
    nextId,     (* the Id the next row of ActiveAlarm will get               *)
    lost        (* history: points whose last alarm could not be inserted    *)

vars == << value, queue, map, rows, history, stage, msg, nextId, lost >>

Row == [id : Nat, point : Points, value : Values, state : States]
Message == [point : Points, value : Values, state : States]
MapEntry == [id : Nat, state : States]

-----------------------------------------------------------------------------
(* AlarmStateChecker::verify.                                               *)
Verify(compare, v, ref) ==
    \/ compare = "GREATER" /\ v > ref
    \/ compare = "GREATER_EQUAL" /\ v >= ref
    \/ compare = "EQUAL" /\ v = ref
    \/ compare = "SMALLER_EQUAL" /\ v <= ref
    \/ compare = "SMALLER" /\ v < ref
    \/ compare = "NOT_EQUAL" /\ v # ref

Hit(i, v) == Verify(Logic[i].compare, v, Logic[i].ref)

(* AlarmLogicGroup::check_alarm: the state of the first checker that hits.  *)
FirstHit(i, v) == Hit(i, v) /\ \A j \in DOMAIN Logic : j < i => ~Hit(j, v)

CheckAlarm(v) ==
    IF \E i \in DOMAIN Logic : FirstHit(i, v)
    THEN Logic[CHOOSE i \in DOMAIN Logic : FirstHit(i, v)].state
    ELSE NORMAL

-----------------------------------------------------------------------------
Init ==
    /\ value = [p \in Points |-> None]
    /\ queue = <<>>
    /\ map = [p \in Points |-> None]
    /\ rows = {}
    /\ history = {}
    /\ stage = "idle"
    /\ msg = None
    /\ nextId = 1
    /\ lost = {}

(* A point publishes a new value; AlarmActor, handle_value_change and       *)
(* catch_alarm_state run in the thread that publishes it.                   *)
Publish(p, v) ==
    /\ v # value[p]
    /\ Len(queue) < MaxQueue
    /\ nextId + Len(queue) < MaxId
    /\ value' = [value EXCEPT ![p] = v]
    /\ queue' = Append(queue, [point |-> p, value |-> v, state |-> CheckAlarm(v)])
    /\ UNCHANGED << map, rows, history, stage, msg, nextId, lost >>

(* A point without an entry gets a row for any value but 0, by activeValue  *)
(* and not by alarmState: a normal value other than 0 is stored as well.    *)
InsertWanted(m) == m.value # NORMAL

(* Mutants of FirstStage: normal is tested before the map is looked up; a   *)
(* change of state is not noticed; an alarm is removed unarchived; a normal *)
(* state is ignored.                                                        *)
FirstStageNoLookup(m) ==
    CASE m.state = NORMAL -> "archive"
      [] m.state # NORMAL /\ map[m.point] = None -> "raise"
      [] OTHER -> IF map[m.point].state # m.state THEN "archive" ELSE "idle"

FirstStageNoChange(m) ==
    CASE map[m.point] = None -> IF InsertWanted(m) THEN "raise" ELSE "idle"
      [] OTHER -> IF m.state = NORMAL THEN "archive" ELSE "idle"

FirstStageNoHistory(m) ==
    CASE map[m.point] = None -> IF InsertWanted(m) THEN "raise" ELSE "idle"
      [] OTHER -> IF map[m.point].state # m.state THEN "remove" ELSE "idle"

FirstStageNoClear(m) ==
    CASE map[m.point] = None -> IF InsertWanted(m) THEN "raise" ELSE "idle"
      [] map[m.point] # None /\ m.state = NORMAL -> "idle"
      [] OTHER -> IF map[m.point].state # m.state THEN "archive" ELSE "idle"

(* handle_alarm: what to do about the message.                              *)
FirstStage(m) ==
    CASE map[m.point] = None ->
            IF InsertWanted(m) THEN "raise" ELSE "idle"
      [] map[m.point] # None /\ m.state = NORMAL -> "archive"
      [] OTHER -> IF map[m.point].state # m.state THEN "archive" ELSE "idle"

TakeMessage ==
    /\ stage = "idle"
    /\ queue # <<>>
    /\ queue' = Tail(queue)
    /\ stage' = FirstStage(Head(queue))
    /\ msg' = IF stage' = "idle" THEN None ELSE Head(queue)
    /\ UNCHANGED << value, map, rows, history, nextId, lost >>

(* store_to_active_alarm and the map entry of the row it inserts: a new     *)
(* alarm, or the last statement of a change of state.                       *)
InsertActive ==
    /\ stage \in {"raise", "reinsert"}
    /\ rows' = rows \cup {[id |-> nextId, point |-> msg.point,
                           value |-> msg.value, state |-> msg.state]}
    /\ map' = [map EXCEPT ![msg.point] = [id |-> nextId, state |-> msg.state]]
    /\ nextId' = nextId + 1
    /\ stage' = "idle"
    /\ msg' = None
    /\ lost' = lost \ {msg.point}
    /\ UNCHANGED << value, queue, history >>

(* The insert fails and has no id: the map stays as it is, with the entry   *)
(* of the alarm that was removed when another was to take its place.        *)
InsertFails ==
    /\ stage \in {"raise", "reinsert"}
    /\ stage' = "idle"
    /\ msg' = None
    /\ lost' = lost \cup {msg.point}
    /\ UNCHANGED << value, queue, map, rows, history, nextId >>

(* store_to_history_alarm: the alarm's id, with the data of the message     *)
(* that ends it.                                                            *)
HistoryRow(m) ==
    [id |-> map[m.point].id, point |-> m.point, value |-> m.value, state |-> m.state]

StoreToHistory ==
    /\ stage = "archive"
    /\ history' = history \cup {HistoryRow(msg)}
    /\ stage' = "remove"
    /\ UNCHANGED << value, queue, map, rows, msg, nextId, lost >>

(* Mutant of RemoveActive: the map entry of the removed alarm is kept.      *)
RemoveActiveKeepsEntry ==
    /\ stage = "remove"
    /\ rows' = {r \in rows : r.id # map[msg.point].id}
    /\ stage' = IF msg.state = NORMAL THEN "idle" ELSE "reinsert"
    /\ msg' = IF stage' = "idle" THEN None ELSE msg
    /\ UNCHANGED << value, queue, map, history, nextId, lost >>

(* remove_from_active_alarm; back to normal, the map entry is erased too.   *)
RemoveActive ==
    /\ stage = "remove"
    /\ rows' = {r \in rows : r.id # map[msg.point].id}
    /\ IF msg.state = NORMAL
       THEN /\ map' = [map EXCEPT ![msg.point] = None]
            /\ stage' = "idle"
            /\ msg' = None
            /\ lost' = lost \ {msg.point}
       ELSE /\ stage' = "reinsert"
            /\ UNCHANGED << map, msg, lost >>
    /\ UNCHANGED << value, queue, history, nextId >>

RowsOf(p) == {r \in rows : r.point = p}
EntryOf(r) == [id |-> r.id, state |-> r.state]

(* The constructor: one entry per point with a row, from any of its rows.   *)
MapFromTable(m) ==
    \A p \in Points :
        \/ RowsOf(p) = {} /\ m[p] = None
        \/ \E r \in RowsOf(p) : m[p] = EntryOf(r)

(* The process dies and starts again: the tables are what is left, and the  *)
(* points are read again.                                                   *)
Restart ==
    /\ value' = [p \in Points |-> None]
    /\ queue' = <<>>
    /\ stage' = "idle"
    /\ msg' = None
    /\ \E m \in [Points -> {None} \cup {EntryOf(r) : r \in rows}] :
          MapFromTable(m) /\ map' = m
    /\ lost' = {}
    /\ UNCHANGED << rows, history, nextId >>

ServerStep == TakeMessage \/ InsertActive \/ InsertFails \/ StoreToHistory \/ RemoveActive

Next ==
    \/ \E p \in Points, v \in Values : Publish(p, v)
    \/ TakeMessage
    \/ InsertActive
    \/ InsertFails
    \/ StoreToHistory
    \/ RemoveActive
    \/ Restart

Spec == Init /\ [][Next]_vars

(* The server thread waits for messages and handles each.                   *)
FairSpec == Spec /\ WF_vars(ServerStep)

-----------------------------------------------------------------------------
Stages == {"idle", "raise", "archive", "remove", "reinsert"}

(* The server thread handles a message exactly when it is not idle, and     *)
(* what it is about to do needs the map entry, or the lack of one.          *)
ServerShape ==
    /\ stage = "idle" <=> msg = None
    /\ stage = "raise" => map[msg.point] = None
    /\ stage \in {"archive", "remove", "reinsert"} => map[msg.point] # None
    /\ stage = "reinsert" => msg.state # NORMAL

(* The state is well formed.                                                *)
TypeOK ==
    /\ value \in [Points -> Values \cup {None}]
    /\ queue \in Seq(Message)
    /\ map \in [Points -> MapEntry \cup {None}]
    /\ rows \in SUBSET Row
    /\ history \in SUBSET Row
    /\ stage \in Stages
    /\ msg \in Message \cup {None}
    /\ nextId \in Nat
    /\ lost \subseteq Points
    /\ ServerShape

(* p has no alarm: none was raised, handle_alarm has just removed it to     *)
(* insert the next, or the next could not be inserted.                      *)
Gone(p) == map[p] = None \/ (stage = "reinsert" /\ msg.point = p) \/ p \in lost

(* The map is the picture of ActiveAlarm, but for a point whose alarm is    *)
(* being replaced or could not be: whatever died or failed before, no point *)
(* has two rows, and no row is without its entry.                           *)
MapMirrorsTable ==
    \A p \in Points :
        IF Gone(p)
        THEN RowsOf(p) = {}
        ELSE \E r \in rows : RowsOf(p) = {r} /\ map[p] = EntryOf(r)

(* Nothing of p waits in the queue or is being handled.                     *)
AtRest(p) ==
    /\ value[p] # None
    /\ \A i \in DOMAIN queue : queue[i].point # p
    /\ stage = "idle" \/ msg.point # p

(* ActiveAlarm says of p what its value says.                               *)
TableAgrees(p) ==
    IF CheckAlarm(value[p]) = NORMAL
    THEN RowsOf(p) = {}
    ELSE RowsOf(p) # {} /\ \A r \in RowsOf(p) : r.state = CheckAlarm(value[p])

(* The alarm p should have could not be inserted; nothing tries again until *)
(* p publishes a value whose state is not that of an entry left behind.     *)
Missing(p) == p \in lost /\ CheckAlarm(value[p]) # NORMAL

(* Once its messages are handled, a point has an active alarm exactly when  *)
(* its last value calls for one, also after a restart at any point, and an  *)
(* insert that failed leaves nothing that outlasts the alarm.  This is so   *)
(* when 0 is the one value that is not an alarm: see InsertWanted.          *)
RestAgrees == \A p \in Points : AtRest(p) /\ ~Missing(p) => TableAgrees(p)

(* A value that stays gets its alarm raised, moved or cleared, unless the   *)
(* insert fails.                                                            *)
EventuallyAgrees ==
    \A p \in Points, v \in Values :
        <>[](value[p] = v) => <>[](value[p] = v /\ (TableAgrees(p) \/ Missing(p)))

(* Every alarm goes through the life AlarmLifecycle describes.              *)
Life == INSTANCE AlarmLifecycle WITH
    open <- {[id |-> r.id, point |-> r.point] : r \in rows},
    archived <- {h.id : h \in history},
    next <- nextId

LifecycleKept == Life!LifeSpec
=============================================================================
