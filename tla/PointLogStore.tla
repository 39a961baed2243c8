---------------------------- MODULE PointLogStore ----------------------------
(***************************************************************************)
(* How PointLogStorage stores records: messages to its thread, lines in a  *)
(* bulk insert, commits when there are many of them and by the clock, new  *)
(* tables, and restarts.  The loading of records is not in this module.    *)
(*                                                                         *)
(* Sqlite3::BulkInsert is external: a commit inserts all lines, or, when   *)
(* an id is taken, none; whether it then keeps the lines is not known.     *)
(***************************************************************************)
EXTENDS Integers, Sequences, FiniteSets

CONSTANTS
    BatchSizes,     (* records in one call of store_record                   *)
    MaxRam,         (* MAX_RECORDS_IN_RAM                                    *)
    MaxTable,       (* MAX_RECORDS_PER_TABLE                                 *)
    MaxRecords,     (* bound: records ever stored                            *)
    MaxQueue,       (* bound: messages in the queue                          *)
    MaxTime,        (* bound: the clock                                      *)
    MaxStarts       (* bound: starts of the process                          *)

ASSUME LogAssumption ==
    /\ BatchSizes \subseteq Nat \ {0}
    /\ MaxRam \in Nat /\ MaxTable \in Nat /\ MaxRecords \in Nat
    /\ MaxQueue \in Nat /\ MaxTime \in Nat /\ MaxStarts \in Nat

VARIABLES
    info,       (* TableInfo, in the order of its rows                       *)
    rows,       (* the rows of the log tables                                *)
    index,      (* startTime2TableMap, as the set of its keys                *)
    active,     (* activeTableData                                           *)
    bound,      (* the table bulkInsert inserts into                         *)
    lines,      (* the lines of bulkInsert                                   *)
    queue,      (* messages to the thread                                    *)
    pc,         (* what the thread does next                                 *)
    rollSec,    (* records.begin()->secTime of a rollover                    *)
    now,        (* the clock                                                 *)
    sent,       (* records stored so far; they are numbered                  *)
    starts,     (* starts of the process                                     *)
    rolled,     (* history: a rollover began in this life of the process     *)
    kept        (* history: records added in this life, before a rollover    *)

db == << info, rows >>
clock == << now, sent, starts >>
history == << rolled, kept >>
vars == << db, index, active, bound, lines, queue, pc, rollSec, clock, history >>

Line == [id : Nat, no : Nat]
Row == [table : Nat, id : Nat, no : Nat]
Time == 0..MaxTime
Batch == [first : Nat, size : Nat, sec : Time]

(* A PeriodicPush is a message without records.                             *)
Push == [first |-> 0, size |-> 0, sec |-> 0]

-----------------------------------------------------------------------------
(* An empty database, and the process not started.                          *)
Init ==
    /\ info = <<>>
    /\ rows = {}
    /\ index = {}
    /\ active = [name |-> 1, count |-> 0]
    /\ bound = 1
    /\ lines = {}
    /\ queue = <<>>
    /\ pc = "down"
    /\ rollSec = 0
    /\ now = 0
    /\ sent = 0
    /\ starts = 0
    /\ rolled = FALSE
    /\ kept = {}

Begins == {info[i].begin : i \in DOMAIN info}

(* The row of TableInfo that get_active_table_data goes by: the last start  *)
(* time, and for equal ones the row that was read last.                     *)
IsLast(i) ==
    \A j \in DOMAIN info :
        info[j].begin < info[i].begin \/ (info[j].begin = info[i].begin /\ j <= i)

IdsOf(t) == {r.id : r \in {q \in rows : q.table = t}}

(* "Select Max(Id)", 0 when there is no row.                                *)
IsMaxId(n, t) ==
    n \in IdsOf(t) \cup {0} /\ \A id \in IdsOf(t) : id <= n

(* Does the database have a table of this name?                             *)
Exists(t) == \E i \in DOMAIN info : info[i].name = t

(* The process dies, if it runs, and is started: queue and lines are lost.  *)
Begun ==
    /\ starts < MaxStarts
    /\ starts' = starts + 1
    /\ lines' = {}
    /\ queue' = <<>>
    /\ pc' = "wait"
    /\ rolled' = FALSE
    /\ kept' = {}
    /\ UNCHANGED << rollSec, now, sent >>

(* Mutant of StartEmpty: the table is not entered in TableInfo.             *)
StartEmptyUnlisted ==
    /\ Begun
    /\ info = <<>>
    /\ index' = {}
    /\ active' = [name |-> 1, count |-> 0]
    /\ bound' = 1
    /\ UNCHANGED db

(* The constructor on an empty database creates a table, which it does not  *)
(* enter in startTime2TableMap.                                             *)
StartEmpty ==
    /\ Begun
    /\ info = <<>>
    /\ info' = << [name |-> 1, begin |-> now] >>
    /\ index' = {}
    /\ active' = [name |-> 1, count |-> 0]
    /\ bound' = 1
    /\ UNCHANGED rows

(* Mutant of Start: the count is left at 0.                                 *)
StartUncounted ==
    /\ Begun
    /\ index' = Begins
    /\ \E i \in DOMAIN info :
        /\ IsLast(i)
        /\ active' = [name |-> info[i].name, count |-> 0]
        /\ bound' = info[i].name
    /\ UNCHANGED db

(* The constructor otherwise: get_log_table_data, get_active_table_data.    *)
Start ==
    /\ Begun
    /\ index' = Begins
    /\ \E i \in DOMAIN info : \E n \in IdsOf(info[i].name) \cup {0} :
        /\ IsLast(i)
        /\ IsMaxId(n, info[i].name)
        /\ active' = [name |-> info[i].name, count |-> n]
        /\ bound' = info[i].name
    /\ UNCHANGED db

-----------------------------------------------------------------------------
(* Messages: records from PointLogger's timer, the periodic push.           *)
Tick ==
    /\ now < MaxTime
    /\ now' = now + 1
    /\ UNCHANGED << db, index, active, bound, lines, queue, pc, rollSec, sent, starts, history >>

StoreRecord(k) ==
    /\ pc # "down"
    /\ Len(queue) < MaxQueue
    /\ sent + k <= MaxRecords
    /\ queue' = Append(queue, [first |-> sent + 1, size |-> k, sec |-> now])
    /\ sent' = sent + k
    /\ UNCHANGED << db, index, active, bound, lines, pc, rollSec, now, starts, history >>

CatchTimeEvent ==
    /\ pc # "down"
    /\ Len(queue) < MaxQueue
    /\ queue' = Append(queue, Push)
    /\ UNCHANGED << db, index, active, bound, lines, pc, rollSec, clock, history >>

-----------------------------------------------------------------------------
(* The thread.                                                              *)
Take ==
    /\ pc = "wait"
    /\ queue # <<>>
    /\ queue' = Tail(queue)
    /\ UNCHANGED << db, index, bound, clock >>

(* Mutant of TakePush: a push is left to the next store_record.             *)
TakePushIdly ==
    /\ Take
    /\ Head(queue) = Push
    /\ UNCHANGED << active, lines, pc, rollSec, history >>

TakePush ==
    /\ Take
    /\ Head(queue) = Push
    /\ pc' = "commit"
    /\ UNCHANGED << active, lines, rollSec, history >>

(* Ids for a batch: activeTableData.count + i + 1 where count grows as i.   *)
LineOf(b, i) == [id |-> active.count + 2 * i + 1, no |-> b.first + i]

LinesOf(b) == {LineOf(b, i) : i \in 0..(b.size - 1)}

Total(b) == Cardinality(lines) + b.size

(* Mutant of AddLines: the count stays.                                     *)
AddLinesUncounted(b) ==
    /\ lines' = lines \cup LinesOf(b)
    /\ UNCHANGED active
    /\ kept' = IF rolled THEN kept ELSE kept \cup {l.no : l \in LinesOf(b)}
    /\ UNCHANGED << rollSec, rolled >>

AddLines(b) ==
    /\ lines' = lines \cup LinesOf(b)
    /\ active' = [name |-> active.name, count |-> active.count + b.size]
    /\ kept' = IF rolled THEN kept ELSE kept \cup {l.no : l \in LinesOf(b)}
    /\ UNCHANGED << rollSec, rolled >>

(* perform_store_log with few records: they wait in the bulk insert.        *)
TakeFew ==
    /\ Take
    /\ Head(queue) # Push
    /\ Total(Head(queue)) < MaxRam
    /\ AddLines(Head(queue))
    /\ UNCHANGED pc

(* Many records that fit in the table: they are committed at once.          *)
TakeMany ==
    /\ Take
    /\ Head(queue) # Push
    /\ Total(Head(queue)) >= MaxRam
    /\ active.count + Total(Head(queue)) < MaxTable
    /\ AddLines(Head(queue))
    /\ pc' = "commit"

(* The table is full: the earlier lines are committed and a table created;  *)
(* the records themselves go nowhere.                                       *)
TakeFull ==
    /\ Take
    /\ Head(queue) # Push
    /\ Total(Head(queue)) >= MaxRam
    /\ active.count + Total(Head(queue)) >= MaxTable
    /\ pc' = "roll"
    /\ rollSec' = Head(queue).sec
    /\ rolled' = TRUE
    /\ UNCHANGED << active, lines, kept >>

-----------------------------------------------------------------------------
(* No line has the id of another, or of a row.                              *)
Fresh ==
    \A l \in lines :
        /\ l.id \notin IdsOf(bound)
        /\ \A k \in lines : k.id = l.id => k = l

Committed == IF pc = "roll" THEN "create" ELSE "wait"

Commit ==
    /\ pc \in {"commit", "roll"}
    /\ Fresh
    /\ rows' = rows \cup {[table |-> bound, id |-> l.id, no |-> l.no] : l \in lines}
    /\ lines' = {}
    /\ pc' = Committed
    /\ UNCHANGED << info, index, active, bound, queue, rollSec, clock, history >>

(* commit_insert fails: its result is printed, or not looked at.            *)
CommitFails ==
    /\ pc \in {"commit", "roll"}
    /\ ~Fresh
    /\ lines' \in {lines, {}}
    /\ pc' = Committed
    /\ UNCHANGED << db, index, active, bound, queue, rollSec, clock, history >>

(* The name create_and_use_new_log_table takes.                             *)
NewName == Cardinality(index) + 1

(* create_and_use_new_log_table; the update fails as a whole when there is  *)
(* a table of that name.  bulkInsert and startTime2TableMap stay.           *)
CreateTable ==
    /\ pc = "create"
    /\ active' = [name |-> NewName, count |-> 0]
    /\ info' = IF Exists(NewName) THEN info
               ELSE Append(info, [name |-> NewName, begin |-> rollSec])
    /\ pc' = "wait"
    /\ UNCHANGED << rows, index, bound, lines, queue, rollSec, clock, history >>

Thread == TakePush \/ TakeFew \/ TakeMany \/ TakeFull \/ Commit \/ CommitFails \/ CreateTable

Next ==
    \/ StartEmpty \/ Start
    \/ Tick
    \/ \E k \in BatchSizes : StoreRecord(k)
    \/ CatchTimeEvent
    \/ Thread

Spec == Init /\ [][Next]_vars

(* The thread waits for nothing but messages; the timer event is periodic.  *)
FairSpec == Spec /\ WF_vars(Thread) /\ WF_vars(CatchTimeEvent)

-----------------------------------------------------------------------------
(* The state is well formed; bulkInsert inserts into a table that a restart *)
(* finds again.                                                             *)
TypeOK ==
    /\ info \in Seq([name : Nat, begin : Time])
    /\ rows \in SUBSET Row
    /\ index \in SUBSET Begins
    /\ active \in [name : Nat, count : Nat]
    /\ bound \in Nat
    /\ lines \in SUBSET Line
    /\ queue \in Seq(Batch)
    /\ pc \in {"down", "wait", "commit", "roll", "create"}
    /\ rollSec \in Time
    /\ now \in Time
    /\ sent \in 0..MaxRecords
    /\ starts \in 0..MaxStarts
    /\ rolled \in BOOLEAN
    /\ kept \in SUBSET Nat
    /\ pc # "down" => Exists(bound)

Waiting == {l.no : l \in lines}
Durable == {r.no : r \in rows}

(* Until the table is full no record is lost but by a crash, and none is    *)
(* there twice: it waits in memory or has a row in one of the tables.  The  *)
(* ids given out in this life and the ones before never meet.               *)
RecordsKept ==
    /\ kept \subseteq Waiting \cup Durable
    /\ Waiting \cap Durable = {}
    /\ \A q, r \in rows : q.no = r.no => q = r

(* A record that was kept reaches a table, or the process dies.             *)
EventuallyDurable ==
    \A n \in 1..MaxRecords : n \in kept ~> n \in Durable \/ n \notin kept

Queued == UNION {m.first..(m.first + m.size - 1) : m \in {queue[i] : i \in DOMAIN queue}}

(* PointLogStorage.h:14: "New records added to this object would stay in    *)
(* temporary memory" until they are stored.                                 *)
NewRecordsStay == [][starts' = starts => Queued \subseteq Queued' \cup Waiting' \cup Durable']_vars
=============================================================================
