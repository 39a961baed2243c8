------------------------- MODULE PointLogStoreProofs -------------------------
(***************************************************************************)
(* Theorems about PointLogStore, for any bounds.                           *)
(***************************************************************************)
EXTENDS PointLogStore, FiniteSetTheorems, TLAPS

-----------------------------------------------------------------------------
(* Type correctness, one lemma for each group of actions.                   *)

LEMMA TimeType == 0 \in Time /\ Time \subseteq Nat /\ IsFiniteSet(Time)
<1>1. MaxTime \in Nat  BY LogAssumption
<1>2. 0 \in 0..MaxTime /\ 0..MaxTime \subseteq Nat  BY <1>1
<1>3. IsFiniteSet(0..MaxTime)  BY <1>1, FS_Interval
<1> QED  BY <1>2, <1>3 DEF Time

LEMMA InfoType == TypeOK => \A i \in DOMAIN info : info[i].name \in Nat /\ info[i].begin \in Time
<1> SUFFICES ASSUME TypeOK, NEW i \in DOMAIN info
             PROVE  info[i].name \in Nat /\ info[i].begin \in Time
  OBVIOUS
<1> DEFINE R == [name : Nat, begin : Time]
<1>1. info \in Seq(R)  BY DEF TypeOK
<1>2. info[i] \in R
  <2> HIDE DEF R
  <2> QED  BY <1>1
<1> QED  BY <1>2

LEMMA NewNameType == TypeOK => NewName \in Nat
<1> SUFFICES ASSUME TypeOK PROVE NewName \in Nat  OBVIOUS
<1>1. Begins \subseteq Time  BY InfoType DEF Begins
<1>2. index \in SUBSET Time  BY <1>1 DEF TypeOK
<1>3. IsFiniteSet(index)  BY <1>2, TimeType, FS_Subset
<1>4. Cardinality(index) \in Nat  BY <1>3, FS_CardinalityType
<1> QED  BY <1>4 DEF NewName

LEMMA PushType == Push \in Batch
BY TimeType DEF Push, Batch

LEMMA LinesType ==
    ASSUME TypeOK, NEW b \in Batch
    PROVE  LinesOf(b) \in SUBSET Line
<1> SUFFICES ASSUME NEW i \in 0..(b.size - 1) PROVE LineOf(b, i) \in Line
  BY DEF LinesOf
<1>1. i \in Nat /\ b.first \in Nat /\ active.count \in Nat  BY DEF TypeOK, Batch
<1> QED  BY <1>1 DEF LineOf, Line

LEMMA InitType == Init => TypeOK
<1> SUFFICES ASSUME Init PROVE TypeOK  OBVIOUS
<1> USE DEF Init
<1>1. info \in Seq([name : Nat, begin : Time]) /\ queue \in Seq(Batch)  OBVIOUS
<1>2. rollSec \in Time /\ now \in Time  BY TimeType
<1>3. sent \in 0..MaxRecords /\ starts \in 0..MaxStarts  BY LogAssumption
<1>4. active \in [name : Nat, count : Nat]  OBVIOUS
<1> QED  BY <1>1, <1>2, <1>3, <1>4 DEF TypeOK

LEMMA StartType == TypeOK /\ (StartEmpty \/ Start) => TypeOK'
<1> SUFFICES ASSUME TypeOK, StartEmpty \/ Start PROVE TypeOK'  OBVIOUS
<1>1. Begun  BY DEF StartEmpty, Start
<1>2. /\ starts' \in 0..MaxStarts /\ lines' = {} /\ queue' \in Seq(Batch)
      /\ pc' = "wait" /\ rolled' \in BOOLEAN /\ kept' = {}
      /\ UNCHANGED << rollSec, now, sent >>
  <2>1. starts' \in 0..MaxStarts  BY <1>1, LogAssumption DEF Begun, TypeOK
  <2>2. queue' \in Seq(Batch)  BY <1>1 DEF Begun
  <2> QED  BY <1>1, <2>1, <2>2 DEF Begun
<1>3. ASSUME StartEmpty PROVE TypeOK'
  <2>1. info' = << [name |-> 1, begin |-> now] >>  BY <1>3 DEF StartEmpty
  <2>2. [name |-> 1, begin |-> now] \in [name : Nat, begin : Time]  BY DEF TypeOK
  <2>3. info' \in Seq([name : Nat, begin : Time])  BY <2>1, <2>2
  <2>4. Exists(bound)'
    <3>1. 1 \in DOMAIN info' /\ info'[1].name = 1  BY <2>1
    <3> QED  BY <1>3, <3>1 DEF StartEmpty, Exists
  <2> QED  BY <1>2, <1>3, <2>3, <2>4 DEF StartEmpty, TypeOK
<1>4. ASSUME Start PROVE TypeOK'
  <2>1. PICK i \in DOMAIN info : \E n \in IdsOf(info[i].name) \cup {0} :
            active' = [name |-> info[i].name, count |-> n] /\ bound' = info[i].name
    BY <1>4 DEF Start
  <2>2. PICK n \in IdsOf(info[i].name) \cup {0} :
            active' = [name |-> info[i].name, count |-> n] /\ bound' = info[i].name
    BY <2>1
  <2>4. info[i].name \in Nat  BY InfoType
  <2>5. n \in Nat
    <3>1. \A q \in rows : q.id \in Nat  BY DEF TypeOK, Row
    <3>2. IdsOf(info[i].name) \subseteq Nat  BY <3>1 DEF IdsOf
    <3> QED  BY <2>2, <3>2
  <2>6. UNCHANGED db /\ index' = Begins  BY <1>4 DEF Start
  <2>7. Begins' = Begins  BY <2>6 DEF db, Begins
  <2>8. Exists(bound)'  BY <2>2, <2>6 DEF db, Exists
  <2> QED  BY <1>2, <2>2, <2>4, <2>5, <2>6, <2>7, <2>8 DEF db, TypeOK
<1> QED  BY <1>3, <1>4

LEMMA MessageType ==
    TypeOK /\ (Tick \/ (\E k \in BatchSizes : StoreRecord(k)) \/ CatchTimeEvent) => TypeOK'
<1> SUFFICES ASSUME TypeOK PROVE
        /\ Tick => TypeOK'
        /\ \A k \in BatchSizes : StoreRecord(k) => TypeOK'
        /\ CatchTimeEvent => TypeOK'
  OBVIOUS
<1>1. ASSUME Tick PROVE TypeOK'
  <2>1. now' \in Time  BY <1>1, LogAssumption DEF Tick, Time, TypeOK
  <2> QED  BY <1>1, <2>1 DEF Tick, db, history, TypeOK, Begins, Exists
<1>2. ASSUME NEW k \in BatchSizes, StoreRecord(k) PROVE TypeOK'
  <2>1. k \in Nat /\ sent \in Nat /\ now \in Time  BY LogAssumption DEF TypeOK
  <2>2. sent' \in 0..MaxRecords  BY <1>2, <2>1, LogAssumption DEF StoreRecord, TypeOK
  <2>3. [first |-> sent + 1, size |-> k, sec |-> now] \in Batch  BY <2>1 DEF Batch
  <2>4. queue' \in Seq(Batch)  BY <1>2, <2>3 DEF StoreRecord, TypeOK
  <2> QED  BY <1>2, <2>2, <2>4 DEF StoreRecord, db, history, TypeOK, Begins, Exists
<1>3. ASSUME CatchTimeEvent PROVE TypeOK'
  <2>1. queue' \in Seq(Batch)  BY <1>3, PushType DEF CatchTimeEvent, TypeOK
  <2> QED  BY <1>3, <2>1 DEF CatchTimeEvent, db, clock, history, TypeOK, Begins, Exists
<1> QED  BY <1>1, <1>2, <1>3

LEMMA HeadType == TypeOK /\ Take => Head(queue) \in Batch /\ queue' \in Seq(Batch)
BY DEF TypeOK, Take

LEMMA AddLinesType ==
    ASSUME TypeOK, NEW b \in Batch, AddLines(b)
    PROVE  /\ lines' \in SUBSET Line /\ kept' \in SUBSET Nat
           /\ active' \in [name : Nat, count : Nat]
<1>1. LinesOf(b) \in SUBSET Line  BY LinesType
<1>2. lines' \in SUBSET Line  BY <1>1 DEF AddLines, TypeOK
<1>3. kept' \in SUBSET Nat  BY <1>1 DEF AddLines, TypeOK, Line
<1>4. active.name \in Nat /\ active.count + b.size \in Nat  BY DEF TypeOK, Batch
<1>5. active' = [name |-> active.name, count |-> active.count + b.size]  BY DEF AddLines
<1> QED  BY <1>2, <1>3, <1>4, <1>5

LEMMA TakeType == TypeOK /\ (TakePush \/ TakeFew \/ TakeMany \/ TakeFull) => TypeOK'
<1> SUFFICES ASSUME TypeOK, TakePush \/ TakeFew \/ TakeMany \/ TakeFull PROVE TypeOK'
  OBVIOUS
<1>1. Take  BY DEF TakePush, TakeFew, TakeMany, TakeFull
<1>2. Head(queue) \in Batch /\ queue' \in Seq(Batch)  BY <1>1, HeadType
<1>3. UNCHANGED << info, rows, index, bound, now, sent, starts >> /\ pc = "wait"
  BY <1>1 DEF Take, db, clock
<1>4. Begins' = Begins /\ Exists(bound)' /\ Exists(bound)
  BY <1>3 DEF Begins, Exists, TypeOK
<1>5. CASE TakePush
  <2>1. UNCHANGED << active, lines, rollSec, rolled, kept >> /\ pc' = "commit"
    BY <1>5 DEF TakePush, history
  <2> QED  BY <1>2, <1>3, <1>4, <2>1 DEF TypeOK
<1>6. CASE TakeFew \/ TakeMany
  <2>1. AddLines(Head(queue)) /\ pc' \in {"wait", "commit"}
    BY <1>3, <1>6 DEF TakeFew, TakeMany
  <2>2. /\ lines' \in SUBSET Line /\ kept' \in SUBSET Nat
        /\ active' \in [name : Nat, count : Nat]
    BY <1>2, <2>1, AddLinesType
  <2>3. UNCHANGED << rollSec, rolled >>  BY <2>1 DEF AddLines
  <2> QED  BY <1>2, <1>3, <1>4, <2>1, <2>2, <2>3 DEF TypeOK
<1>7. CASE TakeFull
  <2>1. /\ rollSec' = Head(queue).sec /\ rolled' = TRUE /\ pc' = "roll"
        /\ UNCHANGED << active, lines, kept >>
    BY <1>7 DEF TakeFull
  <2>2. rollSec' \in Time  BY <1>2, <2>1 DEF Batch
  <2> QED  BY <1>2, <1>3, <1>4, <2>1, <2>2 DEF TypeOK
<1> QED  BY <1>5, <1>6, <1>7

LEMMA StatementType == TypeOK /\ (Commit \/ CommitFails \/ CreateTable) => TypeOK'
<1> SUFFICES ASSUME TypeOK, Commit \/ CommitFails \/ CreateTable PROVE TypeOK'  OBVIOUS
<1>1. ASSUME Commit PROVE TypeOK'
  <2>1. rows' \in SUBSET Row  BY <1>1 DEF Commit, TypeOK, Row, Line
  <2>2. pc' \in {"create", "wait"}  BY <1>1 DEF Commit, Committed
  <2>3. Exists(bound)  BY <1>1 DEF Commit, TypeOK
  <2> QED  BY <1>1, <2>1, <2>2, <2>3 DEF Commit, clock, history, TypeOK, Begins, Exists
<1>2. ASSUME CommitFails PROVE TypeOK'
  <2>1. pc' \in {"create", "wait"}  BY <1>2 DEF CommitFails, Committed
  <2>2. Exists(bound)  BY <1>2 DEF CommitFails, TypeOK
  <2>3. lines' \in SUBSET Line  BY <1>2 DEF CommitFails, TypeOK
  <2> QED  BY <1>2, <2>1, <2>2, <2>3 DEF CommitFails, db, clock, history, TypeOK, Begins, Exists
<1>3. ASSUME CreateTable PROVE TypeOK'
  <2>1. NewName \in Nat /\ Exists(bound)  BY <1>3, NewNameType DEF CreateTable, TypeOK
  <2>2. active' \in [name : Nat, count : Nat]  BY <1>3, <2>1 DEF CreateTable
  <2>3. CASE info' = info
    <3>1. Begins' = Begins /\ Exists(bound)'  BY <1>3, <2>1, <2>3 DEF CreateTable, Begins, Exists
    <3> QED  BY <1>3, <2>2, <2>3, <3>1 DEF CreateTable, clock, history, TypeOK
  <2>4. CASE info' = Append(info, [name |-> NewName, begin |-> rollSec])
    <3>1. [name |-> NewName, begin |-> rollSec] \in [name : Nat, begin : Time]
      BY <2>1 DEF TypeOK
    <3>2. info \in Seq([name : Nat, begin : Time])  BY DEF TypeOK
    <3>3. info' \in Seq([name : Nat, begin : Time])  BY <2>4, <3>1, <3>2
    <3>4. \A i \in DOMAIN info : i \in DOMAIN info' /\ info'[i] = info[i]
      BY <2>4, <3>1, <3>2
    <3>5. Begins \subseteq Begins'  BY <3>4 DEF Begins
    <3>6. Exists(bound)'  BY <1>3, <2>1, <3>4 DEF CreateTable, Exists
    <3> QED  BY <1>3, <2>2, <3>3, <3>5, <3>6 DEF CreateTable, clock, history, TypeOK
  <2> QED  BY <1>3, <2>3, <2>4 DEF CreateTable
<1> QED  BY <1>1, <1>2, <1>3

(* Every variable keeps its type, and bulkInsert is bound to a table that   *)
(* TableInfo has, for any sizes of batches.                                 *)
THEOREM LogTypeInvariant == Spec => []TypeOK
<1>1. TypeOK /\ UNCHANGED vars => TypeOK'
  BY DEF vars, db, clock, history, TypeOK, Begins, Exists
<1>2. TypeOK /\ [Next]_vars => TypeOK'
  BY <1>1, StartType, MessageType, TakeType, StatementType DEF Next, Thread
<1> QED  BY <1>2, InitType, PTL DEF Spec

-----------------------------------------------------------------------------
(* No record is lost or doubled before a rollover, when records are stored  *)
(* one at a time, as PointLogger does.                                      *)

OneAtATime == BatchSizes = {1}

(* The record a message brings is none of those the store has.              *)
Upcoming ==
    /\ \A i \in DOMAIN queue :
        queue[i] = Push \/ (queue[i].size = 1 /\ queue[i].first \notin Waiting \cup Durable)
    /\ \A i, j \in DOMAIN queue :
        i # j /\ queue[i] # Push /\ queue[j] # Push => queue[i].first # queue[j].first
    /\ \A i \in DOMAIN queue : queue[i].first <= sent
    /\ \A n \in Waiting \cup Durable : n <= sent

(* Each record the store has, it has once.                                  *)
Once ==
    /\ \A k, l \in lines : k.no = l.no => k = l
    /\ Waiting \cap Durable = {}
    /\ \A q, r \in rows : q.no = r.no => q = r
    /\ info = <<>> => rows = {}

(* Before a rollover the count is past every id given out.                  *)
Counted ==
    ~rolled /\ pc # "down" =>
        /\ bound = active.name
        /\ \A l \in lines : l.id <= active.count
        /\ \A id \in IdsOf(bound) : id <= active.count
        /\ Fresh

(* After one no line is that of a kept record.                              *)
Settled ==
    /\ pc \in {"roll", "create"} => rolled
    /\ pc = "down" => ~rolled
    /\ rolled /\ Waiting \cap kept # {} => pc = "roll" /\ Fresh

Ledger == Upcoming /\ Once /\ Counted /\ Settled /\ kept \subseteq Waiting \cup Durable

LEMMA TakenQueue ==
    ASSUME TypeOK, Take
    PROVE  /\ 1 \in DOMAIN queue /\ Head(queue) = queue[1]
           /\ \A i \in DOMAIN queue' :
                 i + 1 \in DOMAIN queue /\ i + 1 # 1 /\ queue'[i] = queue[i + 1] /\ i \in Nat
<1>1. queue \in Seq(Batch) /\ queue # <<>> /\ queue' = Tail(queue)  BY DEF TypeOK, Take
<1> QED  BY <1>1

LEMMA InitLedger == Init => Ledger
BY DEF Init, Ledger, Upcoming, Once, Counted, Settled, Waiting, Durable, Fresh

LEMMA StartLedger == TypeOK /\ Ledger /\ (StartEmpty \/ Start) => Ledger'
<1> SUFFICES ASSUME TypeOK, Ledger, StartEmpty \/ Start PROVE Ledger'  OBVIOUS
<1>1. /\ lines' = {} /\ kept' = {} /\ queue' = <<>> /\ pc' = "wait" /\ rolled' = FALSE
      /\ rows' = rows /\ sent' = sent
  BY DEF StartEmpty, Start, Begun, db
<1>2. Waiting' = {} /\ Durable' = Durable  BY <1>1 DEF Waiting, Durable
<1>3. Upcoming'  BY <1>1, <1>2 DEF Ledger, Upcoming
<1>4. info' = <<>> => rows' = {}
  BY <1>1 DEF StartEmpty, Start, db, Ledger, Once
<1>5. Once'  BY <1>1, <1>2, <1>4 DEF Ledger, Once
<1>6. bound' = active'.name /\ \A id \in IdsOf(bound') : id <= active'.count
  <2>1. CASE StartEmpty
    <3>1. rows = {}  BY <2>1 DEF StartEmpty, Ledger, Once
    <3> QED  BY <2>1, <3>1 DEF StartEmpty, IdsOf
  <2>2. CASE Start
    <3>1. PICK i \in DOMAIN info : \E n \in IdsOf(info[i].name) \cup {0} :
            /\ IsMaxId(n, info[i].name)
            /\ active' = [name |-> info[i].name, count |-> n] /\ bound' = info[i].name
      BY <2>2 DEF Start
    <3> QED  BY <3>1 DEF IsMaxId
  <2> QED  BY <2>1, <2>2
<1>7. IdsOf(bound)' = IdsOf(bound')  BY <1>1 DEF IdsOf
<1>8. Counted'  BY <1>1, <1>6, <1>7 DEF Counted, Fresh
<1>9. Settled'  BY <1>1 DEF Settled
<1> QED  BY <1>1, <1>3, <1>5, <1>8, <1>9 DEF Ledger

LEMMA MessageLedger ==
    ASSUME TypeOK, Ledger, OneAtATime,
           Tick \/ (\E k \in BatchSizes : StoreRecord(k)) \/ CatchTimeEvent
    PROVE  Ledger'
<1>1. UNCHANGED << info, rows, active, bound, lines, pc, rolled, kept >>
  BY DEF Tick, StoreRecord, CatchTimeEvent, db, history
<1>2. Waiting' = Waiting /\ Durable' = Durable /\ IdsOf(bound)' = IdsOf(bound) /\ Fresh' = Fresh
  BY <1>1 DEF Waiting, Durable, IdsOf, Fresh
<1>3. Upcoming'
  <2>1. CASE Tick  BY <1>2, <2>1 DEF Tick, Ledger, Upcoming
  <2>2. ASSUME NEW m \in Batch, queue' = Append(queue, m), sent' \in Nat, sent <= sent',
               m.first <= sent', m = Push \/ (m.size = 1 /\ m.first > sent)
        PROVE  Upcoming'
    <3>1. queue \in Seq(Batch) /\ sent \in Nat  BY DEF TypeOK
    <3>2. \A i \in DOMAIN queue' : (i \in DOMAIN queue /\ queue'[i] = queue[i])
                                  \/ (i = Len(queue) + 1 /\ queue'[i] = m)
      BY <2>2, <3>1
    <3>3. \A i \in DOMAIN queue : queue[i] \in Batch /\ queue[i].first \in Nat
      <4>1. \A i \in DOMAIN queue : queue[i] \in Batch  BY <3>1
      <4> QED  BY <4>1 DEF Batch
    <3>4. \A n \in Waiting \cup Durable : n \in Nat
      BY DEF TypeOK, Waiting, Durable, Line, Row
    <3>5. m.first \in Nat  BY <2>2 DEF Batch
    <3>6. \A n \in Waiting \cup Durable : n <= sent'
      BY <2>2, <3>1, <3>4 DEF Ledger, Upcoming
    <3>7. \A i \in DOMAIN queue' : queue'[i].first <= sent'
      BY <2>2, <3>1, <3>2, <3>3 DEF Ledger, Upcoming
    <3>8. m # Push => m.first \notin Waiting \cup Durable
      BY <2>2, <3>1, <3>4, <3>5 DEF Ledger, Upcoming
    <3>9. \A i \in DOMAIN queue : m # Push => queue[i].first # m.first
      BY <2>2, <3>1, <3>3, <3>5 DEF Ledger, Upcoming
    <3> QED  BY <1>2, <2>2, <3>2, <3>6, <3>7, <3>8, <3>9 DEF Ledger, Upcoming
  <2>3. ASSUME NEW k \in BatchSizes, StoreRecord(k) PROVE Upcoming'
    <3>1. k = 1 /\ sent \in Nat /\ now \in Time  BY DEF OneAtATime, TypeOK
    <3> DEFINE m == [first |-> sent + 1, size |-> k, sec |-> now]
    <3>2. m \in Batch /\ m.size = 1 /\ m.first = sent + 1  BY <3>1 DEF Batch
    <3>3. queue' = Append(queue, m) /\ sent' = sent + 1  BY <2>3, <3>1 DEF StoreRecord
    <3> HIDE DEF m
    <3> QED  BY <2>2, <3>1, <3>2, <3>3
  <2>4. CASE CatchTimeEvent
    <3>1. queue' = Append(queue, Push) /\ sent' = sent /\ sent \in Nat /\ Push.first <= sent
      BY <2>4 DEF CatchTimeEvent, clock, TypeOK, Push
    <3> QED  BY <2>2, <3>1, PushType
  <2> QED  BY <2>1, <2>3, <2>4
<1>4. Once' /\ Counted' /\ Settled'
  BY <1>1, <1>2 DEF Ledger, Once, Counted, Settled
<1> QED  BY <1>1, <1>2, <1>3, <1>4 DEF Ledger

(* Adding a record that the store has not: it is behind every id.           *)
LEMMA AddedLine ==
    ASSUME TypeOK, Ledger, NEW b \in Batch, b.size = 1, AddLines(b)
    PROVE  /\ lines' = lines \cup {[id |-> active.count + 1, no |-> b.first]}
           /\ Waiting' = Waiting \cup {b.first}
           /\ active'.count = active.count + 1 /\ active'.name = active.name
           /\ active.count \in Nat
           /\ kept' = IF rolled THEN kept ELSE kept \cup {b.first}
<1>1. 0..(b.size - 1) = {0} /\ b.first \in Nat /\ active.count \in Nat  BY DEF TypeOK, Batch
<1>2. LineOf(b, 0) = [id |-> active.count + 1, no |-> b.first]  BY <1>1 DEF LineOf
<1>3. LinesOf(b) = {[id |-> active.count + 1, no |-> b.first]}  BY <1>1, <1>2 DEF LinesOf
<1>4. {l.no : l \in LinesOf(b)} = {b.first}  BY <1>3
<1> QED  BY <1>1, <1>3, <1>4 DEF AddLines, Waiting

LEMMA TakeLedger ==
    ASSUME TypeOK, Ledger, TakePush \/ TakeFew \/ TakeMany \/ TakeFull
    PROVE  Ledger'
<1> DEFINE b == Head(queue)
<1>1. Take  BY DEF TakePush, TakeFew, TakeMany, TakeFull
<1>2. /\ UNCHANGED << info, rows, bound, sent >> /\ pc = "wait"
      /\ Durable' = Durable /\ IdsOf(bound)' = IdsOf(bound)
  BY <1>1 DEF Take, db, clock, Durable, IdsOf
<1>3. /\ 1 \in DOMAIN queue /\ b = queue[1]
      /\ \A i \in DOMAIN queue' :
            i + 1 \in DOMAIN queue /\ i + 1 # 1 /\ queue'[i] = queue[i + 1] /\ i \in Nat
  BY <1>1, TakenQueue
<1>4. b \in Batch  BY <1>1, HeadType
<1>5. \A i, j \in DOMAIN queue' : i # j => i + 1 # j + 1  BY <1>3
<1>6. CASE (TakePush \/ TakeFull)
  <2>1. /\ UNCHANGED << active, lines, kept >>
        /\ \/ rolled' = rolled /\ pc' = "commit"
           \/ rolled' = TRUE /\ pc' = "roll"
    BY <1>6 DEF TakePush, TakeFull, history
  <2>2. Waiting' = Waiting /\ Fresh' = Fresh  BY <1>2, <2>1 DEF Waiting, Fresh
  <2>3. Upcoming'  BY <1>2, <1>3, <1>5, <2>2 DEF Ledger, Upcoming
  <2>4. Once'  BY <1>2, <2>1, <2>2 DEF Ledger, Once
  <2>5. Counted'  BY <1>2, <2>1, <2>2 DEF Ledger, Counted
  <2>6. Settled'  BY <1>2, <2>1, <2>2 DEF Ledger, Counted, Settled
  <2> QED  BY <1>2, <2>1, <2>2, <2>3, <2>4, <2>5, <2>6 DEF Ledger
<1>7. CASE TakeFew \/ TakeMany
  <2>1. AddLines(b) /\ b # Push /\ pc' \in {"wait", "commit"}
    BY <1>2, <1>7 DEF TakeFew, TakeMany
  <2>2. b.size = 1 /\ b.first \notin Waiting \cup Durable /\ b.first <= sent
    BY <1>3, <2>1 DEF Ledger, Upcoming
  <2> DEFINE new == [id |-> active.count + 1, no |-> b.first]
  <2>3. /\ lines' = lines \cup {new} /\ Waiting' = Waiting \cup {b.first}
        /\ active'.count = active.count + 1 /\ active'.name = active.name
        /\ active.count \in Nat /\ kept' = IF rolled THEN kept ELSE kept \cup {b.first}
    BY <1>4, <2>1, <2>2, AddedLine
  <2>4. rolled' = rolled  BY <2>1 DEF AddLines
  <2>5. new.no = b.first /\ new.id = active.count + 1  OBVIOUS
  <2>6. \A l \in lines : l.no \in Waiting /\ l.id \in Nat  BY DEF Waiting, TypeOK, Line
  <2> HIDE DEF new, b
  <2>7. Upcoming'
    <3>1. \A i \in DOMAIN queue' :
             queue'[i] = Push \/ (queue'[i].size = 1 /\ queue'[i].first \notin Waiting' \cup Durable')
      <4> SUFFICES ASSUME NEW i \in DOMAIN queue', queue'[i] # Push
                   PROVE  queue'[i].size = 1 /\ queue'[i].first \notin Waiting' \cup Durable'
        OBVIOUS
      <4>1. queue'[i] = queue[i + 1] /\ i + 1 \in DOMAIN queue /\ i + 1 # 1  BY <1>3
      <4>2. queue[i + 1].first # b.first  BY <1>3, <2>1, <4>1 DEF Ledger, Upcoming
      <4> QED  BY <1>2, <2>3, <4>1, <4>2 DEF Ledger, Upcoming
    <3>2. \A i, j \in DOMAIN queue' :
             i # j /\ queue'[i] # Push /\ queue'[j] # Push => queue'[i].first # queue'[j].first
      BY <1>3, <1>5 DEF Ledger, Upcoming
    <3>3. \A i \in DOMAIN queue' : queue'[i].first <= sent'
      BY <1>2, <1>3 DEF Ledger, Upcoming
    <3>4. \A n \in Waiting' \cup Durable' : n <= sent'
      BY <1>2, <2>2, <2>3 DEF Ledger, Upcoming
    <3> QED  BY <3>1, <3>2, <3>3, <3>4 DEF Upcoming
  <2>8. Once'
    <3>1. \A k, l \in lines' : k.no = l.no => k = l
      BY <2>2, <2>3, <2>5, <2>6 DEF Ledger, Once
    <3>2. Waiting' \cap Durable' = {}  BY <1>2, <2>2, <2>3 DEF Ledger, Once
    <3> QED  BY <1>2, <3>1, <3>2 DEF Ledger, Once
  <2>9. Counted'
    <3> SUFFICES ASSUME ~rolled PROVE
          /\ bound' = active'.name
          /\ \A l \in lines' : l.id <= active'.count
          /\ \A id \in IdsOf(bound)' : id <= active'.count
          /\ Fresh'
      BY <2>4 DEF Counted
    <3>1. /\ bound = active.name
          /\ \A l \in lines : l.id <= active.count
          /\ \A id \in IdsOf(bound) : id <= active.count
          /\ Fresh
      BY <1>2 DEF Ledger, Counted
    <3>2. \A id \in IdsOf(bound) : id \in Nat  BY DEF IdsOf, TypeOK, Row
    <3>3. \A l \in lines' : l.id <= active'.count  BY <2>3, <2>5, <2>6, <3>1
    <3>4. \A id \in IdsOf(bound)' : id <= active'.count  BY <1>2, <2>3, <3>1, <3>2
    <3>5. new.id \notin IdsOf(bound) /\ \A l \in lines : l.id # new.id
      BY <2>3, <2>5, <2>6, <3>1, <3>2
    <3>6. Fresh'
      <4>1. \A l \in lines' : l.id \notin IdsOf(bound)'  BY <1>2, <2>3, <3>1, <3>5 DEF Fresh
      <4>2. \A l, k \in lines' : k.id = l.id => k = l  BY <2>3, <3>1, <3>5 DEF Fresh
      <4> QED  BY <4>1, <4>2 DEF Fresh
    <3> QED  BY <1>2, <2>3, <3>1, <3>3, <3>4, <3>6
  <2>10. Settled'
    <3>1. ASSUME rolled PROVE Waiting' \cap kept' = {}
      BY <1>2, <2>2, <2>3, <3>1 DEF Ledger, Settled
    <3> QED  BY <2>1, <2>4, <3>1 DEF Settled
  <2>11. kept' \subseteq Waiting' \cup Durable'  BY <1>2, <2>3 DEF Ledger
  <2> QED  BY <2>7, <2>8, <2>9, <2>10, <2>11 DEF Ledger
<1> QED  BY <1>6, <1>7

LEMMA CommitLedger == TypeOK /\ Ledger /\ Commit => Ledger'
<1> SUFFICES ASSUME TypeOK, Ledger, Commit PROVE Ledger'  OBVIOUS
<1> DEFINE RowOf(l) == [table |-> bound, id |-> l.id, no |-> l.no]
<1>1. /\ rows' = rows \cup {RowOf(l) : l \in lines} /\ lines' = {}
      /\ UNCHANGED << info, active, bound, queue, sent, rolled, kept >>
      /\ pc \in {"commit", "roll"} /\ pc' = Committed
  BY DEF Commit, clock, history
<1>2. \A l \in lines : /\ RowOf(l).table = bound /\ RowOf(l).id = l.id /\ RowOf(l).no = l.no
  OBVIOUS
<1>3. pc' \in {"create", "wait"} /\ (pc' = "create" => pc = "roll")  BY <1>1 DEF Committed
<1> HIDE DEF RowOf
<1>4. Waiting' = {} /\ Durable' = Durable \cup Waiting
  BY <1>1, <1>2 DEF Waiting, Durable
<1>5. Upcoming'  BY <1>1, <1>4 DEF Ledger, Upcoming
<1>6. Once'
  <2>1. \A l \in lines : l.no \in Waiting /\ \A r \in rows : r.no \in Durable
    BY DEF Waiting, Durable
  <2>2. \A q, r \in rows' : q.no = r.no => q = r
    BY <1>1, <1>2, <2>1 DEF Ledger, Once
  <2>3. info # <<>>  BY <1>1 DEF TypeOK, Exists
  <2> QED  BY <1>1, <1>4, <2>2, <2>3 DEF Once
<1>7. Counted'
  <2>1. \A id \in IdsOf(bound)' : id \in IdsOf(bound) \/ \E l \in lines : l.id = id
    BY <1>1, <1>2 DEF IdsOf
  <2> QED  BY <1>1, <2>1 DEF Ledger, Counted, Fresh
<1>8. Settled'  BY <1>1, <1>3, <1>4 DEF Ledger, Settled
<1> QED  BY <1>1, <1>4, <1>5, <1>6, <1>7, <1>8 DEF Ledger

LEMMA FailureLedger == TypeOK /\ Ledger /\ CommitFails => Ledger'
<1> SUFFICES ASSUME TypeOK, Ledger, CommitFails PROVE Ledger'  OBVIOUS
<1>1. /\ UNCHANGED << info, rows, active, bound, queue, sent, rolled, kept >>
      /\ lines' \in {lines, {}} /\ ~Fresh /\ pc \in {"commit", "roll"} /\ pc' = Committed
  BY DEF CommitFails, db, clock, history
<1>2. rolled /\ Waiting \cap kept = {}  BY <1>1 DEF Ledger, Counted, Settled
<1>3. pc' \in {"create", "wait"}  BY <1>1 DEF Committed
<1>4. Waiting' \in {Waiting, {}} /\ Durable' = Durable  BY <1>1 DEF Waiting, Durable
<1>5. Upcoming'  BY <1>1, <1>4 DEF Ledger, Upcoming
<1>6. Once'  BY <1>1, <1>4 DEF Ledger, Once
<1>7. Counted' /\ Settled'  BY <1>1, <1>2, <1>3, <1>4 DEF Counted, Settled
<1>8. kept' \subseteq Waiting' \cup Durable'  BY <1>1, <1>2, <1>4 DEF Ledger
<1> QED  BY <1>5, <1>6, <1>7, <1>8 DEF Ledger

LEMMA CreateLedger == TypeOK /\ Ledger /\ CreateTable => Ledger'
<1> SUFFICES ASSUME TypeOK, Ledger, CreateTable PROVE Ledger'  OBVIOUS
<1>1. /\ UNCHANGED << rows, lines, queue, sent, rolled, kept >>
      /\ pc = "create" /\ pc' = "wait" /\ rolled
  BY DEF CreateTable, clock, history, Ledger, Settled
<1>2. Waiting' = Waiting /\ Durable' = Durable  BY <1>1 DEF Waiting, Durable
<1>3. info' # <<>>
  <2>1. info # <<>>  BY <1>1 DEF TypeOK, Exists
  <2>2. info \in Seq([name : Nat, begin : Time])  BY DEF TypeOK
  <2> QED  BY <2>1, <2>2 DEF CreateTable
<1>4. Upcoming' /\ Once'  BY <1>1, <1>2, <1>3 DEF Ledger, Upcoming, Once
<1>5. Counted' /\ Settled'  BY <1>1, <1>2 DEF Ledger, Counted, Settled
<1> QED  BY <1>1, <1>2, <1>4, <1>5 DEF Ledger

(* For any limits and any times of death: a record that was added before a  *)
(* rollover waits in memory or is in the tables, and none is there twice,   *)
(* provided that records are stored one at a time.                          *)
THEOREM RecordsAreKept == OneAtATime /\ Spec => []RecordsKept
<1> SUFFICES ASSUME OneAtATime PROVE Spec => []RecordsKept  OBVIOUS
<1>1. ASSUME TypeOK, Ledger, [Next]_vars PROVE Ledger'
  <2>1. CASE UNCHANGED vars
    BY <1>1, <2>1 DEF vars, db, clock, history, Ledger, Upcoming, Once, Counted, Settled,
                      Waiting, Durable, Fresh, IdsOf
  <2> QED  BY <1>1, <2>1, StartLedger, MessageLedger, TakeLedger, CommitLedger,
              FailureLedger, CreateLedger DEF Next, Thread
<1>2. Ledger => RecordsKept  BY DEF Ledger, Once, RecordsKept
<1> QED  BY <1>1, <1>2, InitLedger, LogTypeInvariant, PTL DEF Spec

=============================================================================
