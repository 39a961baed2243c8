-------------------------- MODULE AlarmStoreProofs --------------------------
(***************************************************************************)
(* Proofs about AlarmStore, for any points, values and logic group.        *)
(***************************************************************************)
EXTENDS AlarmStore, TLAPS

LEMMA CheckAlarmType == \A v \in Values : CheckAlarm(v) \in States
<1>1. \A i \in DOMAIN Logic : Logic[i].state \in States
  <2> DEFINE Checker == [compare : Comparisons, ref : Int, state : States]
  <2>1. \A c \in Checker : c.state \in States
    OBVIOUS
  <2> HIDE DEF Checker
  <2>2. Logic \in Seq(Checker)
    BY AlarmAssumption DEF Checker
  <2> QED
    BY <2>1, <2>2
<1>2. NORMAL \in States
  BY DEF NORMAL, States
<1> QED
  BY <1>1, <1>2 DEF CheckAlarm

LEMMA NoneIsNone == None \notin Message /\ None \notin MapEntry /\ None \notin Values
BY AlarmAssumption DEF Message, MapEntry

LEMMA InitTypeOK == Init => TypeOK
BY DEF Init, TypeOK, ServerShape, Stages

LEMMA PublishTypeOK ==
    ASSUME TypeOK, NEW p \in Points, NEW v \in Values, Publish(p, v)
    PROVE  TypeOK'
<1>1. [point |-> p, value |-> v, state |-> CheckAlarm(v)] \in Message
  BY CheckAlarmType DEF Message
<1>2. queue' \in Seq(Message)
  BY <1>1 DEF TypeOK, Publish
<1> QED
  BY <1>2 DEF TypeOK, Publish, ServerShape

LEMMA TakeTypeOK ==
    ASSUME TypeOK, TakeMessage
    PROVE  TypeOK'
<1>1. Head(queue) \in Message /\ queue' \in Seq(Message)
  BY DEF TypeOK, TakeMessage
<1>2. stage' \in {"idle", "raise", "archive"}
  BY DEF TakeMessage, FirstStage
<1>3. stage' = "raise" => map[Head(queue).point] = None
  BY DEF TakeMessage, FirstStage
<1>4. stage' = "archive" => map[Head(queue).point] # None
  BY DEF TakeMessage, FirstStage
<1>5. msg' = IF stage' = "idle" THEN None ELSE Head(queue)
  BY DEF TakeMessage
<1> QED
  BY <1>1, <1>2, <1>3, <1>4, <1>5, NoneIsNone DEF TypeOK, TakeMessage, ServerShape, Stages

LEMMA InsertTypeOK ==
    ASSUME TypeOK, InsertActive
    PROVE  TypeOK'
<1>1. msg \in Message
  BY DEF TypeOK, ServerShape, InsertActive
<1>2. [id |-> nextId, point |-> msg.point, value |-> msg.value, state |-> msg.state] \in Row
  BY <1>1 DEF TypeOK, Row, Message
<1>3. [id |-> nextId, state |-> msg.state] \in MapEntry
  BY <1>1 DEF TypeOK, MapEntry, Message
<1>4. map' \in [Points -> MapEntry \cup {None}]
  BY <1>1, <1>3 DEF TypeOK, InsertActive, Message
<1> QED
  BY <1>2, <1>4 DEF TypeOK, InsertActive, ServerShape, Stages

LEMMA InsertFailsTypeOK ==
    ASSUME TypeOK, InsertFails
    PROVE  TypeOK'
<1>1. msg \in Message
  BY DEF TypeOK, ServerShape, InsertFails
<1>2. lost' \subseteq Points
  BY <1>1 DEF TypeOK, InsertFails, Message
<1> QED
  BY <1>2 DEF TypeOK, InsertFails, ServerShape, Stages

LEMMA StoreTypeOK ==
    ASSUME TypeOK, StoreToHistory
    PROVE  TypeOK'
<1>1. msg \in Message /\ map[msg.point] # None
  BY DEF TypeOK, ServerShape, StoreToHistory
<1>2. map[msg.point] \in MapEntry
  BY <1>1 DEF TypeOK, Message
<1>3. HistoryRow(msg) \in Row
  BY <1>1, <1>2 DEF HistoryRow, Row, Message, MapEntry
<1> QED
  BY <1>1, <1>3 DEF TypeOK, StoreToHistory, ServerShape, Stages

LEMMA RemoveTypeOK ==
    ASSUME TypeOK, RemoveActive
    PROVE  TypeOK'
<1>1. msg \in Message /\ map[msg.point] # None
  BY DEF TypeOK, ServerShape, RemoveActive
<1>2. CASE msg.state = NORMAL
  BY <1>1, <1>2 DEF TypeOK, RemoveActive, ServerShape, Stages, Message
<1>3. CASE msg.state # NORMAL
  BY <1>1, <1>3 DEF TypeOK, RemoveActive, ServerShape, Stages
<1> QED
  BY <1>2, <1>3

LEMMA RestartTypeOK ==
    ASSUME TypeOK, Restart
    PROVE  TypeOK'
<1>1. {EntryOf(r) : r \in rows} \subseteq MapEntry
  BY DEF TypeOK, Row, MapEntry, EntryOf
<1>2. map' \in [Points -> MapEntry \cup {None}]
  BY <1>1 DEF Restart
<1> QED
  BY <1>2 DEF TypeOK, Restart, ServerShape, Stages

(* Every variable keeps its type; whatever the server thread is about to do *)
(* to a point, the map has the entry, or the gap, it relies on.             *)
THEOREM AlarmTypeInvariant == Spec => []TypeOK
<1>1. TypeOK /\ [Next]_vars => TypeOK'
  <2>1. ASSUME TypeOK, UNCHANGED vars
        PROVE  TypeOK'
    BY <2>1 DEF TypeOK, ServerShape, vars
  <2> QED
    BY <2>1, PublishTypeOK, TakeTypeOK, InsertTypeOK, InsertFailsTypeOK, StoreTypeOK, RemoveTypeOK,
       RestartTypeOK DEF Next
<1> QED
  BY <1>1, InitTypeOK, PTL DEF Spec

-----------------------------------------------------------------------------
(* Why the map stays the picture of the table: ids are never used twice, so *)
(* deleting by the id in the map deletes the one row of that point.  And an *)
(* alarm is in the history before it is deleted.  The entry of an alarm     *)
(* that was deleted and not replaced has an id no row will ever have.       *)
IdsFresh == \A r \in rows : r.id < nextId
IdsUnique == \A r, s \in rows : r.id = s.id => r = s
ArchivedFirst ==
    /\ stage \in {"remove", "reinsert"} => \E h \in history : h.id = map[msg.point].id
    /\ \A p \in lost : map[p] # None => \E h \in history : h.id = map[p].id
EntriesOld == \A p \in Points : map[p] # None => map[p].id < nextId
LeftBehind(p) == map[p] # None /\ Gone(p)
NoRowLeft == \A p \in Points : LeftBehind(p) => \A r \in rows : r.id # map[p].id

Books ==
    /\ MapMirrorsTable /\ IdsFresh /\ IdsUnique /\ ArchivedFirst
    /\ EntriesOld /\ NoRowLeft

LEMMA InitBooks == Init => Books
BY DEF Init, Books, MapMirrorsTable, IdsFresh, IdsUnique, ArchivedFirst, Gone, RowsOf,
       EntriesOld, NoRowLeft, LeftBehind

LEMMA PublishBooks ==
    ASSUME Books, NEW p \in Points, NEW v \in Values, Publish(p, v)
    PROVE  Books'
BY DEF Publish, Books, MapMirrorsTable, IdsFresh, IdsUnique, ArchivedFirst, Gone, RowsOf,
       EntriesOld, NoRowLeft, LeftBehind

LEMMA TakeBooks ==
    ASSUME Books, TakeMessage
    PROVE  Books'
<1>1. stage = "idle" /\ stage' \in {"idle", "raise", "archive"}
  BY DEF TakeMessage, FirstStage
<1>2. UNCHANGED << map, rows, history, nextId, lost >>
  BY DEF TakeMessage
<1> QED
  BY <1>1, <1>2 DEF Books, MapMirrorsTable, IdsFresh, IdsUnique, ArchivedFirst, Gone, RowsOf,
                    EntriesOld, NoRowLeft, LeftBehind

LEMMA InsertBooks ==
    ASSUME TypeOK, Books, InsertActive
    PROVE  Books'
<1> DEFINE p == msg.point
           n == [id |-> nextId, point |-> p, value |-> msg.value, state |-> msg.state]
<1>1. p \in Points /\ Gone(p) /\ nextId \in Nat
  BY DEF InsertActive, TypeOK, ServerShape, Message, Gone
<1>2. RowsOf(p) = {}
  BY <1>1 DEF Books, MapMirrorsTable
<1>3. /\ rows' = rows \cup {n} /\ stage' = "idle" /\ nextId' = nextId + 1
      /\ history' = history /\ lost' = lost \ {p}
  BY DEF InsertActive
<1>4. map'[p] = EntryOf(n) /\ \A q \in Points : q # p => map'[q] = map[q]
  BY <1>1 DEF InsertActive, TypeOK, EntryOf
<1>5. EntryOf(n) \in MapEntry
  BY DEF EntryOf, MapEntry, TypeOK, InsertActive, ServerShape, Message
<1>6. ASSUME NEW q \in Points
      PROVE  IF Gone(q)' THEN RowsOf(q)' = {}
             ELSE \E r \in rows' : RowsOf(q)' = {r} /\ map'[q] = EntryOf(r)
  <2>1. CASE q = p
    <3>1. ~Gone(q)'
      BY <1>3, <1>4, <1>5, <2>1, NoneIsNone DEF Gone
    <3>2. RowsOf(q)' = {n}
      BY <1>2, <1>3, <2>1 DEF RowsOf
    <3> QED
      BY <1>3, <1>4, <2>1, <3>1, <3>2
  <2>2. CASE q # p
    <3>1. RowsOf(q)' = RowsOf(q)
      BY <1>3, <2>2 DEF RowsOf
    <3>2. Gone(q)' <=> Gone(q)
      BY <1>3, <1>4, <2>2 DEF Gone
    <3> QED
      BY <1>3, <1>4, <2>2, <3>1, <3>2 DEF Books, MapMirrorsTable
  <2> QED
    BY <2>1, <2>2
<1>7. MapMirrorsTable'
  BY <1>6, Zenon DEF MapMirrorsTable, EntryOf
<1>8. IdsFresh' /\ IdsUnique'
  <2>1. \A r \in rows : r.id \in Nat /\ r.id < nextId
    BY DEF Books, IdsFresh, TypeOK, Row
  <2> QED
    BY <1>1, <1>3, <2>1 DEF Books, IdsFresh, IdsUnique
<1>9. \A q \in Points : map[q] # None => map[q].id \in Nat /\ map[q].id < nextId
  BY DEF Books, EntriesOld, TypeOK, MapEntry
<1>10. EntriesOld'
  <2>1. map'[p].id = nextId
    BY <1>4 DEF EntryOf
  <2> QED
    BY <1>1, <1>3, <1>4, <1>9, <2>1 DEF EntriesOld
<1>11. NoRowLeft'
  <2>1. ASSUME NEW q \in Points, LeftBehind(q)', NEW r \in rows'
        PROVE  r.id # map'[q].id
    <3>1. q # p
      BY <1>3, <1>4, <1>5, <2>1, NoneIsNone DEF LeftBehind, Gone
    <3>2. LeftBehind(q) /\ map'[q] = map[q]
      BY <1>3, <1>4, <2>1, <3>1 DEF LeftBehind, Gone
    <3>3. CASE r \in rows
      BY <3>2, <3>3 DEF Books, NoRowLeft
    <3>4. CASE r = n
      <4>1. r.id = nextId
        BY <3>4
      <4> QED
        BY <1>1, <1>9, <3>2, <4>1 DEF LeftBehind
    <3> QED
      BY <1>3, <3>3, <3>4
  <2> QED
    BY <2>1 DEF NoRowLeft, LeftBehind, Gone
<1>12. ArchivedFirst'
  BY <1>3, <1>4 DEF Books, ArchivedFirst, TypeOK
<1> QED
  BY <1>7, <1>8, <1>10, <1>11, <1>12 DEF Books

LEMMA InsertFailsBooks ==
    ASSUME TypeOK, Books, InsertFails
    PROVE  Books'
<1>1. PICK p \in Points : p = msg.point
  BY DEF InsertFails, TypeOK, ServerShape, Message
<1>2. /\ stage' = "idle" /\ lost' = lost \cup {p}
      /\ UNCHANGED << map, rows, history, nextId >>
  BY <1>1 DEF InsertFails
<1>3. Gone(p) /\ (map[p] # None => \E h \in history : h.id = map[p].id)
  BY <1>1 DEF InsertFails, TypeOK, ServerShape, Gone, Books, ArchivedFirst
<1>4. \A q \in Points : Gone(q)' <=> Gone(q)
  BY <1>1, <1>2, <1>3 DEF Gone
<1>5. ArchivedFirst'
  BY <1>2, <1>3 DEF Books, ArchivedFirst
<1>6. MapMirrorsTable'
  BY <1>2, <1>4 DEF Books, MapMirrorsTable, RowsOf
<1>7. NoRowLeft'
  BY <1>2, <1>4 DEF Books, NoRowLeft, LeftBehind
<1> QED
  BY <1>2, <1>5, <1>6, <1>7 DEF Books, IdsFresh, IdsUnique, EntriesOld

LEMMA StoreBooks ==
    ASSUME TypeOK, Books, StoreToHistory
    PROVE  Books'
<1>1. HistoryRow(msg).id = map[msg.point].id
  BY DEF HistoryRow
<1>2. ArchivedFirst'
  BY <1>1 DEF StoreToHistory, Books, ArchivedFirst
<1>3. stage = "archive" /\ stage' = "remove" /\ UNCHANGED << map, rows, msg, nextId, lost >>
  BY DEF StoreToHistory
<1> QED
  BY <1>2, <1>3 DEF Books, MapMirrorsTable, IdsFresh, IdsUnique, Gone, RowsOf,
                    EntriesOld, NoRowLeft, LeftBehind

(* Deleting by the id in the map takes the row of that point, if it has one, *)
(* and no other.                                                             *)
LEMMA RemoveEffect ==
    ASSUME TypeOK, Books, RemoveActive, NEW p \in Points, p = msg.point
    PROVE  /\ map[p] # None /\ Gone(p)' /\ RowsOf(p)' = {}
           /\ rows' \subseteq rows /\ \A r \in rows' : r.id # map[p].id
           /\ \A q \in Points : q # p => /\ RowsOf(q)' = RowsOf(q) /\ map'[q] = map[q]
                                         /\ q \in lost' <=> q \in lost
                                         /\ Gone(q)' <=> Gone(q)
<1>1. stage = "remove" /\ map[p] # None
  BY DEF RemoveActive, TypeOK, ServerShape
<1>2. rows' = {r \in rows : r.id # map[p].id}
  BY DEF RemoveActive
<1>3. /\ stage' \in {"idle", "reinsert"} /\ (stage' = "reinsert" => msg' = msg)
      /\ \A q \in Points : q # p => map'[q] = map[q] /\ (q \in lost' <=> q \in lost)
  BY DEF RemoveActive, TypeOK
<1>4. Gone(p)'
  <2>1. CASE msg.state = NORMAL
    BY <2>1 DEF RemoveActive, TypeOK, Gone
  <2>2. CASE msg.state # NORMAL
    BY <2>2 DEF RemoveActive, Gone
  <2> QED
    BY <2>1, <2>2
<1>5. \A q \in Points : q # p => (Gone(q)' <=> Gone(q))
  BY <1>1, <1>3 DEF Gone
<1>6. \A r \in rows : r.id = map[p].id => r.point = p
  <2>1. CASE Gone(p)
    BY <1>1, <2>1 DEF Books, NoRowLeft, LeftBehind
  <2>2. CASE ~Gone(p)
    <3>1. PICK r \in rows : RowsOf(p) = {r} /\ map[p] = EntryOf(r)
      BY <2>2 DEF Books, MapMirrorsTable
    <3>2. r.point = p /\ map[p].id = r.id
      BY <3>1 DEF RowsOf, EntryOf
    <3> QED
      BY <3>2 DEF Books, IdsUnique
  <2> QED
    BY <2>1, <2>2
<1>7. RowsOf(p)' = {}
  <2>1. CASE Gone(p)
    BY <1>2, <2>1 DEF Books, MapMirrorsTable, RowsOf
  <2>2. CASE ~Gone(p)
    <3>1. PICK r \in rows : RowsOf(p) = {r} /\ map[p] = EntryOf(r)
      BY <2>2 DEF Books, MapMirrorsTable
    <3>2. map[p].id = r.id
      BY <3>1 DEF EntryOf
    <3> QED
      BY <1>2, <3>1, <3>2 DEF RowsOf
  <2> QED
    BY <2>1, <2>2
<1>8. \A q \in Points : q # p => RowsOf(q)' = RowsOf(q)
  BY <1>2, <1>6 DEF RowsOf
<1> QED
  BY <1>1, <1>2, <1>3, <1>4, <1>5, <1>7, <1>8

LEMMA RemoveBooks ==
    ASSUME TypeOK, Books, RemoveActive
    PROVE  Books'
<1>1. PICK p \in Points : p = msg.point
  BY DEF RemoveActive, TypeOK, ServerShape, Message
<1>2. /\ map[p] # None /\ Gone(p)' /\ RowsOf(p)' = {}
      /\ rows' \subseteq rows /\ \A r \in rows' : r.id # map[p].id
      /\ \A q \in Points : q # p => /\ RowsOf(q)' = RowsOf(q) /\ map'[q] = map[q]
                                    /\ q \in lost' <=> q \in lost
                                    /\ Gone(q)' <=> Gone(q)
  BY <1>1, RemoveEffect
<1>3. map'[p] \in {None, map[p]} /\ nextId' = nextId /\ history' = history
  BY <1>1 DEF RemoveActive, TypeOK
<1>4. ASSUME NEW q \in Points
      PROVE  IF Gone(q)' THEN RowsOf(q)' = {}
             ELSE \E s \in rows' : RowsOf(q)' = {s} /\ map'[q] = EntryOf(s)
  <2>1. CASE q = p
    BY <1>2, <2>1
  <2>2. CASE q # p
    <3>1. \A s \in rows : RowsOf(q)' = {s} => s \in rows'
      BY DEF RowsOf
    <3> QED
      BY <1>2, <2>2, <3>1 DEF Books, MapMirrorsTable
  <2> QED
    BY <2>1, <2>2
<1>5. MapMirrorsTable'
  BY <1>4, Zenon DEF MapMirrorsTable, EntryOf
<1>6. EntriesOld'
  BY <1>2, <1>3 DEF Books, EntriesOld
<1>7. NoRowLeft'
  BY <1>2, <1>3 DEF Books, NoRowLeft, LeftBehind
<1>8. ArchivedFirst'
  <2>1. \E h \in history : h.id = map[p].id
    BY <1>1 DEF RemoveActive, Books, ArchivedFirst
  <2>2. stage' = "reinsert" => msg'.point = p /\ map'[p] = map[p]
    BY <1>1 DEF RemoveActive
  <2>3. stage' # "remove"
    BY DEF RemoveActive
  <2>4. lost' \subseteq Points
    BY DEF RemoveActive, TypeOK
  <2> QED
    BY <1>2, <1>3, <2>1, <2>2, <2>3, <2>4 DEF Books, ArchivedFirst
<1> QED
  BY <1>2, <1>3, <1>5, <1>6, <1>7, <1>8 DEF Books, IdsFresh, IdsUnique

LEMMA RestartBooks ==
    ASSUME TypeOK, Books, Restart
    PROVE  Books'
<1>1. /\ MapFromTable(map') /\ stage' = "idle" /\ lost' = {}
      /\ UNCHANGED << rows, history, nextId >>
  BY DEF Restart
<1>2. ASSUME NEW q \in Points
      PROVE  IF Gone(q)' THEN RowsOf(q)' = {}
             ELSE \E s \in rows' : RowsOf(q)' = {s} /\ map'[q] = EntryOf(s)
  <2>1. CASE RowsOf(q) = {}
    BY <1>1, <2>1 DEF MapFromTable, RowsOf, Gone
  <2>2. CASE RowsOf(q) # {}
    <3>1. PICK r \in rows : RowsOf(q) = {r}
      BY <2>2 DEF Books, MapMirrorsTable
    <3>2. map'[q] = EntryOf(r)
      BY <1>1, <2>2, <3>1 DEF MapFromTable
    <3>3. RowsOf(q)' = {r}
      BY <1>1, <3>1 DEF RowsOf
    <3>4. EntryOf(r) \in MapEntry
      BY <3>1 DEF TypeOK, Row, EntryOf, MapEntry, RowsOf
    <3>5. ~Gone(q)'
      BY <1>1, <3>2, <3>4, NoneIsNone DEF Gone
    <3>6. r \in rows'
      BY <1>1, <3>1 DEF RowsOf
    <3> QED
      BY <3>2, <3>3, <3>5, <3>6
  <2> QED
    BY <2>1, <2>2
<1>3. MapMirrorsTable'
  BY <1>2, Zenon DEF MapMirrorsTable, EntryOf
<1>4. EntriesOld'
  <2>1. \A r \in rows : EntryOf(r).id = r.id /\ r.id < nextId'
    BY <1>1 DEF EntryOf, Books, IdsFresh
  <2>2. \A q \in Points : map'[q] = None \/ \E r \in rows : map'[q] = EntryOf(r)
    BY <1>1 DEF MapFromTable, RowsOf
  <2> HIDE DEF EntryOf
  <2> QED
    BY <2>1, <2>2 DEF EntriesOld
<1>5. NoRowLeft' /\ ArchivedFirst'
  BY <1>1 DEF NoRowLeft, LeftBehind, Gone, ArchivedFirst
<1> QED
  BY <1>1, <1>3, <1>4, <1>5 DEF Books, IdsFresh, IdsUnique

LEMMA BooksKept == TypeOK /\ Books /\ [Next]_vars => Books'
<1>1. ASSUME Books, UNCHANGED vars
      PROVE  Books'
  BY <1>1 DEF vars, Books, MapMirrorsTable, IdsFresh, IdsUnique, ArchivedFirst, Gone, RowsOf,
              EntriesOld, NoRowLeft, LeftBehind
<1> QED
  BY <1>1, PublishBooks, TakeBooks, InsertBooks, InsertFailsBooks, StoreBooks, RemoveBooks, RestartBooks
     DEF Next

LEMMA BooksInvariant == Spec => []Books
BY InitBooks, BooksKept, AlarmTypeInvariant, PTL DEF Spec

(* Whatever the values published and wherever the process died, the map and *)
(* the table ActiveAlarm agree, and a point has at most one active alarm.   *)
THEOREM MapIsMirror == Spec => []MapMirrorsTable
<1>1. Books => MapMirrorsTable
  BY DEF Books
<1> QED
  BY <1>1, BooksInvariant, PTL

-----------------------------------------------------------------------------
(* Every step of the store is a step of AlarmLifecycle or leaves it alone.  *)
OpenAlarms == {[id |-> r.id, point |-> r.point] : r \in rows}
ArchivedIds == {h.id : h \in history}

LEMMA InsertOpens ==
    ASSUME TypeOK, Books, InsertActive
    PROVE  \E p \in Points : Life!Open(p)
<1>1. PICK p \in Points : p = msg.point
  BY DEF InsertActive, TypeOK, ServerShape, Message
<1>2. Gone(p)
  BY <1>1 DEF InsertActive, TypeOK, ServerShape, Gone
<1>3. RowsOf(p) = {}
  BY <1>2 DEF Books, MapMirrorsTable
<1>4. \A a \in OpenAlarms : a.point # p
  BY <1>3 DEF RowsOf, OpenAlarms
<1>5. OpenAlarms' = OpenAlarms \cup {[id |-> nextId, point |-> p]}
  <2> DEFINE n == [id |-> nextId, point |-> msg.point,
                   value |-> msg.value, state |-> msg.state]
  <2>1. rows' = rows \cup {n}
    BY DEF InsertActive
  <2>2. n.id = nextId /\ n.point = p
    BY <1>1
  <2> HIDE DEF n
  <2> QED
    BY <2>1, <2>2 DEF OpenAlarms
<1>6. ArchivedIds' = ArchivedIds /\ nextId' = nextId + 1
  BY DEF ArchivedIds, InsertActive
<1> QED
  BY <1>4, <1>5, <1>6 DEF Life!Open, OpenAlarms, ArchivedIds

LEMMA StoreArchives ==
    ASSUME TypeOK, Books, StoreToHistory,
           NEW p \in Points, p = msg.point, p \notin lost
    PROVE  \E a \in OpenAlarms : Life!Archive(a)
<1>1. ~Gone(p)
  BY DEF StoreToHistory, TypeOK, ServerShape, Gone
<1>2. PICK r \in rows : RowsOf(p) = {r} /\ map[p] = EntryOf(r)
  BY <1>1 DEF Books, MapMirrorsTable
<1> DEFINE a == [id |-> r.id, point |-> r.point]
<1>3. a \in OpenAlarms
  BY DEF OpenAlarms
<1>4. HistoryRow(msg).id = a.id
  BY <1>2 DEF HistoryRow, EntryOf
<1>5. ArchivedIds' = ArchivedIds \cup {a.id}
  BY <1>4 DEF ArchivedIds, StoreToHistory
<1>6. OpenAlarms' = OpenAlarms /\ nextId' = nextId
  BY DEF OpenAlarms, StoreToHistory
<1> QED
  BY <1>3, <1>5, <1>6 DEF Life!Archive, OpenAlarms, ArchivedIds

LEMMA RemoveCloses ==
    ASSUME TypeOK, Books, RemoveActive,
           NEW p \in Points, p = msg.point, p \notin lost
    PROVE  \E a \in OpenAlarms : Life!Close(a)
<1>1. ~Gone(p) /\ stage = "remove"
  BY DEF RemoveActive, TypeOK, ServerShape, Gone
<1>2. PICK r \in rows : RowsOf(p) = {r} /\ map[p] = EntryOf(r)
  BY <1>1 DEF Books, MapMirrorsTable
<1> DEFINE a == [id |-> r.id, point |-> r.point]
<1>3. map[p].id = r.id
  BY <1>2 DEF EntryOf
<1>4. a \in OpenAlarms
  BY DEF OpenAlarms
<1>5. a.id \in ArchivedIds
  BY <1>1, <1>3 DEF Books, ArchivedFirst, ArchivedIds
<1>6. rows' = rows \ {r}
  BY <1>3 DEF RemoveActive, Books, IdsUnique
<1>7. OpenAlarms' = OpenAlarms \ {a}
  BY <1>6 DEF OpenAlarms, Books, IdsUnique
<1>8. ArchivedIds' = ArchivedIds /\ nextId' = nextId
  BY DEF ArchivedIds, RemoveActive
<1> QED
  BY <1>4, <1>5, <1>7, <1>8 DEF Life!Close, OpenAlarms, ArchivedIds

(* An alarm left behind in the map is archived, and removed, already.       *)
LEMMA LeftBehindStutters ==
    ASSUME TypeOK, Books, StoreToHistory \/ RemoveActive,
           NEW p \in Points, p = msg.point, p \in lost
    PROVE  UNCHANGED << OpenAlarms, ArchivedIds, nextId >>
<1>1. LeftBehind(p)
  BY DEF StoreToHistory, RemoveActive, TypeOK, ServerShape, LeftBehind, Gone
<1>2. map[p].id \in ArchivedIds
  BY <1>1 DEF Books, ArchivedFirst, LeftBehind, ArchivedIds
<1>3. ASSUME StoreToHistory
      PROVE  ArchivedIds' = ArchivedIds /\ OpenAlarms' = OpenAlarms /\ nextId' = nextId
  <2>1. HistoryRow(msg).id = map[p].id
    BY DEF HistoryRow
  <2>2. history' = history \cup {HistoryRow(msg)} /\ UNCHANGED << rows, nextId >>
    BY <1>3 DEF StoreToHistory
  <2> QED
    BY <1>2, <2>1, <2>2 DEF ArchivedIds, OpenAlarms
<1>4. ASSUME RemoveActive
      PROVE  ArchivedIds' = ArchivedIds /\ OpenAlarms' = OpenAlarms /\ nextId' = nextId
  <2>1. \A r \in rows : r.id # map[p].id
    BY <1>1 DEF Books, NoRowLeft
  <2>2. rows' = rows /\ UNCHANGED << history, nextId >>
    BY <1>4, <2>1 DEF RemoveActive
  <2> QED
    BY <2>2 DEF ArchivedIds, OpenAlarms
<1> QED
  BY <1>3, <1>4

(* The store implements AlarmLifecycle: an alarm is opened once, under an   *)
(* id of its own and when its point has none open, and it is in the history *)
(* before it leaves the table, wherever the process died in between.        *)
THEOREM StoreKeepsLifecycle == Spec => LifecycleKept
<1>1. Init => Life!LifeInit
  BY DEF Init, Life!LifeInit
<1>2. TypeOK /\ Books /\ [Next]_vars => [Life!LifeNext]_(Life!lifeVars)
  <2> SUFFICES ASSUME TypeOK, Books, [Next]_vars
               PROVE  Life!LifeNext \/ UNCHANGED << OpenAlarms, ArchivedIds, nextId >>
    BY DEF Life!lifeVars, OpenAlarms, ArchivedIds
  <2>1. CASE InsertActive
    BY <2>1, InsertOpens DEF Life!LifeNext
  <2>2. CASE StoreToHistory
    <3>1. PICK p \in Points : p = msg.point
      BY <2>2 DEF StoreToHistory, TypeOK, ServerShape, Message
    <3> QED
      BY <2>2, <3>1, StoreArchives, LeftBehindStutters DEF Life!LifeNext, OpenAlarms
  <2>3. CASE RemoveActive
    <3>1. PICK p \in Points : p = msg.point
      BY <2>3 DEF RemoveActive, TypeOK, ServerShape, Message
    <3> QED
      BY <2>3, <3>1, RemoveCloses, LeftBehindStutters DEF Life!LifeNext, OpenAlarms
  <2>4. CASE TakeMessage \/ InsertFails \/ Restart \/ UNCHANGED vars
             \/ \E p \in Points, v \in Values : Publish(p, v)
    BY <2>4 DEF TakeMessage, InsertFails, Restart, vars, Publish, OpenAlarms, ArchivedIds
  <2> QED
    BY <2>1, <2>2, <2>3, <2>4 DEF Next
<1> QED
  BY <1>1, <1>2, AlarmTypeInvariant, BooksInvariant, PTL DEF Spec, LifecycleKept, Life!LifeSpec

-----------------------------------------------------------------------------
(* Why the table agrees with the values at rest: the last message about a   *)
(* point carries its value, and the messages are handled in order.          *)
InQueue(p) == \E i \in DOMAIN queue : queue[i].point = p
LastIn(i, p) ==
    queue[i].point = p /\ \A j \in DOMAIN queue : j > i => queue[j].point # p
Handled(p) == stage # "idle" /\ msg.point = p

LastCarriesValue ==
    \A p \in Points :
        value[p] # None =>
            /\ \A i \in DOMAIN queue : LastIn(i, p) => queue[i].value = value[p]
            /\ ~InQueue(p) /\ Handled(p) => msg.value = value[p]

Graded ==
    /\ \A i \in DOMAIN queue : queue[i].state = CheckAlarm(queue[i].value)
    /\ stage # "idle" => msg.state = CheckAlarm(msg.value)
    /\ stage = "raise" => msg.value # NORMAL

Current == LastCarriesValue /\ Graded /\ RestAgrees

(* 0 is the one value that is not an alarm.                                 *)
ZeroIsNormal == \A v \in Values : CheckAlarm(v) = NORMAL <=> v = NORMAL

LEMMA AtRestMeans ==
    \A p \in Points : AtRest(p) <=> value[p] # None /\ ~InQueue(p) /\ ~Handled(p)
BY DEF AtRest, InQueue, Handled

LEMMA PublishCurrent ==
    ASSUME TypeOK, Current, NEW p \in Points, NEW v \in Values, Publish(p, v)
    PROVE  Current'
<1> DEFINE m == [point |-> p, value |-> v, state |-> CheckAlarm(v)]
<1>1. /\ queue' = Append(queue, m) /\ queue \in Seq(Message) /\ m \in Message
      /\ UNCHANGED << map, rows, history, stage, msg, nextId, lost >>
  BY CheckAlarmType DEF Publish, TypeOK, Message
<1>2. /\ DOMAIN queue = 1..Len(queue) /\ DOMAIN queue' = 1..Len(queue) + 1
      /\ Len(queue) \in Nat /\ queue'[Len(queue) + 1] = m
      /\ \A i \in 1..Len(queue) : queue'[i] = queue[i]
  BY <1>1
<1>3. value'[p] = v /\ \A q \in Points : q # p => value'[q] = value[q]
  BY DEF Publish, TypeOK
<1>4. m.point = p /\ m.value = v /\ m.state = CheckAlarm(v)
  OBVIOUS
<1> HIDE DEF m
<1>5. Graded'
  <2>1. \A i \in DOMAIN queue' : queue'[i].state = CheckAlarm(queue'[i].value)
    BY <1>2, <1>4 DEF Current, Graded
  <2> QED
    BY <1>1, <2>1 DEF Current, Graded, CheckAlarm, FirstHit, Hit
<1>6. ASSUME NEW q \in Points, q # p
      PROVE  /\ \A i \in DOMAIN queue' : LastIn(i, q)' => i \in DOMAIN queue /\ LastIn(i, q)
             /\ InQueue(q)' <=> InQueue(q)
             /\ Handled(q)' <=> Handled(q)
  BY <1>1, <1>2, <1>4, <1>6 DEF LastIn, InQueue, Handled
<1>7. InQueue(p)' /\ \A i \in DOMAIN queue' : LastIn(i, p)' => i = Len(queue) + 1
  BY <1>2, <1>4 DEF LastIn, InQueue
<1>8. LastCarriesValue'
  <2>1. ASSUME NEW q \in Points, value'[q] # None
        PROVE  /\ \A i \in DOMAIN queue' : LastIn(i, q)' => queue'[i].value = value'[q]
               /\ ~InQueue(q)' /\ Handled(q)' => msg'.value = value'[q]
    <3>1. CASE q = p
      BY <1>2, <1>3, <1>4, <1>7, <3>1
    <3>2. CASE q # p
      BY <1>1, <1>2, <1>3, <1>6, <2>1, <3>2 DEF Current, LastCarriesValue
    <3> QED
      BY <3>1, <3>2
  <2> QED
    BY <2>1 DEF LastCarriesValue, InQueue, LastIn, Handled
<1>9. RestAgrees'
  <2>1. ASSUME NEW q \in Points, AtRest(q)', ~Missing(q)'
        PROVE  TableAgrees(q)'
    <3>1. q # p /\ value'[q] = value[q]
      BY <1>3, <1>7, <2>1 DEF AtRest, InQueue
    <3>2. AtRest(q)
      BY <1>1, <1>6, <2>1, <3>1, AtRestMeans DEF AtRest, InQueue, Handled
    <3>3. ~Missing(q)
      BY <1>1, <2>1, <3>1 DEF Missing, CheckAlarm, FirstHit, Hit
    <3>4. TableAgrees(q)
      BY <3>2, <3>3 DEF Current, RestAgrees
    <3> QED
      BY <1>1, <3>1, <3>4 DEF TableAgrees, RowsOf, CheckAlarm, FirstHit, Hit
  <2> QED
    BY <2>1 DEF RestAgrees, AtRest, TableAgrees, Missing
<1> QED
  BY <1>5, <1>8, <1>9 DEF Current

LEMMA TakeCurrent ==
    ASSUME TypeOK, Books, Current, TakeMessage, ZeroIsNormal
    PROVE  Current'
<1> DEFINE h == Head(queue)
<1>1. /\ queue \in Seq(Message) /\ queue # <<>> /\ queue' = Tail(queue)
      /\ stage = "idle" /\ stage' = FirstStage(h)
      /\ msg' = IF stage' = "idle" THEN None ELSE h
      /\ UNCHANGED << value, map, rows, history, nextId, lost >>
  BY DEF TypeOK, TakeMessage
<1>2. /\ DOMAIN queue = 1..Len(queue) /\ DOMAIN queue' = 1..Len(queue) - 1
      /\ Len(queue) \in Nat \ {0} /\ h = queue[1] /\ h \in Message
      /\ \A i \in 1..Len(queue) - 1 : queue'[i] = queue[i + 1]
  BY <1>1
<1>3. /\ stage' \in {"idle", "raise", "archive"}
      /\ stage' = "raise" => h.value # NORMAL
  BY <1>1 DEF FirstStage, InsertWanted
<1>4. h.state = CheckAlarm(h.value) /\ h.point \in Points /\ h.value \in Values
  BY <1>2 DEF Current, Graded, Message
<1> HIDE DEF h
<1>5. Graded'
  <2>1. \A i \in DOMAIN queue' : queue'[i].state = CheckAlarm(queue'[i].value)
    BY <1>2 DEF Current, Graded
  <2> QED
    BY <1>1, <1>3, <1>4, <2>1 DEF Graded, CheckAlarm, FirstHit, Hit
<1>6. ASSUME NEW q \in Points
      PROVE  /\ \A i \in DOMAIN queue' :
                   LastIn(i, q)' => i + 1 \in DOMAIN queue /\ LastIn(i + 1, q)
             /\ ~InQueue(q)' /\ h.point = q => 1 \in DOMAIN queue /\ LastIn(1, q)
             /\ ~InQueue(q)' /\ h.point # q => ~InQueue(q)
  <2>1. ASSUME NEW j \in DOMAIN queue, j # 1
        PROVE  j - 1 \in DOMAIN queue' /\ queue[j] = queue'[j - 1]
    <3>1. j - 1 \in 1..Len(queue) - 1 /\ (j - 1) + 1 = j
      BY <1>2, <2>1
    <3> QED
      BY <1>2, <3>1
  <2>2. \A i \in DOMAIN queue' : i + 1 \in DOMAIN queue /\ queue'[i] = queue[i + 1]
    BY <1>2
  <2>3. \A i \in DOMAIN queue' : LastIn(i, q)' => LastIn(i + 1, q)
    <3> SUFFICES ASSUME NEW i \in DOMAIN queue', LastIn(i, q)',
                        NEW j \in DOMAIN queue, j > i + 1
                 PROVE  queue[j].point # q
      BY <2>2 DEF LastIn
    <3>1. j - 1 \in DOMAIN queue' /\ queue[j] = queue'[j - 1] /\ j - 1 > i
      BY <1>2, <2>1
    <3> QED
      BY <3>1 DEF LastIn
  <2>4. \A j \in DOMAIN queue : ~InQueue(q)' /\ j # 1 => queue[j].point # q
    BY <2>1 DEF InQueue
  <2>5. 1 \in DOMAIN queue /\ queue[1] = h /\ \A j \in DOMAIN queue : j > 1 => j # 1
    BY <1>2
  <2>6. ~InQueue(q)' /\ h.point = q => LastIn(1, q)
    BY <2>4, <2>5 DEF LastIn
  <2>7. ~InQueue(q)' /\ h.point # q => ~InQueue(q)
    BY <2>4, <2>5 DEF InQueue
  <2> QED
    BY <2>2, <2>3, <2>5, <2>6, <2>7
<1>7. LastCarriesValue'
  <2>1. ASSUME NEW q \in Points, value'[q] # None
        PROVE  /\ \A i \in DOMAIN queue' : LastIn(i, q)' => queue'[i].value = value'[q]
               /\ ~InQueue(q)' /\ Handled(q)' => msg'.value = value'[q]
    BY <1>1, <1>2, <1>6, <2>1 DEF Current, LastCarriesValue, Handled
  <2> QED
    BY <2>1 DEF LastCarriesValue, InQueue, LastIn, Handled
<1>8. RestAgrees'
  <2>1. ASSUME NEW q \in Points, AtRest(q)', ~Missing(q)'
        PROVE  TableAgrees(q)
    <3>0. ~Missing(q)
      BY <1>1, <2>1 DEF Missing, CheckAlarm, FirstHit, Hit
    <3>1. value[q] # None /\ ~InQueue(q)' /\ ~Handled(q)'
      BY <1>1, <2>1 DEF AtRest, InQueue, Handled
    <3>2. CASE h.point # q
      <4>1. AtRest(q)
        BY <1>1, <1>6, <3>1, <3>2 DEF AtRest, InQueue
      <4> QED
        BY <3>0, <4>1 DEF Current, RestAgrees
    <3>3. CASE h.point = q
      <4>1. stage' = "idle"
        BY <1>1, <3>1, <3>3 DEF Handled
      <4>2. h.value = value[q]
        BY <1>2, <1>6, <3>1, <3>3 DEF Current, LastCarriesValue
      <4>3. CASE map[q] = None
        <5>1. RowsOf(q) = {}
          BY <4>3 DEF Books, MapMirrorsTable, Gone
        <5>2. h.value = NORMAL
          BY <1>1, <3>3, <4>1, <4>3 DEF FirstStage, InsertWanted
        <5> QED
          BY <1>4, <4>2, <5>1, <5>2 DEF TableAgrees, ZeroIsNormal
      <4>4. CASE map[q] # None
        <5>1. h.state # NORMAL /\ map[q].state = h.state
          BY <1>1, <3>3, <4>1, <4>4 DEF FirstStage
        <5>2. q \notin lost
          BY <1>4, <3>0, <4>2, <5>1 DEF Missing
        <5>3. PICK r \in rows : RowsOf(q) = {r} /\ map[q] = EntryOf(r)
          BY <1>1, <4>4, <5>2 DEF Books, MapMirrorsTable, Gone
        <5>4. r.state = h.state
          BY <5>1, <5>3 DEF EntryOf
        <5> QED
          BY <1>4, <4>2, <5>1, <5>3, <5>4 DEF TableAgrees
      <4> QED
        BY <4>3, <4>4
    <3> QED
      BY <3>2, <3>3
  <2>2. \A q \in Points : TableAgrees(q)' <=> TableAgrees(q)
    BY <1>1 DEF TableAgrees, RowsOf, CheckAlarm, FirstHit, Hit
  <2> QED
    BY <2>1, <2>2 DEF RestAgrees, AtRest, TableAgrees, Missing
<1> QED
  BY <1>5, <1>7, <1>8 DEF Current

(* Steps that handle the message of p and leave the queue alone.            *)
LEMMA HandledCurrent ==
    ASSUME Current, NEW p \in Points, Handled(p), UNCHANGED << value, queue >>,
           stage' # "raise",
           stage' = "idle" \/ msg' = msg,
           \A q \in Points : q # p => RowsOf(q)' = RowsOf(q) /\ (q \in lost' <=> q \in lost),
           stage' = "idle" /\ value[p] # None /\ ~InQueue(p) => Missing(p)' \/ TableAgrees(p)'
    PROVE  Current'
<1>1. \A q \in Points : Handled(q)' => Handled(q)
  BY DEF Handled
<1>2. Graded'
  BY DEF Current, Graded, Handled, CheckAlarm, FirstHit, Hit
<1>3. LastCarriesValue'
  <2>1. ASSUME NEW q \in Points, value'[q] # None
        PROVE  /\ \A i \in DOMAIN queue' : LastIn(i, q)' => queue'[i].value = value'[q]
               /\ ~InQueue(q)' /\ Handled(q)' => msg'.value = value'[q]
    <3>1. \A i \in DOMAIN queue : LastIn(i, q)' <=> LastIn(i, q)
      BY DEF LastIn
    <3>2. InQueue(q)' <=> InQueue(q)
      BY DEF InQueue
    <3>3. Handled(q)' => Handled(q) /\ msg' = msg
      BY DEF Handled
    <3> QED
      BY <2>1, <3>1, <3>2, <3>3 DEF Current, LastCarriesValue
  <2> QED
    BY <2>1 DEF LastCarriesValue, InQueue, LastIn, Handled
<1>4. RestAgrees'
  <2>1. ASSUME NEW q \in Points, AtRest(q)', ~Missing(q)'
        PROVE  TableAgrees(q)'
    <3>1. value[q] # None /\ ~InQueue(q) /\ ~Handled(q)'
      BY <2>1 DEF AtRest, InQueue, Handled
    <3>2. CASE q = p
      BY <2>1, <3>1, <3>2 DEF Handled
    <3>3. CASE q # p
      <4>1. AtRest(q)
        BY <3>1, <3>3, AtRestMeans DEF Handled
      <4>2. RowsOf(q)' = RowsOf(q) /\ ~Missing(q)
        BY <2>1, <3>3 DEF Missing, CheckAlarm, FirstHit, Hit
      <4> QED
        BY <4>1, <4>2 DEF Current, RestAgrees, TableAgrees, CheckAlarm, FirstHit, Hit
    <3> QED
      BY <3>2, <3>3
  <2> QED
    BY <2>1 DEF RestAgrees, AtRest, TableAgrees, Missing
<1> QED
  BY <1>2, <1>3, <1>4 DEF Current

LEMMA InsertCurrent ==
    ASSUME TypeOK, Books, Current, InsertActive, ZeroIsNormal
    PROVE  Current'
<1>1. PICK p \in Points : p = msg.point
  BY DEF InsertActive, TypeOK, ServerShape, Message
<1> DEFINE n == [id |-> nextId, point |-> msg.point,
                 value |-> msg.value, state |-> msg.state]
<1>2. /\ rows' = rows \cup {n} /\ stage' = "idle" /\ lost' = lost \ {p}
      /\ UNCHANGED << value, queue >>
  BY <1>1 DEF InsertActive
<1>3. n.point = p /\ n.state = msg.state
  BY <1>1
<1> HIDE DEF n
<1>4. Handled(p) /\ Gone(p)
  BY <1>1 DEF InsertActive, Handled, TypeOK, ServerShape, Gone
<1>5. RowsOf(p) = {}
  BY <1>4 DEF Books, MapMirrorsTable
<1>6. RowsOf(p)' = {n} /\ \A q \in Points : q # p => RowsOf(q)' = RowsOf(q)
  BY <1>2, <1>3, <1>5 DEF RowsOf
<1>7. msg.state = CheckAlarm(msg.value) /\ msg.state # NORMAL
  BY DEF InsertActive, Current, Graded, TypeOK, ServerShape, Message, ZeroIsNormal
<1>8. ASSUME value[p] # None, ~InQueue(p)
      PROVE  TableAgrees(p)'
  <2>1. msg.value = value[p]
    BY <1>4, <1>8 DEF Current, LastCarriesValue
  <2>2. CheckAlarm(value[p])' = CheckAlarm(value[p])
    BY <1>2 DEF CheckAlarm, FirstHit, Hit
  <2> QED
    BY <1>3, <1>6, <1>7, <2>1, <2>2 DEF TableAgrees
<1> QED
  BY <1>2, <1>4, <1>6, <1>8, HandledCurrent

LEMMA InsertFailsCurrent ==
    ASSUME TypeOK, Current, InsertFails, ZeroIsNormal
    PROVE  Current'
<1>1. PICK p \in Points : p = msg.point
  BY DEF InsertFails, TypeOK, ServerShape, Message
<1>2. /\ stage' = "idle" /\ lost' = lost \cup {p}
      /\ UNCHANGED << value, queue, rows >>
  BY <1>1 DEF InsertFails
<1>3. Handled(p) /\ \A q \in Points : RowsOf(q)' = RowsOf(q)
  BY <1>1, <1>2 DEF InsertFails, Handled, RowsOf
<1>4. msg.state = CheckAlarm(msg.value) /\ msg.state # NORMAL
  BY DEF InsertFails, Current, Graded, TypeOK, ServerShape, Message, ZeroIsNormal
<1>5. ASSUME value[p] # None, ~InQueue(p)
      PROVE  Missing(p)'
  <2>1. msg.value = value[p]
    BY <1>3, <1>5 DEF Current, LastCarriesValue
  <2>2. CheckAlarm(value[p])' = CheckAlarm(value[p])
    BY <1>2 DEF CheckAlarm, FirstHit, Hit
  <2> QED
    BY <1>2, <1>4, <2>1, <2>2 DEF Missing
<1> QED
  BY <1>2, <1>3, <1>5, HandledCurrent

LEMMA StoreCurrent ==
    ASSUME TypeOK, Current, StoreToHistory
    PROVE  Current'
<1>1. PICK p \in Points : p = msg.point
  BY DEF StoreToHistory, TypeOK, ServerShape, Message
<1>2. Handled(p) /\ stage' = "remove" /\ UNCHANGED << value, queue, msg, rows, lost >>
  BY <1>1 DEF StoreToHistory, Handled
<1>3. \A q \in Points : q # p => RowsOf(q)' = RowsOf(q)
  BY <1>2 DEF RowsOf
<1> QED
  BY <1>2, <1>3, HandledCurrent

LEMMA RemoveCurrent ==
    ASSUME TypeOK, Books, Current, RemoveActive
    PROVE  Current'
<1>1. PICK p \in Points : p = msg.point
  BY DEF RemoveActive, TypeOK, ServerShape, Message
<1>2. Handled(p) /\ UNCHANGED << value, queue >>
  BY <1>1 DEF RemoveActive, Handled
<1>3. /\ RowsOf(p)' = {}
      /\ \A q \in Points : q # p => RowsOf(q)' = RowsOf(q) /\ (q \in lost' <=> q \in lost)
  BY <1>1, RemoveEffect
<1>4. CASE msg.state = NORMAL
  <2>1. stage' = "idle"
    BY <1>4 DEF RemoveActive
  <2>2. msg.state = CheckAlarm(msg.value)
    BY DEF RemoveActive, Current, Graded
  <2>3. ASSUME value[p] # None, ~InQueue(p)
        PROVE  TableAgrees(p)'
    <3>1. msg.value = value[p]
      BY <1>2, <2>3 DEF Current, LastCarriesValue
    <3>2. CheckAlarm(value[p])' = CheckAlarm(value[p])
      BY <1>2 DEF CheckAlarm, FirstHit, Hit
    <3> QED
      BY <1>3, <1>4, <2>2, <3>1, <3>2 DEF TableAgrees
  <2> QED
    BY <1>2, <1>3, <2>1, <2>3, HandledCurrent
<1>5. CASE msg.state # NORMAL
  <2>1. stage' = "reinsert" /\ msg' = msg
    BY <1>5 DEF RemoveActive
  <2> QED
    BY <1>2, <1>3, <2>1, HandledCurrent
<1> QED
  BY <1>4, <1>5

LEMMA RestartCurrent ==
    ASSUME TypeOK, Restart
    PROVE  Current'
<1>1. queue' = <<>> /\ stage' = "idle" /\ \A p \in Points : value'[p] = None
  BY DEF Restart
<1>2. Graded'
  BY <1>1 DEF Graded
<1> QED
  BY <1>1, <1>2 DEF Current, LastCarriesValue, RestAgrees, AtRest

(* When 0 is the one value that is not an alarm, a point whose messages are *)
(* handled has an active alarm exactly when its last value calls for one,   *)
(* and of the state it calls for.                                           *)
THEOREM TableAgreesAtRest ==
    ASSUME ZeroIsNormal
    PROVE  Spec => []RestAgrees
<1>1. Init => Current
  BY DEF Init, Current, LastCarriesValue, Graded, RestAgrees, AtRest
<1>2. TypeOK /\ Books /\ Current /\ [Next]_vars => Current'
  <2>1. ASSUME Current, UNCHANGED vars
        PROVE  Current'
    BY <2>1 DEF vars, Current, LastCarriesValue, Graded, RestAgrees, AtRest, TableAgrees,
                Missing, RowsOf, InQueue, LastIn, Handled, CheckAlarm, FirstHit, Hit
  <2> QED
    BY <2>1, PublishCurrent, TakeCurrent, InsertCurrent, InsertFailsCurrent, StoreCurrent, RemoveCurrent,
       RestartCurrent DEF Next
<1>3. Current => RestAgrees
  BY DEF Current
<1> QED
  BY <1>1, <1>2, <1>3, AlarmTypeInvariant, BooksInvariant, PTL DEF Spec
=============================================================================
