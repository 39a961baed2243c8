# A TLA+ verification of Ncu3

Ncu3 connects Modbus devices to a tree of points. Clients read, write and subscribe to
points over TCP with JSON commands; an alarm store, a schedule and a log hang on the same
points. This directory holds TLA+ modules translated from the code, TLC configurations
that check them on small instances, and proofs that TLAPS checks for every instance.

`PROJECT.json` lists the components, the runs, the theorems, the hazards of the code with
the properties aimed at each, the findings, and for every definition the lines of the
source it stands for.

## 1. Inventory

`Deploy::run_equipment_alarm_schedule_log` constructs everything in a fixed order:
ConfigStorage, SerialPortManager, OpStorage, ChannelManager (one Modbus process per
channel), the VariableTree, AlarmVerifyStorePost, AlarmTalker, AlarmProcessor,
ScheduleManager and Integrator, PointLogStorage and PointLogger, TcpTalker; then the
channels start.

| Component | State | Operations | Threads | Correct when |
|---|---|---|---|---|
| VariableTree leaf | `outValue` by priority, its variable, listeners | `set_value`, `write_value`, `unset_value`, `catch_value_change` | every client, the schedule, the polling threads | the published value ends up as the highest-priority out-value |
| VariableTree branch | children, listeners | create/remove child, subscribe, catch_child_* | clients, every publishing thread | listeners hear of every change under them, with its value and path |
| Modbus TCP process | connection state, four query lists and iterators, sequence number, pending writes | `thread_process`, `force_coil`, `write_multiple_holding_register`, `start`, `stop` | one per device | every query is polled, a reply is used only for its own query, a dead peer is dropped |
| Modbus RTU process | pending writes, four query lists | as above over a shared serial port | one per slave | the newest write wins, queries are asked in turn whatever is lost |
| Modbus codecs | none | construct/decode messages, register values | - | the device gets a value in its format, and decoding inverts encoding |
| In/out operations | instruction list, constants | `OperationalLogic::execute`, `OpCreator` | callers | a pair of logics that undo each other changes nothing; none runs forever |
| Alarm | logic groups, map point -> active alarm, two tables | `handle_value_change`, `handle_alarm`, reads | publishing threads, server thread, talker | ActiveAlarm reflects the points; every alarm reaches the history |
| Schedule | time tables, rules, current timer | `start`, `catch_time_event` | timer thread | the action in force is the one of the latest event |
| Integrator | followers of a schedule | `catch_set/unset/write_event` | timer thread | all followers get each event |
| Point log | active table, bulk insert, table index | store, load, rollover | server thread, timer | each record is stored once and can be read |
| Tree browser, TCP talker | place in the tree, subscriptions; one partial message for all connections | `process_command`, `catch_message` | the talker's | one reply per command, to its sender; updates only to living browsers |
| Configuration, managers | constructed at the start | - | main | - |
| Equipment | names of points | used by `EquipmentManager`, which only `Test.hpp` constructs | - | - |

Interactions: a client's command reaches `VariableTree`, which hands the value to its
`Variable`; for a Modbus point that is `OperationVariable` (outLogic) and then the pending
writes of a Modbus process. The polling thread sends them, polls, and calls
`update_value_from_source`; that goes through inLogic into `Variable`'s cache, and a change
of the cache calls back `VariableTree::catch_value_change`, which tells listeners
(subscribers, alarms) *in the polling thread* and then may write again.

What is hard here: the out-value and the hand-over to the variable are not one critical
section; replies are not awaited but read after a sleep, so lateness moves them into other
queries; a failed connection throws writes away; a change walks up the tree in the thread that
publishes it while clients subscribe, write and disappear; one partial message serves all
connections; the alarm store runs three SQL statements without a transaction; the schedule
reads the clock several times for one event; several variables are uninitialised; boundary
lookups in the schedule, log rollover, byte orders and query building. Each is a hazard in
`PROJECT.json`, at its line.

## 2. Modules

| Module | Models |
|---|---|
| `LeafControl` | the command path of writable points: leaf, variable, write queue, polling thread, device |
| `MCLeafControl` | its constants for TLC |
| `LeafControlProofs` | its theorems |
| `ModbusIpPoll` | `ModbusIpProcess::thread_process`, with the network, `start`, `stop` and write requests |
| `MCModbusIpPoll`, `ModbusIpPollProofs` | constants, theorems |
| `QueryPlan` | the six query builders: `convert_variable_map_to_query` and the RTU `build_query` |
| `MCQueryPlan`, `QueryProofs` | constants, theorems, those of `PointPath` included |
| `AlarmLifecycle` | abstract: what the store promises of every alarm |
| `AlarmStore` | from a published value to the two tables, statement by statement, with restarts |
| `MCAlarmStore`, `AlarmStoreProofs` | constants, theorems and the refinement of `AlarmLifecycle` |
| `PointLogStore` | how `PointLogStorage` stores records: messages, bulk insert, commits, new tables, restarts |
| `MCPointLogStore`, `PointLogStoreProofs` | TLC's module, theorems |
| `TreeSessions` | clients on the tree: lines, commands, subscriptions, and the walk of a change to the root |
| `MCTreeSessions`, `TreeSessionsProofs` | constants, theorems |
| `ModbusRtuPoll` | `ModbusRtuProcess::thread_process` on its serial line |
| `MCModbusRtuPoll`, `ModbusRtuPollProofs` | constants, theorems |
| `Calendar` | rules of days: `load_schedule_rules` and `ScheduleRule::examine` |
| `Schedules` | one Schedule with its timer, its tables, the rules of `Calendar`, and the Integrator's listeners |
| `MCSchedules`, `SchedulesProofs` | constants, theorems |
| `RegisterValues` | `ModbusRegisterValue`: every type, both ways |
| `ModbusFrames` | requests, replies and `decode_reply` of `ModbusRtu` and `ModbusIP` |
| `InOutLogic` | `OpCreator` and `OperationalLogic` |
| `PointPath` | composes the last three: a value's way to the device and back |
| `MCPointPath` | its constants; its theorems are in `QueryProofs` |

The modules meet at the values they hand over. `LeafControl` has one class of writes where
`ModbusIpPoll` and `ModbusRtuPoll` have the threads that send them; both of these poll lists
of queries that `QueryPlan` builds; `PointPath` follows through `InOutLogic`,
`RegisterValues` and `ModbusFrames` what the others carry as one value; what `LeafControl`
publishes is what `TreeSessions` carries up the tree and what `AlarmStore` grades; the
actions that `Schedules` tells reach a point by `LeafControl`'s operations.

### LeafControl

`outValue[p]` is `leafData->outValue`; `cache[p]` the value `Variable` last published;
`toWrite[c][p]` what a client out of the mutex is about to hand to the variable (the gap in
`set_value`, `write_value` and `unset_value`); `pending`, `sending`, `reply` and `device`
follow one value through `valueMap`, the socket and the device and back; `catching` and
`forcing` are the two halves of `catch_value_change` (before the mutex is taken, after it is
released). `SetValue`, `WriteValue`, `UnsetValue` are the critical sections,
`HandToVariable` the rest of the operation.

Simplifications. One class of writes stands for coils and holding registers; the value goes
through `outLogic` and into the queue in one step, as only the replacement of the entry is
visible to others. One query reads all points. Connection handling is a single state
`closed`: `ModbusIpPoll` has the detail. `PrioritizedValue` belongs to MyLib, which is
outside the repository; whether it keeps a value it reports as outranked is not visible from
here, so both answers are allowed (`KeepOutranked`), and each is used by some run.

`slip[p]` is a history variable: it becomes true where the code loses a command of `p` without
being able to notice (a write discarded with the connection or ignored by the device; an
undone write; a late write that replaces the active value in the queue while equal to the
cached one) and false again when a change is published or a write takes the entry over. No
guard reads it. The properties say that *nothing else* loses a command.

### ModbusIpPoll

`mainState`, `subState`, `failCount`, the iterators and `seq` are the variables of the code;
`pc` is the position inside an iteration of the loop (between a send and its read the network
moves). The network is `wire` (requests and their replies, in order) and `rx` (received, not
read). `get_reply` reads once after a sleep: what is in `rx` then is the answer, a late one
stays for whatever reads next. Reading takes the whole buffer, and `decode_reply` decodes
two replies read together as none (`OneReply`): their bytes are not the length the first
one announces. `age` on a message counts the requests sent since its own: it is
bookkeeping for `FreshReplies` and for telling a received reply from a missing one.

`mainState`, `subState` and `failCount` are never initialised in the code, so `Init` takes
any of `Garbage`. The slips of the two branches that increment another list's iterator
(`ModbusIpProcess.cpp:636` and `:728`) are modelled as they are. An iterator is not followed
further than one element past `end()`.

Simplifications: a device may drop its oldest request but does not reorder; `open` and
`connection_established` returning false change nothing and are stuttering; the second
`start`, which enters digital input queries again because their map is never cleared
(`ModbusIpProcess.cpp:222`), keeps its lists: `QueryPlan` has that.

### QueryPlan

`builder` says which of six loops this is: coils, digital inputs and registers over TCP
(holding and input registers have the same loop), coils, holding and input registers of RTU.
`wanted` and `longest` are the address map (`HoldingRegisterData::count` and its variables),
`open` the local `entry` or `element`, `plan` the query list, `todo` what the iterator has
not reached. `Begin`, `Join` and `Split` are the branches of a loop, `Finish` what follows it.
The builders differ in `Close` (is the gap small?), `Fits` (is the query short enough?) and
in whether they clear their map (`Keepers` do not: `ModbusIpProcess.cpp:222` clears the coils
a second time instead of the digital inputs, `clean_build_data` forgets the input registers).

`Ask` is `get_..._variable`, before the first `start` or after a `stop`; `asked` is a history
variable. Simplifications: an element of `Variables` stands for all variables with its address
and width; a process has one of the builders, where the code runs them one after another; the
RTU digital inputs are left out, as none can be made (`ModbusRtuProcess.cpp:71`); `start` of a
running TCP process, which would append to lists the thread iterates over, never happens.

### AlarmStore

`Publish` is `handle_value_change` and `catch_alarm_state`: the state is graded in the
publishing thread and queued. `TakeMessage` is `handle_alarm` up to its first statement;
`StoreToHistory`, `RemoveActive` and `InsertActive` are its statements. `Restart` loses the
queue and everything but the tables, at any point, and rebuilds the map as the constructor
does (from any row of a point, were there two). `InsertFails` is the branch of `handle_alarm`
without an id: the failure the code looks for. It leaves the entry of an alarm that was removed
to be replaced; `lost`, a history variable, has the points to which this happened.

Simplifications: only inserts into ActiveAlarm fail; the schema of the database is not in the
repository, and ids are taken to be never reused, as with AUTOINCREMENT;
timestamps and the comparison data carried along are left out; the model starts when
listeners are registered.

### PointLogStore

`info` and `rows` are the database (`TableInfo` in the order of its rows, and the log tables'
rows); `index` the keys of `startTime2TableMap`; `active` is `activeTableData`, `bound` the
table the bulk insert was created for, `lines` what it holds. `StoreRecord` and
`CatchTimeEvent` send messages; `TakePush`, `TakeFew`, `TakeMany` and `TakeFull` are the
branches of `thread_process` and `perform_store_log` up to the first statement, `Commit` or
`CommitFails` is `commit_insert`, `CreateTable` is `create_and_use_new_log_table`. `StartEmpty`
and `Start` are the constructor on an empty and on an existing database. They are enabled in
every state, so the process dies between any two statements; a graceful end loses the lines in
memory as well, since the destructor does not push them.

`Sqlite3::BulkInsert` is MyLib's: a commit inserts every line, or none when an id is taken,
and whether it then keeps the lines is left open. `rolled` and `kept` are history variables;
no guard reads them. Simplifications: records are numbers; two rows of `TableInfo` with the
same start time are read in the order of insertion; the loading of records, which nothing in
the repository calls, is not modelled.

### TreeSessions

A node is its path. `tree[p]` is its kind, `value` what its variable has, `listens[c]` the
nodes with a value listener of connection `c`, `cursor[c]` the browser's place, `partial` the
talker's `partialMessage`. `walk[t]` is the call `catch_value_change` of thread `t` and the
`catch_child_value_change` above it: the node it has come to, the ids collected so far, the
listeners still to be told and the one it is writing to. A channel's thread publishes its
points (`Publish`); the talker, executing a write to a leaf without a device, walks itself
before it replies. `Enter`, `Take`, `Send`, `Up` and `Done` are the walk; `Enter` takes the
mutex of a node's listeners and `Up` releases it, and a command that subscribes waits for it.
Each command of `TreeBrowser` is an operator of its own, under `Execute`. `Connect` and
`Disconnect` make and destroy browsers; `~TreeBrowser` waits for a listener that is writing.

`mid[c]` is the environment's: the line of which connection `c` has sent the beginning.
History variables are `stale`, the updates owed (a change happened under a node while its
listener was there), `crossed` and `misled`, which compare what a connection sent with what
was executed for it. No guard reads them.

Simplifications. The rule by which a leaf accepts a value is LeafControl's; here acceptance is
a choice, and so is what comes to the fore when a value is unset. `BranchListener` overrides no callback, so nobody hears of
new or removed nodes. A Tag must be an integer or a string (`NewIds`), but which one a subscription
has is left out: `tagId` is written by the talker and read by the walking threads without a lock.
A NewId of another kind is not refused: the child gets the key that a default-constructed
`EitherKey` is (`Blank`, one that a client may also use). A reply is known by the command it answers;
that it says Good although a value was rejected or a node not removed is in the findings.

### ModbusRtuPoll

`regs` and `order` are `writeHoldingRegisterData`, `coils` is `forceCoilData`, `batch` the
local copy a round works on, `tries` the loop of two, `turn` the iterator with its list.
`port` is the line: whether it keeps late replies (`keepsLate`) and one that waits (`late`).
`SyncedSerialPort` is not in the repository, so both kinds of port are initial states. `Line`
says what a request may meet: it reaches the device or not, its reply is read, late or lost.
`Acknowledges` is `decode_reply` with the comparison that follows. `asked` is a history
variable: the value a client asked for last, and no value again once that very write has been
given up after its two tries. Giving up an older write, while a newer one of the address waits,
does not touch it. Clients may ask for writes without end; `MaxWaiting` bounds how many addresses
wait to be taken at one moment, and a new value for an address that waits is always accepted.

Two slips of the code are modelled as they are: a single register is requested with as many
bytes 1 as its high and low byte say (`ModbusRtu.cpp:316`), so that of all values only 257
reaches the device, and the acknowledgement of a coil switched on is never recognised
(`ModbusRtu.cpp:501`). `NewestWins` holds with both, since such a write is tried twice and then
given up.

### Calendar, Schedules

`Calendar` has the subjects of a date, their comparison and the loading of rules, which leaves
out conditions it does not understand. `localtime_r` is external: a `Date` is a day of the
Gregorian calendar with its day of the year and any day of the week, and `NextDate` goes to the
next.

In `Schedules`, `timers` is what EventTimer holds, `handler` the call of `catch_time_event` or
`start` that is running, `call` the loop over the listeners inside it, `table` the table in
force. The code reads the clock at the beginning of a handler, after the listeners were called
and when it chooses a table; `start` reads it three times, for the second of the day (`Start`),
for the midnight (`ReadMidnight`) and for the date (`FirstTable`). `Tick` may come between any two.
`CatchTimeEvent` takes an event on time or late; `ChooseTable` and `Arm` are its two ends.

`TakeListener` goes to the next listener and drops one that has expired. Inside a listener
`call.at` is the iterator over `followerList`, a vector. `DropFollower` erases a follower that is
gone *after* the iterator was moved on (`Integrator.cpp:64-66`), so that the next follower is passed
over. `FollowersDone` leaves the loop at the end of the vector; when the last follower was erased
the iterator is past that end and the loop does not leave (`Astray`: what it does to the memory
behind the vector is undefined and not followed). At a living follower it stays
(`Integrator.cpp:70`) until that one is gone (`Hung`).

`slipped` is a history variable: the last day a handler came to that was not the day of its
event or of its previous reading of the clock, so that the code takes the wrong day for it. The
properties except the days up to it and hold again from the next midnight on.

Simplifications: all days have the same length (no daylight saving); tables are given with
seconds of the day, as the schedule expects them. `load_time_table` fills them with `hhmmss`
numbers and `load_schedule_map` returns an empty map, so no schedule is started by the program
as it is: the findings have both, and the module shows what the schedule does once they are
given what they were meant to load.

### RegisterValues, ModbusFrames, InOutLogic, PointPath

A register type is a record of table, kind, size and order of words, which stands for the
two long `switch` statements `ModbusRegisterValue` has for them. A byte has `ByteBits` bits and
`Base` values (`ByteSize`: the one is two to the power of the other), and a byte of coils is
its bits; values of the tree have `IntBits` bits. A floating point value is the number its bits
make. Frames keep function code, address, count, data and the length that is checked.
`InOutLogic` loads a list of lines and executes it up to `MaxInstruction`; types of values
other than integers are left out.

`PointPath` picks a point (type, byte order, transport, address, logics) and one of the queries
that cover it (`Reads`), lets a client write or the device measure, and reads back. `meant` is
what was last written or measured, `Intended` what the out-logic makes of it, `Held` the value
that the type can hold of that. `ShownAsAsked` says that the tree then shows what the in-logic
makes of `Held`; `DeviceSees` compares the registers with a definition of its own of what they
mean (`DeviceNumber`), and has every other address unchanged. `Lossy` names the conversions
the code gets wrong: the serial frame for one register (`SingleFrame`), and FLOAT64.

## 3. Runs

| Run | Question | Bounds |
|---|---|---|
| `leaf_races` | is a deviation from the out-value always being corrected, whatever two clients, a lossy connection and a self-willed device do, and does a lasting out-value get published? `TypeOK`, `CorrectionOwed`, `SettledEnforced`, `EventuallyEnforced` | 1 point, 2 clients, 3 values, 2 priorities |
| `leaf_serial` | can a single client lose a command on a reliable device? `NothingSlips` | 2 points, 2 priorities |
| `leaf_forced_back` (violation) | is the last out-value always enforced, as the comment says? | no losses: only the race |
| `poll_rounds` | the polling thread through every trouble: `FreshReplies`, `IteratorsInRange`, `EveryQueryPolled`, `SilentPeerDropped` | 3 queries, sequence numbers modulo 2, 2 requests behind, 1 write of each kind |
| `plan_built` | does every plan serve every variable, within the limits? `VariablesServed`, `NothingLost`, `PolledOnce`, `SizesKept` | 8 variables (coils: the 6 of width 1), 2 starts, 5 registers or 16 coils per query |
| `alarm_restart` | map, table and lifecycle with failing inserts and restarts between any two statements, and what the table comes to: `MapMirrorsTable`, `RestAgrees`, `LifecycleKept`, `EventuallyAgrees` | 2 points, 3 values, queue 2, 3 inserts |
| `log_kept` | is every record kept, once, through commits and crashes until a table is full, and does it get into a table? `RecordsKept`, `EventuallyDurable` | 6 records one at a time, 2 in memory, 5 per table, queue 2, 3 starts |
| `log_rollover` (violation) | does a new record stay in memory until it is stored? | 1 start |
| `tree_sessions` | is every update owed to a client on its way, true, and delivered in the end; are replies for the command sent? `TypeOK`, `SubscribersTold`, `UpdatesCurrent`, `OwnCommands`, `EventuallyTold` | 2 connections, 4 nodes (a channel, its point, one made by clients), 2 values, all commands, lines of up to 2 pieces; 524,360 states |
| `schedule_days` | is every action of every day's table told once, in order, in the end; are dates recognised? `TypeOK`, `NothingMissed`, `OnNamedDays`, `ToldInOrder`, `EventuallyExecuted` | 3 plans, days of 3 seconds, 9 moments, 2 listeners, 2 points that follow one of them; 101,812 states |
| `rtu_rounds` | the serial thread through lost and late replies, while clients go on asking for writes for ever: `TypeOK`, `NewestWins`, `EveryQueryAsked`, `EventuallyShown` | a single and a double register, a coil, an input, 3 queries in two lists; any number of writes, 2 addresses waiting at once; 225,200 states |
| `value_path` | does a value arrive in the device's format and come back the same? `ShownAsAsked`, `DeviceSees` | every register and bit type, both byte orders and transports, 2 addresses, 2 queries, 6 pairs of logics; bytes of 2 bits, values of 16; 331,332 states |

Why the bounds are enough. Two clients are what it takes to reorder two hand-overs; three
values let a stale, a cached and an active value all differ; two priorities have an outranking
and an outranked one; two points share a queue (`leaf_serial`). The theorems remove these bounds for the
safety properties. In `poll_rounds` a modulus of 2 makes numbers repeat after two requests,
as close as the lag comes, and the list of coils has two queries so that one can wrongly be
taken for the other; `failCount` keeps its eight bits, and the initial contents cover every
`case` of both switches and both sides of the counter's limits. `MaxId` and `MaxQueue` stop
publishing: three inserts are enough to raise, change and clear an alarm around a restart.
`Publish` of a value that another is about to overtake needs a queue of two. In
`plan_built` the variables include two at one address, a short one inside a long one,
neighbours, gaps of one and of two registers, and coils on both sides of the joining distance
(7 after the last byte) and of the limit; TLC takes every subset of them, asked for in every
order, before and after the first start. The configuration switches the deadlock check
off: a process that is not started again builds no more queries. In `tree_sessions`
the two connections are a subscriber and one that disturbs it, or two that subscribe to the same
node; there is a walk of a channel's thread and one of the talker, over nodes at three
levels; one command may come in pieces, as only the pieces of different connections meet. In
`schedule_days` three seconds give a table events at both ends of the day and in the middle,
nine moments two midnights and a whole day between; the plans cross 29 February, the end of a
year and 28 February, and have a condition that is not understood, an empty table and days
without one. Of the two listeners one has two followers in its vector and the other none: the first of the
vector, its last and both may be gone when an action is told, and a listener without followers
lets the days go on. Its configuration switches the deadlock check off, since the clock stops at
`Horizon`. In `rtu_rounds` the number of writes has no bound, only how many addresses wait at one
moment: two, so that a batch has two registers, or one register and a coil follows, while newer
values for the same addresses wait behind them. 257 is the register value the serial frame
carries and is acknowledged, 2 one that it does not and that is given up; a newer 257 may meet an
older one that is being sent or whose reply is late. The coil is only switched off, which is the
write whose acknowledgement is recognised: that one switched on is always given up is left to
the theorem, to keep the states few. One list has two queries and another one. In `value_path` the samples are the
ends of a type's range and numbers whose bytes all differ, so that any two bytes exchanged show;
two bits are enough for a byte, as no operation but the conversions looks into one. In `log_kept` six records fill a
table of five, so that a rollover is followed by a record and by restarts; two lines in memory
give both commits by number and by the clock; with three starts there is a restart before and
one after the rollover, and two tables with equal and with different start times.

### Fairness

- `LeafControl`: weak fairness of the hand-over of each client and of the polling thread:
  neither waits for anything but sleeps, mutexes held briefly and sockets with timeouts.
  Strong fairness of answered queries and of writes that arrive says that the device is not
  out of reach forever; it is an assumption about the environment. `EventuallyEnforced` also
  supposes that the device stops overriding.
- `ModbusIpPoll`: weak fairness of the thread and of delivery on an open connection.
  `EveryQueryPolled` has the premise `Calm`: from some time on replies are not late, lost or
  broken off and the process is not stopped. `Calm` includes `[]~Astray`: an uninitialised
  `subState` together with an uninitialised `mainState = 10` leaves the thread without a list
  forever. Without `Calm` the property is false, by design of the code: a query is retried at
  the same iterator, so one that is never answered starves those behind it.
- `AlarmStore`: weak fairness of the server thread.
- `PointLogStore`: weak fairness of the thread, and of `CatchTimeEvent`, which the timer
  repeats for as long as the process lives. A process that keeps dying loses what was in
  memory: `EventuallyDurable` says of a record that it reaches a table *or* dies with the process.
- `TreeSessions`: weak fairness of a walking thread's steps, which wait for nothing but the
  mutex of a node's listeners; strong fairness of taking that, as it becomes free again and
  again. No client need send anything.
- `Schedules`: weak fairness of the timer's thread. The clock may stop: `EventuallyExecuted` speaks
  of actions whose time has come. It leaves out a thread that stays in a listener's loop, at a
  living follower or past the end of the vector, and the days a handler slipped to.
- `ModbusRtuPoll`: weak fairness of the thread, each of whose waits has a timeout, which is
  all that `EveryQueryAsked` needs: clients may ask for a write between any two steps of the
  thread, but what they ask for after a batch was taken waits until the next query was asked. `EventuallyShown` also takes strong fairness of the answer to each query,
  the assumption that the line is not dead forever.
- `PointPath` claims no liveness and has no fairness.

## 4. What is proved

The proofs hold for every value of the constants that satisfies the named assumptions.

`LeafControlProofs`, from `LeafAssumption` and `RoundTrip` (a point's register can represent
each value commanded on it):
- `TypeInvariant`, with `PollShape`: what the polling thread carries fits its place.
- `CorrectionIsOwed`: `CorrectionOwed`, which is inductive with `TypeOK`. An operation of a
  client changes the active value only by leaving the new one in `toWrite` (or by hiding
  behind a higher one: lemmas `OutrankedIsHidden`, `WriteLeavesNone`, `OperationEffect`); each
  step of the poll moves the owed change one place on.
- `SettledIsEnforced`: at rest none of the places can hold it.
- `OneClientLosesNothing`: with one client, no losses and no overrides nothing slips. The
  strengthening `HandsActive`: what the client is about to hand over is the active value.

`ModbusIpPollProofs`, from `PollAssumption`:
- `PollTypeInvariant`, for any initial contents of the uninitialised bytes.
- `RepliesAreFresh`: `InStep` is inductive. What is on the wire is a window of the last
  requests: the ages are distinct and below `MaxLag`, and the sequence number of a request is
  the current one minus its age. With `MaxLag <= SeqMod` only age 0 carries the current
  number, and `Awaited` says that this request asked for the query at the iterator. In the
  code the modulus is 65536, and reading clears the buffer before each query.
- `IteratorsStayInRange`, when there are no digital inputs and no input registers.

`QueryProofs`, of `QueryPlan`, from `PlanAssumption` and `NoQueryAssumption`, by `VisitQueries`:
a visit begins or extends the query at hand and leaves every other.
- `PlanTypeInvariant`, with `LoopShape`: the addresses left lie behind the query at hand, so
  no difference is negative.
- `NothingIsLost`: inductive with the shape.
- `VariablesAreServed`, `SizesAreKept`: from `Origin`: `longest` is the width of one of the
  variables at the address, and coils have width 1. `ExtendedServes` shows why RTU and coils
  never cut a variable off, and that TCP registers do only where one encloses a later one.
- `EachIsPolledOnce`: from `Unplaced`, what the builder has still to place is in no query.

`QueryProofs`, of `PointPath`, from `ByteAssumption`, `PathAssumption` and `ReplyAssumption`, for
any size of a byte, any integers and any logics (`Processed` stays unexpanded: the proofs need
only that an out-logic makes a number):
- `PointsAreShown` and `DeviceSeesWhatIsMeant`, from `OnItsWay`, whose parts follow the value:
  what waits to be sent is the intended value in the type's format, and after the first of two
  transmissions no other address has changed (`Underway`); once it has arrived each register of
  the point has its word of the intended value, and what has arrived is what is shown
  (`Delivered`, `ShownAsAsked`). The properties alone are not inductive: they say nothing of a
  write under way.
- `ValuesComeBack`: a value in the range of its type (`InRange`) comes back as it is, since
  `Held` changes nothing then (`HeldIsExact`).
- `QueriesCoverPoints`: `PointPath` supposes a query that covers the point. By
  `VariablesAreServed`, each query that `QueryPlan` builds covers the points of its variables,
  but for a TCP register that encloses a later one.

  They rest on lemmas about digits: there is one quotient and one remainder (`OneQuotient`), a
  number has the words that `NumberOfWords` puts together again, bytes and words exchanged twice
  are as before (`SwappedTwice`, `OrderTwice`), so that a value that becomes registers becomes
  the same value again (`ValueBack`); and about frames: what each changes in a device
  (`WrittenBit`, `WrittenRegisters`, `WrittenSingle`) and what the decoded reply to a query has
  in each place (`ReadRegisters`, `ReadBits`).

`AlarmStoreProofs`, from `AlarmAssumption`:
- `AlarmTypeInvariant`, with `ServerShape`.
- `MapIsMirror`: `Books` is inductive: the map mirrors the table, ids are fresh and unique,
  and the alarm about to be removed is already in the history. A restart re-establishes the
  mirror because no point ever has two rows. An entry left behind by a failed insert has an id
  that no row has or will have (`NoRowLeft`, `EntriesOld`), so that ending it once more deletes
  nobody's alarm.
- `StoreKeepsLifecycle`: `Spec` implements `AlarmLifecycle`; each statement maps to `Open`,
  `Archive` or `Close`, everything else stutters. Archiving or
  removing what a failed insert left behind is a stutter (`LeftBehindStutters`). That a removed
  alarm is in the history, and that a point with an alarm never gets a second one, come from
  `Books`.
- `TableAgreesAtRest`, also from `ZeroIsNormal` (0 is the one value that is no alarm, without
  which the property is false: finding 4): the last message in the queue about a point
  carries its value.

`PointLogStoreProofs`, from `LogAssumption`:
- `LogTypeInvariant`: also that the bulk insert's table is listed in `TableInfo`.
- `RecordsAreKept`, when records are stored one at a time (`OneAtATime`), as PointLogger, the
  only caller, does; with larger batches the property is false, since the ids of a batch run
  into those of the next. `Ledger` is inductive: a message brings a record
  the store does not have yet (`Upcoming`), each record it has it has once (`Once`), before a
  rollover the count is past every id given out, so that a commit meets no taken one
  (`Counted`), and after one no kept record waits in memory but for the commit that begins it
  (`Settled`). A restart loses lines but takes the count from the rows.

`ModbusRtuPollProofs`, from `RtuAssumption`:
- `RtuTypeInvariant`, with `LateShape`: what waits in the port answers a request of this thread.
- `NewestAlwaysWins`: the last value asked for is in the device, or waits, or that very write was
  given up. `Books` is inductive. `WaitingIsNewest`: what waits is what was asked for
  last, unless something newer waits behind it. `OneEach`: a batch has one write of an address, so
  that giving one up leaves no other of it. `LateIsTrue` is why a late reply does no harm:
  it tells its address and value, and a write that it could stand for is in the device already
  (lemma `AcknowledgedIsThere`); the reply to several registers tells no value, and is left
  out on a port that keeps late replies.

`TreeSessionsProofs`, from `TreeAssumption`, by one lemma for each step of a walk:
- `TreeTypeInvariant`, with the root being a node.
- `RepliesAreOwn`: `OneBeginning` is inductive: until lines cross, what lies in
  `partialMessage` is the beginning that one connection has sent.
- `SubscribersAreTold`: inductive together with `OwedListen`: who is owed an update still has a
  listener, so that a walk that passes does not miss it.
- `UpdatesAreCurrent`: from `Told`: each thread carries changes of its own leaves only, with
  their value now, and the ids collected lead from the node back to the leaf (`WayBack`,
  `BranchLeadsBack`); a listener that is being written to is not destroyed.

`SchedulesProofs`, from `ScheduleAssumption`, for any rules (`RuleApplies` stays unexpanded) and
any lateness of the timer's thread; `Between`, about the next second of a table and the
midnight, rests on `MomentOf`: a moment has one day and one second of it.
- `ScheduleTypeInvariant`, with `Shape`: one event, or its handler, never both.
- `NamedDaysAreRight`: of every date that a plan comes to, a condition for the n-th of a day of
  the week is true when and only when that many of these days lie in the month up to it. A date
  is followed by a date (`NextDateType`); `DateOf` counts the days by a recursive function, which
  is shown to exist and to give dates by its least counterexample (`CountedExists`,
  `DateOfType`); the days a whole number of weeks before are as many as the code's division says
  (`OccurrenceCounts`).
- `ActionsAreToldInOrder` and `NothingIsMissed`, from `Books`. `Behind` are the moments before
  the event waited for, or before where its handler goes on: what was told last is behind
  (`Ordered`), and, for days that nothing slipped to, the active table is that of the day followed
  (`Current`) and what is behind and was planned has been told (`Complete`). A day that slipped
  is lost, but the next midnight a table is chosen for begins with both again. `Complete` speaks
  of moments ahead of the clock too: the next event is set before its time comes.

Every safety property of a passing run is a theorem. Only model-checked is liveness
(`EventuallyEnforced`, `EveryQueryPolled`, `SilentPeerDropped`, `EventuallyAgrees`,
`EventuallyDurable`, `EventuallyTold`, `EventuallyExecuted`, `EveryQueryAsked`, `EventuallyShown`), since TLAPS
does not reason about fairness or ENABLED here. The fairness conjuncts of a specification are used
in no proof. Nothing is proved of what a logic computes (`Execute` folds over its instructions):
`value_path` executes some.

## 5. Findings

Two are shown by a run:

1. `VariableTree.cpp:364` relies on `catch_value_change` to force a value back. It is called
   only on a change: a stale write that carries the published value is not noticed, and the
   out-value stays unenforced (`leaf_forced_back`).
2. `PointLogStorage.cpp:205`: the record that makes a table full is dropped (`log_rollover`).

The others were met while modelling. The modules have the code as it is, unless section 2
says otherwise, and a property that one of them would break names it as an exception.

3. `ModbusIpProcess.cpp:636` increments the coil iterator for digital inputs, so that the lists
   behind are never polled; line 728 does the same to input registers. `poll_rounds` has no
   such lists. `ModbusIpProcess.cpp:142` lets a coil query have one coil more than configured.
4. `AlarmVerifyStorePost.cpp:170` tests the measured value instead of the alarm state; line 196
   gives the history the data of the message that ends the alarm.
5. Serial line: a single register can be set to 257 only (`ModbusRtu.cpp:316`), and a coil
   switched on is never seen acknowledged (`ModbusRtu.cpp:501`). A FLOAT64 is shown from four
   of its bytes (`ModbusRegisterValue.cpp:409`).
6. In/out logic: a JMP does not load (`OpCreator.cpp:234`); a constant to be returned is taken
   from among the variables (`OpCreator.cpp:155`).
7. Schedule: the Integrator's loops do not get past a living point (`Integrator.cpp:70`), and
   erase points that are gone from a vector as one would from a map (`Integrator.cpp:66`, `:84`,
   `:102`), which passes the next one over and runs past the end when the last is erased; no
   schedule gets into the map (`ScheduleManager.cpp:163`); actions are stored under `hhmmss`
   numbers (`ScheduleManager.cpp:124`); `start` looks up the next event instead of the last
   (`TimeTable.cpp:34`); after an event handled past midnight the table is not chosen anew on
   that day (`Schedule.cpp:124`); YEAR_DAY begins with 0 and weeks are counted by a remainder
   (`ScheduleRule.cpp:180`, `:86`). Of two rules that apply `Schedule/Database.txt:26` gives the bigger
   number priority, `Schedule.h:41` and the code (`Schedule.cpp:207`) the lower one. The modules
   follow the code, and no property judges it: both sides of each use `Applicable`.
8. Commands: a refused value is answered with Good (`TreeBrowser.cpp:530`), and no node can be
   deleted (`TreeBrowser.cpp:636`). All connections share one `partialMessage`
   (`TcpTalker.cpp:45`): what one has sent of a line, or left behind when it closed, is put before
   the next bytes of another. `OwnCommands` is claimed while that has not happened.

Beyond these, `VariableTree.cpp:402` expects the variable not to write an unchanged value, but
neither `OperationVariable::write_value` nor the Modbus variables compare it. After a rollover
the bulk insert keeps inserting into the old table, with ids from 1 on.

## 6. Plan

Done, most important behaviour first: `LeafControl`, `ModbusIpPoll`, `QueryPlan`, `AlarmStore`,
`PointLogStore`, `TreeSessions`, `ModbusRtuPoll`, `Schedules` over `Calendar`, and `PointPath`
over `RegisterValues`, `ModbusFrames` and `InOutLogic`, each with the proofs of its safety
properties.

Left:

1. Proofs: an abstract specification of what the log promises of a record (in memory, stored,
   or lost with the process) and `PointLogStore` shown to implement it up to a rollover; the
   lists that `ModbusIpPoll` and `ModbusRtuPoll` poll tied to `QueryPlan`'s plans as the queries of
   `PointPath` are by `QueriesCoverPoints`.
2. Failures of the alarm store that the code does not look for: of the insert into the history
   and of the removal.
3. The sampling times of `PointLogger`, and the readers of the log, should they get a caller.
4. `Schedules` composed with `LeafControl`'s operations at the priority of the schedule, when
   the Integrator's loop ends.

### Not modelled

- The byte layout of messages beyond what is said above, CRC, and MyLib itself: sockets,
  timers, SQLite wrapper, `Value`, `Variable`, `PrioritizedValue`. What `src/` shows of their
  use is modelled and marked external.
- Loading of log records (`perform_load_log_*`), which has no caller, and `PointLogger`'s
  sampling.
- Loading of tables and of the schedule map; construction and its order (`Deploy`,
  managers, `ConfigStorage`): it reads a database once and keeps no state that changes.
- The commands that read the alarm tables, and `AlarmTalker`, which forwards them: they change
  no state. One of them falls through to the next (`AlarmVerifyStorePost.cpp:395`).
- The digital inputs of the serial process, which cannot be asked for
  (`ModbusRtuProcess.cpp:71`).
- `Equipment` and `Property`, which the deployed program does not use; printing; superseded
  sources (`Builder_back`, `TimeTable_back`); testers and separate applications.
