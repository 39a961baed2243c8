---------------------------- MODULE LeafControl ----------------------------
(***************************************************************************)
(* The command path of a writable point: the prioritised out-value of a    *)
(* VariableTree leaf, the Modbus write queue below it, and the polling     *)
(* thread that carries writes to the device, reads them back and, through  *)
(* VariableTree::catch_value_change, forces a value back when the device   *)
(* disagrees with the out-value.                                           *)
(*                                                                         *)
(* Clients (TCP connections, the schedule thread) run write_value,         *)
(* set_value and unset_value concurrently.  Each operation has two steps:  *)
(* the out-value changes under leafData->dataMutex, and then, with the     *)
(* mutex released, the value is handed to the variable.                    *)
(*                                                                         *)
(* MyLib (PrioritizedValue, Variable, TcpSocket) is not in the repository; *)
(* its operators below are modelled from how src/ uses them.               *)
(***************************************************************************)
EXTENDS Integers

CONSTANTS
    Points,         (* the leaves served by one ModbusIpProcess              *)
    Clients,        (* threads that operate on leaves                        *)
    Values,         (* engineering values                                    *)
    Raw,            (* what a coil or holding register can contain           *)
    OutLogic,       (* Value -> Raw: OperationVariable's outLogic, encoding  *)
    InLogic,        (* Raw -> Value: decoding, OperationVariable's inLogic   *)
    MaxPrio,        (* priorities are 1..MaxPrio, 1 outranks the others      *)
    KeepOutranked,  (* does PrioritizedValue keep a value it reports as      *)
                    (* outranked?  MyLib decides, both answers are checked   *)
    Lossy,          (* may the connection fail or the device ignore a write? *)
    Overrides,      (* may the device change a value by itself?              *)
    NoValue         (* the empty Value                                       *)

Prios == 1..MaxPrio

ASSUME LeafAssumption ==
    /\ MaxPrio \in Nat \ {0}
    /\ KeepOutranked \in BOOLEAN
    /\ Lossy \in BOOLEAN
    /\ Overrides \in BOOLEAN
    /\ OutLogic \in [Values -> Raw]
    /\ InLogic \in [Raw -> Values]
    /\ NoValue \notin Values
    /\ NoValue \notin Raw

(* The point's register can represent every value commanded on it.         *)
ASSUME RoundTrip == \A v \in Values : InLogic[OutLogic[v]] = v

VARIABLES
    outValue,   (* outValue[p][i]: leafData->outValue at priority i          *)
    cache,      (* cache[p]: the value the variable last published           *)
    toWrite,    (* toWrite[c][p]: what client c, out of the mutex, is about  *)
                (* to hand to the variable of p                              *)
    pending,    (* pending[p]: the entry of p in valueMap                    *)
    sending,    (* sending[p]: the entry taken out of valueMap, on its way   *)
    reply,      (* reply[p]: read back from the device, not yet published    *)
    catching,   (* points whose catch_value_change has not read outValue yet *)
    forcing,    (* forcing[p]: what catch_value_change is about to write     *)
    pc,         (* where the polling thread is                               *)
    device,     (* device[p]: what the device holds                          *)
    slip        (* slip[p]: a command was lost, see "History" below          *)

vars == << outValue, cache, toWrite, pending, sending, reply, catching, forcing,
           pc, device, slip >>

pollVars == << sending, reply, catching, forcing, pc >>

Maybe(S) == S \cup {NoValue}
Nothing  == [p \in Points |-> NoValue]

-----------------------------------------------------------------------------
(* PrioritizedValue.                                                        *)

IsActive(out, i) ==
    /\ out[i] # NoValue
    /\ \A j \in Prios : j < i => out[j] = NoValue

(* PrioritizedValue::get_value: the value of the highest priority in use.   *)
Highest(out) ==
    IF \E i \in Prios : IsActive(out, i)
    THEN out[CHOOSE i \in Prios : IsActive(out, i)]
    ELSE NoValue

Outranked(out, i) == \E j \in Prios : j < i /\ out[j] # NoValue

ClearLower(out, i) == [j \in Prios |-> IF j > i THEN NoValue ELSE out[j]]

Unset(out, i) == [out EXCEPT ![i] = NoValue]

(* PrioritizedValue::set_value, which fails when outranked.                 *)
Put(out, i, v) ==
    IF Outranked(out, i) /\ ~KeepOutranked THEN out ELSE [out EXCEPT ![i] = v]

Active(p) == Highest(outValue[p])

-----------------------------------------------------------------------------
Init ==
    /\ outValue = [p \in Points |-> [i \in Prios |-> NoValue]]
    /\ cache = Nothing
    /\ toWrite = [c \in Clients |-> Nothing]
    /\ pending = Nothing
    /\ sending = Nothing
    /\ reply = Nothing
    /\ catching = {}
    /\ forcing = Nothing
    /\ pc = "closed"
    /\ device \in [Points -> Raw]
    /\ slip = [p \in Points |-> FALSE]

-----------------------------------------------------------------------------
(* The clients.                                                             *)

IsIdle(c) == toWrite[c] = Nothing

(* The critical section left: the out-value is `out`, and v, unless empty,  *)
(* is what the client will hand to the variable.                            *)
Leave(c, p, out, v) ==
    /\ outValue' = [outValue EXCEPT ![p] = out]
    /\ toWrite' = [toWrite EXCEPT ![c][p] = v]
    /\ UNCHANGED << cache, pending, pollVars, device, slip >>

(* set_value.                                                               *)
SetValue(c, p, i, v) ==
    /\ IsIdle(c)
    /\ Leave(c, p, Put(outValue[p], i, v),
             IF Outranked(outValue[p], i) THEN NoValue ELSE v)

(* write_value: a momentary set that also releases the lower priorities.    *)
WriteValue(c, p, i, v) ==
    LET cleared == ClearLower(outValue[p], i) IN
    /\ IsIdle(c)
    /\ IF Outranked(cleared, i)
       THEN Leave(c, p, Put(cleared, i, v), NoValue)
       ELSE Leave(c, p, Unset(Put(cleared, i, v), i), v)

(* Mutants of UnsetValue: the value is read before it is unset; the next    *)
(* value in rank is not written.                                            *)
UnsetReadsFirst(c, p, i) ==
    /\ IsIdle(c)
    /\ Leave(c, p, Unset(outValue[p], i), Highest(outValue[p]))

UnsetWritesNothing(c, p, i) ==
    /\ IsIdle(c)
    /\ Leave(c, p, Unset(outValue[p], i), NoValue)

(* unset_value: the next value in rank, if there is one, is written.        *)
UnsetValue(c, p, i) ==
    LET out == Unset(outValue[p], i) IN
    /\ IsIdle(c)
    /\ Leave(c, p, out, Highest(out))

(* Mutant of Queue: the value is not converted by outLogic.                 *)
QueueUnconverted(p, v) == pending' = [pending EXCEPT ![p] = v]

(* OperationVariable::write_value down to valueMap[address] = value: the    *)
(* entry is replaced, whatever it was and whatever the cache holds.         *)
Queue(p, v) == pending' = [pending EXCEPT ![p] = OutLogic[v]]

(* A value handed over late, when it is no longer the active one, takes the *)
(* place of the active one in the queue; when it is what the cache holds,   *)
(* reading it back changes nothing and nobody notices.                      *)
LateAndUnseen(p, v) == v = cache[p] /\ Active(p) \notin {NoValue, v}

HandToVariable(c, p) ==
    LET v == toWrite[c][p] IN
    /\ v # NoValue
    /\ Queue(p, v)
    /\ toWrite' = [toWrite EXCEPT ![c][p] = NoValue]
    /\ slip' = [slip EXCEPT ![p] = LateAndUnseen(p, v)]
    /\ UNCHANGED << outValue, cache, pollVars, device >>

-----------------------------------------------------------------------------
(* The polling thread.  Its connection handling is module ModbusIpPoll's;   *)
(* here a connection is up or "closed".                                     *)

Connect ==
    /\ pc = "closed"
    /\ pc' = "write"
    /\ UNCHANGED << outValue, cache, toWrite, pending, sending, reply, catching,
                    forcing, device, slip >>

(* Take any one entry out of valueMap (it is an unordered_map).             *)
TakeWrite(p) ==
    /\ pc = "write"
    /\ pending[p] # NoValue
    /\ sending' = [sending EXCEPT ![p] = pending[p]]
    /\ pending' = [pending EXCEPT ![p] = NoValue]
    /\ pc' = "send"
    /\ UNCHANGED << outValue, cache, toWrite, reply, catching, forcing, device, slip >>

NoWrite ==
    /\ pc = "write"
    /\ pending = Nothing
    /\ pc' = "query"
    /\ UNCHANGED << outValue, cache, toWrite, pending, sending, reply, catching,
                    forcing, device, slip >>

(* The write reaches the device, and its reply is read or not.              *)
SendTaken(p) ==
    /\ pc = "send"
    /\ sending[p] # NoValue
    /\ device' = [device EXCEPT ![p] = sending[p]]
    /\ sending' = [sending EXCEPT ![p] = NoValue]
    /\ pc' \in {"query"} \cup (IF Lossy THEN {"closed"} ELSE {})
    /\ UNCHANGED << outValue, cache, toWrite, pending, reply, catching, forcing, slip >>

(* socket.write succeeds but the device never applies the command: it is    *)
(* lost on the way, or answered with an exception nobody looks at.          *)
SendIgnored(p) ==
    /\ Lossy
    /\ pc = "send"
    /\ sending[p] # NoValue
    /\ sending' = [sending EXCEPT ![p] = NoValue]
    /\ pc' \in {"query", "closed"}
    /\ slip' = [slip EXCEPT ![p] = TRUE]
    /\ UNCHANGED << outValue, cache, toWrite, pending, reply, catching, forcing, device >>

(* socket.write fails: the entry is lost and valueMap is cleared, with what *)
(* clients put there since for any point.                                   *)
SendFails ==
    /\ Lossy
    /\ pc = "send"
    /\ slip' = [p \in Points |-> slip[p] \/ pending[p] # NoValue \/ sending[p] # NoValue]
    /\ sending' = Nothing
    /\ pending' = Nothing
    /\ pc' = "closed"
    /\ UNCHANGED << outValue, cache, toWrite, reply, catching, forcing, device >>

QueryAnswered ==
    /\ pc = "query"
    /\ reply' = device
    /\ pc' = "publish"
    /\ UNCHANGED << outValue, cache, toWrite, pending, sending, catching, forcing,
                    device, slip >>

(* No reply, a reply that does not match, or a broken socket.               *)
QueryFails ==
    /\ Lossy
    /\ pc = "query"
    /\ pc' \in {"write", "closed"}
    /\ UNCHANGED << outValue, cache, toWrite, pending, sending, reply, catching,
                    forcing, device, slip >>

(* update_value_from_source, then update_value_to_cache: the leaf is told   *)
(* only of a value that differs from the cached one.                        *)
PublishChange(p) ==
    /\ pc = "publish"
    /\ reply[p] # NoValue
    /\ InLogic[reply[p]] # cache[p]
    /\ cache' = [cache EXCEPT ![p] = InLogic[reply[p]]]
    /\ reply' = [reply EXCEPT ![p] = NoValue]
    /\ catching' = {p}
    /\ pc' = "catch"
    /\ slip' = [slip EXCEPT ![p] = FALSE]
    /\ UNCHANGED << outValue, toWrite, pending, sending, forcing, device >>

PublishSame(p) ==
    /\ pc = "publish"
    /\ reply[p] # NoValue
    /\ InLogic[reply[p]] = cache[p]
    /\ reply' = [reply EXCEPT ![p] = NoValue]
    /\ UNCHANGED << outValue, cache, toWrite, pending, sending, catching, forcing,
                    pc, device, slip >>

(* Mutant of PublishDone: on to the next query without a look at valueMap.  *)
PublishDoneQueriesOn ==
    /\ pc = "publish"
    /\ reply = Nothing
    /\ pc' = "query"
    /\ UNCHANGED << outValue, cache, toWrite, pending, sending, reply, catching,
                    forcing, device, slip >>

(* All variables of the query are updated.                                  *)
PublishDone ==
    /\ pc = "publish"
    /\ reply = Nothing
    /\ pc' = "write"
    /\ UNCHANGED << outValue, cache, toWrite, pending, sending, reply, catching,
                    forcing, device, slip >>

(* Mutant of ForceBack: the comparison is inverted.                         *)
ForceBackInverted(out, newValue) == out # NoValue /\ out = newValue

(* catch_value_change: must this new value be forced back to `out`?         *)
ForceBack(out, newValue) == out # NoValue /\ out # newValue

(* catch_value_change reads outValue under the mutex...                     *)
CatchChange(p) ==
    /\ pc = "catch"
    /\ p \in catching
    /\ catching' = {}
    /\ IF ForceBack(Active(p), cache[p])
       THEN /\ forcing' = [forcing EXCEPT ![p] = Active(p)]
            /\ pc' = "force"
       ELSE /\ pc' = "publish"
            /\ UNCHANGED forcing
    /\ UNCHANGED << outValue, cache, toWrite, pending, sending, reply, device, slip >>

(* ...and writes it after the mutex is released.                            *)
ForceValue(p) ==
    /\ pc = "force"
    /\ forcing[p] # NoValue
    /\ Queue(p, forcing[p])
    /\ forcing' = [forcing EXCEPT ![p] = NoValue]
    /\ pc' = "publish"
    /\ UNCHANGED << outValue, cache, toWrite, sending, reply, catching, device, slip >>

-----------------------------------------------------------------------------
(* The device changes a value by itself.  If that undoes a command before   *)
(* it was read back, the poll sees no change.                               *)
DeviceOverride(p, r) ==
    /\ Overrides
    /\ r # device[p]
    /\ device' = [device EXCEPT ![p] = r]
    /\ slip' = [slip EXCEPT ![p] = @ \/ InLogic[r] = cache[p]]
    /\ UNCHANGED << outValue, cache, toWrite, pending, pollVars >>

ClientOperation(c) ==
    \E p \in Points, i \in Prios :
        \/ \E v \in Values : SetValue(c, p, i, v)
        \/ \E v \in Values : WriteValue(c, p, i, v)
        \/ UnsetValue(c, p, i)

PollStep ==
    \/ Connect
    \/ NoWrite
    \/ SendFails
    \/ QueryAnswered
    \/ QueryFails
    \/ PublishDone
    \/ \E p \in Points :
        \/ TakeWrite(p)
        \/ SendTaken(p)
        \/ SendIgnored(p)
        \/ PublishChange(p)
        \/ PublishSame(p)
        \/ CatchChange(p)
        \/ ForceValue(p)

Override == \E p \in Points, r \in Raw : DeviceOverride(p, r)

Next ==
    \/ \E c \in Clients : ClientOperation(c)
    \/ \E c \in Clients, p \in Points : HandToVariable(c, p)
    \/ PollStep
    \/ Override

Spec == Init /\ [][Next]_vars

(* A client inside an operation goes on and the polling thread never stops  *)
(* (its loop has no wait but sleeps and socket timeouts).  That a device is *)
(* not out of reach forever is assumed of the environment.                  *)
Fairness ==
    /\ \A c \in Clients, p \in Points : WF_vars(HandToVariable(c, p))
    /\ WF_vars(PollStep)
    /\ SF_vars(QueryAnswered)
    /\ \A p \in Points : SF_vars(SendTaken(p) /\ pc' = "query")

FairSpec == Spec /\ Fairness

-----------------------------------------------------------------------------
(* What the polling thread carries is what its place in the loop accounts   *)
(* for, one point at a time; it forces a value back only against another.   *)
PollShape ==
    /\ pc # "send" => sending = Nothing
    /\ pc # "catch" => catching = {}
    /\ pc # "force" => forcing = Nothing
    /\ \A p, q \in Points : sending[p] # NoValue /\ sending[q] # NoValue => p = q
    /\ \A p, q \in Points : p \in catching /\ q \in catching => p = q
    /\ \A p, q \in Points : forcing[p] # NoValue /\ forcing[q] # NoValue => p = q
    /\ \A p \in Points : forcing[p] # NoValue => forcing[p] # cache[p]

(* The state is well formed.                                                *)
TypeOK ==
    /\ outValue \in [Points -> [Prios -> Maybe(Values)]]
    /\ cache \in [Points -> Maybe(Values)]
    /\ toWrite \in [Clients -> [Points -> Maybe(Values)]]
    /\ pending \in [Points -> Maybe(Raw)]
    /\ sending \in [Points -> Maybe(Raw)]
    /\ reply \in [Points -> Maybe(Raw)]
    /\ catching \in SUBSET Points
    /\ forcing \in [Points -> Maybe(Values)]
    /\ pc \in {"closed", "write", "send", "query", "publish", "catch", "force"}
    /\ device \in [Points -> Raw]
    /\ slip \in [Points -> BOOLEAN]
    /\ PollShape

(* The history variable slip[p] records that a command of p was lost in a   *)
(* way the code cannot notice, since the last value of p that differed from *)
(* the cached one was queued or published:                                  *)
(*   - a write was discarded with the connection or ignored by the device;  *)
(*   - the device undid a write before it was read back;                    *)
(*   - a late write took the active value's place in the queue.             *)
(* Nothing in the model reads it.                                           *)

Unenforced(p) == Active(p) # NoValue /\ cache[p] # Active(p)

(* Something under way will make the poll publish a change of p.            *)
ChangeIsComing(p) ==
    \/ \E c \in Clients : toWrite[c][p] \notin {NoValue, cache[p]}
    \/ p \in catching
    \/ forcing[p] \notin {NoValue, cache[p]}
    \/ pending[p] # NoValue /\ InLogic[pending[p]] # cache[p]
    \/ /\ pending[p] = NoValue
       /\ sending[p] # NoValue
       /\ InLogic[sending[p]] # cache[p]
    \/ /\ pending[p] = NoValue
       /\ sending[p] = NoValue
       /\ InLogic[device[p]] # cache[p]

(* A published value that differs from the out-value is being corrected, or *)
(* a command slipped.  This is what "relying on the catch value mechanism   *)
(* to force the value back" (VariableTree.cpp:364) can count on, with any   *)
(* number of clients, points and priorities.                                *)
CorrectionOwed == \A p \in Points : Unenforced(p) /\ ~slip[p] => ChangeIsComing(p)

(* No thread is busy with p, and the poll finds the device as published.    *)
Settled(p) ==
    /\ \A c \in Clients : toWrite[c][p] = NoValue
    /\ p \notin catching
    /\ forcing[p] = NoValue
    /\ pending[p] = NoValue
    /\ sending[p] = NoValue
    /\ InLogic[device[p]] = cache[p]

(* When everything has come to rest at a point, what is published is the    *)
(* out-value, unless a command slipped.                                     *)
SettledEnforced ==
    \A p \in Points : Settled(p) /\ Active(p) # NoValue /\ ~slip[p] => cache[p] = Active(p)

(* With a single client and a device that obeys, no command slips: it takes *)
(* two clients between their mutex and their write to lose one.             *)
NothingSlips == \A p \in Points : ~slip[p]

(* An out-value that stays and is not undone gets published: write_value,   *)
(* set_value and catch_value_change together move the device to it.         *)
EventuallyEnforced ==
    \A p \in Points, v \in Values :
        (<>[](Active(p) = v /\ ~slip[p]) /\ <>[][~Override]_vars) => []<>(cache[p] = v)

(* VariableTree.cpp:362-364 admits that the last out-value may not be the   *)
(* last value written, and relies on catch_value_change to force the value  *)
(* back: at rest, the out-value is published whichever client came last.    *)
AlwaysForcedBack ==
    \A p \in Points : Settled(p) /\ Active(p) # NoValue => cache[p] = Active(p)
=============================================================================
