---------------------------- MODULE ModbusIpPoll ----------------------------
(***************************************************************************)
(* ModbusIpProcess::thread_process: one thread, one TCP connection, four   *)
(* lists of read queries asked in turn, a write of each kind between two   *)
(* queries, and replies that are not waited for but read after a sleep:    *)
(* what comes late is found, or discarded, at a later read.                *)
(*                                                                         *)
(* TcpSocket is not in the repository; its calls are modelled from how     *)
(* src/ uses them.                                                         *)
(***************************************************************************)
EXTENDS Integers, Sequences

CONSTANTS
    Count,      (* Count[k]: queries in list k, see Lists                    *)
    SeqMod,     (* sequence numbers are 0..SeqMod-1; 2^16 in the code        *)
    MaxLag,     (* bound: requests the device is behind                      *)
    MaxWrites,  (* bound: entries in a valueMap                              *)
    Garbage     (* what the uninitialised mainState, subState and failCount  *)
                (* may contain, [main, sub, fail]                            *)

Lists == 0..3           \* coil, digital input, holding register, input register
WriteKinds == {4, 5}    \* coil, holding register
Byte == 0..255

ASSUME PollAssumption ==
    /\ Count \in [Lists -> Nat]
    /\ SeqMod \in Nat \ {0}
    /\ MaxLag \in 1..SeqMod
    /\ MaxWrites \in Nat
    /\ Garbage \subseteq [main : Byte, sub : Byte, fail : Byte]

VARIABLES
    running,    (* threadData.keepRunning                                    *)
    pc,         (* where the thread is in an iteration of its loop           *)
    mainState, subState, failCount,
    iter,       (* iter[k]: iterator of list k, Count[k] + 1 is its end()    *)
    seq,        (* sequenceNumber                                            *)
    writes,     (* writes[k]: entries in the valueMap of kind k              *)
    up,         (* the connection is established                             *)
    wire,       (* requests and replies between the process and the device   *)
    rx,         (* replies received and not read                             *)
    updated     (* the query whose variables were updated last (history)     *)

threadVars == << mainState, subState, failCount, iter, seq >>
netVars == << up, wire, rx >>
vars == << running, pc, threadVars, writes, netVars, updated >>

(* A request, and the reply to it: age counts the requests sent since.      *)
Request == [kind : Lists \cup WriteKinds, index : Nat, seq : 0..SeqMod - 1, age : Nat]

-----------------------------------------------------------------------------
Init ==
    /\ running = TRUE
    /\ pc = "loop"
    /\ \E g \in Garbage :
          mainState = g.main /\ subState = g.sub /\ failCount = g.fail
    /\ iter = [k \in Lists |-> 1]
    /\ seq = 0
    /\ writes = [k \in WriteKinds |-> 0]
    /\ up = FALSE
    /\ wire = <<>>
    /\ rx = <<>>
    /\ updated = << >>

-----------------------------------------------------------------------------
(* mainState 0 and 1: open the socket, wait until it is connected.  (Until  *)
(* open and connection_established return true, nothing changes.)           *)
OpenSocket ==
    /\ pc = "loop" /\ running /\ mainState = 0
    /\ mainState' = 1
    /\ UNCHANGED << running, pc, subState, failCount, iter, seq, writes, netVars, updated >>

Established ==
    /\ pc = "loop" /\ running /\ mainState = 1
    /\ mainState' = 10
    /\ subState' = 0
    /\ up' = TRUE
    /\ wire' = <<>>
    /\ rx' = <<>>
    /\ UNCHANGED << running, pc, failCount, iter, seq, writes, updated >>

(* mainState 20, and whatever else an uninitialised mainState holds.        *)
CloseSocket ==
    /\ pc = "loop" /\ running /\ mainState \notin {0, 1, 10}
    /\ mainState' = 0
    /\ failCount' = 0
    /\ up' = FALSE
    /\ wire' = <<>>
    /\ rx' = <<>>
    /\ UNCHANGED << running, pc, subState, iter, seq, writes, updated >>

LeaveLoop ==
    /\ pc = "loop" /\ ~running
    /\ pc' = "stopped"
    /\ UNCHANGED << running, threadVars, writes, netVars, updated >>

-----------------------------------------------------------------------------
(* mainState 10, one request and its reply.                                 *)

NextSeq(s) == IF s = SeqMod - 1 THEN 0 ELSE s + 1

OneOlder(m) == [kind |-> m.kind, index |-> m.index, seq |-> m.seq, age |-> m.age + 1]

Older(s) == [j \in DOMAIN s |-> OneOlder(s[j])]

(* A device that is MaxLag requests behind drops the oldest.                *)
Backlog == IF Len(wire) < MaxLag THEN wire ELSE Tail(wire)

(* ++sequenceNumber and a successful socket.write.                          *)
Send(k, i) ==
    /\ up
    /\ seq' = NextSeq(seq)
    /\ wire' = Append(Older(Backlog), [kind |-> k, index |-> i, seq |-> seq', age |-> 0])

(* ++sequenceNumber and socket.write returns false.                         *)
SendFails ==
    /\ ~up
    /\ seq' = NextSeq(seq)
    /\ UNCHANGED wire

(* do_write_coil_query comes first, then do_write_holding_register_query.   *)
AtWrite(k) ==
    \/ k = 4 /\ pc = "loop" /\ running /\ mainState = 10
    \/ k = 5 /\ pc = "register"

AfterWrite(k) == IF k = 4 THEN "register" ELSE "query"
ReplyOf(k) == IF k = 4 THEN "coilReply" ELSE "registerReply"

NoWrite(k) ==
    /\ AtWrite(k)
    /\ writes[k] = 0
    /\ pc' = AfterWrite(k)
    /\ UNCHANGED << running, threadVars, writes, netVars, updated >>

SendWrite(k) ==
    /\ AtWrite(k)
    /\ writes[k] > 0
    /\ Send(k, 0)
    /\ writes' = [writes EXCEPT ![k] = @ - 1]
    /\ rx' = Older(rx)
    /\ pc' = ReplyOf(k)
    /\ UNCHANGED << running, mainState, subState, failCount, iter, up, updated >>

(* The entry taken and all the others are discarded.                        *)
SendWriteFails(k) ==
    /\ AtWrite(k)
    /\ writes[k] > 0
    /\ SendFails
    /\ writes' = [writes EXCEPT ![k] = 0]
    /\ mainState' = 20
    /\ pc' = "loop"
    /\ UNCHANGED << running, subState, failCount, iter, up, rx, updated >>

(* The reply to a write is read, with whatever else came, and not examined. *)
ReadWriteReply(k) ==
    /\ pc = ReplyOf(k)
    /\ up \/ rx # <<>>
    /\ rx' = <<>>
    /\ pc' = AfterWrite(k)
    /\ UNCHANGED << running, threadVars, writes, up, wire, updated >>

ReadWriteReplyFails(k) ==
    /\ pc = ReplyOf(k)
    /\ rx = <<>>
    /\ mainState' = 20
    /\ pc' = "loop"
    /\ UNCHANGED << running, subState, failCount, iter, seq, writes, netVars, updated >>

(* subState k with its list exhausted: on to the next list.                 *)
NextList ==
    /\ pc = "query"
    /\ subState \in Lists
    /\ iter[subState] = Count[subState] + 1
    /\ iter' = [iter EXCEPT ![subState] = 1]
    /\ subState' = (subState + 1) % 4
    /\ pc' = "loop"
    /\ UNCHANGED << running, mainState, failCount, seq, writes, netVars, updated >>

(* An uninitialised subState has no case in the switch.                     *)
NoList ==
    /\ pc = "query"
    /\ subState \notin Lists
    /\ pc' = "loop"
    /\ UNCHANGED << running, threadVars, writes, netVars, updated >>

AtQuery == pc = "query" /\ subState \in Lists /\ iter[subState] # Count[subState] + 1

(* The receive buffer is cleared, then the query at the iterator is sent.   *)
SendQuery ==
    /\ AtQuery
    /\ Send(subState, iter[subState])
    /\ rx' = <<>>
    /\ pc' = "queryReply"
    /\ UNCHANGED << running, mainState, subState, failCount, iter, writes, up, updated >>

(* ++failCount, of a uint8_t, and the test that closes the connection.      *)
(* Mutants of FailedAgain: the counter does not wrap; it does not count.    *)
FailedAgainWide(f) == f + 1
FailedUncounted(f) == f
FailedAgain(f) == (f + 1) % 256

GiveUp(f) == f > 3

Fail ==
    /\ failCount' = FailedAgain(failCount)
    /\ mainState' = IF GiveUp(failCount') THEN 20 ELSE mainState

(* Failing to send a query of coils or digital inputs closes the socket,    *)
(* failing to send one of registers counts as a missing reply.              *)
SendQueryFails ==
    /\ AtQuery
    /\ SendFails
    /\ rx' = <<>>
    /\ IF subState \in {0, 1}
       THEN mainState' = 20 /\ UNCHANGED failCount
       ELSE Fail
    /\ pc' = "loop"
    /\ UNCHANGED << running, subState, iter, writes, up, updated >>

(* Nothing was received, or too little: the iterator stays.                 *)
NoReply ==
    /\ pc = "queryReply"
    /\ \A j \in DOMAIN rx : rx[j].age # 0
    /\ Fail
    /\ rx' = <<>>
    /\ pc' = "loop"
    /\ UNCHANGED << running, subState, iter, seq, writes, up, wire, updated >>

(* decode_reply compares the length with what was received: two replies     *)
(* read at once decode as none.                                             *)
OneReply == Len(rx) = 1

(* Mutant of Accepts: the sequence number is not compared.                  *)
AcceptsAnySequence(m) == m.kind = subState
Accepts(m) == m.kind = subState /\ m.seq = seq

(* The iterator that a branch increments when a reply was examined: the     *)
(* digital input branch has ++coilIter, the input register branch           *)
(* ++holdingRegisterIter.                                                   *)
(* Mutants of IteratorOf: that slip in the other branches.                  *)
IteratorOfDigital(k) == IF k \in {0, 1} THEN 1 ELSE 2
IteratorOfCoil(k) == 0
IteratorOf(k) == IF k \in {0, 1} THEN 0 ELSE 2

(* An iterator is not followed further than one element behind end().       *)
Advance(k) ==
    iter' = [iter EXCEPT ![IteratorOf(k)] =
                IF @ > Count[IteratorOf(k)] + 1 THEN @ ELSE @ + 1]

UpdateVariables ==
    /\ pc = "queryReply"
    /\ rx # <<>>
    /\ OneReply /\ Accepts(Head(rx))
    /\ failCount' = 0
    /\ updated' = << subState, iter[subState] >>
    /\ Advance(subState)
    /\ rx' = <<>>
    /\ pc' = "loop"
    /\ UNCHANGED << running, mainState, subState, seq, writes, up, wire >>

(* The reply to something else: the query is skipped for this round.        *)
SkipQuery ==
    /\ pc = "queryReply"
    /\ rx # <<>>
    /\ ~(OneReply /\ Accepts(Head(rx)))
    /\ Advance(subState)
    /\ rx' = <<>>
    /\ pc' = "loop"
    /\ UNCHANGED << running, mainState, subState, failCount, seq, writes, up, wire, updated >>

-----------------------------------------------------------------------------
(* The network, the device, and the threads that write and stop.            *)

Deliver ==
    /\ up
    /\ wire # <<>>
    /\ rx' = Append(rx, Head(wire))
    /\ wire' = Tail(wire)
    /\ UNCHANGED << running, pc, threadVars, writes, up, updated >>

(* The device does not answer, or with an exception, too short for a reply. *)
Unanswered ==
    /\ wire # <<>>
    /\ wire' = Tail(wire)
    /\ UNCHANGED << running, pc, threadVars, writes, up, rx, updated >>

Break ==
    /\ up
    /\ up' = FALSE
    /\ wire' = <<>>
    /\ UNCHANGED << running, pc, threadVars, writes, rx, updated >>

(* force_coil and write_multiple_holding_register.                          *)
RequestWrite(k) ==
    /\ writes[k] < MaxWrites
    /\ writes' = [writes EXCEPT ![k] = @ + 1]
    /\ UNCHANGED << running, pc, threadVars, netVars, updated >>

Stop ==
    /\ running
    /\ running' = FALSE
    /\ up' = FALSE
    /\ wire' = <<>>
    /\ rx' = <<>>
    /\ UNCHANGED << pc, threadVars, writes, updated >>

(* start after a stop: a new thread, its local variables initialised again, *)
(* threadData as it was left.                                               *)
Start ==
    /\ pc = "stopped"
    /\ running' = TRUE
    /\ pc' = "loop"
    /\ iter' = [k \in Lists |-> 1]
    /\ seq' = 0
    /\ UNCHANGED << mainState, subState, failCount, writes, netVars, updated >>

-----------------------------------------------------------------------------
WriteStep(k) ==
    \/ NoWrite(k)
    \/ SendWrite(k)
    \/ SendWriteFails(k)
    \/ ReadWriteReply(k)
    \/ ReadWriteReplyFails(k)

PollStep ==
    \/ OpenSocket
    \/ Established
    \/ CloseSocket
    \/ LeaveLoop
    \/ \E k \in WriteKinds : WriteStep(k)
    \/ NextList
    \/ NoList
    \/ SendQuery
    \/ SendQueryFails
    \/ NoReply
    \/ UpdateVariables
    \/ SkipQuery

Next ==
    \/ PollStep
    \/ Deliver
    \/ Unanswered
    \/ Break
    \/ \E k \in WriteKinds : RequestWrite(k)
    \/ Stop
    \/ Start

Spec == Init /\ [][Next]_vars

(* The thread's loop has only sleeps and socket timeouts, and what is on    *)
(* the wire of a connection arrives.                                        *)
FairSpec == Spec /\ WF_vars(PollStep) /\ WF_vars(Deliver)

-----------------------------------------------------------------------------
(* The state is well formed.                                                *)
TypeOK ==
    /\ running \in BOOLEAN
    /\ pc \in {"loop", "coilReply", "register", "registerReply", "query",
               "queryReply", "stopped"}
    /\ mainState \in Byte
    /\ subState \in Byte
    /\ failCount \in Byte
    /\ iter \in [Lists -> Nat]
    /\ seq \in 0..SeqMod - 1
    /\ writes \in [WriteKinds -> 0..MaxWrites]
    /\ up \in BOOLEAN
    /\ wire \in Seq(Request)
    /\ rx \in Seq(Request)
    /\ updated \in {<< >>} \cup (Lists \X Nat)
    /\ pc = "queryReply" => subState \in Lists

(* A late reply never passes for the reply to another request, although     *)
(* sequence numbers repeat: what updates the variables of a query is the    *)
(* reply to the request just sent, and that request asked for that query.   *)
FreshReplies ==
    pc = "queryReply" /\ rx # <<>> /\ Accepts(Head(rx)) =>
        /\ Head(rx).age = 0
        /\ Head(rx).kind = subState
        /\ Head(rx).index = iter[subState]

(* No iterator is moved past the end of its list, where the thread would    *)
(* dereference it.  So it is without digital inputs and input registers,    *)
(* whose branches move the iterator of another list: see IteratorOf.        *)
IteratorsInRange == \A k \in Lists : iter[k] <= Count[k] + 1

(* Uninitialised memory may have left the thread without a list to query.   *)
Astray == mainState = 10 /\ subState \notin Lists

(* A read that comes before the reply to the last request.  (After a write  *)
(* it does not show; the next query is then skipped for the write's reply.) *)
Late ==
    /\ wire # <<>>
    /\ NoReply \/ SkipQuery \/ \E k \in WriteKinds : ReadWriteReply(k)

(* Something goes wrong that the thread does not bring about.               *)
Trouble ==
    \/ Late
    \/ Unanswered
    \/ Break
    \/ Stop
    \/ \E k \in WriteKinds : up /\ ReadWriteReplyFails(k)

Calm == <>[][~Trouble]_vars /\ <>[]running /\ []~Astray

(* Whatever broke, came late or was stopped and started before, once there  *)
(* is no more trouble every query gets its variables updated again and      *)
(* again, and writes do not keep them from it.                              *)
EveryQueryPolled ==
    Calm => \A k \in {0, 2} : \A i \in 1..Count[k] : []<>(updated = << k, i >>)

(* A device that stays silent is not waited for forever: the connection is  *)
(* closed and opened anew.                                                  *)
SilentPeerDropped ==
    []~Astray /\ (\E k \in Lists : Count[k] > 0)
        => []<>(mainState # 10 \/ rx # <<>> \/ ~running)
=============================================================================
