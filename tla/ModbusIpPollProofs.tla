------------------------- MODULE ModbusIpPollProofs -------------------------
(***************************************************************************)
(* Proofs about ModbusIpPoll, for any lists of queries, any modulus of the *)
(* sequence numbers and any contents of the uninitialised bytes.           *)
(***************************************************************************)
EXTENDS ModbusIpPoll, TLAPS

(* A request one request later.                                             *)
LEMMA OneOlderType ==
    ASSUME NEW m \in Request
    PROVE  OneOlder(m) \in Request
BY DEF Request, OneOlder

(* The same of a sequence of them.                                          *)
LEMMA OlderType ==
    ASSUME NEW s \in Seq(Request)
    PROVE  /\ Older(s) \in Seq(Request)
           /\ Len(Older(s)) = Len(s)
           /\ \A j \in 1..Len(s) : Older(s)[j] = OneOlder(s[j])
<1>1. DOMAIN s = 1..Len(s) /\ Len(s) \in Nat
  OBVIOUS
<1>2. \A j \in 1..Len(s) : s[j] \in Request
  OBVIOUS
<1>3. \A j \in 1..Len(s) : OneOlder(s[j]) \in Request
  BY <1>2, OneOlderType
<1>4. Older(s) \in [1..Len(s) -> Request]
  BY <1>1, <1>3 DEF Older
<1>5. Older(s) \in Seq(Request) /\ Len(Older(s)) = Len(s)
  BY <1>1, <1>4
<1> QED
  BY <1>1, <1>5 DEF Older

LEMMA BacklogType ==
    ASSUME wire \in Seq(Request)
    PROVE  /\ Backlog \in Seq(Request)
           /\ Len(wire) <= MaxLag => Len(Backlog) < MaxLag
BY PollAssumption DEF Backlog

LEMMA NextSeqType ==
    ASSUME NEW s \in 0..SeqMod - 1
    PROVE  NextSeq(s) \in 0..SeqMod - 1
BY PollAssumption DEF NextSeq

LEMMA SendType ==
    ASSUME TypeOK, NEW k \in Lists \cup WriteKinds, NEW i \in Nat, Send(k, i)
    PROVE  seq' \in 0..SeqMod - 1 /\ wire' \in Seq(Request)
<1>1. seq' \in 0..SeqMod - 1
  BY NextSeqType DEF TypeOK, Send
<1>2. Older(Backlog) \in Seq(Request)
  BY BacklogType, OlderType DEF TypeOK
<1>3. [kind |-> k, index |-> i, seq |-> seq', age |-> 0] \in Request
  BY <1>1 DEF Request
<1> QED
  BY <1>1, <1>2, <1>3 DEF Send

LEMMA FailType ==
    ASSUME TypeOK, Fail
    PROVE  failCount' \in Byte /\ mainState' \in Byte
BY DEF TypeOK, Fail, FailedAgain, Byte

LEMMA AdvanceType ==
    ASSUME TypeOK, subState \in Lists, Advance(subState)
    PROVE  iter' \in [Lists -> Nat]
BY DEF TypeOK, Advance, IteratorOf, Lists

-----------------------------------------------------------------------------
LEMMA InitTypeOK == Init => TypeOK
<1> SUFFICES ASSUME Init
             PROVE  TypeOK
  OBVIOUS
<1>1. mainState \in Byte /\ subState \in Byte /\ failCount \in Byte
  BY PollAssumption DEF Init
<1>2. seq \in 0..SeqMod - 1 /\ writes \in [WriteKinds -> 0..MaxWrites]
  BY PollAssumption DEF Init
<1>3. wire \in Seq(Request) /\ rx \in Seq(Request)
  BY DEF Init
<1>4. running \in BOOLEAN /\ up \in BOOLEAN
  BY DEF Init
<1>5. iter \in [Lists -> Nat] /\ updated \in {<< >>} \cup (Lists \X Nat)
  BY DEF Init
<1> QED
  BY <1>1, <1>2, <1>3, <1>4, <1>5 DEF Init, TypeOK

LEMMA ThreadTypeOK == TypeOK /\ PollStep => TypeOK'
<1> SUFFICES ASSUME TypeOK, PollStep
             PROVE  TypeOK'
  OBVIOUS
<1> USE DEF TypeOK, threadVars, netVars
<1>1. CASE OpenSocket
  BY <1>1 DEF OpenSocket, Byte
<1>2. CASE Established
  BY <1>2 DEF Established, Byte
<1>3. CASE CloseSocket
  <2>1. wire' \in Seq(Request) /\ rx' \in Seq(Request)
    BY <1>3 DEF CloseSocket
  <2>2. mainState' \in Byte /\ failCount' \in Byte
    BY <1>3 DEF CloseSocket, Byte
  <2>3. up' \in BOOLEAN
    BY <1>3 DEF CloseSocket
  <2> QED
    BY <1>3, <2>1, <2>2, <2>3 DEF CloseSocket
<1>4. CASE LeaveLoop
  BY <1>4 DEF LeaveLoop
<1>5. ASSUME NEW k \in WriteKinds, WriteStep(k)
      PROVE  TypeOK'
  <2>1. CASE NoWrite(k)
    BY <2>1 DEF NoWrite, AfterWrite
  <2>2. CASE SendWrite(k)
    <3>1. Send(k, 0)
      BY <2>2 DEF SendWrite
    <3>2. seq' \in 0..SeqMod - 1 /\ wire' \in Seq(Request)
      BY <3>1, SendType
    <3>3. rx' \in Seq(Request)
      BY <2>2, OlderType DEF SendWrite
    <3>4. writes' \in [WriteKinds -> 0..MaxWrites]
      BY <2>2, PollAssumption DEF SendWrite
    <3>5. pc' \in {"coilReply", "registerReply"}
      BY <2>2 DEF SendWrite, ReplyOf
    <3> QED
      BY <2>2, <3>2, <3>3, <3>4, <3>5 DEF SendWrite
  <2>3. CASE SendWriteFails(k)
    <3>1. seq' \in 0..SeqMod - 1
      BY <2>3, NextSeqType DEF SendWriteFails, SendFails
    <3>2. writes' \in [WriteKinds -> 0..MaxWrites]
      BY <2>3, PollAssumption DEF SendWriteFails
    <3> QED
      BY <2>3, <3>1, <3>2 DEF SendWriteFails, SendFails, Byte
  <2>4. CASE ReadWriteReply(k)
    BY <2>4 DEF ReadWriteReply, AfterWrite
  <2>5. CASE ReadWriteReplyFails(k)
    BY <2>5 DEF ReadWriteReplyFails, Byte
  <2> QED
    BY <1>5, <2>1, <2>2, <2>3, <2>4, <2>5 DEF WriteStep
<1>6. CASE NextList
  <2>1. iter' \in [Lists -> Nat]
    BY <1>6 DEF NextList
  <2>2. subState' \in Byte
    BY <1>6 DEF NextList, Lists, Byte
  <2> QED
    BY <1>6, <2>1, <2>2 DEF NextList
<1>7. CASE NoList
  BY <1>7 DEF NoList
<1>8. CASE SendQuery
  <2>1. Send(subState, iter[subState]) /\ subState \in Lists
    BY <1>8 DEF SendQuery, AtQuery
  <2>2. iter[subState] \in Nat
    BY <2>1
  <2>3. seq' \in 0..SeqMod - 1 /\ wire' \in Seq(Request)
    BY <2>1, <2>2, SendType
  <2> QED
    BY <1>8, <2>1, <2>3 DEF SendQuery
<1>9. CASE SendQueryFails
  <2>1. seq' \in 0..SeqMod - 1
    BY <1>9, NextSeqType DEF SendQueryFails, SendFails
  <2>2. failCount' \in Byte /\ mainState' \in Byte
    <3>1. CASE subState \in {0, 1}
      BY <1>9, <3>1 DEF SendQueryFails, Byte
    <3>2. CASE subState \notin {0, 1}
      BY <1>9, <3>2, FailType DEF SendQueryFails
    <3> QED
      BY <3>1, <3>2
  <2> QED
    BY <1>9, <2>1, <2>2 DEF SendQueryFails, SendFails
<1>10. CASE NoReply
  <2>1. failCount' \in Byte /\ mainState' \in Byte
    BY <1>10, FailType DEF NoReply
  <2> QED
    BY <1>10, <2>1 DEF NoReply
<1>11. CASE UpdateVariables
  <2>1. subState \in Lists /\ iter' \in [Lists -> Nat]
    BY <1>11, AdvanceType DEF UpdateVariables
  <2>2. updated' \in Lists \X Nat
    BY <1>11, <2>1 DEF UpdateVariables
  <2> QED
    BY <1>11, <2>1, <2>2 DEF UpdateVariables, Byte
<1>12. CASE SkipQuery
  <2>1. iter' \in [Lists -> Nat]
    BY <1>12, AdvanceType DEF SkipQuery
  <2> QED
    BY <1>12, <2>1 DEF SkipQuery
<1> QED
  BY <1>1, <1>2, <1>3, <1>4, <1>5, <1>6, <1>7, <1>8, <1>9, <1>10, <1>11, <1>12
     DEF PollStep

LEMMA OthersTypeOK ==
    ASSUME TypeOK,
           Deliver \/ Unanswered \/ Break \/ (\E k \in WriteKinds : RequestWrite(k))
              \/ Stop \/ Start
    PROVE  TypeOK'
<1> USE DEF TypeOK, threadVars, netVars
<1>1. CASE Deliver
  BY <1>1 DEF Deliver
<1>2. CASE Unanswered
  BY <1>2 DEF Unanswered
<1>3. CASE Break
  <2>1. wire' \in Seq(Request)
    BY <1>3 DEF Break
  <2>2. up' \in BOOLEAN
    BY <1>3 DEF Break
  <2> QED
    BY <1>3, <2>1, <2>2 DEF Break
<1>4. ASSUME NEW k \in WriteKinds, RequestWrite(k)
      PROVE  TypeOK'
  <2>1. writes' \in [WriteKinds -> 0..MaxWrites]
    BY <1>4, PollAssumption DEF RequestWrite
  <2> QED
    BY <1>4, <2>1 DEF RequestWrite
<1>5. CASE Stop
  <2>1. wire' \in Seq(Request) /\ rx' \in Seq(Request)
    BY <1>5 DEF Stop
  <2>2. up' \in BOOLEAN /\ running' \in BOOLEAN
    BY <1>5 DEF Stop
  <2> QED
    BY <1>5, <2>1, <2>2 DEF Stop
<1>6. CASE Start
  BY <1>6, PollAssumption DEF Start
<1> QED
  BY <1>1, <1>2, <1>3, <1>4, <1>5, <1>6

(* Every variable keeps its type, whatever the uninitialised bytes held:    *)
(* in particular failCount stays a byte and a query is only awaited of one  *)
(* of the four lists.                                                       *)
THEOREM PollTypeInvariant == Spec => []TypeOK
<1>1. TypeOK /\ [Next]_vars => TypeOK'
  <2>1. ASSUME TypeOK, UNCHANGED vars
        PROVE  TypeOK'
    BY <2>1 DEF TypeOK, vars, threadVars, netVars
  <2> QED
    BY <2>1, ThreadTypeOK, OthersTypeOK DEF Next
<1> QED
  BY <1>1, InitTypeOK, PTL DEF Spec

-----------------------------------------------------------------------------
(* Why late replies are told apart: the requests on the wire are the last   *)
(* ones sent, without a gap, so their sequence numbers are those of a       *)
(* window behind seq, and the window is not longer than SeqMod.             *)

(* m was sent m.age requests before sequence number s.                      *)
SentBy(m, s) == m.seq = IF m.age <= s THEN s - m.age ELSE s - m.age + SeqMod

(* If m is the last request, it is the one for the query at the iterator.   *)
IsAsked(m) == m.age = 0 => m.kind = subState /\ m.index = iter[subState]

Idle == pc = "stopped" => ~running
Down == (~running => ~up) /\ (~up => wire = <<>>)

Window(w, s) ==
    /\ Len(w) <= MaxLag
    /\ \A j \in 1..Len(w) : w[j].age = Len(w) - j /\ SentBy(w[j], s)

Awaited ==
    pc = "queryReply" =>
        /\ \A j \in 1..Len(wire) : IsAsked(wire[j])
        /\ \A j \in 1..Len(rx) : rx[j].age < MaxLag /\ SentBy(rx[j], seq) /\ IsAsked(rx[j])

InStep == Idle /\ Down /\ Window(wire, seq) /\ Awaited

LEMMA SentByNext ==
    ASSUME NEW m \in Request, NEW s \in 0..SeqMod - 1, m.age < MaxLag, SentBy(m, s)
    PROVE  SentBy(OneOlder(m), NextSeq(s))
<1>1. m.age \in Nat /\ m.seq \in 0..SeqMod - 1
  BY DEF Request
<1>2. OneOlder(m).age = m.age + 1 /\ OneOlder(m).seq = m.seq
  BY DEF OneOlder
<1> QED
  BY <1>1, <1>2, PollAssumption DEF SentBy, NextSeq

LEMMA WindowOfBacklog ==
    ASSUME TypeOK, Window(wire, seq)
    PROVE  Window(Backlog, seq) /\ Len(Backlog) < MaxLag
<1>1. CASE Len(wire) < MaxLag
  BY <1>1 DEF Backlog
<1>2. CASE ~(Len(wire) < MaxLag)
  <2>1. Backlog = Tail(wire) /\ wire # <<>> /\ Len(Backlog) = Len(wire) - 1
    BY <1>2, PollAssumption DEF Backlog, TypeOK
  <2>2. \A j \in 1..Len(Backlog) : Backlog[j] = wire[j + 1] /\ j + 1 \in 1..Len(wire)
    BY <2>1 DEF TypeOK
  <2> QED
    BY <2>1, <2>2, PollAssumption DEF Window, TypeOK
<1> QED
  BY <1>1, <1>2

LEMMA WindowOfTail ==
    ASSUME TypeOK, Window(wire, seq), wire # <<>>
    PROVE  Window(Tail(wire), seq)
<1>1. Len(Tail(wire)) = Len(wire) - 1 /\ Len(wire) \in Nat
  BY DEF TypeOK
<1>2. \A j \in 1..Len(Tail(wire)) : Tail(wire)[j] = wire[j + 1] /\ j + 1 \in 1..Len(wire)
  BY DEF TypeOK
<1> QED
  BY <1>1, <1>2, PollAssumption DEF Window

(* A request sent extends the window by one; the others grow older.         *)
LEMMA SendKeepsWindow ==
    ASSUME TypeOK, Window(wire, seq), NEW k \in Lists \cup WriteKinds, NEW i \in Nat,
           Send(k, i)
    PROVE  /\ Window(wire', seq')
           /\ \A j \in 1..Len(wire') :
                 wire'[j].age = 0 => wire'[j].kind = k /\ wire'[j].index = i
<1> DEFINE b == Backlog
           o == Older(b)
           m == [kind |-> k, index |-> i, seq |-> seq', age |-> 0]
<1>1. b \in Seq(Request) /\ Len(b) \in Nat /\ Len(b) < MaxLag /\ Window(b, seq)
  BY BacklogType, WindowOfBacklog DEF TypeOK
<1>2. o \in Seq(Request) /\ Len(o) = Len(b) /\ \A j \in 1..Len(b) : o[j] = OneOlder(b[j])
  BY <1>1, OlderType
<1>3. seq' = NextSeq(seq) /\ seq' \in 0..SeqMod - 1 /\ seq \in 0..SeqMod - 1
  BY NextSeqType DEF Send, TypeOK
<1>4. m \in Request
  BY <1>3 DEF Request
<1>5. wire' = Append(o, m)
  BY DEF Send
<1> HIDE DEF b, o
<1>6. Len(wire') = Len(b) + 1 /\ wire'[Len(b) + 1] = m
      /\ \A j \in 1..Len(b) : wire'[j] = OneOlder(b[j])
  BY <1>1, <1>2, <1>4, <1>5
<1>7. ASSUME NEW j \in 1..Len(b)
      PROVE  /\ wire'[j].age = Len(wire') - j
             /\ wire'[j].age # 0
             /\ SentBy(wire'[j], seq')
  <2>1. b[j] \in Request /\ b[j].age = Len(b) - j /\ SentBy(b[j], seq) /\ b[j].age < MaxLag
    BY <1>1, PollAssumption DEF Window
  <2>2. SentBy(OneOlder(b[j]), seq')
    BY <1>3, <2>1, SentByNext
  <2>3. OneOlder(b[j]).age = Len(b) - j + 1
    BY <2>1 DEF OneOlder
  <2> QED
    BY <1>1, <1>6, <2>2, <2>3
<1>8. SentBy(m, seq')
  BY <1>3 DEF SentBy
<1>9. \A j \in 1..Len(wire') : j \in 1..Len(b) \/ j = Len(b) + 1
  BY <1>1, <1>6
<1> QED
  BY <1>1, <1>6, <1>7, <1>8, <1>9, PollAssumption DEF Window

-----------------------------------------------------------------------------
LEMMA InitInStep == Init => InStep
BY PollAssumption DEF Init, InStep, Idle, Down, Window, Awaited

(* Steps that leave the requests, the clock of sequence numbers and the     *)
(* connection alone, and do not begin to wait for a reply.                  *)
LEMMA QuietInStep ==
    ASSUME InStep, UNCHANGED << wire, seq, up >>,
           pc' # "queryReply", running' = running,
           pc' = "stopped" => ~running
    PROVE  InStep'
BY DEF InStep, Idle, Down, Window, SentBy, Awaited

(* Steps that find or leave the connection down.                            *)
LEMMA DownInStep ==
    ASSUME wire' = <<>>, up' = FALSE, rx' = <<>> \/ pc' # "queryReply",
           pc' = "stopped" => ~running'
    PROVE  InStep'
<1>1. Len(wire') = 0
  OBVIOUS
<1>2. Down' /\ Idle'
  BY DEF Down, Idle
<1>3. Window(wire', seq')
  BY <1>1, PollAssumption DEF Window
<1>4. Awaited'
  BY <1>1 DEF Awaited
<1> QED
  BY <1>2, <1>3, <1>4 DEF InStep, Window, SentBy

LEMMA WriteInStep ==
    ASSUME TypeOK, InStep, NEW k \in WriteKinds, WriteStep(k)
    PROVE  InStep'
<1> USE DEF threadVars, netVars
<1>1. CASE NoWrite(k)
  BY <1>1, QuietInStep DEF NoWrite, AfterWrite
<1>2. CASE SendWrite(k)
  <2>1. Send(k, 0)
    BY <1>2 DEF SendWrite
  <2>2. Window(wire', seq')
    BY <2>1, SendKeepsWindow DEF InStep
  <2>3. up /\ up' = up /\ running' = running /\ pc' \in {"coilReply", "registerReply"}
    BY <1>2, <2>1 DEF SendWrite, Send, ReplyOf
  <2> QED
    BY <2>2, <2>3 DEF InStep, Idle, Down, Awaited, Window, SentBy
<1>3. CASE SendWriteFails(k)
  BY <1>3, DownInStep DEF SendWriteFails, SendFails, InStep, Down, TypeOK
<1>4. CASE ReadWriteReply(k)
  BY <1>4, QuietInStep DEF ReadWriteReply, AfterWrite
<1>5. CASE ReadWriteReplyFails(k)
  BY <1>5, QuietInStep DEF ReadWriteReplyFails
<1> QED
  BY <1>1, <1>2, <1>3, <1>4, <1>5 DEF WriteStep

LEMMA ThreadInStep ==
    ASSUME TypeOK, InStep, PollStep
    PROVE  InStep'
<1> USE DEF threadVars, netVars
<1>1. CASE OpenSocket
  BY <1>1, QuietInStep DEF OpenSocket
<1>2. CASE Established
  <2>1. wire' = <<>> /\ Len(wire') = 0 /\ running' = running /\ pc' = "loop" /\ running
    BY <1>2 DEF Established
  <2>2. Window(wire', seq')
    BY <2>1, PollAssumption DEF Window
  <2> QED
    BY <2>1, <2>2 DEF InStep, Idle, Down, Awaited, Window, SentBy
<1>3. CASE CloseSocket
  BY <1>3, DownInStep DEF CloseSocket
<1>4. CASE LeaveLoop
  BY <1>4, QuietInStep DEF LeaveLoop
<1>5. CASE \E k \in WriteKinds : WriteStep(k)
  BY <1>5, WriteInStep
<1>6. CASE NextList
  BY <1>6, QuietInStep DEF NextList
<1>7. CASE NoList
  BY <1>7, QuietInStep DEF NoList
<1>8. CASE SendQuery
  <2>1. Send(subState, iter[subState]) /\ subState \in Lists /\ iter[subState] \in Nat
    BY <1>8 DEF SendQuery, AtQuery, TypeOK
  <2>2. /\ Window(wire', seq')
        /\ \A j \in 1..Len(wire') :
              wire'[j].age = 0 => wire'[j].kind = subState /\ wire'[j].index = iter[subState]
    BY <2>1, SendKeepsWindow DEF InStep
  <2>3. /\ up /\ up' = up /\ running' = running /\ pc' = "queryReply"
        /\ rx' = <<>> /\ Len(rx') = 0 /\ subState' = subState /\ iter' = iter
    BY <1>8, <2>1 DEF SendQuery, Send
  <2>4. Awaited'
    BY <2>2, <2>3 DEF Awaited, IsAsked
  <2> QED
    BY <2>2, <2>3, <2>4 DEF InStep, Idle, Down, Window, SentBy
<1>9. CASE SendQueryFails
  BY <1>9, DownInStep DEF SendQueryFails, SendFails, InStep, Down, TypeOK
<1>10. CASE NoReply
  BY <1>10, QuietInStep DEF NoReply
<1>11. CASE UpdateVariables
  BY <1>11, QuietInStep DEF UpdateVariables
<1>12. CASE SkipQuery
  BY <1>12, QuietInStep DEF SkipQuery
<1> QED
  BY <1>1, <1>2, <1>3, <1>4, <1>5, <1>6, <1>7, <1>8, <1>9, <1>10, <1>11, <1>12
     DEF PollStep

LEMMA DeliverInStep ==
    ASSUME TypeOK, InStep, Deliver
    PROVE  InStep'
<1>1. /\ wire # <<>> /\ wire' = Tail(wire) /\ rx' = Append(rx, wire[1])
      /\ UNCHANGED << running, pc, seq, up, subState, iter >>
  BY DEF Deliver, threadVars
<1>2. 1 \in 1..Len(wire) /\ wire[1] \in Request /\ Len(rx) \in Nat
  BY <1>1 DEF TypeOK
<1>3. Window(wire', seq')
  BY <1>1, WindowOfTail DEF InStep
<1>4. wire[1].age < MaxLag /\ SentBy(wire[1], seq)
  BY <1>2, PollAssumption DEF InStep, Window, TypeOK
<1>5. \A j \in 1..Len(wire') : wire'[j] = wire[j + 1] /\ j + 1 \in 1..Len(wire)
  BY <1>1 DEF TypeOK
<1>6. \A j \in 1..Len(rx') :
          \/ j \in 1..Len(rx) /\ rx'[j] = rx[j]
          \/ rx'[j] = wire[1]
  BY <1>1, <1>2 DEF TypeOK
<1>7. Awaited'
  BY <1>1, <1>2, <1>4, <1>5, <1>6 DEF InStep, Awaited, SentBy, IsAsked
<1>8. Idle' /\ Down'
  BY <1>1 DEF InStep, Idle, Down, Deliver
<1> QED
  BY <1>3, <1>7, <1>8 DEF InStep, Window, SentBy

LEMMA OthersInStep ==
    ASSUME TypeOK, InStep,
           Deliver \/ Unanswered \/ Break \/ (\E k \in WriteKinds : RequestWrite(k))
              \/ Stop \/ Start
    PROVE  InStep'
<1> USE DEF threadVars, netVars
<1>1. CASE Deliver
  BY <1>1, DeliverInStep
<1>2. CASE Unanswered
  <2>1. Window(wire', seq')
    BY <1>2, WindowOfTail DEF Unanswered, InStep
  <2>2. \A j \in 1..Len(wire') : wire'[j] = wire[j + 1] /\ j + 1 \in 1..Len(wire)
    BY <1>2 DEF Unanswered, TypeOK
  <2>3. UNCHANGED << running, pc, seq, up, subState, iter, rx >> /\ wire # <<>>
    BY <1>2 DEF Unanswered
  <2>4. Awaited'
    BY <2>2, <2>3 DEF InStep, Awaited, SentBy, IsAsked
  <2>5. Idle' /\ Down'
    BY <2>3 DEF InStep, Idle, Down
  <2> QED
    BY <2>1, <2>4, <2>5 DEF InStep, Window, SentBy
<1>3. CASE Break
  <2>1. /\ wire' = <<>> /\ Len(wire') = 0 /\ up' = FALSE
        /\ UNCHANGED << running, pc, seq, subState, iter, rx >>
    BY <1>3 DEF Break
  <2>2. Window(wire', seq')
    BY <2>1, PollAssumption DEF Window
  <2>3. Awaited'
    BY <2>1 DEF InStep, Awaited, SentBy, IsAsked
  <2> QED
    BY <2>1, <2>2, <2>3 DEF InStep, Idle, Down, Window, SentBy
<1>4. ASSUME NEW k \in WriteKinds, RequestWrite(k)
      PROVE  InStep'
  BY <1>4 DEF RequestWrite, InStep, Idle, Down, Window, SentBy, Awaited, IsAsked
<1>5. CASE Stop
  BY <1>5, DownInStep DEF Stop
<1>6. CASE Start
  <2>1. wire' = <<>> /\ up' = FALSE /\ pc' = "loop"
    BY <1>6 DEF Start, InStep, Idle, Down, TypeOK
  <2> QED
    BY <2>1, DownInStep
<1> QED
  BY <1>1, <1>2, <1>3, <1>4, <1>5, <1>6

LEMMA InStepIsFresh == TypeOK /\ InStep => FreshReplies
<1> SUFFICES ASSUME TypeOK, InStep, pc = "queryReply", rx # <<>>, Accepts(Head(rx))
             PROVE  /\ Head(rx).age = 0
                    /\ Head(rx).kind = subState
                    /\ Head(rx).index = iter[subState]
  BY DEF FreshReplies
<1>1. Head(rx) = rx[1] /\ 1 \in 1..Len(rx) /\ rx[1] \in Request
  BY DEF TypeOK
<1>2. rx[1].age < MaxLag /\ SentBy(rx[1], seq) /\ IsAsked(rx[1])
  BY <1>1 DEF InStep, Awaited
<1>3. rx[1].age \in Nat /\ seq \in 0..SeqMod - 1 /\ rx[1].seq = seq
  BY <1>1 DEF Request, TypeOK, Accepts
<1>4. rx[1].age = 0
  BY <1>2, <1>3, PollAssumption DEF SentBy
<1> QED
  BY <1>1, <1>2, <1>4 DEF IsAsked

(* However late replies come, a reply is never taken for the reply to       *)
(* another request, as long as the device is not SeqMod requests behind.    *)
THEOREM RepliesAreFresh == Spec => []FreshReplies
<1>1. InStep /\ TypeOK /\ [Next]_vars => InStep'
  <2>1. ASSUME InStep, UNCHANGED vars
        PROVE  InStep'
    BY <2>1 DEF vars, threadVars, netVars, InStep, Idle, Down, Window, SentBy, Awaited, IsAsked
  <2> QED
    BY <2>1, ThreadInStep, OthersInStep DEF Next
<1> QED
  BY <1>1, InitInStep, InStepIsFresh, PollTypeInvariant, PTL DEF Spec

-----------------------------------------------------------------------------
(* The iterators, without digital inputs and input registers: the thread    *)
(* then waits only for replies whose branch increments its own iterator.    *)
InRange ==
    /\ \A k \in Lists : iter[k] \in 1..Count[k] + 1
    /\ pc = "queryReply" => subState \in {0, 2} /\ iter[subState] <= Count[subState]

LEMMA CountType == \A k \in Lists : Count[k] \in Nat
BY PollAssumption

LEMMA AdvanceInRange ==
    ASSUME TypeOK, InRange, pc = "queryReply", Advance(subState)
    PROVE  \A k \in Lists : iter'[k] \in 1..Count[k] + 1
<1>1. subState \in {0, 2} /\ iter[subState] <= Count[subState] /\ IteratorOf(subState) = subState
  BY DEF InRange, IteratorOf
<1>2. subState \in Lists /\ iter[subState] \in Nat /\ Count[subState] \in Nat
  BY <1>1, CountType DEF TypeOK, Lists
<1>3. iter' = [iter EXCEPT ![subState] = iter[subState] + 1]
  <2>1. iter' = [iter EXCEPT ![subState] =
                    IF iter[subState] > Count[subState] + 1
                    THEN iter[subState] ELSE iter[subState] + 1]
    BY <1>1 DEF Advance
  <2>2. ~(iter[subState] > Count[subState] + 1)
    BY <1>1, <1>2
  <2> QED
    BY <2>1, <2>2
<1> QED
  BY <1>1, <1>2, <1>3 DEF TypeOK, InRange

LEMMA ThreadInRange ==
    ASSUME TypeOK, InRange, PollStep, Count[1] = 0, Count[3] = 0
    PROVE  InRange'
<1> USE DEF threadVars, netVars
<1>1. ASSUME iter' = iter, pc' # "queryReply"
      PROVE  InRange'
  BY <1>1 DEF InRange
<1>2. CASE NextList
  <2>1. /\ pc' = "loop" /\ subState \in Lists
        /\ iter' = [iter EXCEPT ![subState] = 1]
    BY <1>2 DEF NextList
  <2> QED
    BY <2>1, CountType DEF InRange, TypeOK
<1>3. CASE SendQuery
  <2>1. /\ subState \in Lists /\ iter[subState] # Count[subState] + 1
        /\ iter' = iter /\ subState' = subState
    BY <1>3 DEF SendQuery, AtQuery
  <2>2. iter[subState] \in 1..Count[subState] + 1 /\ Count[subState] \in Nat
    BY <2>1, CountType DEF InRange
  <2>3. subState \in {0, 2}
    BY <2>1, <2>2 DEF Lists
  <2> QED
    BY <2>1, <2>2, <2>3 DEF InRange
<1>4. CASE UpdateVariables
  BY <1>4, AdvanceInRange DEF UpdateVariables, InRange
<1>5. CASE SkipQuery
  BY <1>5, AdvanceInRange DEF SkipQuery, InRange
<1>6. ASSUME NEW k \in WriteKinds, WriteStep(k)
      PROVE  iter' = iter /\ pc' # "queryReply"
  BY <1>6 DEF WriteStep, NoWrite, SendWrite, SendWriteFails, ReadWriteReply,
              ReadWriteReplyFails, AfterWrite, ReplyOf
<1>7. CASE OpenSocket \/ Established \/ CloseSocket \/ LeaveLoop \/ NoList
           \/ SendQueryFails \/ NoReply
  <2>1. iter' = iter /\ pc' # "queryReply"
    BY <1>7 DEF OpenSocket, Established, CloseSocket, LeaveLoop, NoList,
                SendQueryFails, NoReply, TypeOK
  <2> QED
    BY <2>1, <1>1
<1> QED
  BY <1>1, <1>2, <1>3, <1>4, <1>5, <1>6, <1>7 DEF PollStep

LEMMA OthersInRange ==
    ASSUME InRange,
           Deliver \/ Unanswered \/ Break \/ (\E k \in WriteKinds : RequestWrite(k))
              \/ Stop \/ Start
    PROVE  InRange'
<1>1. CASE Start
  <2>1. pc' = "loop" /\ iter' = [k \in Lists |-> 1]
    BY <1>1 DEF Start
  <2> QED
    BY <2>1, CountType DEF InRange
<1>2. CASE Deliver \/ Unanswered \/ Break \/ (\E k \in WriteKinds : RequestWrite(k)) \/ Stop
  BY <1>2 DEF InRange, Deliver, Unanswered, Break, RequestWrite, Stop, threadVars
<1> QED
  BY <1>1, <1>2

(* On a device without digital inputs and input registers no iterator is    *)
(* moved past the end of its list.                                          *)
THEOREM IteratorsStayInRange ==
    ASSUME Count[1] = 0, Count[3] = 0
    PROVE  Spec => []IteratorsInRange
<1>1. Init => InRange
  BY CountType DEF Init, InRange
<1>2. InRange /\ TypeOK /\ [Next]_vars => InRange'
  <2>1. ASSUME InRange, UNCHANGED vars
        PROVE  InRange'
    BY <2>1 DEF vars, threadVars, InRange
  <2> QED
    BY <2>1, ThreadInRange, OthersInRange DEF Next
<1>3. InRange => IteratorsInRange
  BY CountType DEF InRange, IteratorsInRange
<1> QED
  BY <1>1, <1>2, <1>3, PollTypeInvariant, PTL DEF Spec
=============================================================================
