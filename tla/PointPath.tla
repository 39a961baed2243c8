---------------------------- MODULE PointPath ----------------------------
(***************************************************************************)
(* The way of a value from the tree to a register or coil and back: a       *)
(* client writes a point, its out-logic and its type make registers of the   *)
(* value, a frame carries them to the device; a query reads the device, the  *)
(* reply is decoded, and type and in-logic make of it what the tree shows.   *)
(* Nothing is lost on the way here (ModbusIpPoll and ModbusRtuPoll are about *)
(* that): what can go wrong is the conversions.                             *)
(***************************************************************************)
EXTENDS ModbusFrames, InOutLogic

CONSTANTS
    Points,         (* points as configured: [type, small, transport, address, in, out], *)
                    (* in and out being the lines of their logics             *)
    Reads,          (* addresses a query may ask for, [first, count]          *)
    Addresses,      (* addresses of the device                                *)
    Samples(_)      (* values considered for a type                           *)

VARIABLES
    point,      (* the point                                                  *)
    query,      (* the query that covers it                                   *)
    stage,      (* "idle", "write", "read" or "shown"                         *)
    pending,    (* registers, or one bit, that wait to be written             *)
    sent,       (* how often they were sent                                   *)
    mem,        (* mem[a]: word or bit at address a of the device             *)
    before,     (* the device's memory before the last change (history)       *)
    meant,      (* the value last asked for or measured (history)             *)
    cache       (* the value the tree shows                                   *)

pathVars == << point, query, stage, pending, sent, mem, before, meant, cache >>

Type == point.type
IsBit(t) == t.kind = "bit"
Writable(t) == t.table \in {"coil", "holding"}
Covers(q, p) == p.address >= q.first /\ p.address + p.type.size <= q.first + q.count

InLogic == LoadLogic(point.in)
OutLogic == LoadLogic(point.out)

(* A device has the addresses asked of it; points are where their type may  *)
(* be, and out-logics make numbers of the values written.                   *)
ASSUME PathAssumption ==
    /\ Addresses \subseteq Nat
    /\ \A q \in Reads :
          q.first \in Nat /\ q.count \in Nat /\ q.first..(q.first + q.count - 1) \subseteq Addresses
    /\ \A p \in Points :
          /\ p.type \in RegisterTypes \cup BitTypes /\ p.transport \in Transports
          /\ p.small \in BOOLEAN /\ p.address \in Nat
          /\ \E q \in Reads : Covers(q, p)
          /\ Samples(p.type) \subseteq IF IsBit(p.type) THEN {0, 1} ELSE Int
          /\ Writable(p.type) => \A x \in Samples(p.type) : Processed(LoadLogic(p.out), x) \in Int

ASSUME ReplyAssumption == NoReply \notin Seq(Int) \cup Seq([high : Int, low : Int])

PathInit ==
    /\ point \in Points
    /\ query \in {q \in Reads : Covers(q, point)}
    /\ stage = "idle" /\ pending = << >> /\ sent = 0
    /\ mem = [a \in Addresses |-> 0] /\ before = mem
    /\ meant = EmptyValue /\ cache = EmptyValue

-----------------------------------------------------------------------------
(* write_value and _write_value of a coil or holding register variable.     *)
WriteValue(x) ==
    /\ stage \in {"idle", "shown"} /\ Writable(Type)
    /\ pending' = LET y == Processed(OutLogic, x)
                  IN IF IsBit(Type) THEN << y # 0 >> ELSE ConvertToRegisterValue(Type, point.small, y)
    /\ meant' = x /\ stage' = "write" /\ sent' = 0
    /\ UNCHANGED << point, query, mem, before, cache >>

(* A device measures: it keeps its values in the format of the type.        *)
Measure(x) ==
    /\ stage \in {"idle", "shown"} /\ ~Writable(Type)
    /\ before' = mem
    /\ mem' = LET ws == InOrder(Type, Words(x, Type.size))
              IN [a \in Addresses |->
                    IF a - point.address \notin 0..(Type.size - 1) THEN mem[a]
                    ELSE IF IsBit(Type) THEN x
                    ELSE LET r == GetRegister(ws[a - point.address + 1], HighFirst(Type, point.small))
                         IN r.high * Base + r.low]
    /\ meant' = x /\ stage' = "read"
    /\ UNCHANGED << point, query, pending, sent, cache >>

(* write_holding_register and force_coil_status, do_write_..._query.  Over   *)
(* the serial line a write that is not acknowledged is sent once more.       *)
SendWrite ==
    /\ stage = "write"
    /\ LET q == IF IsBit(Type) THEN CreateForceSingleCoil(point.address, pending[1])
                ELSE WriteRegisters(point.transport, point.address, pending)
       IN /\ mem' = Written(mem, q)
          /\ before' = IF sent = 0 THEN mem ELSE before
          /\ stage' = IF point.transport = "tcp" \/ sent = 1
                      \/ (WellFormed(q) /\ Acknowledged(q, pending, WriteReply(q)))
                   THEN "read" ELSE "write"
    /\ sent' = sent + 1
    /\ UNCHANGED << point, query, pending, meant, cache >>

(* Mutant of Update: the index of the variable in the reply is left out.     *)
UpdateFromFirst(values) ==
    IF IsBit(Type) THEN values[1]
    ELSE GetValue(Type, point.small, SetRegisterValue(Type, values, 0))

(* update_value_from_source, when the reply reaches the variable's address.  *)
Update(values) ==
    LET index == point.address - query.first
    IN IF IsBit(Type) THEN values[index + 1]
       ELSE GetValue(Type, point.small, SetRegisterValue(Type, values, index))

ReadBack ==
    /\ stage = "read"
    /\ LET q == CreateRead(Type.table, query.first, query.count)
           values == DecodeReply(point.transport, q, ReadReply(point.transport, mem, q))
       IN cache' = IF values = NoReply \/ point.address - query.first >= Len(values) THEN cache
                   ELSE Processed(InLogic, Update(values))
    /\ stage' = "shown"
    /\ UNCHANGED << point, query, pending, sent, mem, before, meant >>

PathNext ==
    \/ \E x \in Samples(Type) : WriteValue(x) \/ Measure(x)
    \/ SendWrite
    \/ ReadBack

PathSpec == PathInit /\ [][PathNext]_pathVars

-----------------------------------------------------------------------------
(* Where the code is known not to bring a value back, see the README: the    *)
(* frame that writes one register over the serial line, and the value of a   *)
(* FLOAT64.                                                                 *)
SingleFrame == point.transport = "rtu" /\ Type.table = "holding" /\ Type.size = 1
Lossy == SingleFrame \/ (Type.kind = "float" /\ Type.size = 4)

(* What the device is to have: what the out-logic makes, or it measured.    *)
Intended == IF Writable(Type) THEN Processed(OutLogic, meant) ELSE meant

(* A number in the range of a type that stands for x; a wide unsigned value  *)
(* is one of the signed type of its size.                                   *)
Held(t, x) ==
    LET n == x % Span(t.size)
    IN CASE t.kind = "bit" -> IF x = 0 THEN 0 ELSE 1
         [] t.kind = "float" \/ (t.kind = "uint" /\ t.size = 1) -> n
         [] OTHER -> IF 2 * n < Span(t.size) THEN n ELSE n - Span(t.size)

(* The tree shows what the in-logic makes of the value that was written, or  *)
(* that the device measured, within the range of its type, whatever the      *)
(* type, the order of words and bytes, the transport, the other words of the *)
(* device and the place of the point in its query.                          *)
ShownAsAsked ==
    stage = "shown" /\ ~Lossy => cache = Processed(InLogic, Held(Type, Intended))

(* A register type as a number of the device, its most significant word      *)
(* first or last, as the type says.                                         *)
DeviceNumber ==
    LET ws == [i \in 1..Type.size |->
                 LET w == mem[point.address + i - 1]
                 IN IF HighFirst(Type, point.small) THEN w ELSE (w % Base) * Base + w \div Base]
    IN Number(IF Type.first = "L" THEN ws ELSE Reverse(ws))

Elsewhere(a) == a - point.address \notin 0..(Type.size - 1)

(* After a write the device holds the value that the out-logic made, in the  *)
(* format of the type, at the point's addresses; no other address changed.   *)
DeviceSees ==
    stage \in {"read", "shown"} =>
        /\ \A a \in Addresses : Elsewhere(a) => mem[a] = before[a]
        /\ ~SingleFrame =>
              IF IsBit(Type) THEN mem[point.address] = Held(Type, Intended)
              ELSE DeviceNumber = Intended % Span(Type.size)
=============================================================================
