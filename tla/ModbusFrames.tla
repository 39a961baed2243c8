---------------------------- MODULE ModbusFrames ----------------------------
(***************************************************************************)
(* ModbusRtu and ModbusIP: the requests they make and the replies they      *)
(* decode.  A frame is its function code, address, count and data bytes and, *)
(* where a length is checked, its size; slave address, sequence number and   *)
(* CRC are left out (a reply with a wrong CRC is no reply).                  *)
(***************************************************************************)
EXTENDS RegisterValues

CONSTANT NoReply        (* decode_reply's function code 0                     *)

Transports == {"rtu", "tcp"}

(* Bytes of a reply around its data.                                        *)
Header(transport) == IF transport = "rtu" THEN 5 ELSE 9

CeilDiv(n, d) == (n + d - 1) \div d

ReadCode(table) ==
    CASE table = "coil" -> "READ_COIL" [] table = "digital" -> "READ_DIGITAL_INPUT"
      [] table = "holding" -> "READ_HOLDING_REGISTER" [] table = "input" -> "READ_INPUT_REGISTER"

BitCodes == {"READ_COIL", "READ_DIGITAL_INPUT"}
RegisterCodes == {"READ_HOLDING_REGISTER", "READ_INPUT_REGISTER"}

(* The four requests to read, and the length of the reply that is awaited.  *)
CreateRead(table, first, count) ==
    [code |-> ReadCode(table), address |-> first, count |-> count, data |-> << >>]

ReplyLength(transport, q) ==
    Header(transport) + IF q.code \in BitCodes THEN CeilDiv(q.count, ByteBits) ELSE 2 * q.count

-----------------------------------------------------------------------------
(* Requests to write.                                                       *)
CreateForceSingleCoil(address, on) ==
    [code |-> "FORCE_SINGLE_COIL", address |-> address, count |-> 1,
     data |-> << IF on THEN Base - 1 ELSE 0, 0 >>]

(* retVal.append(value.high, 1) appends value.high bytes of value 1.        *)
CreatePresetSingleRegister(address, r) ==
    [code |-> "PRESET_SINGLE_REGISTER", address |-> address, count |-> 1,
     data |-> [i \in 1..(r.high + r.low) |-> 1]]

CreatePresetMultipleRegisters(address, registers) ==
    [code |-> "PRESET_MULTIPLE_REGISTERS", address |-> address, count |-> Len(registers),
     data |-> [k \in 1..(2 * Len(registers)) |->
                 IF k % 2 = 1 THEN registers[(k + 1) \div 2].high ELSE registers[k \div 2].low]]

(* ModbusIpProcess always writes several registers.                         *)
WriteRegisters(transport, address, registers) ==
    IF transport = "rtu" /\ Len(registers) = 1
    THEN CreatePresetSingleRegister(address, registers[1])
    ELSE CreatePresetMultipleRegisters(address, registers)

-----------------------------------------------------------------------------
(* The device, by the protocol: registers go high byte first, bits fill a   *)
(* byte from its lowest one.  mem[a] is the word or the bit at address a.    *)
WellFormed(q) == Len(q.data) = 2 * q.count

Written(mem, q) ==
    IF ~WellFormed(q) THEN mem
    ELSE [a \in DOMAIN mem |->
            LET i == a - q.address
            IN IF i \notin 0..(q.count - 1) THEN mem[a]
               ELSE IF q.code = "FORCE_SINGLE_COIL" THEN IF q.data[1] = 0 THEN 0 ELSE 1
               ELSE q.data[2 * i + 1] * Base + q.data[2 * i + 2]]

WriteReply(q) ==
    [code |-> q.code, address |-> q.address, count |-> q.count,
     data |-> IF q.code = "PRESET_MULTIPLE_REGISTERS" THEN << >> ELSE q.data]

BitAt(mem, a, last) == IF a <= last THEN mem[a] ELSE 0

ReadReply(transport, mem, q) ==
    LET last  == q.address + q.count - 1
        bytes == IF q.code \in BitCodes
                 THEN [i \in 1..CeilDiv(q.count, ByteBits) |->
                         [j \in 0..(ByteBits - 1) |->
                            BitAt(mem, q.address + ByteBits * (i - 1) + j, last)]]
                 ELSE [i \in 1..(2 * q.count) |->
                         LET w == mem[q.address + (i - 1) \div 2]
                         IN IF i % 2 = 1 THEN w \div Base ELSE w % Base]
    IN [code |-> q.code, data |-> bytes, size |-> Header(transport) + Len(bytes)]

-----------------------------------------------------------------------------
DecodeBits(bytes) ==
    [n \in 1..(ByteBits * Len(bytes)) |->
        bytes[1 + (n - 1) \div ByteBits][(n - 1) % ByteBits]]

DecodeRegisters(bytes) ==
    [i \in 1..(Len(bytes) \div 2) |-> [high |-> bytes[2 * i - 1], low |-> bytes[2 * i]]]

(* decode_reply, for what a request to read is answered: bits or registers. *)
DecodeReply(transport, q, reply) ==
    IF reply.size < ReplyLength(transport, q) \/ Len(reply.data) # reply.size - Header(transport)
       \/ reply.code # q.code
    THEN NoReply
    ELSE IF reply.code \in BitCodes THEN DecodeBits(reply.data) ELSE DecodeRegisters(reply.data)

(* A reply by which ModbusRtuProcess knows that a write succeeded.  A coil   *)
(* that was switched on is not recognised: the byte 0xff is compared as a    *)
(* negative number.                                                         *)
Acknowledged(q, registers, reply) ==
    /\ reply.code = q.code /\ reply.address = q.address /\ reply.count = q.count
    /\ q.code = "FORCE_SINGLE_COIL" => q.data[1] = 0
    /\ q.code = "PRESET_SINGLE_REGISTER" => reply.data = << registers[1].high, registers[1].low >>
=============================================================================
