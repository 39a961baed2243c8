---------------------------- MODULE RegisterValues ----------------------------
(***************************************************************************)
(* ModbusRegisterValue: values of the tree as registers of a device and     *)
(* back.  A type is [table, kind, size, first]: GlobalEnum's UINT32_ML is    *)
(* [table |-> "holding", kind |-> "uint", size |-> 2, first |-> "M"].        *)
(* Floating point values are known by the number their bits make.           *)
(***************************************************************************)
EXTENDS Integers, SequencesExt

CONSTANTS
    ByteBits,       (* bits in a byte, 8 in the code                          *)
    Base            (* values of a byte, 256 in the code                      *)

ASSUME ByteAssumption == ByteBits \in Nat \ {0} /\ Base \in Nat \ {0, 1}
ASSUME ByteSize == Base = 2^ByteBits

Word == Base * Base

(* What each of four words counts, the least significant first, and how     *)
(* many numbers n words can tell.                                           *)
Weight == << 1, Word, Word * Word, Word * Word * Word >>
Span(n) == Weight[n] * Word

RegisterTypes ==
    {t \in [table : {"holding", "input"}, kind : {"int", "uint", "float"},
            size : {1, 2, 4}, first : {"L", "M"}] :
        t.size = 1 => t.first = "L" /\ t.kind # "float"}

BitTypes == {[table |-> b, kind |-> "bit", size |-> 1, first |-> "L"] : b \in {"coil", "digital"}}

-----------------------------------------------------------------------------
(* One register.  "small" puts the high byte into .high.                    *)
GetRegister(w, small) ==
    IF small THEN [high |-> w \div Base, low |-> w % Base]
    ELSE [high |-> w % Base, low |-> w \div Base]

GetWord(r, small) ==
    IF small THEN r.high * Base + r.low ELSE r.low * Base + r.high

(* Bytes of floating point values are stored the other way round: the least *)
(* significant byte of a word goes to .high when "small", on any host.      *)
HighFirst(t, small) == small = (t.kind # "float")

(* The words of n registers, the least significant first, of a number in    *)
(* two's complement or of the bits of a floating point value.               *)
Words(x, n) == [i \in 1..n |-> (x \div Weight[i]) % Word]

Number(ws) ==
    ws[1] + (IF Len(ws) > 1 THEN Weight[2] * ws[2] ELSE 0)
          + (IF Len(ws) > 2 THEN Weight[3] * ws[3] + Weight[4] * ws[4] ELSE 0)

Signed(x, n) == IF 2 * x >= Span(n) THEN x - Span(n) ELSE x

(* Mutant of InOrder: every type is taken for least significant word first. *)
InOrderLM(t, ws) == ws

(* The same words as the device keeps them: _LM or _ML.                     *)
InOrder(t, ws) == IF t.first = "L" THEN ws ELSE Reverse(ws)

(* convert_to_register_value.  Only types that can be written convert.      *)
ConvertToRegisterValue(t, small, x) ==
    IF t.table # "holding" THEN << >>
    ELSE LET ws == InOrder(t, Words(x, t.size))
         IN [i \in 1..t.size |-> GetRegister(ws[i], HighFirst(t, small))]

(* set_register_value: with too few registers, the registers stay zero.     *)
SetRegisterValue(t, registers, index) ==
    IF t.size <= Len(registers) - index THEN [i \in 1..t.size |-> registers[index + i]]
    ELSE [i \in 1..t.size |-> [high |-> 0, low |-> 0]]

(* get_value.  Wide unsigned values come out signed, and of a FLOAT64 the   *)
(* first four bytes are taken for a float.                                  *)
GetValue(t, small, registers) ==
    LET words == [i \in 1..t.size |-> GetWord(registers[i], HighFirst(t, small))]
        bits  == Number(InOrder(t, words))
    IN CASE t.kind = "float" -> bits % Span(2)
         [] t.kind = "uint" /\ t.size = 1 -> bits
         [] OTHER -> Signed(bits, t.size)
=============================================================================
