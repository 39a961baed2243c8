---------------------------- MODULE InOutLogic ----------------------------
(***************************************************************************)
(* The little programs that stand between a point and its device: OpCreator *)
(* loads the lines of a file, OperationalLogic executes them.  A line is     *)
(* [op, dest, r1, r2]; an operand is [name |-> ...] for a variable,          *)
(* [value |-> ...] for a constant, or NoOperand.  Values are integers;       *)
(* strings, and what the class Value does with operands of two kinds, are    *)
(* left out.                                                                *)
(***************************************************************************)
EXTENDS Integers, SequencesExt

CONSTANTS
    MaxInstruction,     (* 128 in the code                                    *)
    IntBits,            (* bits of an integer, 64 in the code                 *)
    EmptyValue,         (* Value()                                            *)
    OutOfBounds,        (* what lies behind the end of a vector               *)
    NoLogic             (* nullptr                                            *)

ASSUME LogicAssumption ==
    MaxInstruction \in Nat \ {0} /\ IntBits \in Nat \ {0} /\ EmptyValue \notin Int /\ OutOfBounds \notin Int

NoOperand == [none |-> TRUE]
IsVariable(x) == DOMAIN x = {"name"}
IsConstant(x) == DOMAIN x = {"value"}

JumpCodes == {"JEQ", "JNE", "JGT", "JGE", "JLT", "JLE"}
OperationCodes == {"ASN", "ADD", "SUB", "MUL", "DIV", "SLF", "SRS", "SRU", "AND", "OR", "XOR"}

-----------------------------------------------------------------------------
(* Loading.  What is known so far: names of variables and constants in the   *)
(* order of their indices (from 1 here), and the instructions.              *)
Loading == [ok |-> TRUE, names |-> << "input" >>, constants |-> << >>, list |-> << >>]

Position(names, x) == CHOOSE i \in DOMAIN names : names[i] = x

(* get_variable: a reference to the operand, and what is known with it.     *)
WithOperand(st, x) ==
    IF IsVariable(x)
    THEN IF x.name \in ToSet(st.names)
         THEN [st |-> st, ref |-> [constant |-> FALSE, index |-> Position(st.names, x.name)]]
         ELSE [st |-> [st EXCEPT !.names = Append(@, x.name)],
               ref |-> [constant |-> FALSE, index |-> Len(st.names) + 1]]
    ELSE IF IsConstant(x)
    THEN [st |-> [st EXCEPT !.constants = Append(@, x.value)],
          ref |-> [constant |-> TRUE, index |-> Len(st.constants) + 1]]
    ELSE [st |-> [st EXCEPT !.ok = FALSE], ref |-> [constant |-> TRUE, index |-> 0]]

Instruction(op, dest, v1, v2) == [op |-> op, dest |-> dest, v1 |-> v1, v2 |-> v2]
NoRef == [constant |-> FALSE, index |-> 1]

Rejected(st) == [st EXCEPT !.ok = FALSE]
WithInstruction(st, i) == [st EXCEPT !.list = Append(@, i)]

(* add_instruction.  get_opcode knows no JMP.  A constant to be returned is  *)
(* kept among the constants, and its index there taken for a variable's.    *)
AddInstruction(st, line) ==
    IF ~st.ok THEN st
    ELSE IF line.op \in JumpCodes
    THEN LET a == WithOperand(st, line.r1)
             b == WithOperand(a.st, line.r2)
         IN IF ~IsConstant(line.dest) \/ line.dest.value < 1 THEN Rejected(st)
            ELSE WithInstruction(b.st, Instruction(line.op, line.dest.value, a.ref, b.ref))
    ELSE IF line.op \in OperationCodes
    THEN LET d == WithOperand(st, line.dest)
             a == WithOperand(d.st, line.r1)
             b == IF line.op = "ASN" THEN [st |-> a.st, ref |-> NoRef] ELSE WithOperand(a.st, line.r2)
         IN IF ~IsVariable(line.dest) THEN Rejected(st)
            ELSE WithInstruction(b.st, Instruction(line.op, d.ref.index, a.ref, b.ref))
    ELSE IF line.op = "RTN"
    THEN LET d == WithOperand(st, IF line.dest = NoOperand THEN [value |-> EmptyValue] ELSE line.dest)
         IN WithInstruction(d.st, Instruction("RTN", d.ref.index, NoRef, NoRef))
    ELSE Rejected(st)

(* load_logic, and get_logic that keeps what it made: a file that does not   *)
(* load is no logic, and the point is built without it.                     *)
LoadLogic(lines) ==
    LET st == FoldLeft(AddInstruction, Loading, lines) IN IF st.ok THEN st ELSE NoLogic

-----------------------------------------------------------------------------
(* Executing.                                                               *)
Wrap(x) == LET w == x % 2^IntBits IN IF 2 * w >= 2^IntBits THEN w - 2^IntBits ELSE w
Unsigned(x) == x % 2^IntBits

(* The bits of a number in two's complement, and the number of some bits.    *)
Places == 0..(IntBits - 1)
Bit(x, j) == (x \div 2^j) % 2
OfBits(bits) == Wrap(FoldFunction(LAMBDA a, b : a + b, 0, [j \in Places |-> 2^j * bits[j]]))

Operate(op, x, y) ==
    CASE op = "ASN" -> x
      [] op = "ADD" -> Wrap(x + y)
      [] op = "SUB" -> Wrap(x - y)
      [] op = "MUL" -> Wrap(x * y)
      [] op = "DIV" -> IF (x < 0) = (y < 0) THEN x \div y ELSE -((-x) \div y)
      [] op = "SLF" -> Wrap(x * 2^y)
      [] op = "SRS" -> x \div 2^y
      [] op = "SRU" -> Wrap(Unsigned(x) \div 2^y)
      [] op = "AND" -> OfBits([j \in Places |-> Bit(x, j) * Bit(y, j)])
      [] op = "OR"  -> OfBits([j \in Places |-> IF Bit(x, j) + Bit(y, j) > 0 THEN 1 ELSE 0])
      [] op = "XOR" -> OfBits([j \in Places |-> (Bit(x, j) + Bit(y, j)) % 2])

Jumps(op, x, y) ==
    CASE op = "JEQ" -> x = y [] op = "JNE" -> x # y
      [] op = "JGT" -> x > y [] op = "JGE" -> x >= y
      [] op = "JLT" -> x < y [] op = "JLE" -> x <= y

(* One instruction: at is the next one, vol the variables, result what is   *)
(* returned, once it is.  The instruction that reaches MaxInstruction ends   *)
(* with an empty value, whatever comes after it.                            *)
Step(logic, s, n) ==
    IF s.done THEN s
    ELSE IF s.at > Len(logic.list) THEN [s EXCEPT !.done = TRUE, !.result = s.vol[1]]
    ELSE LET i    == logic.list[s.at]
             Of(r) == IF r.constant THEN logic.constants[r.index] ELSE s.vol[r.index]
         IN IF i.op = "RTN"
            THEN [s EXCEPT !.done = TRUE,
                           !.result = IF i.dest \in DOMAIN s.vol THEN s.vol[i.dest] ELSE OutOfBounds]
            ELSE [s EXCEPT
                    !.at = IF i.op \in JumpCodes /\ Jumps(i.op, Of(i.v1), Of(i.v2)) THEN i.dest ELSE @ + 1,
                    !.vol = IF i.op \in OperationCodes
                            THEN [@ EXCEPT ![i.dest] = Operate(i.op, Of(i.v1), Of(i.v2))] ELSE @,
                    !.done = n = MaxInstruction]

Execute(logic, x) ==
    LET begin == [at |-> 1, vol |-> [i \in DOMAIN logic.names |-> IF i = 1 THEN x ELSE EmptyValue],
                  done |-> FALSE, result |-> EmptyValue]
        end == FoldLeft(LAMBDA s, n : Step(logic, s, n), begin, [n \in 1..MaxInstruction |-> n])
    IN end.result

(* OperationVariable: without logic, the value itself.                      *)
Processed(logic, x) == IF logic = NoLogic THEN x ELSE Execute(logic, x)
=============================================================================
