---------------------------- MODULE MCPointPath ----------------------------
EXTENDS PointPath

Line(op, dest, r1, r2) == [op |-> op, dest |-> dest, r1 |-> r1, r2 |-> r2]
V(name) == [name |-> name]
K(value) == [value |-> value]

MCOffset(op) == << Line(op, V("temp"), V("input"), K(3)), Line("RTN", V("temp"), NoOperand, NoOperand) >>
MCXor == << Line("XOR", V("input"), V("input"), K(5)) >>
MCNegate == << Line("JEQ", K(3), V("input"), K(0)), Line("SUB", V("input"), K(0), V("input")),
               Line("RTN", V("input"), NoOperand, NoOperand) >>
MCEndless == << Line("JEQ", K(1), V("input"), V("input")) >>
MCConstant == << Line("RTN", K(5), NoOperand, NoOperand) >>
MCJump == << Line("JMP", K(1), NoOperand, NoOperand) >>

(* Logics to read and to write with.                                        *)
MCLogics(t) ==
    {<< << >>, << >> >>} \cup
    IF t.kind \in {"float", "bit"} THEN {}
    ELSE {<< MCOffset("SUB"), MCOffset("ADD") >>, << MCXor, MCXor >>, << MCNegate, MCNegate >>,
          << MCEndless, << >> >>, << MCConstant, MCJump >>}

MCPoints ==
    UNION {{[type |-> t, small |-> s, transport |-> p, address |-> a, in |-> l[1], out |-> l[2]] :
                s \in IF t.kind = "bit" THEN {TRUE} ELSE BOOLEAN, p \in Transports,
                a \in {1, 6 - t.size}, l \in MCLogics(t)} :
           t \in RegisterTypes \cup BitTypes}

(* The ends of the range, and numbers all of whose bytes differ.            *)
MCSamples(t) ==
    LET span == Span(t.size)
        mixed == IF t.size = 1 THEN 6 ELSE IF t.size = 2 THEN 27 ELSE 17185
    IN CASE t.kind = "bit" -> {0, 1}
         [] t.kind = "int" \/ (t.kind = "uint" /\ t.size = 4) -> {0, 1, -1, mixed, span \div 2 - 1, -(span \div 2)}
         [] OTHER -> {0, 1, mixed, span - 1, span - 1 - mixed}
MCReads == {[first |-> 0, count |-> 6], [first |-> 1, count |-> 5]}
MCAddresses == 0..5
=============================================================================
