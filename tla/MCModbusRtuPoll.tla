--------------------------- MODULE MCModbusRtuPoll ---------------------------
(* A register that is written and not read, a double register, a coil that   *)
(* is switched off, and a register that the device itself changes.  The two  *)
(* registers may wait together and be taken as one batch.                    *)
EXTENDS ModbusRtuPoll

MCQueries == << << {2}, {4} >>, << >>, << {3} >>, << >> >>
MCWanted == {1} \X {2, 257} \cup {2} \X {1} \cup {3} \X {0}
=============================================================================
