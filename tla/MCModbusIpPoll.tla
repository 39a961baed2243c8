--------------------------- MODULE MCModbusIpPoll ---------------------------
(* Query lists and uninitialised bytes for checking ModbusIpPoll.           *)
EXTENDS ModbusIpPoll

(* Two coil queries and a holding register query: a device without digital  *)
(* inputs and input registers.                                              *)
MCCoilsAndHolding == [k \in Lists |-> CASE k = 0 -> 2 [] k = 2 -> 1 [] OTHER -> 0]

(* Every case of the two switches, and the counters around the limit.       *)
MCGarbage == [main : {0, 1, 10, 20}, sub : {0, 2, 4}, fail : {0, 3, 255}]
=============================================================================
