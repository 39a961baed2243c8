--------------------------- MODULE MCLeafControl ---------------------------
(* Constants for checking LeafControl: a two-valued and a three-valued      *)
(* point, whose register holds a scaled value (value = 10 * raw).           *)
EXTENDS LeafControl

MCRaw2 == {0, 1}
MCRaw3 == {0, 1, 2}

MCValues2 == {0, 10}
MCValues3 == {0, 10, 20}

MCOutLogic == [v \in Values |-> v \div 10]
MCInLogic  == [r \in Raw |-> r * 10]
=============================================================================
