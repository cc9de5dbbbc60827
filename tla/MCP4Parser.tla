----------------------------- MODULE MCP4Parser -----------------------------
(* An instance of P4Parser for TLC: headers of one field of one bit, and    *)
(* all the machines of a shape, those included whose paths extract          *)
(* different headers.                                                       *)
EXTENDS P4Parser

MCBits     == [f \in 0 .. NoFields - 1 |-> 1]
MCHeaderOf == [f \in 0 .. NoFields - 1 |-> f]
MCNoOffset == [f \in 0 .. NoFields - 1 |-> 0]

BitsOf(v) == [b \in 0 .. MaxFieldSize - 1 |-> (v \div 2^b) % 2]

(* The value 2 of another field's constant is no value of one bit.          *)
MCValues == {BitsOf(0), BitsOf(1), BitsOf(2)}
MCMasks  == {FullMask}

(* The source compares field 0 with 0 and 1, which are exchanged, and field *)
(* 1 with 1, for which 0 stands.                                            *)
MCOldConstant == [f \in 0 .. NoFields - 1 |->
                    IF f = 0 THEN [w \in {BitsOf(0), BitsOf(1)} |-> IF w = BitsOf(0) THEN BitsOf(1)
                                                                    ELSE BitsOf(0)]
                    ELSE [w \in {BitsOf(0)} |-> BitsOf(1)]]

MCMachines == Machines(NoStates, TableSize)
=============================================================================
