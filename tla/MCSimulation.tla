----------------------------- MODULE MCSimulation -----------------------------
(* Instances of Simulation for TLC: three fields, of which a packet of three *)
(* bits holds any two.                                                       *)
EXTENDS Simulation

MCFieldSize == [f \in 0 .. 2 |-> IF f = 1 THEN 2 ELSE 1]

BitsOf(v) == [b \in 0 .. MaxFieldSize - 1 |-> (v \div 2^b) % 2]

(* Values: 0, 1, and the pattern of the sentinel itself (constant synthesis *)
(* off lets the solver pick it).                                            *)
MCValues == {BitsOf(0), BitsOf(1), BitsOf(4)}
MCExactMasks == {BitsOf(7)}
=============================================================================
