---------------------------- MODULE MCSynthesiser ----------------------------
(* Instances of Synthesiser for TLC: small programs whose fields have one   *)
(* bit, or the widths FieldMinimiser gives them.                            *)
EXTENDS Synthesiser

MCZeroPacket == [b \in 0 .. MaxPacketSize - 1 |-> 0]

BitsOf(v) == [b \in 0 .. MaxFieldSize - 1 |-> (v \div 2^b) % 2]

(* The constants and masks of the programs. *)
MCOne       == {BitsOf(1)}
MCFullMasks == {FullMask}

(* Machines and agreement, evaluated once. *)
MCMachines == UNION {{m \in MachinesOfShape(k, n) : TRUE} : k \in MinEntries .. MaxEntries,
                                                            n \in MinStates .. MaxStates}
MCAgreeing == {mp \in MCMachines \X Packet : Agrees(mp[1], mp[2])}
MCCandidates(k, n) == {m \in MCMachines : m.no_states = n /\ Len(m.entries) = k}
MCAgrees(m, p) == <<m, p>> \in MCAgreeing

Ext(a, n) == [kind |-> "extract", attr |-> a, next |-> n]
If(a, v, k, t, e) == [kind |-> "if", attr |-> a, value |-> BitsOf(v), mask |-> k,
                      next_true |-> t, next_false |-> e]
Accepts == [kind |-> "exit", accept |-> TRUE]
Rejects == [kind |-> "exit", accept |-> FALSE]

(* Extract(a); Extract(b); if (a == 1) return REJECT; return ACCEPT;        *)
MCLateBranch == <<Ext(0, 2), Ext(1, 3), If(0, 1, FullMask, 4, 5), Rejects, Accepts>>

(* Extract(b); Extract(a); if (a == 1) return ACCEPT; return REJECT;        *)
MCLeading == <<Ext(1, 2), Ext(0, 3), If(0, 1, FullMask, 4, 5), Accepts, Rejects>>

(* Extract(b); Extract(c); Extract(a); if (a == 1) return ACCEPT; return REJECT; *)
MCTwoLeading == <<Ext(1, 2), Ext(2, 3), Ext(0, 4), If(0, 1, FullMask, 5, 6),
                  Accepts, Rejects>>

(* Widths: of the attributes, then of the synthesiser's fields. *)
MCTwoAttrs   == [a \in 0 .. 1 |-> 1]
MCBits       == [f \in Fields |-> 1]
(* As minimised: two bits for a field with one constant, one for the others. *)
MCMinimised  == [a \in 0 .. 1 |-> IF a = 0 THEN 2 ELSE 1]
MCMinimised3 == [a \in 0 .. 2 |-> IF a = 0 THEN 2 ELSE 1]
MCMinimised0 == [f \in 0 .. 0 |-> 2]

MCCompares0  == {0}
=============================================================================
