----------------------------- MODULE SearchSpace -----------------------------
(***************************************************************************)
(* The search problem that find_stm (src/synthesis/stm_synthesiser.py) is  *)
(* given: shapes (a number of table entries and a number of states), the   *)
(* machines of every shape, and the packets on which a machine must do     *)
(* what the specification says.                                            *)
(***************************************************************************)
EXTENDS Integers

CONSTANTS
  MinEntries, MaxEntries,   \* bounds on the number of table entries
  MinStates, MaxStates,     \* bounds on the number of states
  Candidates(_, _),         \* the machines with k entries and n states
  Packets,                  \* the packets of max_packet_size bits
  ZeroPacket,               \* the all-zero one
  Correct(_, _),            \* machine m parses packet p as specified
  NoMachine                 \* before the first machine

ASSUME SearchAssumption ==
  /\ MinEntries \in Nat /\ MaxEntries \in Nat
  /\ MinStates \in Nat /\ MaxStates \in Nat
  /\ ZeroPacket \in Packets

Valid(m) == \A p \in Packets : Correct(m, p)

HasNoValid(k, n) == \A m \in Candidates(k, n) : ~Valid(m)

(* The order of the shapes: fewer entries first, then fewer states. *)
Before(k, n, l, o) == k < l \/ (k = l /\ n < o)

(* No shape within the bounds and before <<k, n>> has a valid machine. *)
NoneBefore(k, n) ==
  \A l \in MinEntries .. MaxEntries, o \in MinStates .. MaxStates :
    Before(l, o, k, n) => HasNoValid(l, o)
=============================================================================
