---------------------------- MODULE FieldRestorer ----------------------------
(***************************************************************************)
(* From the synthesised machine to the states of the P4 parser             *)
(* (src/backend/field_restorer.py): table_to_states puts back the          *)
(* constants of the source program, and assign_extractions decides, in a   *)
(* breadth-first walk from the start state, which states extract the       *)
(* header they branch on.                                                  *)
(*                                                                         *)
(* The transitions of a P4 state are a function from the indices of the    *)
(* table entries it kept, in table order, and a default.                   *)
(***************************************************************************)
EXTENDS RestoredTable

CONSTANTS
  NoStates, TableSize,   \* the shape of the machine
  InputMachines,         \* the machines find_stm may return
  HeaderOf,              \* the header a field belongs to (attr[0])
  HeaderSize,            \* the bits of a header (its struct in old_struct_decls)
  Offset                 \* the bits of its header before a field

States  == 0 .. NoStates - 1
Headers == {HeaderOf[f] : f \in Fields}

ASSUME RestorerAssumption ==
  /\ NoStates \in Nat \ {0}
  /\ TableSize \in Nat
  /\ InputMachines \subseteq Machines(NoStates, TableSize)
  /\ DOMAIN HeaderOf = Fields
  /\ HeaderSize \in [Headers -> Nat]
  /\ Offset \in [Fields -> Nat]
  /\ \A f \in Fields : Offset[f] + FieldSize[f] <= HeaderSize[HeaderOf[f]]

VARIABLES
  machine,     \* what find_stm returned
  stage,       \* "table", "assign" or "written"
  states,      \* the P4 states
  extracted,   \* the headers extracted before a state, for the visited states
  queue        \* the visited states whose successors have not been looked at

rvars == <<machine, stage, states, extracted, queue>>

-----------------------------------------------------------------------------
(* table_to_states: the kept entries of module RestoredTable, by state.    *)

P4States(m) ==
  [v \in States |->
     [field_used    |-> m.default_field[v],
      is_extraction |-> FALSE,
      transitions   |-> [i \in Restorable(m, v) |-> Restored(m.default_field[v], m.entries[i])],
      default       |-> m.default_next[v]]]

TableToStates ==
  /\ stage = "table"
  /\ states' = P4States(machine)
  /\ extracted' = [v \in {0} |-> {}]
  /\ queue' = <<0>>
  /\ stage' = "assign"
  /\ UNCHANGED machine

-----------------------------------------------------------------------------
(* assign_extractions.  A state that is not in DOMAIN extracted has not    *)
(* been visited (None).                                                    *)

(* The default transition is not followed. *)
Successors_NoDefault(v) ==
  {states[v].transitions[i].next : i \in DOMAIN states[v].transitions}

Successors(v) ==
  {states[v].transitions[i].next : i \in DOMAIN states[v].transitions} \cup {states[v].default}

(* ACCEPT and REJECT are skipped; a state is entered on its first visit.   *)
New(v) == {u \in Successors(v) : u \in States /\ u \notin DOMAIN extracted}

(* The position of the first transition to u; the default is the last one. *)
Rank(v, u) ==
  Min({i \in DOMAIN states[v].transitions : states[v].transitions[i].next = u} \cup {TableSize + 1})

(* The header counts as extracted only from the state that extracts it on. *)
OutSet_Forgotten(v) == extracted[v]

OutSet(v) == extracted[v] \cup {HeaderOf[states[v].field_used]}

Visit ==
  /\ stage = "assign"
  /\ queue # <<>>
  /\ LET v == Head(queue)
     IN  /\ states' = [states EXCEPT ![v].is_extraction =
                         HeaderOf[states[v].field_used] \notin extracted[v]]
         /\ extracted' = [u \in DOMAIN extracted \cup New(v) |->
                            IF u \in New(v) THEN OutSet(v) ELSE extracted[u]]
         /\ \E order \in [1 .. Cardinality(New(v)) -> New(v)] :
              /\ \A i, j \in DOMAIN order : i < j => Rank(v, order[i]) < Rank(v, order[j])
              /\ New(v) = {order[i] : i \in DOMAIN order}
              /\ queue' = Tail(queue) \o order
  /\ UNCHANGED <<machine, stage>>

(* write_p4 *)
WriteP4 ==
  /\ stage = "assign"
  /\ queue = <<>>
  /\ stage' = "written"
  /\ UNCHANGED <<machine, states, extracted, queue>>

RestorerInit ==
  /\ machine \in InputMachines
  /\ stage = "table"
  /\ states = <<>>
  /\ extracted = <<>>
  /\ queue = <<>>

RestorerNext == TableToStates \/ Visit \/ WriteP4
=============================================================================
