------------------------------ MODULE Simulation ------------------------------
(***************************************************************************)
(* simulate_stm: a candidate machine with NoStates states and TableSize    *)
(* entries, any the Generator may propose, is run on a packet for exactly  *)
(* NoStates transitions.                                                   *)
(*                                                                         *)
(* `reads` is a history variable of the model: the extractions performed   *)
(* so far, in order.  No action reads it.                                  *)
(***************************************************************************)
EXTENDS StateMachine

CONSTANTS NoStates, TableSize

ASSUME SimulationAssumption == NoStates \in Nat \ {0} /\ TableSize \in Nat

VARIABLES machine, packet, config, step, reads

vars == <<machine, packet, config, step, reads>>

Init ==
  /\ machine \in Machines(NoStates, TableSize)
  /\ packet \in Packet
  /\ config = Start
  /\ step = 0
  /\ reads = <<>>

Simulate ==
  /\ step < NoStates
  /\ config' = Transition(machine, config, packet)
  /\ step' = step + 1
  /\ reads' = IF Extracts(machine, config)
              THEN Append(reads, [field |-> Field(machine, config), pos |-> config.pos])
              ELSE reads
  /\ UNCHANGED <<machine, packet>>

Spec == Init /\ [][Simulate]_vars

-----------------------------------------------------------------------------
TypeOK ==
  /\ machine \in Machines(NoStates, TableSize)
  /\ packet \in Packet
  /\ config \in [state : 0 .. NoStates + 1, pos : 0 .. MaxPacketSize, phv : [Fields -> Word]]
  /\ step \in 0 .. NoStates
  /\ reads \in Seq([field : Fields, pos : 0 .. MaxPacketSize])

(* find_stm compares the state after no_states transitions with ACCEPT or  *)
(* REJECT: by then every machine it may propose has halted, whatever the   *)
(* packet, because transitions only go to higher states.                   *)
HaltsWithinNoStates ==
  step = NoStates => config.state \in {Accept(NoStates), Reject(NoStates)}

(* A field keeps the sentinel exactly as long as no state extracted it:    *)
(* no packet can make an extracted field look absent, which is what the    *)
(* guards of Design 2 and the comparison with the specification rest on.   *)
SentinelMeansAbsent ==
  \A f \in Fields :
     config.phv[f] = Sentinel <=> \A i \in DOMAIN reads : reads[i].field # f

End(r) == r.pos + FieldSize[r.field]

(* Extractions consume the packet from its first bit on without gap or     *)
(* overlap, the pointer is the end of the last one, and a field holds the  *)
(* bits its most recent extraction covered.                                *)
ContiguousReads ==
  /\ \A i \in DOMAIN reads :
        reads[i].pos = IF i = 1 THEN 0 ELSE End(reads[i - 1])
  /\ config.pos = IF reads = <<>> THEN 0 ELSE End(reads[Len(reads)])
  /\ \A i \in DOMAIN reads :
        (\A j \in DOMAIN reads : j > i => reads[j].field # reads[i].field)
          => config.phv[reads[i].field] =
               Slice(packet, reads[i].pos, FieldSize[reads[i].field])

(* Design 2: no field is extracted twice on a path.                        *)
ReadOnce ==
  NotAlwaysExtract =>
    \A i, j \in DOMAIN reads : reads[i].field = reads[j].field => i = j

(* Whenever a state hands over to a state other than REJECT, the field it  *)
(* branched on (by an entry or by default) holds bits of this packet: an   *)
(* absent field never decides a transition, in either design.              *)
DecidesOnExtractedField ==
  [][Active(machine, config) /\ config'.state # Reject(NoStates)
       => config'.phv[Field(machine, config)] # Sentinel]_vars

(* Design 2 differs from Design 1 only for machines in which two states    *)
(* have the same field: all others make the same transitions under both    *)
(* encodings, because a state that is reached finds its field absent.      *)
AlwaysExtract == INSTANCE StateMachine WITH NotAlwaysExtract <- FALSE

FieldsDiffer ==
  \A s, t \in 0 .. NoStates - 1 :
     machine.default_field[s] = machine.default_field[t] => s = t

DesignsAgree ==
  [][FieldsDiffer => config' = AlwaysExtract!Transition(machine, config, packet)]_vars
=============================================================================
