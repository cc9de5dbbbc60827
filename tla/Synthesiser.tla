----------------------------- MODULE Synthesiser -----------------------------
(***************************************************************************)
(* find_stm at work: the CEGIS loop over the machines of StateMachine,     *)
(* each checked against the specification make_spec derives from a program *)
(* that get_max_packet_size has not rejected.                              *)
(***************************************************************************)
EXTENDS Cegis, Correctness

ASSUME SynthesiserAssumption ==
  /\ WellFormed(Program) /\ ~GetMaxPacketSize(Program, 1, 0, {}).raised
  /\ Packets = Packet
  /\ \A k \in MinEntries .. MaxEntries, n \in MinStates .. MaxStates :
       /\ Candidates(k, n) = MachinesOfShape(k, n)
       /\ \A m \in Candidates(k, n), p \in Packets : Correct(m, p) <=> Agrees(m, p)

(* Machine m ends every packet with the fields and the verdict of the path *)
(* the program takes on it.                                                *)
ParsesProgram(m) ==
  \A p \in Packet :
    LET final   == Run(m, p)
        meaning == Follow(Program, 1, InitialPhv, 0, p)
    IN  /\ final.phv = meaning.phv
        /\ final.state = IF meaning.accept THEN Accept(m.no_states) ELSE Reject(m.no_states)

(* The machine that is returned parses the program: neither the few        *)
(* packets of the Generator nor a condition that make_spec reads from a    *)
(* list another branch has written to comes between them.                  *)
ReturnsParser == pc = "found" => ParsesProgram(candidate)

(* No machine of an earlier shape does; STMNotFoundError is raised only if *)
(* none of any shape does.                                                 *)
NoSmallerParser ==
  pc \in {"found", "not_found"} =>
    \A k \in MinEntries .. MaxEntries, n \in MinStates .. MaxStates :
      Before(k, n, table_size, no_states) =>
        \A m \in MachinesOfShape(k, n) : ~ParsesProgram(m)

(* The machine that is returned extracts the fields of the program in its  *)
(* order and from the same places of every packet.  The constraints only   *)
(* compare the values the fields have in the end.                          *)
ExtractsLikeProgram ==
  pc = "found" =>
    \A p \in Packets : MachineReads(candidate, p) = ProgramReads(p)
=============================================================================
