----------------------------- MODULE SpecBuilder -----------------------------
(***************************************************************************)
(* get_spec (src/spec/spec_builder.py): a program's graph is validated,    *)
(* then its specification is asked for again and again, once per packet    *)
(* the CEGIS loop comes up with.  All those walks share one cur_phv list,  *)
(* which is never reset.                                                   *)
(***************************************************************************)
EXTENDS ControlFlowGraph

CONSTANT Graphs   \* the programs to compile

ASSUME GraphsAssumption == \A g \in Graphs : WellFormed(g)

VARIABLES graph, status, max_packet_size, cur_phv, packet, result

vars == <<graph, status, max_packet_size, cur_phv, packet, result>>

(* BitVec(max_packet_size) *)
Packets(size) == [0 .. size - 1 -> Bit]

Init ==
  /\ graph \in Graphs
  /\ status = "built"
  /\ max_packet_size = 0
  /\ cur_phv = InitialPhv
  /\ packet = <<>>
  /\ result = [phv |-> InitialPhv, accept |-> FALSE]

(* get_max_packet_size raises a CompilationError or accepts the program.   *)
Validate ==
  /\ status = "built"
  /\ LET walk == GetMaxPacketSize(graph, 1, 0, {})
     IN  /\ status' = IF walk.raised THEN "rejected" ELSE "valid"
         /\ max_packet_size' = IF walk.raised THEN 0 ELSE walk.size
  /\ UNCHANGED <<graph, cur_phv, packet, result>>

(* spec(p) *)
CallSpec(p) ==
  /\ status \in {"valid", "specified"}
  /\ LET walk == MakeSpec(graph, 1, cur_phv, 0, p)
     IN  /\ result' = [phv |-> walk.phv, accept |-> walk.accept]
         /\ cur_phv' = walk.cur
  /\ packet' = p
  /\ status' = "specified"
  /\ UNCHANGED <<graph, max_packet_size>>

Next == Validate \/ \E p \in Packets(max_packet_size) : CallSpec(p)

Spec == Init /\ [][Next]_vars

-----------------------------------------------------------------------------
(* Every specification is the meaning of the program on that packet, even  *)
(* though the conditions are read from a list that the walk of the other   *)
(* branch and the walks for earlier packets wrote to.                      *)
SpecIsMeaning == status = "specified" => result = Follow(graph, 1, InitialPhv, 0, packet)

(* The nodes of the graph's paths, in order. *)
PathsFrom(g, paths, n) ==
  LET node == g[n]
      then == CASE node.kind = "exit" -> {<<>>}
                [] node.kind = "extract" -> paths[node.next]
                [] node.kind = "if" -> paths[node.next_true] \cup paths[node.next_false]
  IN  {<<node>> \o p : p \in then}

AllPaths(g) ==
  LET paths[n \in Nodes(g)] == PathsFrom(g, paths, n)
  IN  paths

Paths(g, n) == AllPaths(g)[n]

ExtractedBefore(path, i) ==
  {path[j].attr : j \in {k \in 1 .. i - 1 : path[k].kind = "extract"}}

Legal(path) ==
  \A i \in DOMAIN path :
     /\ path[i].kind = "extract" => path[i].attr \notin ExtractedBefore(path, i)
     /\ path[i].kind = "if" => path[i].attr \in ExtractedBefore(path, i)

(* A program is rejected exactly if one of its paths extracts a field      *)
(* twice or compares a field it has not extracted: the marks one branch    *)
(* sets are neither lost on the rest of its path nor seen by the other.    *)
RejectsIllegalPaths ==
  status # "built" =>
    (status = "rejected" <=> \E path \in Paths(graph, 1) : ~Legal(path))
=============================================================================
