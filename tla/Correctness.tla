----------------------------- MODULE Correctness -----------------------------
(***************************************************************************)
(* When a machine is right for a program: what add_correctness_constraint  *)
(* and add_verification_constraint compare, and, for the properties, the   *)
(* extractions of both, which they do not compare.                         *)
(***************************************************************************)
EXTENDS ControlFlowGraph

CONSTANT Program

MachinesOfShape(k, n) == Machines(n, k)

(* Only the verdict is compared. *)
Agrees_VerdictOnly(m, p) ==
  LET final == Run(m, p)
      desired == MakeSpec(Program, 1, InitialPhv, 0, p)
  IN  final.state = IF desired.accept THEN Accept(m.no_states) ELSE Reject(m.no_states)

(* The fields and the verdict are those of the specification. *)
Agrees(m, p) ==
  LET final == Run(m, p)
      desired == MakeSpec(Program, 1, InitialPhv, 0, p)
  IN  /\ final.phv = desired.phv
      /\ final.state = IF desired.accept THEN Accept(m.no_states) ELSE Reject(m.no_states)

-----------------------------------------------------------------------------
(* The extractions of the machine on packet p, in order. *)
ReadsOfStep(m, c) == IF Extracts(m, c) THEN <<<<Field(m, c), c.pos>>>> ELSE <<>>

MachineReads(m, p) ==
  LET conf == Configurations(m, p)
      reads[k \in 0 .. m.no_states] ==
        IF k = 0 THEN <<>> ELSE reads[k - 1] \o ReadsOfStep(m, conf[k - 1])
  IN  reads[m.no_states]

(* The extractions of the program on packet p, in order.                   *)
ReadsFrom(reads, n, phv, ptr, p) ==
  LET node == Program[n]
      f    == FieldNo(node.attr)
      after == ptr + AttrSize[node.attr]
  IN  CASE node.kind = "exit" -> <<>>
        [] node.kind = "extract" /\ ~Kept(node.attr) -> reads[<<node.next, phv, after>>]
        [] node.kind = "extract" /\ Kept(node.attr) ->
             <<<<f, ptr>>>>
             \o reads[<<node.next, [phv EXCEPT ![f] = Slice(p, ptr, AttrSize[node.attr])], after>>]
        [] node.kind = "if" ->
             reads[<<IF Matches(phv[f], node) THEN node.next_true ELSE node.next_false, phv, ptr>>]

AllReads(p) ==
  LET reads[a \in Nodes(Program) \X [Fields -> Word] \X Nat] ==
        ReadsFrom(reads, a[1], a[2], a[3], p)
  IN  reads

ProgramReads(p) == AllReads(p)[<<1, InitialPhv, 0>>]
=============================================================================
