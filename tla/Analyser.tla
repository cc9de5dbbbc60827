------------------------------ MODULE Analyser ------------------------------
(***************************************************************************)
(* A .parser program, the checks of Collector and the information          *)
(* collect_info gathers (src/frontend/analyser.py).                        *)
(***************************************************************************)
EXTENDS Info, Syntax

(* Structs with their fields, phv declarations with their members, and     *)
(* functions, whose bodies are blocks.                                     *)
ParserPrograms ==
  {prog \in [structs   : Seq([name : STRING, fields : Seq([name : STRING, bits : Int])]),
             phvs      : Seq(Seq([name : STRING, type : STRING])),
             functions : Seq([name : STRING, body : Statement])] :
     \A f \in ToSet(prog.functions) : f.body.op = "block"}

Verdicts == {"ACCEPT", "REJECT"}

Names(decls) == {decls[i].name : i \in DOMAIN decls}

NoDuplicates(decls) == Cardinality(Names(decls)) = Len(decls)

Members(prog) == prog.phvs[1]

Body(prog) == prog.functions[1].body

(* The fields of a member: those of its struct. *)
FieldsOf(prog, member) ==
  LET type == (CHOOSE m \in ToSet(Members(prog)) : m.name = member).type
  IN  (CHOOSE s \in ToSet(prog.structs) : s.name = type).fields

-----------------------------------------------------------------------------
(* What the Collector accepts.                                             *)

(* visit_FileAST, declare_struct and declare_phv.  Fields of a struct are  *)
(* not compared with each other.                                           *)
WellDeclared(prog) ==
  /\ Len(prog.phvs) = 1
  /\ Len(prog.functions) = 1
  /\ NoDuplicates(prog.structs)
  /\ \A s \in ToSet(prog.structs) :
       s.fields # <<>> /\ \A f \in ToSet(s.fields) : f.bits > 0
  /\ Members(prog) # <<>>
  /\ NoDuplicates(Members(prog))
  /\ \A m \in ToSet(Members(prog)) : m.type \in Names(prog.structs)

(* A masked field must be compared; a field by itself may also be the left *)
(* side of a lone "&", which is taken for an exact comparison.             *)
WellFormedTest(prog, t) ==
  /\ t.attr[1] \in Names(Members(prog))
  /\ t.attr[2] \in Names(FieldsOf(prog, t.attr[1]))
  /\ t.value >= 0
  /\ t.mask >= NoMask
  /\ t.rel \in {"==", "!=", "&"}
  /\ t.rel = "&" => t.mask = NoMask

(* Blocks hold no blocks and are not empty; any statement may be the       *)
(* unbraced branch of an if.                                               *)
Visitable(prog, s) ==
  \A x \in Parts[s] :
    CASE x.op = "extract" -> x.member \in Names(Members(prog))
      [] x.op = "return"  -> x.verdict \in Verdicts
      [] x.op = "block"   -> /\ x.body # <<>>
                             /\ \A y \in Children(x) : y.op \in {"if", "extract", "return"}
      [] x.op = "if"      -> WellFormedTest(prog, x.test) /\ x.then # NoElse
      [] OTHER            -> x = NoElse

Collectable(prog) ==
  WellDeclared(prog) /\ prog.functions[1].name = "parse" /\ Visitable(prog, Body(prog))

-----------------------------------------------------------------------------
(* What it collects: field_info, and Info as collect_info returns it.      *)

Tests(s) == {x.test : x \in {y \in Parts[s] : y.op = "if"}}

FieldNames(prog, member) == [i \in DOMAIN FieldsOf(prog, member) |-> FieldsOf(prog, member)[i].name]

Attributes(prog) ==
  UNION {ToSet(AttrsOf(m, FieldNames(prog, m))) : m \in Names(Members(prog))}

Width(prog, a) == (CHOOSE f \in ToSet(FieldsOf(prog, a[1])) : f.name = a[2]).bits

Kind(prog, a) ==
  LET masks == {t.mask : t \in {u \in Tests(Body(prog)) : u.attr = a}}
  IN  IF masks = {} THEN "NotCompared" ELSE IF masks = {NoMask} THEN "Exact" ELSE "Ternary"

ExactConstants(prog, a) ==
  {t.value : t \in {u \in Tests(Body(prog)) : u.attr = a /\ u.mask = NoMask}}

(* Info before any modifier.  new_constant maps the constants of exact     *)
(* comparisons (old_constants to new_constants); masked ones never change. *)
CollectInfo(prog) ==
  [members      |-> [i \in DOMAIN Members(prog) |-> Members(prog)[i].name],
   fields       |-> [m \in Names(Members(prog)) |-> FieldNames(prog, m)],
   contents     |-> [m \in Names(Members(prog)) |-> FieldNames(prog, m)],
   kind         |-> [a \in Attributes(prog) |-> Kind(prog, a)],
   old_size     |-> [a \in Attributes(prog) |-> Width(prog, a)],
   new_size     |-> [a \in Attributes(prog) |-> Width(prog, a)],
   new_constant |-> [a \in Attributes(prog) |-> [c \in ExactConstants(prog, a) |-> c]]]
=============================================================================
