----------------------------- MODULE IRGenerator -----------------------------
(***************************************************************************)
(* The .pc program IRGen prints (src/frontend/ir_generator.py), as the C   *)
(* parser reads it back.                                                   *)
(***************************************************************************)
EXTENDS Analyser

(* The constants of the source are printed. *)
NewTest_OldConstant(info, t) == t

(* Tests have the constants of Info; masked ones never change. *)
NewTest(info, t) ==
  IF t.mask = NoMask THEN [t EXCEPT !.value = info.new_constant[t.attr][@]] ELSE t

(* One statement per field the member still has. *)
Extractions(info, member) ==
  [i \in DOMAIN info.contents[member] |->
     LET a == <<member, info.contents[member][i]>>
     IN  [op |-> "extract_field", attr |-> a, size |-> info.new_size[a]]]

(* What the parser cannot read: an else after two statements. *)
SyntaxError == [op |-> "error"]

(* An extraction is printed without braces.  So a statement becomes a      *)
(* sequence of statements, of which an if without braces guards only the   *)
(* first; the others follow the if, unless an else follows them.           *)
Branching(test, then, else) ==
  IF else # <<NoElse>> /\ Len(then) > 1 THEN <<SyntaxError>>
  ELSE <<[op |-> "if", test |-> test, then |-> Head(then), else |-> Head(else)]>>
         \o Tail(IF else = <<NoElse>> THEN then ELSE else)

IRGen(info) ==
  LET emitted[x \in Statement] ==
        CASE x.op = "extract" -> Extractions(info, x.member)
          [] x.op = "block"   -> <<Block(FlattenSeq([i \in DOMAIN x.body |-> emitted[x.body[i]]]))>>
          [] x.op = "if"      -> Branching(NewTest(info, x.test), emitted[x.then], emitted[x.else])
          [] OTHER            -> <<x>>
  IN  emitted

Emitted(info, s) == IRGen(info)[s]

(* The function's body is a block. *)
PcProgram(info, prog) == Head(Emitted(info, Body(prog)))
=============================================================================
