-------------------------------- MODULE Syntax --------------------------------
(***************************************************************************)
(* The syntax trees of .parser and .pc programs, as pycparser hands them   *)
(* to the visitors of the frontend.  Statements:                           *)
(*   [op |-> "extract", member]         [op |-> "return", verdict]         *)
(*   [op |-> "extract_field", attr, size]                                  *)
(*   [op |-> "if", test, then, else]    [op |-> "block", body]             *)
(* An attribute is <<member, field>>: a .parser program extracts a member, *)
(* a .pc program a field of given size.  The else branch is NoElse where   *)
(* there is none.  A test is [rel, attr, mask, value]; its mask is NoMask  *)
(* in an exact comparison.  Files that are no program, and constructs the  *)
(* visitors know nothing of, are leaves without parts.                     *)
(***************************************************************************)
EXTENDS Integers, SequencesExt

CONSTANT MaxDepth   \* bound on the nesting of statements

ASSUME DepthAssumption == MaxDepth \in Nat

NoMask == -1

Attribute == STRING \X STRING

Condition == [rel : STRING, attr : Attribute, mask : Int, value : Int]

NoElse == [op |-> "none"]

Block(body) == [op |-> "block", body |-> body]

Leaf ==
  [op : {"extract"}, member : STRING]
    \cup [op : {"extract_field"}, attr : Attribute, size : Int]
    \cup [op : {"return"}, verdict : STRING]
    \cup [op : {"none", "other", "error", "empty", "garbled"}]

(* The statements that are nested to depth d at most. *)
Trees[d \in 0 .. MaxDepth] ==
  IF d = 0 THEN Leaf
  ELSE LET inner == Trees[d - 1]
       IN  Leaf \cup [op : {"block"}, body : Seq(inner)]
                \cup [op : {"if"}, test : Condition, then : inner, else : inner]

Statement == Trees[MaxDepth]

(* What generic_visit visits. *)
Children(s) ==
  CASE s.op = "block" -> ToSet(s.body)
    [] s.op = "if"    -> {s.then, s.else}
    [] OTHER          -> {}

(* A statement and all statements in it. *)
Parts[s \in Statement] == {s} \cup UNION {Parts[x] : x \in Children(s)}
=============================================================================
