---------------------------- MODULE SourceMeaning ----------------------------
(***************************************************************************)
(* The meaning of a program, against which its translations are checked.   *)
(***************************************************************************)
EXTENDS FieldMinimiser, Analyser

(* Bitwise and of two numbers. *)
BitAnd[v \in Nat, w \in Nat] ==
  IF v = 0 \/ w = 0 THEN 0 ELSE 2 * BitAnd[v \div 2, w \div 2] + (v % 2) * (w % 2)

Masked(v, mask) == IF mask = NoMask THEN v ELSE BitAnd[v, mask]

Holds(t, v) ==
  CASE t.rel = "==" -> Masked(v, t.mask) = t.value
    [] t.rel = "!=" -> Masked(v, t.mask) # t.value
    [] t.rel = "&"  -> BitAnd[v, t.value] # 0

(* What a program means: with given values of its compared fields, what it *)
(* extracts, in order, and its verdict ("none" if it runs off its end).    *)
Reads(x)    == [reads |-> <<x>>, verdict |-> "none"]
Returns(v)  == [reads |-> <<>>, verdict |-> v]
DoesNothing == [reads |-> <<>>, verdict |-> "none"]

InOrder(first, second) ==
  IF first.verdict # "none" THEN first
  ELSE [reads |-> first.reads \o second.reads, verdict |-> second.verdict]

AllInOrder(results) ==
  LET done[k \in 0 .. Len(results)] ==
        IF k = 0 THEN DoesNothing ELSE InOrder(done[k - 1], results[k])
  IN  done[Len(results)]

Meaning(val) ==
  LET does[x \in Statement] ==
        CASE x.op = "extract"       -> Reads(x.member)
          [] x.op = "extract_field" -> Reads(x.attr)
          [] x.op = "return"        -> Returns(x.verdict)
          [] x.op = "if"            -> does[IF Holds(x.test, val[x.test.attr]) THEN x.then ELSE x.else]
          [] x.op = "block"         -> AllInOrder([k \in DOMAIN x.body |-> does[x.body[k]]])
          [] OTHER                  -> DoesNothing
  IN  does

Does(s, val) == Meaning(val)[s]

(* The values its compared fields can have.                                *)
ComparedAttrs(i) == {a \in DOMAIN i.kind : IsCompared(i, a)}

Values(i) ==
  LET widest == Max({i.old_size[a] : a \in ComparedAttrs(i)} \cup {0})
  IN  {val \in [ComparedAttrs(i) -> 0 .. Pow2[widest] - 1] :
         \A a \in ComparedAttrs(i) : val[a] < Pow2[i.old_size[a]]}
=============================================================================
