--------------------------- MODULE FieldMinimiser ---------------------------
(***************************************************************************)
(* best_modifier (src/frontend/field_minimiser.py): fields become as       *)
(* narrow as their exact comparisons allow, their constants are renumbered *)
(* from 0, and the fields nobody compares are dropped from their members,  *)
(* but for one in a member without any compared field.                     *)
(***************************************************************************)
EXTENDS Info

(* The number of values of a field, by its width. *)
Pow2[n \in Nat] == IF n = 0 THEN 1 ELSE 2 * Pow2[n - 1]

(* One bit less: as many values as constants and one more. *)
ReducedSize_Tight(constants) == Min({n \in 0 .. constants + 1 : Pow2[n] >= constants + 1})

(* ceil(log2(constants + 1)) + 1 *)
ReducedSize(constants) == Min({n \in 0 .. constants + 1 : Pow2[n] >= constants + 1}) + 1

NewSize(info, a) ==
  CASE info.kind[a] = "Exact"       -> ReducedSize(Cardinality(DOMAIN info.new_constant[a]))
    [] info.kind[a] = "NotCompared" -> 1
    [] info.kind[a] = "Ternary"     -> info.old_size[a]

(* old_constants is list(set(..)): the numbers are given in any order.     *)
Renumberings(constants) ==
  {r \in [constants -> 0 .. Cardinality(constants) - 1] :
     \A c, d \in constants : r[c] = r[d] => c = d}

NewConstants(info, a) ==
  IF info.kind[a] = "Exact" THEN Renumberings(DOMAIN info.new_constant[a])
  ELSE {info.new_constant[a]}

(* Only the first field of a member is kept. *)
NewContents_First(info, m) == <<info.contents[m][1]>>

(* drop_unused_members *)
NewContents(info, m) ==
  LET compared == ComparedAmong(info, AttrsOf(m, info.fields[m]))
  IN  IF compared # <<>> THEN [i \in DOMAIN compared |-> compared[i][2]]
      ELSE <<info.contents[m][1]>>

Minimised(info) ==
  {[info EXCEPT !.new_size     = [a \in DOMAIN info.kind |-> NewSize(info, a)],
                !.new_constant = renumbering,
                !.contents     = [m \in DOMAIN info.fields |-> NewContents(info, m)]] :
     renumbering \in {r \in [DOMAIN info.kind -> UNION {NewConstants(info, a) : a \in DOMAIN info.kind}] :
                        \A a \in DOMAIN info.kind : r[a] \in NewConstants(info, a)}}
=============================================================================
