---------------------------- MODULE RestoredTable ----------------------------
(***************************************************************************)
(* What table_to_states (src/backend/field_restorer.py) makes of the       *)
(* entries of a machine's table: those it keeps, with the constants of the *)
(* source program.                                                         *)
(***************************************************************************)
EXTENDS StateMachine

CONSTANT OldConstant   \* of every field, the source constants by the synthesised ones

(* get_old_constant takes different constants of a field to different ones. *)
ASSUME RestoredTableAssumption ==
  /\ DOMAIN OldConstant = Fields
  /\ \A f \in Fields : \A v, w \in DOMAIN OldConstant[f] :
       v # w => \E b \in 0 .. MaxFieldSize - 1 : OldConstant[f][v][b] # OldConstant[f][w][b]

(* old_size bits of the word: fields that are matched by masks keep their  *)
(* width.                                                                  *)
OldBits(word, f) == [b \in DOMAIN word |-> IF b < FieldSize[f] THEN word[b] ELSE 0]

(* Entries of other states are not left out. *)
Restorable_AnyState(m, v) ==
  {i \in DOMAIN m.entries :
     TernaryMatch \/ m.entries[i].value \in DOMAIN OldConstant[m.default_field[v]]}

(* The entries that are restored: all of a ternary table; in an exact one, *)
(* not those whose value get_old_constant does not know.                   *)
Restorable(m, v) ==
  {i \in DOMAIN m.entries :
     /\ m.entries[i].state = v
     /\ TernaryMatch \/ m.entries[i].value \in DOMAIN OldConstant[m.default_field[v]]}

Restored(f, e) ==
  IF TernaryMatch
  THEN [mask |-> OldBits(e.mask, f), value |-> OldBits(e.value, f), next |-> e.next]
  ELSE [mask |-> FullMask, value |-> OldConstant[f][e.value], next |-> e.next]
=============================================================================
