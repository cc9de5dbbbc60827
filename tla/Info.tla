-------------------------------- MODULE Info --------------------------------
(***************************************************************************)
(* Info (src/frontend/analyser.py): what collect_info gathers about the    *)
(* attributes of a program, and what the modifiers and generators make of  *)
(* it.  It maps                                                            *)
(*   - a member of the phv to all its fields and to those still in it,     *)
(*   - an attribute <<member, field>> to its kind, its old and new width,  *)
(*     and the map from the constants of its exact comparisons to the      *)
(*     numbers that stand for them in the .pc program.                     *)
(***************************************************************************)
EXTENDS Integers, SequencesExt

IsInfo(info) ==
  /\ DOMAIN info = {"members", "fields", "contents", "kind", "old_size", "new_size", "new_constant"}
  /\ DOMAIN info.new_constant = DOMAIN info.kind
  /\ \A a \in DOMAIN info.kind : IsFiniteSet(DOMAIN info.new_constant[a])

(* The attributes of a member, for the given names of fields. *)
AttrsOf(member, fields) == [i \in DOMAIN fields |-> <<member, fields[i]>>]

IsCompared(info, a) == info.kind[a] # "NotCompared"

(* A sequence of attributes without those that nobody compares. *)
ComparedAmong(info, attrs) ==
  FlattenSeq([i \in DOMAIN attrs |-> IF IsCompared(info, attrs[i]) THEN <<attrs[i]>> ELSE <<>>])

(* fill_field_nos: the attributes in the order of their numbers, all of    *)
(* them and the compared ones.                                             *)
AllFields(info) ==
  FlattenSeq([i \in DOMAIN info.members |->
                AttrsOf(info.members[i], info.contents[info.members[i]])])

ComparedFields(info) == ComparedAmong(info, AllFields(info))
=============================================================================
