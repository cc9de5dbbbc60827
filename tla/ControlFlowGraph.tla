-------------------------- MODULE ControlFlowGraph --------------------------
(***************************************************************************)
(* The control-flow graph of a .pc program (src/spec/cfg_builder.py), the  *)
(* walk that validates it (get_max_packet_size) and the walk that turns it *)
(* into a specification (make_spec).                                       *)
(*                                                                         *)
(* A graph is a sequence of nodes, the first of which follows the entry    *)
(* node; edges go to later nodes, since the language has no loops.  Nodes: *)
(*   [kind |-> "exit", accept]                                             *)
(*   [kind |-> "extract", attr, next]                                      *)
(*   [kind |-> "if", attr, value, mask, next_true, next_false]             *)
(* value and mask are words, as Z3 coerces the constants of a comparison.  *)
(*                                                                         *)
(* Attributes are numbered as in all_field_nos.  With DropUncompared the   *)
(* synthesiser's fields are the compared attributes only, renumbered as in *)
(* compared_field_nos.                                                     *)
(***************************************************************************)
EXTENDS StateMachine

CONSTANTS
  AttrSize,        \* width of every attribute (get_new_size)
  Compared,        \* the attributes some condition compares
  DropUncompared   \* the flag --drop_uncompared

Attrs == DOMAIN AttrSize

Nodes(g) == DOMAIN g

Kept(a) == DropUncompared => a \in Compared

(* get_no_from_attr_compared / get_no_from_attr_all *)
FieldNo(a) == IF DropUncompared THEN Cardinality({b \in Compared : b < a}) ELSE a

ASSUME GraphAssumption ==
  /\ IsFiniteSet(Attrs)
  /\ AttrSize \in [Attrs -> Nat]
  /\ Attrs = 0 .. Cardinality(Attrs) - 1
  /\ Compared \subseteq Attrs
  /\ NoFields = Cardinality({a \in Attrs : Kept(a)})
  /\ \A a \in Attrs : Kept(a) => FieldSize[FieldNo(a)] = AttrSize[a]

(* Edges go to later nodes, every condition is about a compared attribute. *)
WellFormed(g) ==
  /\ Len(g) \in Nat \ {0}
  /\ DOMAIN g = 1 .. Len(g)
  /\ \A n \in 1 .. Len(g) :
       \/ g[n].kind = "exit" /\ g[n].accept \in BOOLEAN
       \/ g[n].kind = "extract" /\ g[n].attr \in Attrs /\ g[n].next \in n + 1 .. Len(g)
       \/ /\ g[n].kind = "if"
          /\ g[n].attr \in Compared
          /\ {g[n].next_true, g[n].next_false} \subseteq n + 1 .. Len(g)

-----------------------------------------------------------------------------
(* Validation.  get_spec always calls get_max_packet_size with             *)
(* drop_uncompared = False.  `marked` is the list fields_extracted, shared *)
(* by the whole walk, so the walk returns it as it leaves it, along with   *)
(* the longest pointer; raised says that a CompilationError ended it.      *)

(* The mark of an extraction stays when the walk backtracks over it. *)
Unmark_Forgotten(marked, a) == marked

Unmark(marked, a) == marked \ {a}

(* The method of node n; `walk` is what it does from the later nodes.      *)
SizeAt(g, walk, n, ptr, marked) ==
  LET node == g[n]
      Raise == [size |-> ptr, marked |-> marked, raised |-> TRUE]
  IN  CASE node.kind = "exit" -> [size |-> ptr, marked |-> marked, raised |-> FALSE]
        [] node.kind = "extract" /\ node.attr \in marked -> Raise
        [] node.kind = "extract" /\ node.attr \notin marked ->
             LET rest == walk[<<node.next, ptr + AttrSize[node.attr],
                                marked \cup {node.attr}>>]
             IN  [rest EXCEPT !.marked = Unmark(@, node.attr)]
        [] node.kind = "if" /\ node.attr \notin marked -> Raise
        [] node.kind = "if" /\ node.attr \in marked ->
             LET t == walk[<<node.next_true, ptr, marked>>]
                 e == walk[<<node.next_false, ptr, t.marked>>]
             IN  IF t.raised THEN t ELSE [e EXCEPT !.size = Max({t.size, @})]

SizeWalk(g) ==
  LET walk[a \in Nodes(g) \X Nat \X SUBSET Attrs] == SizeAt(g, walk, a[1], a[2], a[3])
  IN  walk

GetMaxPacketSize(g, n, ptr, marked) == SizeWalk(g)[<<n, ptr, marked>>]

-----------------------------------------------------------------------------
(* make_spec on a concrete packet.  Both branches of an "if" are always    *)
(* walked.  cur is the list cur_phv: one mutable list, shared by the whole *)
(* walk and by successive walks, so the walk returns the list it leaves    *)
(* behind along with the PHV and the verdict.  The condition is read from  *)
(* the list as the two branches left it; an extraction overwrites the      *)
(* entry of its field in the PHV its successor returned.                   *)

(* A dropped extraction takes no room in the packet. *)
SkipUncompared_InPlace(ptr, a) == ptr

(* A dropped extraction still consumes its bits. *)
SkipUncompared(ptr, a) == ptr + AttrSize[a]

(* The method of node n; `walk` is what it does from the later nodes.      *)
SpecAt(g, walk, n, cur, ptr, packet) ==
  LET node == g[n]
  IN  CASE node.kind = "exit" ->
             [cur |-> cur, phv |-> InitialPhv, accept |-> node.accept]
        [] node.kind = "extract" /\ ~Kept(node.attr) ->
             walk[<<node.next, cur, SkipUncompared(ptr, node.attr)>>]
        [] node.kind = "extract" /\ Kept(node.attr) ->
             LET word == Slice(packet, ptr, AttrSize[node.attr])
                 f    == FieldNo(node.attr)
                 rest == walk[<<node.next, [cur EXCEPT ![f] = word],
                                ptr + AttrSize[node.attr]>>]
             IN  [rest EXCEPT !.phv[f] = word]
        [] node.kind = "if" ->
             LET t == walk[<<node.next_true, cur, ptr>>]
                 e == walk[<<node.next_false, t.cur, ptr>>]
                 taken == IF Matches(e.cur[FieldNo(node.attr)], node) THEN t ELSE e
             IN  [taken EXCEPT !.cur = e.cur]

SpecWalk(g, packet) ==
  LET walk[a \in Nodes(g) \X [Fields -> Word] \X Nat] ==
        SpecAt(g, walk, a[1], a[2], a[3], packet)
  IN  walk

MakeSpec(g, n, cur, ptr, packet) == SpecWalk(g, packet)[<<n, cur, ptr>>]

-----------------------------------------------------------------------------
(* Reference meaning of a program: follow the one path the packet takes.   *)
(* A dropped attribute still consumes its bits.                            *)

FollowFrom(g, follow, n, phv, ptr, p) ==
  LET node == g[n]
  IN  CASE node.kind = "exit" -> [phv |-> phv, accept |-> node.accept]
        [] node.kind = "extract" ->
             LET word == Slice(p, ptr, AttrSize[node.attr])
             IN  follow[<<node.next,
                          IF Kept(node.attr)
                          THEN [phv EXCEPT ![FieldNo(node.attr)] = word] ELSE phv,
                          ptr + AttrSize[node.attr]>>]
        [] node.kind = "if" ->
             follow[<<IF Matches(phv[FieldNo(node.attr)], node)
                      THEN node.next_true ELSE node.next_false,
                      phv, ptr>>]

FollowAll(g, p) ==
  LET follow[a \in Nodes(g) \X [Fields -> Word] \X Nat] ==
        FollowFrom(g, follow, a[1], a[2], a[3], p)
  IN  follow

Follow(g, n, phv, ptr, p) == FollowAll(g, p)[<<n, phv, ptr>>]
=============================================================================
