---------------------------- MODULE DropAndStitch ----------------------------
(***************************************************************************)
(* drop_and_stitch.py (src/backend): the headers the synthesis has left    *)
(* out are put back into the restored states, by the paths of the graph.   *)
(*                                                                         *)
(* The graph is one of module ControlFlowGraph, P4 states are those of     *)
(* module FieldRestorer; ACCEPT and REJECT are the numbers Final and       *)
(* Final + 1, which no state reaches, and new states take the next number. *)
(* A condition is [eq, ne]: the sequence of the constants an attribute     *)
(* equals and the set of those it differs from.                            *)
(***************************************************************************)
EXTENDS Integers, SequencesExt

CONSTANTS
  Compared,      \* the compared attributes
  OldConstant,   \* of every attribute, the source constants by the new ones
  FullMask,      \* the mask of an exact match
  Final          \* the number of ACCEPT

IsConditionValid(c) == Len(c.eq) = 0 \/ (Len(c.eq) = 1 /\ c.eq[1] \notin c.ne)

NoCondition == [eq |-> <<>>, ne |-> {}]

(* enumerate_paths: a branch is walked if its condition can hold; a field  *)
(* that equals two constants, be they the same, cannot.                    *)
RECURSIVE Walked(_, _, _, _)
Walked(g, n, fields, conditions) ==
  LET node == g[n]
      old  == IF node.attr \in DOMAIN conditions THEN conditions[node.attr] ELSE NoCondition
      Branch(c, next) ==
        IF IsConditionValid(c) THEN Walked(g, next, fields, (node.attr :> c) @@ conditions)
        ELSE <<>>
  IN  CASE node.kind = "exit"    -> <<[fields |-> fields, conditions |-> conditions]>>
        [] node.kind = "extract" -> Walked(g, node.next, Append(fields, node.attr), conditions)
        [] node.kind = "if"      ->
             Branch([old EXCEPT !.eq = Append(@, node.value)], node.next_true)
               \o Branch([old EXCEPT !.ne = @ \cup {node.value}], node.next_false)

EnumeratePaths(g) == Walked(g, 1, <<>>, <<>>)

(* A path takes a transition: the condition is that of a constant or of    *)
(* the default, which excludes all of them.                                *)
IsValidForAPacket(path, a, c) ==
  a \in DOMAIN path.conditions =>
    LET p == path.conditions[a]
    IN  IF c.eq # <<>> THEN IF p.eq # <<>> THEN p.eq = c.eq ELSE c.eq[1] \notin p.ne
        ELSE p.eq # <<>> => p.eq[1] \notin c.ne

(* The fields a path extracts after a. *)
After(path, a) ==
  LET i == SelectInSeq(path.fields, LAMBDA f : f = a)
  IN  IF i = 0 THEN <<>> ELSE SubSeq(path.fields, i + 1, Len(path.fields))

NotComparedBetweenExtracts(path, a) ==
  LET i == SelectInSeq(After(path, a), LAMBDA f : f \in Compared)
  IN  IF i = 0 THEN After(path, a) ELSE SubSeq(After(path, a), 1, i - 1)

FilterPaths(paths, a) ==
  SelectSeq(paths, LAMBDA p : \E f \in ToSet(After(p, a)) : f \notin Compared)

(* The constants a is compared with on the paths. *)
DispatchConstants(paths, a) ==
  UNION {ToSet(p.conditions[a].eq) \cup p.conditions[a].ne :
           p \in {q \in ToSet(paths) : a \in DOMAIN q.conditions}}

(* The order of the constants, which are words, as numbers. *)
Below(v, w) ==
  \E b \in DOMAIN FullMask : /\ v[b] < w[b]
                            /\ \A c \in DOMAIN FullMask : c > b => v[c] = w[c]

(* Where a state goes on a source constant: by its entry, or by default. *)
Target(state, constant) ==
  LET hits == {i \in DOMAIN state.transitions : state.transitions[i].value = constant}
  IN  IF hits = {} THEN state.default ELSE state.transitions[Max(hits)].next

NewState(a, next) == [field_used |-> a, is_extraction |-> FALSE, transitions |-> <<>>, default |-> next]

Added(states, state) == (Cardinality(DOMAIN states) :> state) @@ states

(* add_not_compared_onto_transition *)
OntoTransition(done, attrs) ==
  FoldRight(LAMBDA a, d : [states |-> Added(d.states, NewState(a, d.target)),
                           target |-> Cardinality(DOMAIN d.states)],
            attrs, done)

(* A state that several branches reach is shared although they have        *)
(* different headers to put back.                                          *)
Replica_Shared(states, next) == [states |-> states, target |-> next]

(* replicate: process will fill in the transitions. *)
Replica(states, next) ==
  [states |-> Added(states, NewState(states[next].field_used, Final)),
   target |-> Cardinality(DOMAIN states)]

RECURSIVE Process(_, _, _, _)
Process(states, no, replica, allPaths) ==
  LET a         == states[no].field_used
      paths     == FilterPaths(allPaths, a)
      constants == SetToSortSeq(DispatchConstants(paths, a), Below)
      Stitched(done, condition) ==
        LET next    == IF condition.eq = <<>> THEN states[no].default
                       ELSE Target(states[no], OldConstant[a][condition.eq[1]])
            here    == SelectSeq(paths, LAMBDA p : IsValidForAPacket(p, a, condition))
            chain   == IF here = <<>> THEN <<>> ELSE NotComparedBetweenExtracts(here[1], a)
            forward == IF next >= Final THEN <<>> ELSE FilterPaths(here, states[next].field_used)
            copy    == Replica(done.states, next)
            reached == IF forward = <<>> THEN [states |-> done.states, target |-> next]
                       ELSE [copy EXCEPT !.states = Process(@, next, copy.target, forward)]
            spliced == OntoTransition(reached, chain)
        IN  [states |-> spliced.states, targets |-> Append(done.targets, spliced.target)]
      conditions == [i \in DOMAIN constants |-> [eq |-> <<constants[i]>>, ne |-> {}]]
                      \o <<[eq |-> <<>>, ne |-> ToSet(constants)]>>
      done == FoldLeft(Stitched, [states |-> states, targets |-> <<>>], conditions)
  IN  [done.states EXCEPT
         ![replica].transitions = [i \in DOMAIN constants |->
            [mask |-> FullMask, value |-> OldConstant[a][constants[i]], next |-> done.targets[i]]],
         ![replica].default = done.targets[Len(conditions)]]

StitchBack(states, g) == Process(states, 0, 0, EnumeratePaths(g))

(* build_straight_line_states: one state for every extraction.             *)
RECURSIVE StraightLine(_, _, _)
StraightLine(g, n, states) ==
  LET no == Cardinality(DOMAIN states)
  IN  IF g[n].kind = "extract"
      THEN LET next == IF g[g[n].next].kind = "extract" THEN no + 1
                       ELSE IF g[g[n].next].accept THEN Final ELSE Final + 1
           IN  StraightLine(g, g[n].next, Added(states, NewState(g[n].attr, next)))
      ELSE states
=============================================================================
