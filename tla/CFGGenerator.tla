---------------------------- MODULE CFGGenerator ----------------------------
(***************************************************************************)
(* CFGGenerator (src/spec/cfg_builder.py): from the .pc syntax tree to the *)
(* control-flow graph, whose nodes have the form of module                 *)
(* ControlFlowGraph; a pointer that is not set is 0.  Visiting a statement *)
(* gives the nodes it creates, numbered in that order, its first node and  *)
(* its open ends: pointers <<node, name>> to be set to what follows.       *)
(***************************************************************************)
EXTENDS Analyser

Unset == 0

Pointers == {"next", "next_true", "next_false"}

ExtractNode(attr) == [kind |-> "extract", attr |-> attr, next |-> Unset]

ExitNode(verdict) == [kind |-> "exit", accept |-> verdict = "ACCEPT"]

IfThenElseNode(test, next_true, next_false) ==
  [kind |-> "if", attr |-> test.attr, value |-> test.value, mask |-> test.mask,
   next_true |-> next_true, next_false |-> next_false]

(* setattr for every open end of a list. *)
Patch(nodes, ends, target) ==
  [n \in DOMAIN nodes |->
     [x \in DOMAIN nodes[n] |-> IF <<n, x>> \in ends THEN target ELSE nodes[n][x]]]

(* A statement's nodes with the numbers they have when k others exist.     *)
Behind(k, nodes) ==
  [n \in DOMAIN nodes |->
     [x \in DOMAIN nodes[n] |-> IF x \in Pointers THEN nodes[n][x] + k ELSE nodes[n][x]]]

EndsBehind(k, ends) == {<<e[1] + k, e[2]>> : e \in ends}

Nothing == [nodes |-> <<>>, start |-> Unset, ends |-> {}]

(* A leaf: one node, whose open ends are the given pointers. *)
Created(node, pointers) ==
  [nodes |-> <<node>>, start |-> 1, ends |-> {<<1, x>> : x \in pointers}]

(* A branch that is missing leaves its pointer open. *)
BranchEnds(start, ends, n, pointer) == IF start = Unset THEN {<<n, pointer>>} ELSE ends

(* The new if node over its two branches; "!=" exchanges them.             *)
Joined(test, first, second) ==
  LET k      == Len(first.nodes)
      n      == k + Len(second.nodes) + 1
      behind == [start |-> IF second.start = Unset THEN Unset ELSE second.start + k,
                 ends  |-> EndsBehind(k, second.ends)]
      t      == IF test.rel = "!=" THEN behind ELSE [start |-> first.start, ends |-> first.ends]
      e      == IF test.rel = "!=" THEN [start |-> first.start, ends |-> first.ends] ELSE behind
  IN  IF first.start = Unset /\ second.start = Unset THEN Nothing
      ELSE [nodes |-> first.nodes \o Behind(k, second.nodes) \o <<IfThenElseNode(test, t.start, e.start)>>,
            start |-> n,
            ends  |-> BranchEnds(t.start, t.ends, n, "next_true")
                        \cup BranchEnds(e.start, e.ends, n, "next_false")]

(* The open ends of a statement lead to the next one; those of the block   *)
(* are the ends of its last statement, even behind a return.               *)
Chained(first, second) ==
  LET k == Len(first.nodes)
  IN  CASE second.start = Unset -> first
        [] second.start # Unset /\ first.start = Unset -> second
        [] OTHER -> [nodes |-> Patch(first.nodes, first.ends, second.start + k)
                                 \o Behind(k, second.nodes),
                     start |-> first.start,
                     ends  |-> EndsBehind(k, second.ends)]

AllChained(results) ==
  LET chained[i \in 0 .. Len(results)] ==
        IF i = 0 THEN Nothing ELSE Chained(chained[i - 1], results[i])
  IN  chained[Len(results)]

Build[s \in Statement] ==
  CASE s.op = "extract_field" -> Created(ExtractNode(s.attr), {"next"})
    [] s.op = "return"        -> Created(ExitNode(s.verdict), {})
    [] s.op = "if"            -> Joined(s.test, Build[s.then], Build[s.else])
    [] s.op = "block"         -> AllChained([i \in DOMAIN s.body |-> Build[s.body[i]]])
    [] OTHER                  -> Nothing

(* What the visitors refuse: a file the C parser cannot read, an attribute *)
(* the Info of this run does not know, or knows with another width.        *)
Readable(info, s) ==
  \A x \in Parts[s] :
    CASE x.op = "extract_field" -> x.attr \in DOMAIN info.new_size /\ x.size = info.new_size[x.attr]
      [] x.op = "if"            -> x.test.attr \in DOMAIN info.new_size
      [] OTHER                  -> x.op \in {"block", "return", "none"}

(* visit_FuncDef: no end may be left open. *)
Generates(info, file) == Readable(info, file) /\ Build[file].ends = {}

Graph(file) == [nodes |-> Build[file].nodes, start |-> Build[file].start]
=============================================================================
