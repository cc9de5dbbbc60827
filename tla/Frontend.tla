------------------------------ MODULE Frontend ------------------------------
(***************************************************************************)
(* What the frontend promises of the graphs it hands on.                   *)
(***************************************************************************)
EXTENDS CompileToPc, SourceMeaning

-----------------------------------------------------------------------------
(* What Does says of a program, said of a graph from one of its nodes: it  *)
(* extracts attributes, and tests new constants.  No path is longer than   *)
(* there are nodes.                                                        *)
Paths(nodes, val) ==
  LET walk[k \in 0 .. Len(nodes)] ==
        [n \in DOMAIN nodes |->
           CASE k = 0 -> DoesNothing
             [] k # 0 /\ nodes[n].kind = "exit" ->
                  Returns(IF nodes[n].accept THEN "ACCEPT" ELSE "REJECT")
             [] k # 0 /\ nodes[n].kind = "extract" ->
                  InOrder(Reads(nodes[n].attr), walk[k - 1][nodes[n].next])
             [] k # 0 /\ nodes[n].kind = "if" ->
                  walk[k - 1][IF Masked(val[nodes[n].attr], nodes[n].mask) = nodes[n].value
                              THEN nodes[n].next_true ELSE nodes[n].next_false]]
  IN  walk

Walk(nodes, start, val) == Paths(nodes, val)[Len(nodes)][start]

(* The values that stand for value v of attribute a in the .pc program:    *)
(* its new constant, or any that is no constant.                           *)
Representatives(i, a, v) ==
  CASE i.kind[a] = "Ternary" -> {v}
    [] i.kind[a] = "Exact" /\ v \in DOMAIN i.new_constant[a] -> {i.new_constant[a][v]}
    [] i.kind[a] = "Exact" /\ v \notin DOMAIN i.new_constant[a] ->
         (0 .. Pow2[i.new_size[a]] - 1) \ {i.new_constant[a][c] : c \in DOMAIN i.new_constant[a]}

(* Two constructs the Collector lets through mean something else in the    *)
(* .pc program: the unbraced extraction of several fields as a branch, of  *)
(* which only the first is guarded, and a lone "&" as a condition.         *)
Regular(i, s) ==
  \A x \in Parts[s] : x.op = "if" =>
    /\ x.test.rel # "&"
    /\ Len(Emitted(i, x.then)) = 1
    /\ Len(Emitted(i, x.else)) = 1

Undisturbed(c, s) == stage[c] = s /\ ~disturbed[c] /\ Regular(info[c], Body(source[c]))

(* The fields that the extractions of members became. *)
Expanded(i, does) ==
  [does EXCEPT !.reads = FlattenSeq([k \in DOMAIN @ |-> AttrsOf(@[k], i.contents[@[k]])])]

(* The graph that a compilation builds extracts and returns what its       *)
(* source does, whatever the fields hold: branches, renumbered constants   *)
(* and dropped fields keep its meaning, and the .pc file it reads back is  *)
(* its own unless another compilation wrote to it in between.              *)
MeansSource ==
  \A c \in Compilations : Undisturbed(c, "built") =>
    \A val \in Values(info[c]) :
      \A w \in {f \in [DOMAIN val -> UNION {Representatives(info[c], a, val[a]) : a \in DOMAIN val}] :
                  \A a \in DOMAIN val : f[a] \in Representatives(info[c], a, val[a])} :
        Walk(graph[c].nodes, graph[c].start, w) = Expanded(info[c], Does(Body(source[c]), val))

(* Control may reach the end of a statement; if it cannot, what follows    *)
(* the statement in its block is dead.                                     *)
FallsThrough[s \in Statement] ==
  /\ s.op # "return"
  /\ s.op = "if" => FallsThrough[s.then] \/ FallsThrough[s.else]
  /\ s.op = "block" => \A x \in Children(s) : FallsThrough[x]

HasDeadCode(s) ==
  \E x \in Parts[s] : x.op = "block" /\ \E k \in 1 .. Len(x.body) - 1 : ~FallsThrough[x.body[k]]

(* A program without dead code that the Collector has accepted is refused  *)
(* after that exactly if some path does not return: nothing the stages     *)
(* hand on (sizes, names, constants, the file) makes a later one fail.     *)
FailsOnlyWithoutReturn ==
  \A c \in Compilations : ~HasDeadCode(Body(source[c])) =>
    /\ Undisturbed(c, "failed") => FallsThrough[Body(source[c])]
    /\ Undisturbed(c, "built") => ~FallsThrough[Body(source[c])]

(* What the graph extracts has a number, and what it tests is numbered as  *)
(* a compared field: drop_unused_members and the emitted statements agree. *)
EveryFieldNumbered ==
  \A c \in Compilations : stage[c] = "built" /\ ~disturbed[c] =>
    \A node \in ToSet(graph[c].nodes) :
      /\ node.kind = "extract" => node.attr \in ToSet(AllFields(info[c]))
      /\ node.kind = "if" => node.attr \in ToSet(ComparedFields(info[c]))
=============================================================================
