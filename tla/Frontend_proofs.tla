--------------------------- MODULE Frontend_proofs ----------------------------
(***************************************************************************)
(* What the frontend promises of its graphs (module Frontend), proved of   *)
(* every program, nesting of statements, flag and numbering of constants:  *)
(*   - FieldsNumbered: fields and tests have numbers in Info;              *)
(*   - RefusedOnlyWithoutReturn: later stages refuse no program that the   *)
(*     Collector has accepted, unless some path does not return;           *)
(*   - GraphsMeanSource: a graph does what its source does.                *)
(***************************************************************************)
EXTENDS CompileToPc_proofs

-----------------------------------------------------------------------------
(* The attributes of the nodes are those of the statements.                *)
NumberedNode(i, v) ==
  /\ v["kind"] = "extract" => v["attr"] \in ToSet(AllFields(i))
  /\ v["kind"] = "if" => v["attr"] \in ToSet(ComparedFields(i))

(* All nodes of a result are numbered. *)
NumberedNodes(i, r) == \A n \in 1 .. Len(r.nodes) : NumberedNode(i, r.nodes[n])

(* What a node has besides its pointers. *)
LEMMA PlainKeys ==
  ASSUME NEW v \in Node
  PROVE  /\ "kind" \in DOMAIN v \ Pointers
         /\ v["kind"] \in {"extract", "exit", "if"}
         /\ v["kind"] = "extract" => "attr" \in DOMAIN v \ Pointers /\ "next" \in DOMAIN v
         /\ v["kind"] = "exit" => "accept" \in DOMAIN v \ Pointers
         /\ v["kind"] = "if" => /\ {"attr", "value", "mask"} \subseteq DOMAIN v \ Pointers
                                /\ {"next_true", "next_false"} \subseteq DOMAIN v
  <1>1. v["kind"] \in {"extract", "exit", "if"} /\ DOMAIN v = Keys(v["kind"])
    BY DEF Node
  <1> QED
    BY <1>1 DEF Keys, Pointers

(* This is said of everything but the pointers. *)
LEMMA NumberedSame ==
  ASSUME NEW i, NEW v \in Node, NumberedNode(i, v), NEW e, \A x \in DOMAIN v \ Pointers : e[x] = v[x]
  PROVE  NumberedNode(i, e)
  <1>1. e["kind"] = v["kind"]
    BY PlainKeys
  <1>2. v["kind"] \in {"extract", "if"} => e["attr"] = v["attr"]
    BY PlainKeys
  <1> QED
    BY <1>1, <1>2 DEF NumberedNode

(* Well-built results hold nodes. *)
LEMMA NodesOf ==
  ASSUME NEW r, WellBuilt(r), NEW n \in 1 .. Len(r.nodes)
  PROVE  r.nodes[n] \in Node
  BY Elements DEF WellBuilt

(* Chaining keeps nodes numbered. *)
LEMMA ChainNumbered ==
  ASSUME NEW i, NEW first, NEW second, NEW r, NEW k, k = Len(first.nodes), IsChain(r, first, second, k),
         WellBuilt(first), WellBuilt(second), NumberedNodes(i, first), NumberedNodes(i, second)
  PROVE  NumberedNodes(i, r)
  <1>1. k \in Nat /\ Len(second.nodes) \in Nat /\ Len(r.nodes) = k + Len(second.nodes)
    BY DEF WellBuilt, IsChain
  <1>2. PICK m : m = Len(second.nodes)
    OBVIOUS
  <1>3. ASSUME NEW n \in 1 .. k PROVE NumberedNode(i, r.nodes[n])
    <2>1. first.nodes[n] \in Node /\ NumberedNode(i, first.nodes[n])
      BY NodesOf DEF NumberedNodes
    <2>2. \A x \in DOMAIN first.nodes[n] \ Pointers : <<n, x>> \notin first.ends
      BY DEF WellBuilt
    <2>3. r.nodes[n] = [x \in DOMAIN first.nodes[n] |->
                          IF <<n, x>> \in first.ends THEN second.start + k ELSE first.nodes[n][x]]
      BY DEF IsChain
    <2>4. \A x \in DOMAIN first.nodes[n] \ Pointers : r.nodes[n][x] = first.nodes[n][x]
      BY <2>2, <2>3
    <2> QED
      BY <2>1, <2>4, NumberedSame
  <1>4. ASSUME NEW n \in 1 .. m PROVE NumberedNode(i, r.nodes[k + n])
    <2>1. second.nodes[n] \in Node /\ NumberedNode(i, second.nodes[n])
      BY <1>2, NodesOf DEF NumberedNodes
    <2>3. r.nodes[k + n] = [x \in DOMAIN second.nodes[n] |->
                              IF x \in Pointers THEN second.nodes[n][x] + k ELSE second.nodes[n][x]]
      BY <1>2 DEF IsChain
    <2>4. \A x \in DOMAIN second.nodes[n] \ Pointers : r.nodes[k + n][x] = second.nodes[n][x]
      BY <2>3
    <2> QED
      BY <2>1, <2>4, NumberedSame
  <1>5. ASSUME NEW n \in 1 .. Len(r.nodes) PROVE NumberedNode(i, r.nodes[n])
    <2>1. CASE n \in 1 .. k
      BY <1>3, <2>1
    <2>2. CASE n \notin 1 .. k
      <3>0. k \in Nat /\ m \in Nat /\ n \in 1 .. k + m
        BY <1>1, <1>2
      <3>1. n - k \in 1 .. m /\ k + (n - k) = n
        BY <2>2, <3>0, SecondPart
      <3>2. NumberedNode(i, r.nodes[k + (n - k)])
        BY <1>4, <3>1
      <3> QED
        BY <3>1, <3>2
    <2> QED
      BY <2>1, <2>2
  <1> QED
    BY <1>5 DEF NumberedNodes

(* So does joining, if the test is numbered. *)
LEMMA JoinNumbered ==
  ASSUME NEW i, NEW test \in Condition, NEW first, NEW second, NEW r, NEW k, NEW m, NEW t, NEW e,
         k = Len(first.nodes), m = Len(second.nodes), IsJoin(r, test, first, second, k, m, t, e),
         WellBuilt(first), WellBuilt(second), NumberedNodes(i, first), NumberedNodes(i, second),
         test.attr \in ToSet(ComparedFields(i))
  PROVE  NumberedNodes(i, r)
  <1>1. k \in Nat /\ m \in Nat /\ Len(r.nodes) = k + m + 1
    BY DEF WellBuilt, IsJoin
  <1>3. ASSUME NEW n \in 1 .. k PROVE NumberedNode(i, r.nodes[n])
    <2>1. NumberedNode(i, first.nodes[n])
      BY DEF NumberedNodes
    <2> QED
      BY <2>1 DEF IsJoin
  <1>4. ASSUME NEW n \in 1 .. m PROVE NumberedNode(i, r.nodes[k + n])
    <2>1. second.nodes[n] \in Node /\ NumberedNode(i, second.nodes[n])
      BY NodesOf DEF NumberedNodes
    <2>3. r.nodes[k + n] = [x \in DOMAIN second.nodes[n] |->
                              IF x \in Pointers THEN second.nodes[n][x] + k ELSE second.nodes[n][x]]
      BY DEF IsJoin
    <2>4. \A x \in DOMAIN second.nodes[n] \ Pointers : r.nodes[k + n][x] = second.nodes[n][x]
      BY <2>3
    <2> QED
      BY <2>1, <2>4, NumberedSame
  <1>5. NumberedNode(i, r.nodes[k + m + 1])
    <2>1. r.nodes[k + m + 1] = IfThenElseNode(test, t, e)
      BY DEF IsJoin
    <2>2. PICK v : v = IfThenElseNode(test, t, e)
      OBVIOUS
    <2>3. v["kind"] = "if" /\ v["attr"] = test.attr
      BY <2>2 DEF IfThenElseNode
    <2>4. NumberedNode(i, v)
      BY <2>3 DEF NumberedNode
    <2> QED
      BY <2>1, <2>2, <2>4
  <1>6. ASSUME NEW n \in 1 .. Len(r.nodes) PROVE NumberedNode(i, r.nodes[n])
    <2>1. CASE n \in 1 .. k
      BY <1>3, <2>1
    <2>2. CASE n \notin 1 .. k /\ n # k + m + 1
      <3>0. k \in Nat /\ m \in Nat /\ n \in 1 .. k + m
        BY <1>1, <2>2, MiddlePart
      <3>1. n - k \in 1 .. m /\ k + (n - k) = n
        BY <2>2, <3>0, SecondPart
      <3>2. NumberedNode(i, r.nodes[k + (n - k)])
        BY <1>4, <3>1
      <3> QED
        BY <3>1, <3>2
    <2>3. CASE n = k + m + 1
      BY <1>5, <2>3
    <2> QED
      BY <2>1, <2>2, <2>3
  <1> QED
    BY <1>6 DEF NumberedNodes

(* The nodes of statements that agree with Info are numbered. *)
LEMMA BuildNumbered ==
  ASSUME NEW i
  PROVE  \A s \in Statement : AllFine(i, s) => NumberedNodes(i, Build[s])
  <1> DEFINE Good == {s \in Statement : AllFine(i, s) => NumberedNodes(i, Build[s])}
  <1>0. NumberedNodes(i, Nothing)
    BY NothingBuilt DEF NumberedNodes
  <1>1. ASSUME NEW s \in Statement, Children(s) \subseteq Statement, Children(s) \subseteq Good
        PROVE  s \in Good
    <2> SUFFICES ASSUME AllFine(i, s) PROVE NumberedNodes(i, Build[s])
      OBVIOUS
    <2>0. s \in Nest(Statement)
      BY StatementShape
    <2>00. Fine(i, s) /\ \A x \in Children(s) : AllFine(i, x)
      BY PartsUnion DEF AllFine
    <2>01. \A x \in Children(s) : WellBuilt(Build[x]) /\ NumberedNodes(i, Build[x])
      BY <1>1, <2>00, BuildBuilt
    <2>1. CASE s.op = "extract_field"
      <3>1. PICK a \in Attribute : a = s.attr
        BY <2>0, <2>1, Shapes
      <3>2. ExtractNode(a) \in Node
        BY MadeNodes
      <3>3. PICK v \in Node : v = ExtractNode(a)
        BY <3>2
      <3>4. {"next"} \in SUBSET Pointers
        BY DEF Pointers
      <3>5. Len(Created(v, {"next"}).nodes) = 1 /\ Created(v, {"next"}).nodes[1] = v
        BY <3>4, CreatedBuilt
      <3>6. Build[s] = Created(v, {"next"})
        BY <2>1, <3>1, <3>3, BuildCases
      <3>7. v["kind"] = "extract" /\ v["attr"] = a
        BY <3>3 DEF ExtractNode
      <3>8. NumberedNode(i, v)
        BY <2>00, <2>1, <3>1, <3>7 DEF NumberedNode, Fine
      <3> QED
        BY <3>5, <3>6, <3>8 DEF NumberedNodes
    <2>2. CASE s.op = "return"
      <3>1. PICK v \in Node : v = ExitNode(s.verdict)
        BY MadeNodes
      <3>2. {} \in SUBSET Pointers
        OBVIOUS
      <3>3. Len(Created(v, {}).nodes) = 1 /\ Created(v, {}).nodes[1] = v
        BY <3>2, CreatedBuilt
      <3>4. Build[s] = Created(v, {})
        BY <2>2, <3>1, BuildCases
      <3>5. v["kind"] = "exit"
        BY <3>1 DEF ExitNode
      <3>6. NumberedNode(i, v)
        BY <3>5 DEF NumberedNode
      <3> QED
        BY <3>3, <3>4, <3>6 DEF NumberedNodes
    <2>3. CASE s.op = "if"
      <3>1. s.test \in Condition /\ s.then \in Children(s) /\ s.else \in Children(s)
        BY <2>0, <2>3, Shapes DEF Children
      <3>2. PICK first : first = Build[s.then]
        OBVIOUS
      <3>3. PICK second : second = Build[s.else]
        OBVIOUS
      <3>4. WellBuilt(first) /\ WellBuilt(second) /\ NumberedNodes(i, first) /\ NumberedNodes(i, second)
        BY <2>01, <3>1, <3>2, <3>3
      <3>5. PICK test \in Condition : test = s.test
        BY <3>1
      <3>6. Build[s] = Joined(test, first, second)
        BY <2>3, <3>2, <3>3, <3>5, BuildCases
      <3>7. CASE first.start # Unset \/ second.start # Unset
        <4>1. \E t, e : IsJoin(Joined(test, first, second), test, first, second,
                               Len(first.nodes), Len(second.nodes), t, e)
          BY <3>4, <3>7, JoinedFacts
        <4>2. test.attr \in ToSet(ComparedFields(i))
          BY <2>00, <2>3, <3>5 DEF Fine
        <4>3. NumberedNodes(i, Joined(test, first, second))
          BY <3>4, <4>1, <4>2, JoinNumbered
        <4> QED
          BY <3>6, <4>3
      <3>8. CASE first.start = Unset /\ second.start = Unset
        BY <1>0, <3>6, <3>8, JoinedNothing
      <3> QED
        BY <3>7, <3>8
    <2>4. CASE s.op = "block"
      <3>1. PICK results : results = BuiltParts(s)
        OBVIOUS
      <3>2. /\ Len(results) \in Nat
            /\ \A k \in 1 .. Len(results) : WellBuilt(results[k]) /\ NumberedNodes(i, results[k])
        BY <2>01, <2>4, <3>1, PartsOfBlock
      <3>3. PICK q : Chains(q, results) /\ AllChained(results) = q[Len(results)]
        BY <3>2, ChainExists
      <3>4. /\ q[0] = Nothing
            /\ \A k \in 0 .. Len(results) : WellBuilt(q[k])
            /\ \A k \in 1 .. Len(results) : q[k] = Chained(q[k - 1], results[k])
        BY <3>2, <3>3, ChainsBuilt
      <3> DEFINE Right == {k \in Nat : k \in 0 .. Len(results) => NumberedNodes(i, q[k])}
      <3>5. 0 \in Right
        BY <1>0, <3>4
      <3>6. ASSUME NEW k \in Nat, k \in Right PROVE k + 1 \in Right
        <4> SUFFICES ASSUME k + 1 \in 0 .. Len(results) PROVE NumberedNodes(i, q[k + 1])
          OBVIOUS
        <4>1. k \in 0 .. Len(results) /\ k + 1 \in 1 .. Len(results) /\ (k + 1) - 1 = k
          BY <3>2
        <4>2. PICK a : a = q[k]
          OBVIOUS
        <4>3. PICK b : b = results[k + 1]
          OBVIOUS
        <4>4. q[k + 1] = Chained(a, b) /\ WellBuilt(a) /\ WellBuilt(b) /\ NumberedNodes(i, a) /\ NumberedNodes(i, b)
          BY <3>2, <3>4, <3>6, <4>1, <4>2, <4>3
        <4>5. CASE a.start = Unset \/ b.start = Unset
          BY <4>4, <4>5, ChainedNothing
        <4>6. CASE a.start # Unset /\ b.start # Unset
          <5>1. IsChain(Chained(a, b), a, b, Len(a.nodes))
            BY <4>4, <4>6, ChainedFacts
          <5>2. NumberedNodes(i, Chained(a, b))
            BY <4>4, <5>1, ChainNumbered
          <5> QED
            BY <4>4, <5>2
        <4> QED
          BY <4>5, <4>6
      <3> HIDE DEF Right
      <3>7. Nat \subseteq Right
        BY <3>5, <3>6, Counting
      <3>8. NumberedNodes(i, q[Len(results)])
        BY <3>2, <3>7 DEF Right
      <3> QED
        BY <2>4, <3>1, <3>3, <3>8, BuildCases
    <2>5. CASE s.op \in {"extract", "none", "other", "error", "empty", "garbled"}
      BY <1>0, <2>5, BuildCases
    <2>6. s.op \in {"extract", "extract_field", "return", "if", "block",
                    "none", "other", "error", "empty", "garbled"}
      BY <2>0, Shapes
    <2> QED
      BY <2>1, <2>2, <2>3, <2>4, <2>5, <2>6
  <1> HIDE DEF Good
  <1>2. Statement \subseteq Good
    BY <1>1, StatementInduction
  <1> QED
    BY <1>2 DEF Good

(* The body of a program is a block; so is what is emitted for it.         *)
LEMMA BodyFacts ==
  ASSUME NEW prog \in ParserPrograms, Collectable(prog)
  PROVE  Body(prog) \in Statement /\ Body(prog).op = "block" /\ OfProgram(prog, Body(prog))
  BY Declarations DEF Collectable, OfProgram

(* The .pc program is one block, which agrees with Info. *)
LEMMA OwnProgram ==
  ASSUME NEW prog \in ParserPrograms, Collectable(prog), NEW i, Describes(i, prog), Numbered(i, prog)
  PROVE  /\ PcProgram(i, prog) \in Statement /\ PcProgram(i, prog).op = "block"
         /\ Emitted(i, Body(prog)) = <<PcProgram(i, prog)>>
         /\ AllFine(i, PcProgram(i, prog))
         /\ Regular(i, Body(prog)) => Clean(PcProgram(i, prog))
  <1>1. PICK s \in Statement : s = Body(prog) /\ s.op = "block" /\ OfProgram(prog, s)
    BY BodyFacts
  <1>2. PICK b : b = Block(FlattenSeq(EmittedParts(i, s)))
    OBVIOUS
  <1>3. Emitted(i, s) = <<b>>
    BY <1>1, <1>2, EmittedCases
  <1>4. b \in ToSet(Emitted(i, s)) /\ Head(Emitted(i, s)) = b
    BY <1>3 DEF ToSet
  <1>5. Emitted(i, s) \in Seq(Statement)
    BY <1>1, EmittedStatements
  <1>6. b \in Statement
    BY <1>4, <1>5, Elements
  <1>7. AllFine(i, b) /\ (Regular(i, s) => Clean(b))
    BY <1>1, <1>4, EmittedFine
  <1>8. PcProgram(i, prog) = b
    BY <1>1, <1>4 DEF PcProgram
  <1>9. b.op = "block"
    BY <1>2 DEF Block
  <1> QED
    BY <1>1, <1>3, <1>6, <1>7, <1>8, <1>9

(* EveryFieldNumbered: every graph that is built of its own file extracts  *)
(* only fields that drop_unused_members has kept, and tests only fields    *)
(* that are numbered as compared ones.                                     *)
THEOREM FieldsNumbered == Spec => []EveryFieldNumbered
  <1>1. TypeInv /\ OwnResult /\ (\A c \in Compilations : source[c] \in Sources[c]) => EveryFieldNumbered
    <2> SUFFICES ASSUME OwnResult, \A c \in Compilations : source[c] \in Sources[c],
                        NEW c \in Compilations, stage[c] = "built", ~disturbed[c],
                        NEW node \in ToSet(graph[c].nodes)
                 PROVE  /\ node.kind = "extract" => node.attr \in ToSet(AllFields(info[c]))
                        /\ node.kind = "if" => node.attr \in ToSet(ComparedFields(info[c]))
      BY DEF EveryFieldNumbered
    <2>1. PICK prog \in ParserPrograms : prog = source[c]
      BY ProgramAssumption
    <2>2. PICK i : i = info[c]
      OBVIOUS
    <2>3. PICK own : own = PcProgram(i, prog)
      OBVIOUS
    <2>4. Collectable(prog) /\ i \in InfosOf(c) /\ graph[c] = Graph(own)
      BY <2>1, <2>2, <2>3 DEF OwnResult
    <2>5. Describes(i, prog) /\ Numbered(i, prog)
      BY <2>1, <2>4, OwnInfos DEF InfosOf
    <2>6. own \in Statement /\ AllFine(i, own)
      BY <2>3, <2>4, <2>5, OwnProgram
    <2>7. PICK r : r = Build[own]
      OBVIOUS
    <2>8. NumberedNodes(i, r) /\ WellBuilt(r)
      BY <2>6, <2>7, BuildNumbered, BuildBuilt
    <2>9. node \in ToSet(r.nodes)
      BY <2>4, <2>7 DEF Graph
    <2>10. PICK n \in 1 .. Len(r.nodes) : node = r.nodes[n]
      BY <2>8, <2>9, Elements DEF WellBuilt
    <2>11. NumberedNode(i, node)
      BY <2>8, <2>10 DEF NumberedNodes
    <2> QED
      BY <2>2, <2>11 DEF NumberedNode
  <1> QED
    BY <1>1, AlwaysTypeInv, AlwaysOwnSource, OwnGraph, PTL

-----------------------------------------------------------------------------
(* Open ends and the end of a statement.                                   *)
LEMMA FallsThroughCases ==
  ASSUME NEW s \in Statement
  PROVE  /\ FallsThrough[s] \in BOOLEAN
         /\ s.op = "return" => ~FallsThrough[s]
         /\ s.op \in {"extract", "none"} => FallsThrough[s]
         /\ s.op = "if" => (FallsThrough[s] <=> FallsThrough[s.then] \/ FallsThrough[s.else])
         /\ s.op = "block" => (FallsThrough[s] <=> \A x \in Children(s) : FallsThrough[x])
  <1>1. FallsThrough[s] = FallsThroughStep(FallsThrough, s)
    BY FallsThroughSolves
  <1>2. FallsThroughStep(FallsThrough, s) \in BOOLEAN
    BY DEF FallsThroughStep
  <1>3. s.op = "return" => ~FallsThroughStep(FallsThrough, s)
    BY DEF FallsThroughStep
  <1>4. s.op \in {"extract", "none"} => FallsThroughStep(FallsThrough, s)
    BY DEF FallsThroughStep
  <1>5. s.op = "if" => (FallsThroughStep(FallsThrough, s) <=> FallsThrough[s.then] \/ FallsThrough[s.else])
    BY DEF FallsThroughStep
  <1>6. s.op = "block" => (FallsThroughStep(FallsThrough, s) <=> \A x \in Children(s) : FallsThrough[x])
    BY DEF FallsThroughStep
  <1> QED
    BY <1>1, <1>2, <1>3, <1>4, <1>5, <1>6

(* A chain of statements that have nodes ends where the last one ends.     *)
LEMMA ChainsEnd ==
  ASSUME NEW results, Len(results) \in Nat, Len(results) # 0,
         \A k \in 1 .. Len(results) : WellBuilt(results[k]) /\ results[k].start # Unset,
         NEW q, Chains(q, results)
  PROVE  /\ q[Len(results)].start # Unset
         /\ q[Len(results)].ends = {} <=> results[Len(results)].ends = {}
  <1>1. /\ q[0] = Nothing
        /\ \A k \in 0 .. Len(results) : WellBuilt(q[k])
        /\ \A k \in 1 .. Len(results) : q[k] = Chained(q[k - 1], results[k])
    BY ChainsBuilt
  <1> DEFINE Right(k) == q[k].start # Unset /\ (q[k].ends = {} <=> results[k].ends = {})
             Good == {k \in Nat : k \in 1 .. Len(results) => Right(k)}
  <1>2. 0 \in Good
    OBVIOUS
  <1>3. ASSUME NEW k \in Nat, k \in Good PROVE k + 1 \in Good
    <2> SUFFICES ASSUME k + 1 \in 1 .. Len(results) PROVE Right(k + 1)
      OBVIOUS
    <2>1. k \in 0 .. Len(results) /\ (k + 1) - 1 = k
      OBVIOUS
    <2>2. PICK a : a = q[k]
      OBVIOUS
    <2>3. PICK b : b = results[k + 1]
      OBVIOUS
    <2>4. q[k + 1] = Chained(a, b) /\ WellBuilt(a) /\ WellBuilt(b) /\ b.start # Unset
      BY <1>1, <2>1, <2>2, <2>3
    <2>5. CASE a.start = Unset
      <3>1. Chained(a, b) = b
        BY <2>4, <2>5, ChainedNothing
      <3> QED
        BY <2>3, <2>4, <3>1
    <2>6. CASE a.start # Unset
      <3>1. PICK n : n = Len(a.nodes)
        OBVIOUS
      <3>2. IsChain(Chained(a, b), a, b, n)
        BY <2>4, <2>6, <3>1, ChainedFacts
      <3>3. Chained(a, b).start # Unset /\ Chained(a, b).ends = EndsBehind(n, b.ends)
        BY <3>2 DEF IsChain
      <3>4. EndsBehind(n, b.ends) = {} <=> b.ends = {}
        BY DEF EndsBehind
      <3> QED
        BY <2>3, <2>4, <3>3, <3>4
    <2> QED
      BY <2>5, <2>6
  <1> HIDE DEF Good
  <1>4. Nat \subseteq Good
    BY <1>2, <1>3, Counting
  <1>5. Len(results) \in 1 .. Len(results)
    OBVIOUS
  <1> QED
    BY <1>4, <1>5 DEF Good

(* The last element of sequences one behind the other.                     *)
LEMMA FlattenLast ==
  ASSUME NEW S, NEW seqs \in Seq(Seq(S)), Len(seqs) # 0, seqs[Len(seqs)] # <<>>,
         NEW last, last = seqs[Len(seqs)]
  PROVE  /\ Len(FlattenSeq(seqs)) # 0
         /\ FlattenSeq(seqs)[Len(FlattenSeq(seqs))] = last[Len(last)]
  <1>1. PICK p : Flattens(p, seqs) /\ FlattenSeq(seqs) = p[Len(seqs)]
    BY FlattenExists
  <1>2. PICK n \in Nat : n = Len(seqs)
    OBVIOUS
  <1>3. n \in 1 .. n /\ n - 1 \in 0 .. n
    BY <1>2
  <1>4. p \in [0 .. Len(seqs) -> Seq(S)]
    BY <1>1, FlattensTyped
  <1>5. PICK a \in Seq(S) : a = p[n - 1]
    BY <1>2, <1>3, <1>4
  <1>6. last \in Seq(S) /\ last # <<>>
    BY <1>2, <1>3
  <1>7. p[n] = Then(a, last)
    BY <1>1, <1>2, <1>3, <1>5 DEF Flattens
  <1>8. PICK k \in Nat : k = Len(a)
    OBVIOUS
  <1>9. PICK m \in Nat : m = Len(last)
    BY <1>6
  <1>10. m # 0
    BY <1>6, <1>9
  <1>11. Len(Then(a, last)) = k + m /\ \A j \in 1 .. m : Then(a, last)[k + j] = last[j]
    <2>1. IsThen(Then(a, last), a, last, S)
      BY <1>6, ThenIs
    <2> QED
      BY <1>8, <1>9, <2>1 DEF IsThen
  <1>12. k + m # 0 /\ m \in 1 .. m
    BY <1>10
  <1>13. PICK z : z = Then(a, last)
    OBVIOUS
  <1>14. FlattenSeq(seqs) = z
    BY <1>1, <1>2, <1>7, <1>13
  <1>15. Len(z) = k + m /\ z[k + m] = last[m]
    BY <1>11, <1>12, <1>13
  <1> QED
    BY <1>9, <1>12, <1>14, <1>15

(* Blocks hold no missing statement, and no if guards one.                 *)
LEMMA NothingMissing ==
  ASSUME NEW prog \in ParserPrograms, Collectable(prog), NEW s \in Statement, OfProgram(prog, s)
  PROVE  /\ s.op = "block" => \A x \in Children(s) : x.op # "none"
         /\ s.op = "if" => s.then.op # "none"
  <1>1. s \in Parts[Body(prog)]
    BY PartsUnion DEF OfProgram
  <1>2. Visitable(prog, Body(prog))
    BY DEF Collectable
  <1>3. CASE s.op = "block"
    BY <1>1, <1>2, <1>3 DEF Visitable
  <1>4. CASE s.op = "if"
    <2>1. s.then # NoElse
      BY <1>1, <1>2, <1>4 DEF Visitable
    <2>2. s.then \in Statement
      BY <1>4, OfProgramFacts
    <2>3. s.then \in Nest(Statement)
      BY <2>2, StatementShape
    <2>4. s.then.op = "none" => s.then = NoElse
      BY <2>3, Shapes
    <2> QED
      BY <1>4, <2>1, <2>4
  <1> QED
    BY <1>3, <1>4

(* A statement without dead code has no part with dead code. *)
LEMMA DeadCodeFacts ==
  ASSUME NEW s \in Statement, ~HasDeadCode(s)
  PROVE  /\ \A x \in Children(s) : ~HasDeadCode(x)
         /\ s.op = "block" => \A k \in 1 .. Len(s.body) - 1 : FallsThrough[s.body[k]]
  <1>1. s \in Parts[s] /\ \A x \in Children(s) : Parts[x] \subseteq Parts[s]
    BY PartsUnion
  <1> QED
    BY <1>1 DEF HasDeadCode

(* Over branches of one statement each, an if is emitted as an if. *)
LEMMA BranchingWhole ==
  ASSUME NEW S, NEW test, NEW then \in Seq(S), NEW else \in Seq(S), Len(then) = 1, Len(else) = 1
  PROVE  Branching(test, then, else) = <<Whole(test, then, else)>>
  <1>1. ~(Len(then) > 1)
    <2>1. PICK n : n = Len(then)
      OBVIOUS
    <2>2. n = 1
      BY <2>1
    <2>3. ~(n > 1)
      BY <2>2
    <2> QED
      BY <2>1, <2>3
  <1>2. PICK last : last = IF else = <<NoElse>> THEN then ELSE else
    OBVIOUS
  <1>3. PICK w : w = Whole(test, then, else)
    OBVIOUS
  <1>4. Branching(test, then, else) = <<w>> \o Tail(last)
    BY <1>1, <1>2, <1>3 DEF Branching, Whole
  <1>5. last \in Seq(S) /\ Len(last) = 1
    BY <1>2
  <1>6. PICK tail : tail = Tail(last)
    OBVIOUS
  <1>7. tail \in Seq(S) /\ Len(tail) = 0
    <2>1. Len(<<>>) # 1
      OBVIOUS
    <2>2. last # <<>>
      BY <1>5, <2>1
    <2>3. PICK n \in Nat : n = Len(last)
      BY <1>5
    <2>4. tail \in Seq(S) /\ Len(tail) = n - 1
      BY <1>5, <1>6, <2>2, <2>3
    <2>5. n = 1
      BY <1>5, <2>3
    <2> QED
      BY <2>4, <2>5
  <1>8. tail = <<>>
    BY <1>7
  <1>9. <<w>> \o <<>> = <<w>>
    OBVIOUS
  <1> QED
    BY <1>3, <1>4, <1>6, <1>8, <1>9

(* Only a missing statement gives no node, and without dead code the *)
(* open                                                              *)
(* ends of what is emitted tell whether control may reach its end.   *)
LEMMA EmittedEnds ==
  ASSUME NEW prog \in ParserPrograms, Collectable(prog), NEW i, Describes(i, prog), Numbered(i, prog)
  PROVE  \A s \in Statement : OfProgram(prog, s) /\ Regular(i, s) =>
           /\ \A e \in ToSet(Emitted(i, s)) : Build[e].start # Unset <=> s.op # "none"
           /\ s.op # "none" /\ ~HasDeadCode(s) =>
                (Build[Emitted(i, s)[Len(Emitted(i, s))]].ends = {} <=> ~FallsThrough[s])
  <1> DEFINE Starts(s) == \A e \in ToSet(Emitted(i, s)) : Build[e].start # Unset <=> s.op # "none"
             Ends(s)   == s.op # "none" /\ ~HasDeadCode(s) =>
                            (Build[Emitted(i, s)[Len(Emitted(i, s))]].ends = {} <=> ~FallsThrough[s])
             Right(s)  == Starts(s) /\ Ends(s)
             Good      == {s \in Statement : OfProgram(prog, s) /\ Regular(i, s) => Right(s)}
  <1>1. ASSUME NEW s \in Statement, Children(s) \subseteq Statement, Children(s) \subseteq Good
        PROVE  s \in Good
    <2> SUFFICES ASSUME OfProgram(prog, s), Regular(i, s) PROVE Right(s)
      OBVIOUS
    <2>1. \A x \in Children(s) : x \in Statement /\ OfProgram(prog, x) /\ Right(x)
      <3>1. \A x \in Children(s) : OfProgram(prog, x) /\ Regular(i, x)
        BY OfProgramFacts, RegularFacts
      <3> HIDE DEF Right
      <3> QED
        BY <1>1, <3>1
    <2>2. CASE s.op = "extract"
      <3>1. PICK m \in Names(Members(prog)) : m = s.member
        BY <2>2, OfProgramFacts
      <3>2. PICK q : q = Extractions(i, m)
        OBVIOUS
      <3>3. Emitted(i, s) = q
        BY <2>2, <3>1, <3>2, EmittedCases
      <3>4. q \in Seq(Leaf) /\ q # <<>> /\ \A k \in 1 .. Len(q) : q[k].op = "extract_field"
        <4>1. AreExtractions(q, i, m)
          BY <3>2, ExtractionsFacts
        <4> QED
          BY <4>1 DEF AreExtractions
      <3>5. ASSUME NEW k \in 1 .. Len(q) PROVE Build[q[k]].start # Unset /\ Build[q[k]].ends # {}
        <4>1. PICK e : e = q[k]
          OBVIOUS
        <4>2. e \in Statement
          <5>1. q \in Seq(Statement)
            BY <3>3, EmittedStatements
          <5> QED
            BY <4>1, <5>1, Elements
        <4>3. e.op = "extract_field"
          BY <3>4, <4>1
        <4>4. PICK v : v = ExtractNode(e.attr)
          OBVIOUS
        <4>5. Build[e] = [nodes |-> <<v>>, start |-> 1, ends |-> {<<1, x>> : x \in {"next"}}]
          BY <4>2, <4>3, <4>4, BuildCases DEF Created
        <4>6. Build[e].start = 1 /\ <<1, "next">> \in Build[e].ends
          BY <4>5
        <4> QED
          BY <4>1, <4>6 DEF Unset
      <3>6. Len(q) \in 1 .. Len(q) /\ \A e \in ToSet(q) : \E k \in 1 .. Len(q) : e = q[k]
        BY <3>4, Elements
      <3>7. Starts(s)
        BY <2>2, <3>3, <3>5, <3>6
      <3>8. Ends(s)
        BY <2>2, <3>3, <3>5, <3>6, FallsThroughCases
      <3> QED
        BY <3>7, <3>8
    <2>3. CASE s.op = "return"
      <3>1. Emitted(i, s) = <<s>>
        BY <2>3, EmittedCases
      <3>2. ToSet(Emitted(i, s)) = {s} /\ Emitted(i, s)[Len(Emitted(i, s))] = s
        BY <3>1 DEF ToSet
      <3>3. Build[s].start = 1 /\ Build[s].ends = {}
        <4>1. PICK v : v = ExitNode(s.verdict)
          OBVIOUS
        <4>2. Build[s] = [nodes |-> <<v>>, start |-> 1, ends |-> {<<1, x>> : x \in {}}]
          BY <2>3, <4>1, BuildCases DEF Created
        <4> QED
          BY <4>2
      <3> QED
        BY <2>3, <3>2, <3>3, FallsThroughCases DEF Unset
    <2>4. CASE s.op = "none"
      <3>1. Emitted(i, s) = <<s>>
        BY <2>4, EmittedCases
      <3>2. ToSet(Emitted(i, s)) = {s}
        BY <3>1 DEF ToSet
      <3>3. Build[s].start = Unset
        BY <2>4, BuildCases, NothingBuilt
      <3> QED
        BY <2>4, <3>2, <3>3
    <2>5. CASE s.op = "block"
      <3>1. /\ s.body \in Seq(Statement) /\ DOMAIN s.body = 1 .. Len(s.body) /\ Len(s.body) \in Nat
            /\ Len(s.body) # 0
            /\ \A k \in 1 .. Len(s.body) : s.body[k] \in Children(s) /\ s.body[k].op # "none"
        BY <2>5, OfProgramFacts, NothingMissing
      <3>2. PICK parts : parts = EmittedParts(i, s)
        OBVIOUS
      <3>3. PICK inner : inner = FlattenSeq(parts)
        OBVIOUS
      <3>4. PICK b : b = Block(inner)
        OBVIOUS
      <3>5. Emitted(i, s) = <<b>>
        BY <2>5, <3>2, <3>3, <3>4, EmittedCases
      <3>6. parts = [k \in 1 .. Len(s.body) |-> Emitted(i, s.body[k])]
        BY <3>1, <3>2 DEF EmittedParts
      <3>7. \A k \in 1 .. Len(s.body) : parts[k] \in Seq(Statement) /\ parts[k] # <<>>
        BY <2>1, <3>1, <3>6, EmittedStatements
      <3>8. parts \in Seq(Seq(Statement)) /\ Len(parts) = Len(s.body)
        <4>1. parts = [k \in 1 .. Len(s.body) |-> parts[k]]
          BY <3>6
        <4> QED
          BY <3>1, <3>7, <4>1, MapIsSeq
      <3>9. inner \in Seq(Statement) /\ ToSet(inner) = UNION {ToSet(parts[k]) : k \in 1 .. Len(s.body)}
        BY <3>3, <3>8, FlattenElements
      <3>10. PICK n : n = Len(s.body)
        OBVIOUS
      <3>11. PICK last : last = parts[n]
        OBVIOUS
      <3>12. Len(inner) # 0 /\ inner[Len(inner)] = last[Len(last)]
        BY <3>1, <3>3, <3>7, <3>8, <3>10, <3>11, FlattenLast
      <3>13. n \in 1 .. n /\ last = Emitted(i, s.body[n])
        BY <3>1, <3>6, <3>10, <3>11
      <3>14. \A e \in ToSet(inner) : Build[e].start # Unset
        <4> SUFFICES ASSUME NEW e \in ToSet(inner) PROVE Build[e].start # Unset
          OBVIOUS
        <4>1. PICK k \in 1 .. Len(s.body) : e \in ToSet(parts[k])
          BY <3>9
        <4>2. e \in ToSet(Emitted(i, s.body[k])) /\ Starts(s.body[k]) /\ s.body[k].op # "none"
          BY <2>1, <3>1, <3>6, <4>1
        <4> QED
          BY <4>2
      <3>15. ~HasDeadCode(s) => (Build[inner[Len(inner)]].ends = {} <=> ~FallsThrough[s.body[n]])
        <4>1. s.body[n] \in Children(s) /\ s.body[n].op # "none"
          BY <3>1, <3>10, <3>13
        <4>2. Ends(s.body[n]) /\ (~HasDeadCode(s) => ~HasDeadCode(s.body[n]))
          BY <2>1, <4>1, DeadCodeFacts
        <4> QED
          BY <3>12, <3>13, <4>1, <4>2
      <3>16. b \in Statement /\ b.op = "block" /\ b.body = inner
        <4>1. b \in ToSet(Emitted(i, s))
          BY <3>5 DEF ToSet
        <4>2. Emitted(i, s) \in Seq(Statement)
          BY EmittedStatements
        <4> QED
          BY <3>4, <4>1, <4>2, Elements DEF Block
      <3>17. PICK results : results = BuiltParts(b)
        OBVIOUS
      <3>18. /\ Len(results) = Len(inner) /\ Len(results) \in Nat /\ Len(results) # 0
             /\ \A k \in 1 .. Len(results) : /\ results[k] = Build[inner[k]] /\ WellBuilt(results[k])
                                             /\ results[k].start # Unset
        <4>1. Len(results) = Len(inner) /\ Len(inner) \in Nat
              /\ \A k \in 1 .. Len(inner) : results[k] = Build[inner[k]] /\ inner[k] \in Statement
          BY <3>16, <3>17, PartsOfBlock
        <4>2. \A k \in 1 .. Len(inner) : inner[k] \in ToSet(inner)
          BY <3>9, Elements
        <4> QED
          BY <3>12, <3>14, <4>1, <4>2, BuildBuilt
      <3>19. PICK q : Chains(q, results) /\ AllChained(results) = q[Len(results)]
        BY <3>18, ChainExists
      <3>20. q[Len(results)].start # Unset /\ (q[Len(results)].ends = {} <=> results[Len(results)].ends = {})
        BY <3>18, <3>19, ChainsEnd
      <3>21. Build[b] = q[Len(results)]
        BY <3>16, <3>17, <3>19, BuildCases
      <3>22. results[Len(results)] = Build[inner[Len(inner)]]
        <4>1. Len(results) \in 1 .. Len(results)
          BY <3>18
        <4> QED
          BY <3>18, <4>1
      <3>23. ~HasDeadCode(s) => (FallsThrough[s] <=> FallsThrough[s.body[n]])
        <4> SUFFICES ASSUME ~HasDeadCode(s) PROVE FallsThrough[s] <=> FallsThrough[s.body[n]]
          OBVIOUS
        <4>1. FallsThrough[s] <=> \A x \in Children(s) : FallsThrough[x]
          BY <2>5, FallsThroughCases
        <4>2. \A k \in 1 .. n - 1 : FallsThrough[s.body[k]]
          BY <2>5, <3>10, DeadCodeFacts
        <4>3. \A x \in Children(s) : \E k \in 1 .. n : x = s.body[k]
          BY <2>5, <3>1, <3>10, Elements DEF Children
        <4>4. \A k \in 1 .. n : k = n \/ k \in 1 .. n - 1
          BY <3>1, <3>10
        <4>5. FallsThrough[s.body[n]] => \A x \in Children(s) : FallsThrough[x]
          BY <4>2, <4>3, <4>4
        <4>6. s.body[n] \in Children(s)
          BY <3>1, <3>10, <3>13
        <4> QED
          BY <4>1, <4>5, <4>6
      <3>24. ToSet(Emitted(i, s)) = {b} /\ Emitted(i, s)[Len(Emitted(i, s))] = b
        BY <3>5 DEF ToSet
      <3> QED
        BY <2>5, <3>15, <3>20, <3>21, <3>22, <3>23, <3>24
    <2>6. CASE s.op = "if"
      <3>1. /\ s.test \in Tests(Body(prog)) /\ s.then \in Children(s) /\ s.else \in Children(s)
            /\ s.then.op # "none"
        BY <2>6, OfProgramFacts, NothingMissing
      <3>2. PICK then : then = Emitted(i, s.then)
        OBVIOUS
      <3>3. PICK else : else = Emitted(i, s.else)
        OBVIOUS
      <3>4. PICK test : test = NewTest(i, s.test)
        OBVIOUS
      <3>5. test \in Condition
        BY <3>1, <3>4, NewTestFacts
      <3>6. then \in Seq(Statement) /\ then # <<>> /\ else \in Seq(Statement) /\ else # <<>>
            /\ Len(then) = 1 /\ Len(else) = 1
        BY <2>1, <2>6, <3>1, <3>2, <3>3, EmittedStatements, RegularFacts
      <3>7. PICK w : w = Whole(test, then, else)
        OBVIOUS
      <3>8. Branching(test, then, else) = <<w>>
        <4>1. Branching(test, then, else) = <<Whole(test, then, else)>>
          BY <3>6, BranchingWhole
        <4> QED
          BY <3>7, <4>1
      <3>9. Emitted(i, s) = <<w>>
        BY <2>6, <3>2, <3>3, <3>4, <3>8, EmittedCases
      <3>10. PICK one : one = then[1]
        OBVIOUS
      <3>11. PICK two : two = else[1]
        OBVIOUS
      <3>12. /\ one \in ToSet(then) /\ one \in Statement /\ two \in ToSet(else) /\ two \in Statement
             /\ one = then[Len(then)] /\ two = else[Len(else)] /\ Head(then) = one /\ Head(else) = two
        BY <3>6, <3>10, <3>11, BranchingFacts, Elements
      <3>13. w.op = "if" /\ w.test = test /\ w.then = one /\ w.else = two
        BY <3>7, <3>12 DEF Whole
      <3>14. w \in Statement
        <4>1. w \in ToSet(Emitted(i, s))
          BY <3>9 DEF ToSet
        <4>2. Emitted(i, s) \in Seq(Statement)
          BY EmittedStatements
        <4> QED
          BY <4>1, <4>2, Elements
      <3>15. PICK first : first = Build[one]
        OBVIOUS
      <3>16. PICK second : second = Build[two]
        OBVIOUS
      <3>17. WellBuilt(first) /\ WellBuilt(second)
        BY <3>12, <3>15, <3>16, BuildBuilt
      <3>18. first.start # Unset /\ (second.start # Unset <=> s.else.op # "none")
        <4>1. Starts(s.then) /\ Starts(s.else)
          BY <2>1, <3>1
        <4> QED
          BY <3>1, <3>2, <3>3, <3>12, <3>15, <3>16, <4>1
      <3>19. ~HasDeadCode(s) =>
               /\ first.ends = {} <=> ~FallsThrough[s.then]
               /\ s.else.op # "none" => (second.ends = {} <=> ~FallsThrough[s.else])
        <4>1. Ends(s.then) /\ Ends(s.else)
          BY <2>1, <3>1
        <4>2. ~HasDeadCode(s) => ~HasDeadCode(s.then) /\ ~HasDeadCode(s.else)
          BY <3>1, DeadCodeFacts
        <4> QED
          BY <3>1, <3>2, <3>3, <3>12, <3>15, <3>16, <4>1, <4>2
      <3>20. PICK k : k = Len(first.nodes)
        OBVIOUS
      <3>21. PICK m : m = Len(second.nodes)
        OBVIOUS
      <3>22. PICK r : r = Joined(test, first, second)
        OBVIOUS
      <3>23. PICK t : t = IF test.rel = "!=" THEN StartBehind(k, second) ELSE first.start
        OBVIOUS
      <3>24. PICK e : e = IF test.rel = "!=" THEN first.start ELSE StartBehind(k, second)
        OBVIOUS
      <3>25. IsJoin(r, test, first, second, k, m, t, e)
        BY <3>5, <3>17, <3>18, <3>20, <3>21, <3>22, <3>23, <3>24, JoinedFacts
      <3>26. (t = Unset \/ e = Unset) <=> second.start = Unset
        <4>1. k \in Nat /\ second.start \in Nat /\ (StartBehind(k, second) = Unset <=> second.start = Unset)
          <5>1. k \in Nat /\ second.start \in Nat
            BY <3>17, <3>20 DEF WellBuilt
          <5> QED
            BY <5>1 DEF StartBehind, Unset
        <4> QED
          BY <3>18, <3>23, <3>24, <4>1
      <3>27. /\ r.start # Unset
             /\ r.ends = first.ends \cup EndsBehind(k, second.ends)
                           \cup (IF t = Unset THEN {<<k + m + 1, "next_true">>} ELSE {})
                           \cup (IF e = Unset THEN {<<k + m + 1, "next_false">>} ELSE {})
        BY <3>25 DEF IsJoin
      <3>28. EndsBehind(k, second.ends) = {} <=> second.ends = {}
        BY DEF EndsBehind
      <3>29. r.ends = {} <=> first.ends = {} /\ second.ends = {} /\ second.start # Unset
        BY <3>26, <3>27, <3>28
      <3>30. Build[w] = r
        BY <3>13, <3>14, <3>15, <3>16, <3>22, BuildCases
      <3>31. FallsThrough[s] <=> FallsThrough[s.then] \/ FallsThrough[s.else]
        BY <2>6, FallsThroughCases
      <3>32. s.else.op = "none" => FallsThrough[s.else]
        BY <2>1, <3>1, FallsThroughCases
      <3>33. ~HasDeadCode(s) => (r.ends = {} <=> ~FallsThrough[s])
        BY <3>18, <3>19, <3>29, <3>31, <3>32
      <3>34. ToSet(Emitted(i, s)) = {w} /\ Emitted(i, s)[Len(Emitted(i, s))] = w
        BY <3>9 DEF ToSet
      <3> QED
        BY <2>6, <3>27, <3>30, <3>33, <3>34
    <2>7. s.op \in {"extract", "return", "block", "if", "none"}
      BY OfProgramFacts
    <2> HIDE DEF Right
    <2> QED
      BY <2>2, <2>3, <2>4, <2>5, <2>6, <2>7
  <1> HIDE DEF Good
  <1>2. Statement \subseteq Good
    BY <1>1, StatementInduction
  <1> QED
    BY <1>2 DEF Good

(* A program without dead code is generated just if it always returns.     *)
LEMMA GeneratesReturning ==
  ASSUME NEW prog \in ParserPrograms, Collectable(prog), NEW i, Describes(i, prog), Numbered(i, prog),
         Regular(i, Body(prog)), ~HasDeadCode(Body(prog))
  PROVE  Generates(i, PcProgram(i, prog)) <=> ~FallsThrough[Body(prog)]
  <1>1. PICK own : own = PcProgram(i, prog)
    OBVIOUS
  <1>2. PICK s : s = Body(prog)
    OBVIOUS
  <1>3. own \in Statement /\ AllFine(i, own) /\ Clean(own) /\ Emitted(i, s) = <<own>>
    BY <1>1, <1>2, OwnProgram
  <1>4. Readable(i, own)
    <2>1. \A x \in Parts[own] : Fine(i, x) /\ x.op # "error"
      BY <1>3 DEF AllFine, Clean
    <2> QED
      BY <2>1 DEF Readable, Fine
  <1>5. s \in Statement /\ s.op = "block" /\ OfProgram(prog, s) /\ Regular(i, s) /\ ~HasDeadCode(s)
    BY <1>2, BodyFacts
  <1>6. Build[Emitted(i, s)[Len(Emitted(i, s))]].ends = {} <=> ~FallsThrough[s]
    BY <1>5, EmittedEnds
  <1>7. Emitted(i, s)[Len(Emitted(i, s))] = own
    BY <1>3
  <1>8. Build[own].ends = {} <=> ~FallsThrough[s]
    BY <1>6, <1>7
  <1> QED
    BY <1>1, <1>2, <1>4, <1>8 DEF Generates

(* FailsOnlyWithoutReturn: whatever the program, its flag and the order in *)
(* which constants are numbered, sizes, names and constants never make the *)
(* second half of the frontend refuse what the first has accepted; only a  *)
(* path that does not return does.                                         *)
THEOREM RefusedOnlyWithoutReturn == Spec => []FailsOnlyWithoutReturn
  <1>1. TypeInv /\ OwnResult /\ (\A c \in Compilations : source[c] \in Sources[c])
          => FailsOnlyWithoutReturn
    <2> SUFFICES ASSUME OwnResult, \A c \in Compilations : source[c] \in Sources[c],
                        NEW c \in Compilations, ~HasDeadCode(Body(source[c])),
                        Undisturbed(c, "failed") \/ Undisturbed(c, "built")
                 PROVE  /\ Undisturbed(c, "failed") => FallsThrough[Body(source[c])]
                        /\ Undisturbed(c, "built") => ~FallsThrough[Body(source[c])]
      BY DEF FailsOnlyWithoutReturn
    <2>1. PICK prog \in ParserPrograms : prog = source[c]
      BY ProgramAssumption
    <2>2. PICK i : i = info[c]
      OBVIOUS
    <2>3. ~disturbed[c] /\ stage[c] \in {"built", "failed"} /\ Regular(i, Body(prog))
      BY <2>1, <2>2 DEF Undisturbed
    <2>4. Collectable(prog) /\ i \in InfosOf(c)
      BY <2>1, <2>2, <2>3 DEF OwnResult
    <2>5. Generates(i, PcProgram(i, prog)) => stage[c] = "built"
      BY <2>1, <2>2, <2>3 DEF OwnResult
    <2>6. ~Generates(i, PcProgram(i, prog)) => stage[c] = "failed"
      BY <2>1, <2>2, <2>3 DEF OwnResult
    <2>7. Describes(i, prog) /\ Numbered(i, prog)
      BY <2>1, <2>4, OwnInfos DEF InfosOf
    <2>8. Generates(i, PcProgram(i, prog)) <=> ~FallsThrough[Body(prog)]
      BY <2>1, <2>3, <2>4, <2>7, GeneratesReturning
    <2> QED
      BY <2>1, <2>5, <2>6, <2>8 DEF Undisturbed
  <1> QED
    BY <1>1, AlwaysTypeInv, AlwaysOwnSource, OwnGraph, PTL

-----------------------------------------------------------------------------
(* Extractions of members become extractions of their fields.              *)
Fields(i, reads) == [k \in DOMAIN reads |-> AttrsOf(reads[k], i.contents[reads[k]])]

(* What is needed of Info here. *)
HasContents(i, members) == \A m \in members : AttrsOf(m, i.contents[m]) \in Seq(Attribute)

(* The fields of the members of a program do. *)
LEMMA OwnContents ==
  ASSUME NEW prog \in ParserPrograms, Collectable(prog), NEW i, Describes(i, prog)
  PROVE  HasContents(i, Names(Members(prog)))
  <1>1. Names(Members(prog)) \subseteq STRING
    BY Declarations DEF Collectable
  <1>2. \A m \in Names(Members(prog)) : i.contents[m] \in Seq(STRING)
    BY DEF Describes
  <1>3. ASSUME NEW m \in Names(Members(prog)) PROVE AttrsOf(m, i.contents[m]) \in Seq(Attribute)
    <2>1. PICK fields \in Seq(STRING) : fields = i.contents[m]
      BY <1>2
    <2>2. m \in STRING
      BY <1>1
    <2> QED
      BY <2>1, <2>2, AttrsOfFacts
  <1> QED
    BY <1>3 DEF HasContents

(* There are as many sequences of fields as members. *)
LEMMA FieldsFacts ==
  ASSUME NEW M, NEW i, HasContents(i, M), NEW reads \in Seq(M)
  PROVE  /\ Fields(i, reads) \in Seq(Seq(Attribute)) /\ Len(Fields(i, reads)) = Len(reads)
         /\ \A k \in 1 .. Len(reads) : Fields(i, reads)[k] = AttrsOf(reads[k], i.contents[reads[k]])
  <1>1. Len(reads) \in Nat /\ DOMAIN reads = 1 .. Len(reads) /\ \A k \in 1 .. Len(reads) : reads[k] \in M
    BY Elements
  <1>2. PICK f : f = Fields(i, reads)
    OBVIOUS
  <1>3. f = [k \in 1 .. Len(reads) |-> AttrsOf(reads[k], i.contents[reads[k]])]
    BY <1>1, <1>2 DEF Fields
  <1>4. PICK S : S = Seq(Attribute)
    OBVIOUS
  <1>5. \A k \in 1 .. Len(reads) : AttrsOf(reads[k], i.contents[reads[k]]) \in S
    BY <1>1, <1>4 DEF HasContents
  <1>6. f = [k \in 1 .. Len(reads) |-> f[k]]
    BY <1>3
  <1>7. \A k \in 1 .. Len(reads) : f[k] = AttrsOf(reads[k], i.contents[reads[k]])
    BY <1>3
  <1>8. \A k \in 1 .. Len(reads) : f[k] \in S
    BY <1>5, <1>7
  <1>9. f \in Seq(S) /\ Len(f) = Len(reads)
    BY <1>1, <1>6, <1>8, MapIsSeq
  <1> QED
    BY <1>2, <1>4, <1>7, <1>9

(* Expanded replaces members by their fields, one after the other. *)
LEMMA ExpandedIs ==
  ASSUME NEW M, NEW i, HasContents(i, M), NEW d \in Outcome(M)
  PROVE  /\ Expanded(i, d) = [reads |-> FlattenSeq(Fields(i, d.reads)), verdict |-> d.verdict]
         /\ FlattenSeq(Fields(i, d.reads)) \in Seq(Attribute)
         /\ Expanded(i, d) \in Outcome(Attribute)
         /\ Expanded(i, d).verdict = d.verdict
         /\ Expanded(i, d).reads = FlattenSeq(Fields(i, d.reads))
  <1>1. d.reads \in Seq(M) /\ d.verdict \in Ending /\ d = [reads |-> d.reads, verdict |-> d.verdict]
    BY OutcomeShape
  <1>2. PICK flat : flat = FlattenSeq(Fields(i, d.reads))
    OBVIOUS
  <1>3. Expanded(i, d) = [d EXCEPT !.reads = flat]
    BY <1>2 DEF Expanded, Fields
  <1>4. Expanded(i, d) = [reads |-> flat, verdict |-> d.verdict]
    BY <1>1, <1>3
  <1>5. flat \in Seq(Attribute)
    <2>1. PICK f : f = Fields(i, d.reads)
      OBVIOUS
    <2>2. f \in Seq(Seq(Attribute))
      BY <1>1, <2>1, FieldsFacts
    <2> QED
      BY <1>2, <2>1, <2>2, FlattenElements
  <1>6. [reads |-> flat, verdict |-> d.verdict] \in Outcome(Attribute)
    BY <1>1, <1>5, OutcomeMade
  <1> QED
    BY <1>2, <1>4, <1>5, <1>6

(* Doing nothing expands to doing nothing. *)
LEMMA ExpandedNothing ==
  ASSUME NEW i
  PROVE  Expanded(i, DoesNothing) = DoesNothing
  <1>1. PICK none : none = DoesNothing
    OBVIOUS
  <1>2. none = [reads |-> <<>>, verdict |-> "none"]
    BY <1>1 DEF DoesNothing
  <1>3. PICK empty : empty = [k \in DOMAIN none.reads |-> AttrsOf(none.reads[k], i.contents[none.reads[k]])]
    OBVIOUS
  <1>4. empty = <<>>
    BY <1>2, <1>3
  <1>5. FlattenSeq(empty) = <<>>
    BY <1>4 DEF FlattenSeq
  <1>6. Expanded(i, none) = [none EXCEPT !.reads = FlattenSeq(empty)]
    BY <1>3 DEF Expanded
  <1> QED
    BY <1>1, <1>2, <1>5, <1>6

(* What is done in order expands in order. *)
LEMMA ExpandedInOrder ==
  ASSUME NEW M, NEW i, HasContents(i, M), NEW a \in Outcome(M), NEW b \in Outcome(M)
  PROVE  Expanded(i, InOrder(a, b)) = InOrder(Expanded(i, a), Expanded(i, b))
  <1>1. PICK x : x = Expanded(i, a)
    OBVIOUS
  <1>2. PICK y : y = Expanded(i, b)
    OBVIOUS
  <1>3. x.verdict = a.verdict /\ x.reads = FlattenSeq(Fields(i, a.reads))
    BY <1>1, ExpandedIs
  <1>4. y.verdict = b.verdict /\ y.reads = FlattenSeq(Fields(i, b.reads))
    BY <1>2, ExpandedIs
  <1>5. CASE a.verdict # "none"
    <2>1. InOrder(a, b) = a /\ InOrder(x, y) = x
      BY <1>3, <1>5, InOrderCases
    <2> QED
      BY <1>1, <1>2, <2>1
  <1>6. CASE a.verdict = "none"
    <2>1. a.reads \in Seq(M) /\ b.reads \in Seq(M) /\ b.verdict \in Ending
      BY OutcomeShape
    <2>2. PICK p \in Seq(M) : p = a.reads
      BY <2>1
    <2>3. PICK q \in Seq(M) : q = b.reads
      BY <2>1
    <2>4. PICK pq : pq = Then(p, q)
      OBVIOUS
    <2>5. IsThen(pq, p, q, M)
      BY <2>4, ThenIs
    <2>6. PICK d : d = InOrder(a, b)
      OBVIOUS
    <2>7. d = [reads |-> pq, verdict |-> b.verdict]
      BY <1>6, <2>2, <2>3, <2>4, <2>6, InOrderCases
    <2>8. d \in Outcome(M)
      BY <2>6, InOrderTyped
    <2>9. Expanded(i, d) = [reads |-> FlattenSeq(Fields(i, pq)), verdict |-> b.verdict]
      <3>1. d.reads = pq /\ d.verdict = b.verdict
        BY <2>7
      <3> QED
        BY <2>8, <3>1, ExpandedIs
    <2>10. Fields(i, pq) = Then(Fields(i, p), Fields(i, q))
      <3>1. PICK f : f = Fields(i, p)
        OBVIOUS
      <3>2. PICK g : g = Fields(i, q)
        OBVIOUS
      <3>3. PICK h : h = Fields(i, pq)
        OBVIOUS
      <3>4. PICK S : S = Seq(Attribute)
        OBVIOUS
      <3>5. f \in Seq(S) /\ Len(f) = Len(p) /\ \A k \in 1 .. Len(p) : f[k] = AttrsOf(p[k], i.contents[p[k]])
        BY <3>1, <3>4, FieldsFacts
      <3>6. g \in Seq(S) /\ Len(g) = Len(q) /\ \A k \in 1 .. Len(q) : g[k] = AttrsOf(q[k], i.contents[q[k]])
        BY <3>2, <3>4, FieldsFacts
      <3>7. pq \in Seq(M)
        BY <2>5 DEF IsThen
      <3>8. h \in Seq(S) /\ Len(h) = Len(pq) /\ \A k \in 1 .. Len(pq) : h[k] = AttrsOf(pq[k], i.contents[pq[k]])
        BY <3>3, <3>4, <3>7, FieldsFacts
      <3>9. PICK fg : fg = Then(f, g)
        OBVIOUS
      <3>10. IsThen(fg, f, g, S)
        BY <3>5, <3>6, <3>9, ThenIs
      <3>11. PICK n \in Nat : n = Len(p)
        BY <2>5 DEF IsThen
      <3>12. PICK m \in Nat : m = Len(q)
        BY <2>5 DEF IsThen
      <3>13. Len(h) = n + m /\ Len(fg) = n + m /\ fg \in Seq(S)
        BY <2>5, <3>5, <3>6, <3>8, <3>10, <3>11, <3>12 DEF IsThen
      <3>14. \A k \in 1 .. n : pq[k] = p[k] /\ fg[k] = f[k]
        BY <2>5, <3>5, <3>10, <3>11 DEF IsThen
      <3>15. \A k \in 1 .. m : pq[n + k] = q[k] /\ fg[n + k] = g[k]
        BY <2>5, <3>5, <3>6, <3>10, <3>11, <3>12 DEF IsThen
      <3>16. \A k \in 1 .. n : h[k] = fg[k]
        <4>1. \A k \in 1 .. n : k \in 1 .. Len(pq)
          BY <2>5, <3>11, <3>12 DEF IsThen
        <4> QED
          BY <3>5, <3>8, <3>11, <3>14, <4>1
      <3>17. \A k \in 1 .. m : h[n + k] = fg[n + k]
        <4>1. \A k \in 1 .. m : n + k \in 1 .. Len(pq)
          BY <2>5, <3>11, <3>12 DEF IsThen
        <4> QED
          BY <3>6, <3>8, <3>12, <3>15, <4>1
      <3>18. \A k \in 1 .. n + m : h[k] = fg[k]
        <4> SUFFICES ASSUME NEW k \in 1 .. n + m PROVE h[k] = fg[k]
          OBVIOUS
        <4>1. CASE k \in 1 .. n
          BY <3>16, <4>1
        <4>2. CASE k \notin 1 .. n
          <5>1. k - n \in 1 .. m /\ n + (k - n) = k
            BY <4>2, SecondPart
          <5>2. h[n + (k - n)] = fg[n + (k - n)]
            BY <3>17, <5>1
          <5> QED
            BY <5>1, <5>2
        <4> QED
          BY <4>1, <4>2
      <3>19. h = fg
        BY <3>8, <3>13, <3>18
      <3> QED
        BY <3>1, <3>2, <3>3, <3>9, <3>19
    <2>11. FlattenSeq(Fields(i, pq)) = Then(FlattenSeq(Fields(i, p)), FlattenSeq(Fields(i, q)))
      <3>1. Fields(i, p) \in Seq(Seq(Attribute)) /\ Fields(i, q) \in Seq(Seq(Attribute))
        BY FieldsFacts
      <3>2. FlattenSeq(Then(Fields(i, p), Fields(i, q))) = Then(FlattenSeq(Fields(i, p)), FlattenSeq(Fields(i, q)))
        BY <3>1, FlattenThen
      <3> QED
        BY <2>10, <3>2
    <2>12. InOrder(x, y) = [reads |-> Then(x.reads, y.reads), verdict |-> y.verdict]
      BY <1>3, <1>6, InOrderCases
    <2> QED
      BY <1>1, <1>2, <1>3, <1>4, <2>2, <2>3, <2>6, <2>9, <2>11, <2>12
  <1> QED
    BY <1>5, <1>6

(* Values w of the renumbered fields stand for the values val of the fields *)
(* of the source.                                                          *)
StandsFor(i, w, val, prog) ==
  \A t \in Tests(Body(prog)) : w[t.attr] \in Representatives(i, t.attr, val[t.attr])

(* Then the new test of w tells what the test of the source tells of *)
(* val.                                                              *)
LEMMA SameTest ==
  ASSUME NEW prog \in ParserPrograms, Collectable(prog), NEW i, Describes(i, prog), Numbered(i, prog),
         NEW t \in Tests(Body(prog)), t.rel # "&", NEW w, NEW val, StandsFor(i, w, val, prog)
  PROVE  Holds(NewTest(i, t), w[t.attr]) <=> Holds(t, val[t.attr])
  <1>1. PICK a : a = t.attr
    OBVIOUS
  <1>2. PICK u : u = NewTest(i, t)
    OBVIOUS
  <1>3. PICK v : v = val[a]
    OBVIOUS
  <1>4. PICK x : x = w[a]
    OBVIOUS
  <1>5. /\ WellFormedTest(prog, t) /\ a \in Attributes(prog) /\ Kind(prog, a) # "NotCompared"
        /\ i.kind[a] = Kind(prog, a)
    BY <1>1, CollectedTests DEF Describes
  <1>6. t.rel \in {"==", "!="} /\ u.rel = t.rel /\ u.mask = t.mask
    BY <1>2, <1>5, NewTestFacts DEF WellFormedTest
  <1>7. PICK new : new = i.new_constant[a]
    OBVIOUS
  <1>8. /\ DOMAIN new = ExactConstants(prog, a)
        /\ \A c, d \in DOMAIN new : new[c] = new[d] => c = d
        /\ Kind(prog, a) = "Ternary" => \A c \in DOMAIN new : new[c] = c
    BY <1>5, <1>7 DEF Numbered
  <1>9. x \in Representatives(i, a, v)
    BY <1>1, <1>3, <1>4 DEF StandsFor
  <1>10. Kind(prog, a) \in {"Exact", "Ternary"}
    BY <1>5 DEF Kind
  <1>11. Kind(prog, a) = "Exact" => t.mask = NoMask
    <2> DEFINE masks == {r.mask : r \in {q \in Tests(Body(prog)) : q.attr = a}}
    <2>1. t.mask \in masks
      BY <1>1
    <2>2. Kind(prog, a) = "Exact" => masks = {NoMask}
      BY DEF Kind
    <2> QED
      BY <2>1, <2>2
  <1>12. (Masked(x, t.mask) = u.value) <=> (Masked(v, t.mask) = t.value)
    <2>1. CASE t.mask # NoMask
      <3>1. u.value = t.value
        BY <1>2, <2>1, NewTestFacts
      <3>2. x = v
        BY <1>5, <1>9, <1>10, <1>11, <2>1 DEF Representatives
      <3> QED
        BY <3>1, <3>2
    <2>2. CASE t.mask = NoMask
      <3>1. t.value \in DOMAIN new /\ u.value = new[t.value]
        BY <1>1, <1>2, <1>7, <2>2, NewTestFacts
      <3>2. CASE Kind(prog, a) = "Ternary"
        <4>1. x = v
          BY <1>5, <1>9, <3>2 DEF Representatives
        <4> QED
          BY <1>8, <3>1, <3>2, <4>1
      <3>3. CASE Kind(prog, a) = "Exact" /\ v \in DOMAIN new
        <4>1. x = new[v]
          BY <1>5, <1>7, <1>9, <3>3 DEF Representatives
        <4> QED
          BY <1>8, <2>2, <3>1, <3>3, <4>1 DEF Masked
      <3>4. CASE Kind(prog, a) = "Exact" /\ v \notin DOMAIN new
        <4>1. x \notin {new[c] : c \in DOMAIN new}
          BY <1>5, <1>7, <1>9, <3>4 DEF Representatives
        <4> QED
          BY <2>2, <3>1, <3>4, <4>1 DEF Masked
      <3> QED
        BY <1>10, <3>2, <3>3, <3>4
    <2> QED
      BY <2>1, <2>2
  <1>13. Holds(u, x) <=> Holds(t, v)
    <2>1. CASE t.rel = "=="
      BY <1>6, <1>12, <2>1 DEF Holds
    <2>2. CASE t.rel = "!="
      BY <1>6, <1>12, <2>2 DEF Holds
    <2> QED
      BY <1>6, <2>1, <2>2
  <1> QED
    BY <1>1, <1>2, <1>3, <1>4, <1>13

(* A sequence of extractions.                                              *)
LEMMA ExtractionsMean ==
  ASSUME NEW q, NEW n \in Nat, NEW attrs \in Seq(Attribute), Len(attrs) = n, Len(q) = n,
         \A k \in 1 .. n : q[k] = Reads(attrs[k])
  PROVE  AllInOrder(q) = [reads |-> attrs, verdict |-> "none"]
  <1>1. PICK o : Orders(o, q) /\ AllInOrder(q) = o[n]
    BY OrderExists
  <1>2. o[0] = DoesNothing /\ \A k \in 1 .. n : o[k] = InOrder(o[k - 1], q[k])
    BY <1>1, OrdersFacts
  <1> DEFINE Prefix(k) == [j \in 1 .. k |-> attrs[j]]
             Good == {k \in Nat : k \in 0 .. n => o[k] = [reads |-> Prefix(k), verdict |-> "none"]}
  <1>3. 0 \in Good
    <2>1. Prefix(0) = <<>>
      OBVIOUS
    <2> HIDE DEF Prefix
    <2> QED
      BY <1>2, <2>1 DEF DoesNothing
  <1>4. ASSUME NEW k \in Nat, k \in Good PROVE k + 1 \in Good
    <2> SUFFICES ASSUME k + 1 \in 0 .. n PROVE o[k + 1] = [reads |-> Prefix(k + 1), verdict |-> "none"]
      OBVIOUS
    <2>1. k \in 0 .. n /\ k + 1 \in 1 .. n /\ (k + 1) - 1 = k
      OBVIOUS
    <2>2. PICK a : a = attrs[k + 1]
      OBVIOUS
    <2>3. a \in Attribute
      BY <2>1, <2>2
    <2>4. PICK r : r = Reads(a)
      OBVIOUS
    <2>5. r.reads = <<a>> /\ r.verdict = "none"
      BY <2>4 DEF Reads
    <2>6. o[k + 1] = InOrder(o[k], r)
      BY <1>2, <2>1, <2>2, <2>4
    <2>7. o[k] = [reads |-> Prefix(k), verdict |-> "none"]
      BY <1>4, <2>1
    <2>8. PICK p : p = Prefix(k)
      OBVIOUS
    <2>9. o[k].reads = p /\ o[k].verdict = "none"
      BY <2>7, <2>8
    <2>10. o[k + 1] = [reads |-> Then(p, <<a>>), verdict |-> "none"]
      BY <2>5, <2>6, <2>9, InOrderCases
    <2>11. Then(p, <<a>>) = Prefix(k + 1)
      <3>1. PICK one \in Seq(Attribute) : one = <<a>>
        <4>1. <<a>> \in Seq(Attribute)
          BY <2>3
        <4> QED
          BY <4>1
      <3>2. Len(one) = 1 /\ one[1] = a
        BY <3>1
      <3>3. p \in Seq(Attribute) /\ Len(p) = k /\ \A j \in 1 .. k : p[j] = attrs[j]
        BY <2>1, <2>8
      <3>4. IsThen(Then(p, one), p, one, Attribute)
        BY <3>3, ThenIs
      <3>5. PICK c : c = Then(p, one)
        OBVIOUS
      <3>6. /\ c \in Seq(Attribute) /\ Len(c) = k + 1
            /\ \A j \in 1 .. k : c[j] = attrs[j]
            /\ c[k + 1] = a
        <4>1. c \in Seq(Attribute) /\ Len(c) = k + 1
          BY <3>2, <3>3, <3>4, <3>5 DEF IsThen
        <4>2. \A j \in 1 .. k : c[j] = attrs[j]
          BY <3>3, <3>4, <3>5 DEF IsThen
        <4>3. \A j \in 1 .. 1 : c[k + j] = one[j]
          BY <3>2, <3>3, <3>4, <3>5 DEF IsThen
        <4>4. 1 \in 1 .. 1
          OBVIOUS
        <4> QED
          BY <3>2, <4>1, <4>2, <4>3, <4>4
      <3>7. c = [j \in 1 .. k + 1 |-> c[j]]
        BY <3>6
      <3>8. \A j \in 1 .. k + 1 : c[j] = attrs[j]
        BY <2>2, <3>6
      <3> QED
        BY <3>1, <3>5, <3>7, <3>8
    <2> QED
      BY <2>10, <2>11
  <1> HIDE DEF Good
  <1>5. Nat \subseteq Good
    BY <1>3, <1>4, Counting
  <1>6. o[n] = [reads |-> Prefix(n), verdict |-> "none"]
    BY <1>5 DEF Good
  <1>7. Prefix(n) = attrs
    OBVIOUS
  <1> QED
    BY <1>1, <1>6, <1>7

(* The statements that agree with Info. *)
FineStatement(i) == {e \in Statement : AllFine(i, e)}

(* Emitted statements are such. *)
LEMMA EmittedFineSeq ==
  ASSUME NEW prog \in ParserPrograms, Collectable(prog), NEW i, Describes(i, prog), Numbered(i, prog),
         NEW s \in Statement, OfProgram(prog, s)
  PROVE  Emitted(i, s) \in Seq(FineStatement(i))
  <1>1. PICK q : q = Emitted(i, s)
    OBVIOUS
  <1>2. q \in Seq(Statement)
    BY <1>1, EmittedStatements
  <1>3. \A e \in ToSet(q) : AllFine(i, e)
    BY <1>1, EmittedFine
  <1>4. Len(q) \in Nat /\ DOMAIN q = 1 .. Len(q) /\ \A k \in 1 .. Len(q) : q[k] \in ToSet(q) /\ q[k] \in Statement
    BY <1>2, Elements
  <1>5. \A k \in 1 .. Len(q) : q[k] \in FineStatement(i)
    BY <1>3, <1>4 DEF FineStatement
  <1>6. q = [k \in 1 .. Len(q) |-> q[k]]
    BY <1>2
  <1>7. q \in Seq(FineStatement(i))
    BY <1>4, <1>5, <1>6, MapIsSeq
  <1> QED
    BY <1>1, <1>7

(* They extract attributes. *)
LEMMA FineDoes ==
  ASSUME NEW i, NEW val, NEW e \in FineStatement(i)
  PROVE  Does(e, val) \in Outcome(Attribute)
  BY EmittedDoesTyped DEF FineStatement

(* So do sequences of them. *)
LEMMA DoesOfFine ==
  ASSUME NEW i, NEW val, NEW es \in Seq(FineStatement(i))
  PROVE  /\ DoesOf(es, val) \in Seq(Outcome(Attribute)) /\ Len(DoesOf(es, val)) = Len(es) /\ Len(es) \in Nat
         /\ \A k \in 1 .. Len(es) : DoesOf(es, val)[k] = Does(es[k], val)
  <1>1. PICK S : S = FineStatement(i)
    OBVIOUS
  <1>2. PICK R : R = Outcome(Attribute)
    OBVIOUS
  <1>3. es \in Seq(S)
    BY <1>1
  <1>4. \A k \in 1 .. Len(es) : es[k] \in S
    BY <1>3, Elements
  <1>5. \A k \in 1 .. Len(es) : Does(es[k], val) \in R
    BY <1>1, <1>2, <1>4, FineDoes
  <1>6. /\ DoesOf(es, val) \in Seq(R) /\ Len(DoesOf(es, val)) = Len(es)
        /\ \A k \in 1 .. Len(es) : DoesOf(es, val)[k] = Does(es[k], val)
    <2>1. DoesOf(es, val) \in Seq(R)
      BY <1>3, <1>5, DoesOfFacts
    <2>2. Len(DoesOf(es, val)) = Len(es)
      BY <1>3 DEF DoesOf
    <2>3. \A k \in 1 .. Len(es) : DoesOf(es, val)[k] = Does(es[k], val)
      BY <1>3 DEF DoesOf
    <2> QED
      BY <2>1, <2>2, <2>3
  <1>7. Len(es) \in Nat
    BY <1>3
  <1>8. DoesOf(es, val) \in Seq(Outcome(Attribute))
    BY <1>2, <1>6
  <1> QED
    BY <1>6, <1>7, <1>8

(* What two sequences do is what they do, one behind the other. *)
LEMMA DoesOfThen ==
  ASSUME NEW i, NEW val, NEW a \in Seq(FineStatement(i)), NEW b \in Seq(FineStatement(i))
  PROVE  DoesOf(Then(a, b), val) = Then(DoesOf(a, val), DoesOf(b, val))
  <1>1. PICK S : S = FineStatement(i)
    OBVIOUS
  <1>2. PICK R : R = Outcome(Attribute)
    OBVIOUS
  <1>3. PICK c : c = Then(a, b)
    OBVIOUS
  <1>4. IsThen(c, a, b, S)
    BY <1>1, <1>3, ThenIs
  <1>5. PICK f : f = DoesOf(a, val)
    OBVIOUS
  <1>6. PICK g : g = DoesOf(b, val)
    OBVIOUS
  <1>7. PICK h : h = DoesOf(c, val)
    OBVIOUS
  <1>8. f \in Seq(R) /\ Len(f) = Len(a) /\ \A k \in 1 .. Len(a) : f[k] = Does(a[k], val)
    BY <1>2, <1>5, DoesOfFine
  <1>9. g \in Seq(R) /\ Len(g) = Len(b) /\ \A k \in 1 .. Len(b) : g[k] = Does(b[k], val)
    BY <1>2, <1>6, DoesOfFine
  <1>10. c \in Seq(FineStatement(i))
    BY <1>1, <1>4 DEF IsThen
  <1>11. h \in Seq(R) /\ Len(h) = Len(c) /\ \A k \in 1 .. Len(c) : h[k] = Does(c[k], val)
    BY <1>2, <1>7, <1>10, DoesOfFine
  <1>12. PICK fg : fg = Then(f, g)
    OBVIOUS
  <1>13. IsThen(fg, f, g, R)
    BY <1>8, <1>9, <1>12, ThenIs
  <1>14. PICK n \in Nat : n = Len(a)
    BY <1>4 DEF IsThen
  <1>15. PICK m \in Nat : m = Len(b)
    BY <1>4 DEF IsThen
  <1>16. Len(h) = n + m /\ Len(fg) = n + m /\ fg \in Seq(R) /\ Len(c) = n + m
    BY <1>4, <1>8, <1>9, <1>11, <1>13, <1>14, <1>15 DEF IsThen
  <1>17. \A k \in 1 .. n : c[k] = a[k] /\ fg[k] = f[k]
    BY <1>4, <1>8, <1>13, <1>14 DEF IsThen
  <1>18. \A k \in 1 .. m : c[n + k] = b[k] /\ fg[n + k] = g[k]
    BY <1>4, <1>8, <1>9, <1>13, <1>14, <1>15 DEF IsThen
  <1>19. \A k \in 1 .. n : h[k] = fg[k]
    <2>1. \A k \in 1 .. n : k \in 1 .. n + m
      OBVIOUS
    <2> QED
      BY <1>8, <1>11, <1>14, <1>16, <1>17, <2>1
  <1>20. \A k \in 1 .. m : h[n + k] = fg[n + k]
    <2>1. \A k \in 1 .. m : n + k \in 1 .. n + m
      OBVIOUS
    <2> QED
      BY <1>9, <1>11, <1>15, <1>16, <1>18, <2>1
  <1>21. \A k \in 1 .. n + m : h[k] = fg[k]
    <2> SUFFICES ASSUME NEW k \in 1 .. n + m PROVE h[k] = fg[k]
      OBVIOUS
    <2>1. CASE k \in 1 .. n
      BY <1>19, <2>1
    <2>2. CASE k \notin 1 .. n
      <3>1. k - n \in 1 .. m /\ n + (k - n) = k
        BY <2>2, SecondPart
      <3>2. h[n + (k - n)] = fg[n + (k - n)]
        BY <1>20, <3>1
      <3> QED
        BY <3>1, <3>2
    <2> QED
      BY <2>1, <2>2
  <1>22. h = fg
    BY <1>11, <1>16, <1>21
  <1> QED
    BY <1>3, <1>5, <1>6, <1>7, <1>12, <1>22

(* A single statement. *)
LEMMA DoesOfOne ==
  ASSUME NEW i, NEW val, NEW e \in FineStatement(i), NEW one, one = <<e>>
  PROVE  AllInOrder(DoesOf(one, val)) = Does(e, val)
  <1>1. Does(e, val) \in Outcome(Attribute)
    BY FineDoes
  <1>2. PICK d : d = DoesOf(one, val)
    OBVIOUS
  <1>3. d = [k \in DOMAIN one |-> Does(one[k], val)]
    BY <1>2 DEF DoesOf
  <1>4. d = <<Does(e, val)>>
    BY <1>3
  <1> QED
    BY <1>1, <1>2, <1>4, OrderOne

(* The parts of a block, one behind the other. *)
LEMMA PartsMean ==
  ASSUME NEW i, NEW w, NEW M, HasContents(i, M), NEW n \in Nat,
         NEW parts \in Seq(Seq(FineStatement(i))), Len(parts) = n,
         NEW does \in Seq(Outcome(M)), Len(does) = n,
         \A k \in 1 .. n : AllInOrder(DoesOf(parts[k], w)) = Expanded(i, does[k])
  PROVE  AllInOrder(DoesOf(FlattenSeq(parts), w)) = Expanded(i, AllInOrder(does))
  <1>0. PICK S : S = FineStatement(i)
    OBVIOUS
  <1>1. parts \in Seq(Seq(S))
    BY <1>0
  <1>2. PICK p : Flattens(p, parts) /\ FlattenSeq(parts) = p[n]
    BY <1>1, FlattenExists
  <1>3. PICK o : Orders(o, does) /\ AllInOrder(does) = o[n]
    BY OrderExists
  <1>4. p[0] = <<>> /\ \A k \in 1 .. n : p[k] = Then(p[k - 1], parts[k])
    BY <1>2 DEF Flattens
  <1>5. o[0] = DoesNothing /\ \A k \in 1 .. n : o[k] = InOrder(o[k - 1], does[k])
    BY <1>3, OrdersFacts
  <1>6. \A k \in 0 .. n : p[k] \in Seq(S)
    <2>1. p \in [0 .. n -> Seq(S)]
      BY <1>1, <1>2, FlattensTyped
    <2> QED
      BY <2>1
  <1>7. \A k \in 0 .. n : o[k] \in Outcome(M)
    BY <1>3, OrdersTyped
  <1>8. \A k \in 1 .. n : parts[k] \in Seq(S) /\ does[k] \in Outcome(M)
    <2>1. PICK O : O = Outcome(M)
      OBVIOUS
    <2>2. PICK T : T = Seq(S)
      OBVIOUS
    <2>3. parts \in Seq(T) /\ does \in Seq(O)
      BY <1>1, <2>1, <2>2
    <2>4. \A k \in 1 .. n : parts[k] \in T
      BY <2>3, Elements
    <2>5. \A k \in 1 .. n : does[k] \in O
      BY <2>3, Elements
    <2> QED
      BY <2>1, <2>2, <2>4, <2>5
  <1> DEFINE Good == {k \in Nat : k \in 0 .. n => AllInOrder(DoesOf(p[k], w)) = Expanded(i, o[k])}
  <1>9. 0 \in Good
    <2>1. PICK empty : empty = DoesOf(p[0], w)
      OBVIOUS
    <2>2. empty = [k \in DOMAIN p[0] |-> Does(p[0][k], w)]
      BY <2>1 DEF DoesOf
    <2>3. empty = <<>>
      BY <1>4, <2>2
    <2>4. Len(empty) = 0
      BY <2>3
    <2>4a. Len(empty) \in Nat
      BY <2>4
    <2>4b. PICK q : Orders(q, empty) /\ AllInOrder(empty) = q[Len(empty)]
      BY <2>4a, OrderExists
    <2>5. Orders(q, empty) /\ AllInOrder(empty) = q[0]
      BY <2>4, <2>4b
    <2>6. q[0] = DoesNothing
      BY <2>4a, <2>5, OrdersFacts
    <2> QED
      BY <1>5, <2>1, <2>5, <2>6, ExpandedNothing
  <1>10. ASSUME NEW k \in Nat, k \in Good PROVE k + 1 \in Good
    <2> SUFFICES ASSUME k + 1 \in 0 .. n PROVE AllInOrder(DoesOf(p[k + 1], w)) = Expanded(i, o[k + 1])
      OBVIOUS
    <2>1. k \in 0 .. n /\ k + 1 \in 1 .. n /\ (k + 1) - 1 = k
      OBVIOUS
    <2>2. PICK a : a = p[k]
      OBVIOUS
    <2>3. PICK b : b = parts[k + 1]
      OBVIOUS
    <2>4. p[k + 1] = Then(a, b) /\ a \in Seq(S) /\ b \in Seq(S)
      BY <1>4, <1>6, <1>8, <2>1, <2>2, <2>3
    <2>5. DoesOf(Then(a, b), w) = Then(DoesOf(a, w), DoesOf(b, w))
      BY <1>0, <2>4, DoesOfThen
    <2>6. PICK x : x = DoesOf(a, w)
      OBVIOUS
    <2>7. PICK y : y = DoesOf(b, w)
      OBVIOUS
    <2>8. x \in Seq(Outcome(Attribute)) /\ y \in Seq(Outcome(Attribute))
      BY <1>0, <2>4, <2>6, <2>7, DoesOfFine
    <2>9. AllInOrder(Then(x, y)) = InOrder(AllInOrder(x), AllInOrder(y))
      BY <2>8, OrderThen
    <2>10. AllInOrder(x) = Expanded(i, o[k])
      BY <1>10, <2>1, <2>2, <2>6
    <2>11. AllInOrder(y) = Expanded(i, does[k + 1])
      BY <2>1, <2>3, <2>7
    <2>12. o[k + 1] = InOrder(o[k], does[k + 1])
      BY <1>5, <2>1
    <2>13. o[k] \in Outcome(M) /\ does[k + 1] \in Outcome(M)
      BY <1>7, <1>8, <2>1
    <2>14. Expanded(i, InOrder(o[k], does[k + 1])) = InOrder(Expanded(i, o[k]), Expanded(i, does[k + 1]))
      BY <2>13, ExpandedInOrder
    <2> QED
      BY <2>4, <2>5, <2>6, <2>7, <2>9, <2>10, <2>11, <2>12, <2>14
  <1> HIDE DEF Good
  <1>11. Nat \subseteq Good
    BY <1>9, <1>10, Counting
  <1>12. AllInOrder(DoesOf(p[n], w)) = Expanded(i, o[n])
    <2>1. n \in 0 .. n
      OBVIOUS
    <2> QED
      BY <1>11, <2>1 DEF Good
  <1> QED
    BY <1>2, <1>3, <1>12

(* What IRGen emits for a part of the source does what that part does, its *)
(* fields expanded.                                                        *)
LEMMA EmittedMeans ==
  ASSUME NEW prog \in ParserPrograms, Collectable(prog), NEW i, Describes(i, prog), Numbered(i, prog),
         NEW val, NEW w, StandsFor(i, w, val, prog)
  PROVE  \A s \in Statement : OfProgram(prog, s) /\ Regular(i, s) =>
           AllInOrder(DoesOf(Emitted(i, s), w)) = Expanded(i, Does(s, val))
  <1> DEFINE Right(s) == AllInOrder(DoesOf(Emitted(i, s), w)) = Expanded(i, Does(s, val))
             Good == {s \in Statement : OfProgram(prog, s) /\ Regular(i, s) => Right(s)}
  <1>0. PICK M : M = Names(Members(prog))
    OBVIOUS
  <1>00. HasContents(i, M)
    BY <1>0, OwnContents
  <1>1. ASSUME NEW s \in Statement, Children(s) \subseteq Statement, Children(s) \subseteq Good
        PROVE  s \in Good
    <2> SUFFICES ASSUME OfProgram(prog, s), Regular(i, s) PROVE Right(s)
      OBVIOUS
    <2>1. \A x \in Children(s) : x \in Statement /\ OfProgram(prog, x) /\ Regular(i, x) /\ Right(x)
      <3> HIDE DEF Right
      <3> QED
        BY <1>1, OfProgramFacts, RegularFacts
    <2>2. Does(s, val) \in Outcome(M)
      BY <1>0, SourceDoesTyped
    <2>3. PICK es : es = Emitted(i, s)
      OBVIOUS
    <2>4. es \in Seq(FineStatement(i))
      BY <2>3, EmittedFineSeq
    <2>5. CASE s.op = "extract"
      <3>1. PICK m \in M : m = s.member
        BY <1>0, <2>5, OfProgramFacts
      <3>2. es = Extractions(i, m)
        BY <2>3, <2>5, <3>1, EmittedCases
      <3>3. PICK fields : fields = i.contents[m]
        OBVIOUS
      <3>4. PICK n : n = Len(fields)
        OBVIOUS
      <3>5. /\ Len(es) = n
            /\ \A k \in 1 .. n : es[k].op = "extract_field" /\ es[k].attr = <<m, fields[k]>>
        <4>1. AreExtractions(es, i, m)
          BY <1>0, <3>2, ExtractionsFacts
        <4> QED
          BY <3>3, <3>4, <4>1 DEF AreExtractions
      <3>6. PICK attrs : attrs = AttrsOf(m, fields)
        OBVIOUS
      <3>7. attrs \in Seq(Attribute)
        BY <1>00, <3>3, <3>6 DEF HasContents
      <3>8. fields \in Seq(STRING) /\ DOMAIN fields = 1 .. n /\ n \in Nat
        <4>1. fields \in Seq(STRING)
          BY <1>0, <3>3 DEF Describes
        <4> QED
          BY <3>4, <4>1
      <3>9. attrs = [k \in 1 .. n |-> <<m, fields[k]>>]
        BY <3>6, <3>8 DEF AttrsOf
      <3>10. Len(attrs) = n /\ \A k \in 1 .. n : attrs[k] = <<m, fields[k]>>
        BY <3>8, <3>9
      <3>11. PICK q : q = DoesOf(es, w)
        OBVIOUS
      <3>12. Len(q) = n /\ \A k \in 1 .. n : q[k] = Does(es[k], w)
        BY <2>4, <3>5, <3>11, DoesOfFine
      <3>13. \A k \in 1 .. n : es[k] \in Statement
        <4>1. es \in Seq(Statement)
          BY <2>3, EmittedStatements
        <4> QED
          BY <3>5, <4>1, Elements
      <3>14. \A k \in 1 .. n : q[k] = Reads(attrs[k])
        <4> SUFFICES ASSUME NEW k \in 1 .. n PROVE q[k] = Reads(attrs[k])
          OBVIOUS
        <4>1. PICK e : e = es[k]
          OBVIOUS
        <4>2. e \in Statement /\ e.op = "extract_field" /\ e.attr = attrs[k] /\ q[k] = Does(e, w)
          BY <3>5, <3>10, <3>12, <3>13, <4>1
        <4>3. Does(e, w) = Reads(e.attr)
          BY <4>2, DoesCases
        <4> QED
          BY <4>2, <4>3
      <3>15. AllInOrder(q) = [reads |-> attrs, verdict |-> "none"]
        BY <3>7, <3>8, <3>10, <3>12, <3>14, ExtractionsMean
      <3>16. PICK d : d = Does(s, val)
        OBVIOUS
      <3>17. d = Reads(m)
        BY <2>5, <3>1, <3>16, DoesCases
      <3>18. d \in Outcome(M) /\ d.reads = <<m>> /\ d.verdict = "none"
        BY <3>17, ReadsTyped
      <3>19. Expanded(i, d) = [reads |-> FlattenSeq(Fields(i, d.reads)), verdict |-> "none"]
        BY <1>00, <3>18, ExpandedIs
      <3>20. PICK f : f = Fields(i, d.reads)
        OBVIOUS
      <3>21. PICK one : one = d.reads
        OBVIOUS
      <3>22. DOMAIN one = {1} /\ one[1] = m
        BY <3>18, <3>21
      <3>23. f = [k \in DOMAIN one |-> AttrsOf(one[k], i.contents[one[k]])]
        BY <3>20, <3>21 DEF Fields
      <3>24. f = <<attrs>>
        BY <3>3, <3>6, <3>22, <3>23
      <3>25. FlattenSeq(f) = attrs
        BY <3>7, <3>24, FlattenOne
      <3> QED
        BY <2>3, <3>11, <3>15, <3>16, <3>19, <3>20, <3>25
    <2>6. CASE s.op \in {"return", "none"}
      <3>1. es = <<s>>
        BY <2>3, <2>6, EmittedCases
      <3>2. s \in ToSet(es)
        BY <3>1 DEF ToSet
      <3>3. s \in FineStatement(i)
        BY <2>4, <3>2, Elements
      <3>4. AllInOrder(DoesOf(es, w)) = Does(s, w)
        BY <3>1, <3>3, DoesOfOne
      <3>5. CASE s.op = "none"
        <4>1. Does(s, w) = DoesNothing /\ Does(s, val) = DoesNothing
          BY <3>5, DoesCases
        <4> QED
          BY <2>3, <3>4, <4>1, ExpandedNothing
      <3>6. CASE s.op = "return"
        <4>1. PICK d : d = Returns(s.verdict)
          OBVIOUS
        <4>2. Does(s, w) = d /\ Does(s, val) = d
          BY <3>6, <4>1, DoesCases
        <4>3. d.reads = <<>> /\ d = [reads |-> <<>>, verdict |-> d.verdict] /\ d \in Outcome(M)
          BY <2>2, <4>1, <4>2 DEF Returns
        <4>4. Expanded(i, d) = [reads |-> FlattenSeq(Fields(i, d.reads)), verdict |-> d.verdict]
          BY <1>00, <4>3, ExpandedIs
        <4>5. PICK f : f = Fields(i, d.reads)
          OBVIOUS
        <4>6. f = <<>>
          BY <4>3, <4>5 DEF Fields
        <4>7. FlattenSeq(f) = <<>>
          BY <4>6 DEF FlattenSeq
        <4> QED
          BY <2>3, <3>4, <4>2, <4>3, <4>4, <4>5, <4>7
      <3> QED
        BY <2>6, <3>5, <3>6
    <2>7. CASE s.op = "block"
      <3>1. /\ s.body \in Seq(Statement) /\ DOMAIN s.body = 1 .. Len(s.body) /\ Len(s.body) \in Nat
            /\ \A k \in 1 .. Len(s.body) : s.body[k] \in Children(s)
        BY <2>7, OfProgramFacts
      <3>2. PICK parts : parts = EmittedParts(i, s)
        OBVIOUS
      <3>3. PICK inner : inner = FlattenSeq(parts)
        OBVIOUS
      <3>4. PICK b : b = Block(inner)
        OBVIOUS
      <3>5. es = <<b>>
        BY <2>3, <2>7, <3>2, <3>3, <3>4, EmittedCases
      <3>6. b \in FineStatement(i)
        <4>1. b \in ToSet(es)
          BY <3>5 DEF ToSet
        <4> QED
          BY <2>4, <4>1, Elements
      <3>7. AllInOrder(DoesOf(es, w)) = Does(b, w)
        BY <3>5, <3>6, DoesOfOne
      <3>8. b.op = "block" /\ b.body = inner /\ b \in Statement
        BY <3>4, <3>6 DEF Block, FineStatement
      <3>9. Does(b, w) = AllInOrder(DoesOf(inner, w))
        BY <3>8, DoesCases
      <3>10. PICK n \in Nat : n = Len(s.body)
        BY <3>1
      <3>11. parts = [k \in 1 .. n |-> Emitted(i, s.body[k])]
        BY <3>1, <3>2, <3>10 DEF EmittedParts
      <3>12. \A k \in 1 .. n : parts[k] = Emitted(i, s.body[k])
        BY <3>11
      <3>13. parts \in Seq(Seq(FineStatement(i))) /\ Len(parts) = n
        <4>1. PICK S : S = Seq(FineStatement(i))
          OBVIOUS
        <4>2. \A k \in 1 .. n : parts[k] \in S
          BY <2>1, <3>1, <3>10, <3>12, <4>1, EmittedFineSeq
        <4>3. parts = [k \in 1 .. n |-> parts[k]]
          BY <3>11
        <4>4. parts \in Seq(S) /\ Len(parts) = n
          BY <4>2, <4>3, MapIsSeq
        <4> QED
          BY <4>1, <4>4
      <3>14. PICK does : does = DoesOf(s.body, val)
        OBVIOUS
      <3>15. /\ does \in Seq(Outcome(M)) /\ Len(does) = n
             /\ \A k \in 1 .. n : does[k] = Does(s.body[k], val)
        <4>1. PICK R : R = Outcome(M)
          OBVIOUS
        <4>2. \A k \in 1 .. Len(s.body) : Does(s.body[k], val) \in R
          BY <1>0, <2>1, <3>1, <4>1, SourceDoesTyped
        <4>3. PICK body : body = s.body
          OBVIOUS
        <4>4. body \in Seq(Statement) /\ \A k \in 1 .. Len(body) : Does(body[k], val) \in R
          BY <3>1, <4>2, <4>3
        <4>5. /\ DoesOf(body, val) \in Seq(R) /\ Len(DoesOf(body, val)) = Len(body)
              /\ \A k \in 1 .. Len(body) : DoesOf(body, val)[k] = Does(body[k], val)
          BY <4>4, DoesOfFacts
        <4> QED
          BY <3>10, <3>14, <4>1, <4>3, <4>5
      <3>16. \A k \in 1 .. n : AllInOrder(DoesOf(parts[k], w)) = Expanded(i, does[k])
        BY <2>1, <3>1, <3>10, <3>12, <3>15
      <3>17. AllInOrder(DoesOf(FlattenSeq(parts), w)) = Expanded(i, AllInOrder(does))
        BY <1>00, <3>13, <3>15, <3>16, PartsMean
      <3>18. Does(s, val) = AllInOrder(does)
        BY <2>7, <3>14, DoesCases
      <3> QED
        BY <2>3, <3>3, <3>7, <3>9, <3>17, <3>18
    <2>8. CASE s.op = "if"
      <3>1. s.test \in Tests(Body(prog)) /\ s.then \in Children(s) /\ s.else \in Children(s)
        BY <2>8, OfProgramFacts
      <3>2. PICK then : then = Emitted(i, s.then)
        OBVIOUS
      <3>3. PICK else : else = Emitted(i, s.else)
        OBVIOUS
      <3>4. PICK test : test = NewTest(i, s.test)
        OBVIOUS
      <3>5. then \in Seq(FineStatement(i)) /\ else \in Seq(FineStatement(i))
        BY <2>1, <3>1, <3>2, <3>3, EmittedFineSeq
      <3>6. Len(then) = 1 /\ Len(else) = 1 /\ s.test.rel # "&"
        BY <2>8, <3>2, <3>3, RegularFacts
      <3>7. PICK t : t = then[1]
        OBVIOUS
      <3>8. PICK e : e = else[1]
        OBVIOUS
      <3>9. PICK S : S = FineStatement(i)
        OBVIOUS
      <3>10. then = <<t>> /\ t \in S
        BY <3>5, <3>6, <3>7, <3>9
      <3>11. else = <<e>> /\ e \in S
        BY <3>5, <3>6, <3>8, <3>9
      <3>12. PICK x : x = Whole(test, then, else)
        OBVIOUS
      <3>13. es = <<x>>
        <4>1. Branching(test, then, else) = <<Whole(test, then, else)>>
          BY <3>5, <3>6, BranchingWhole
        <4> QED
          BY <2>3, <2>8, <3>2, <3>3, <3>4, <3>12, <4>1, EmittedCases
      <3>14. x.op = "if" /\ x.test = test /\ x.then = t /\ x.else = e
        <4>1. Head(then) = t /\ Head(else) = e
          BY <3>10, <3>11
        <4> QED
          BY <3>12, <4>1 DEF Whole
      <3>15. x \in FineStatement(i)
        <4>1. x \in ToSet(es)
          BY <3>13 DEF ToSet
        <4> QED
          BY <2>4, <4>1, Elements
      <3>16. AllInOrder(DoesOf(es, w)) = Does(x, w)
        BY <3>13, <3>15, DoesOfOne
      <3>17. x \in Statement
        BY <3>15 DEF FineStatement
      <3>18. Does(x, w) = Does(IF Holds(test, w[test.attr]) THEN t ELSE e, w)
        BY <3>14, <3>17, DoesCases
      <3>19. Does(s, val) = Does(IF Holds(s.test, val[s.test.attr]) THEN s.then ELSE s.else, val)
        BY <2>8, DoesCases
      <3>20. Holds(test, w[test.attr]) <=> Holds(s.test, val[s.test.attr])
        <4>1. Holds(NewTest(i, s.test), w[s.test.attr]) <=> Holds(s.test, val[s.test.attr])
          BY <3>1, <3>6, SameTest
        <4>2. NewTest(i, s.test).attr = s.test.attr
          BY <3>1, NewTestFacts
        <4> QED
          BY <3>4, <4>1, <4>2
      <3>21. Does(t, w) = Expanded(i, Does(s.then, val))
        <4>1. AllInOrder(DoesOf(then, w)) = Does(t, w)
          BY <3>9, <3>10, DoesOfOne
        <4> QED
          BY <2>1, <3>1, <3>2, <4>1
      <3>22. Does(e, w) = Expanded(i, Does(s.else, val))
        <4>1. AllInOrder(DoesOf(else, w)) = Does(e, w)
          BY <3>9, <3>11, DoesOfOne
        <4> QED
          BY <2>1, <3>1, <3>3, <4>1
      <3>23. CASE Holds(test, w[test.attr])
        BY <2>3, <3>16, <3>18, <3>19, <3>20, <3>21, <3>23
      <3>24. CASE ~Holds(test, w[test.attr])
        BY <2>3, <3>16, <3>18, <3>19, <3>20, <3>22, <3>24
      <3> QED
        BY <3>23, <3>24
    <2>9. s.op \in {"extract", "return", "block", "if", "none"}
      BY OfProgramFacts
    <2> HIDE DEF Right
    <2> QED
      BY <2>5, <2>6, <2>7, <2>8, <2>9
  <1> HIDE DEF Good
  <1>2. Statement \subseteq Good
    BY <1>1, StatementInduction
  <1> QED
    BY <1>2 DEF Good

-----------------------------------------------------------------------------
(* The nodes of a statement somewhere in a graph.                          *)

(* The nodes of r are those behind the first k, and their open ends lead   *)
(* to node target.                                                         *)
Embedded(nodes, r, k, target) ==
  /\ nodes \in Seq(Node) /\ k + Len(r.nodes) <= Len(nodes)
  /\ \A n \in 1 .. Len(r.nodes) :
       nodes[k + n] = [x \in DOMAIN r.nodes[n] |->
                         IF <<n, x>> \in r.ends THEN target
                         ELSE IF x \in Pointers THEN r.nodes[n][x] + k ELSE r.nodes[n][x]]

(* From node n the graph does x, if it may take b steps.                   *)
Yields(nodes, val, n, b, x) == \A j \in b .. Len(nodes) : Paths(nodes, val)[j][n] = x

(* A step of a path, by the kind of its node. *)
LEMMA PathsCases ==
  ASSUME NEW nodes \in Seq(Node), NEW val, NEW j \in 1 .. Len(nodes), NEW n \in 1 .. Len(nodes)
  PROVE  /\ nodes[n].kind = "exit" =>
              Paths(nodes, val)[j][n] = Returns(IF nodes[n].accept THEN "ACCEPT" ELSE "REJECT")
         /\ nodes[n].kind = "extract" =>
              Paths(nodes, val)[j][n] =
                InOrder(Reads(nodes[n].attr), Paths(nodes, val)[j - 1][nodes[n].next])
         /\ nodes[n].kind = "if" =>
              Paths(nodes, val)[j][n] =
                Paths(nodes, val)[j - 1][IF Masked(val[nodes[n].attr], nodes[n].mask) = nodes[n].value
                                         THEN nodes[n].next_true ELSE nodes[n].next_false]
  <1>1. Len(nodes) \in Nat /\ DOMAIN nodes = 1 .. Len(nodes)
    OBVIOUS
  <1>2. PICK p : p = Paths(nodes, val)
    OBVIOUS
  <1>3. p = [k \in 0 .. Len(nodes) |-> PathsStep(p, k, nodes, val)]
    BY <1>1, <1>2, PathsSolves
  <1>4. j \in 0 .. Len(nodes) /\ j # 0
    BY <1>1
  <1>5. p[j] = PathsStep(p, j, nodes, val)
    BY <1>3, <1>4
  <1>6. /\ nodes[n].kind = "exit" => p[j][n] = Returns(IF nodes[n].accept THEN "ACCEPT" ELSE "REJECT")
        /\ nodes[n].kind = "extract" => p[j][n] = InOrder(Reads(nodes[n].attr), p[j - 1][nodes[n].next])
        /\ nodes[n].kind = "if" => p[j][n] = p[j - 1][IF Masked(val[nodes[n].attr], nodes[n].mask) = nodes[n].value
                                                      THEN nodes[n].next_true ELSE nodes[n].next_false]
    BY <1>1, <1>4, <1>5 DEF PathsStep
  <1> QED
    BY <1>2, <1>6

(* The number of nodes of a result. *)
IsSize(n, r) == n = Len(r.nodes)

(* A chain holds both of its parts. *)
LEMMA ChainEmbeds ==
  ASSUME NEW first, NEW second, WellBuilt(first), WellBuilt(second), NEW l \in Nat, IsSize(l, first),
         NEW r, IsChain(r, first, second, l), NEW nodes, NEW k \in Nat, NEW target \in Nat,
         Embedded(nodes, r, k, target)
  PROVE  /\ Embedded(nodes, first, k, (second.start + l) + k)
         /\ Embedded(nodes, second, k + l, target)
  <1>1. PICK m \in Nat : m = Len(second.nodes)
    BY DEF WellBuilt
  <1>2. l \in Nat /\ m \in Nat /\ Len(r.nodes) = l + m /\ second.start \in Nat
    BY <1>1 DEF WellBuilt, IsChain, IsSize
  <1>3. nodes \in Seq(Node) /\ Len(nodes) \in Nat /\ k + (l + m) <= Len(nodes)
    BY <1>2 DEF Embedded, IsSize
  <1>4. \A n \in 1 .. l + m :
          nodes[k + n] = [x \in DOMAIN r.nodes[n] |->
                            IF <<n, x>> \in r.ends THEN target
                            ELSE IF x \in Pointers THEN r.nodes[n][x] + k ELSE r.nodes[n][x]]
    BY <1>2 DEF Embedded, IsSize
  <1>5. PICK ends \in SUBSET ((1 .. m) \X Pointers) : ends = second.ends
    BY <1>1 DEF WellBuilt
  <1>6. r.ends = EndsBehind(l, ends)
    BY <1>5 DEF IsChain
  <1>7. ASSUME NEW n \in 1 .. l
        PROVE  nodes[k + n] = [x \in DOMAIN first.nodes[n] |->
                                 IF <<n, x>> \in first.ends THEN (second.start + l) + k
                                 ELSE IF x \in Pointers THEN first.nodes[n][x] + k ELSE first.nodes[n][x]]
    <2>1. n \in 1 .. l + m
      BY <1>2
    <2>2. PICK v : v = r.nodes[n]
      OBVIOUS
    <2>3. v = [x \in DOMAIN first.nodes[n] |->
                 IF <<n, x>> \in first.ends THEN second.start + l ELSE first.nodes[n][x]]
      BY <2>2 DEF IsChain
    <2>4. \A x : <<n, x>> \notin r.ends
      <3>1. r.ends \subseteq (l + 1 .. l + m) \X Pointers
        BY <1>2, <1>5, <1>6, EndsBehindFacts
      <3>2. n \notin l + 1 .. l + m
        BY <1>2
      <3> QED
        BY <3>1, <3>2
    <2>5. nodes[k + n] = [x \in DOMAIN v |-> IF x \in Pointers THEN v[x] + k ELSE v[x]]
      BY <1>4, <2>1, <2>2, <2>4
    <2>6. \A x : <<n, x>> \in first.ends => x \in Pointers
      BY DEF WellBuilt
    <2>7. DOMAIN v = DOMAIN first.nodes[n]
      BY <2>3
    <2>8. \A x \in DOMAIN v : (IF x \in Pointers THEN v[x] + k ELSE v[x])
             = (IF <<n, x>> \in first.ends THEN (second.start + l) + k
                ELSE IF x \in Pointers THEN first.nodes[n][x] + k ELSE first.nodes[n][x])
      BY <2>3, <2>6
    <2> QED
      BY <2>5, <2>7, <2>8
  <1>8. ASSUME NEW n \in 1 .. m
        PROVE  nodes[(k + l) + n] = [x \in DOMAIN second.nodes[n] |->
                                       IF <<n, x>> \in second.ends THEN target
                                       ELSE IF x \in Pointers THEN second.nodes[n][x] + (k + l)
                                       ELSE second.nodes[n][x]]
    <2>1. l + n \in 1 .. l + m /\ k + (l + n) = (k + l) + n
      BY <1>2
    <2>2. PICK v : v = r.nodes[l + n]
      OBVIOUS
    <2>3. v = [x \in DOMAIN second.nodes[n] |->
                 IF x \in Pointers THEN second.nodes[n][x] + l ELSE second.nodes[n][x]]
      BY <1>1, <2>2 DEF IsChain
    <2>4. \A x : <<l + n, x>> \in r.ends <=> <<n, x>> \in second.ends
      <3>1. \A x : <<n + l, x>> \in EndsBehind(l, ends) <=> <<n, x>> \in ends
        BY <1>2, EndsBehindFacts
      <3>2. n + l = l + n
        BY <1>2
      <3> QED
        BY <1>5, <1>6, <3>1, <3>2
    <2>5. nodes[k + (l + n)] = [x \in DOMAIN v |->
                                  IF <<l + n, x>> \in r.ends THEN target
                                  ELSE IF x \in Pointers THEN v[x] + k ELSE v[x]]
      BY <1>4, <2>1, <2>2
    <2>6. \A x \in DOMAIN second.nodes[n] \cap Pointers : second.nodes[n][x] \in Nat
      BY <1>1, NodesOf DEF Node
    <2>7. DOMAIN v = DOMAIN second.nodes[n]
      BY <2>3
    <2>8. \A x \in DOMAIN v : (IF x \in Pointers THEN v[x] + k ELSE v[x])
             = (IF x \in Pointers THEN second.nodes[n][x] + (k + l) ELSE second.nodes[n][x])
      BY <1>2, <2>3, <2>6
    <2> QED
      BY <2>1, <2>4, <2>5, <2>7, <2>8
  <1>9. k + l <= Len(nodes) /\ (k + l) + m <= Len(nodes)
    BY <1>2, <1>3
  <1> QED
    BY <1>1, <1>3, <1>7, <1>8, <1>9 DEF Embedded, IsSize

(* So does an if, and its node leads to them. *)
LEMMA JoinEmbeds ==
  ASSUME NEW first, NEW second, WellBuilt(first), WellBuilt(second), NEW l \in Nat, IsSize(l, first),
         NEW m \in Nat, IsSize(m, second), NEW test, NEW t \in Nat, NEW e \in Nat,
         NEW r, IsJoin(r, test, first, second, l, m, t, e), NEW nodes, NEW k \in Nat, NEW target \in Nat,
         Embedded(nodes, r, k, target)
  PROVE  /\ Embedded(nodes, first, k, target)
         /\ Embedded(nodes, second, k + l, target)
         /\ k + l + m + 1 \in 1 .. Len(nodes)
         /\ nodes[k + l + m + 1] =
              IfThenElseNode(test, IF t = Unset THEN target ELSE t + k, IF e = Unset THEN target ELSE e + k)
  <1>2. l \in Nat /\ m \in Nat /\ Len(r.nodes) = l + m + 1
    BY DEF WellBuilt, IsJoin, IsSize
  <1>3. nodes \in Seq(Node) /\ Len(nodes) \in Nat /\ k + (l + m + 1) <= Len(nodes)
    <2>1. nodes \in Seq(Node) /\ k + Len(r.nodes) <= Len(nodes)
      BY DEF Embedded
    <2>2. Len(nodes) \in Nat
      BY <2>1
    <2>3. PICK n : n = Len(r.nodes)
      OBVIOUS
    <2>4. n = l + m + 1 /\ k + n <= Len(nodes)
      BY <1>2, <2>1, <2>3
    <2> QED
      BY <2>1, <2>2, <2>4
  <1>4. \A n \in 1 .. l + m + 1 :
          nodes[k + n] = [x \in DOMAIN r.nodes[n] |->
                            IF <<n, x>> \in r.ends THEN target
                            ELSE IF x \in Pointers THEN r.nodes[n][x] + k ELSE r.nodes[n][x]]
    BY <1>2 DEF Embedded, IsSize
  <1>5. PICK ends \in SUBSET ((1 .. m) \X Pointers) : ends = second.ends
    BY DEF WellBuilt, IsSize
  <1>5a. PICK behind : behind = EndsBehind(l, ends)
    OBVIOUS
  <1>5b. behind \subseteq (l + 1 .. l + m) \X Pointers
    BY <1>2, <1>5, <1>5a, EndsBehindFacts
  <1>5c. \A n \in 1 .. m : \A x : <<n + l, x>> \in behind <=> <<n, x>> \in ends
    <2>1. \A j \in 1 .. m : \A x : <<j + l, x>> \in EndsBehind(l, ends) <=> <<j, x>> \in ends
      BY <1>2, EndsBehindFacts
    <2> QED
      BY <1>5a, <2>1
  <1>6. r.ends = first.ends \cup behind
                  \cup (IF t = Unset THEN {<<l + m + 1, "next_true">>} ELSE {})
                  \cup (IF e = Unset THEN {<<l + m + 1, "next_false">>} ELSE {})
    BY <1>5, <1>5a DEF IsJoin
  <1>6a. first.ends \subseteq (1 .. l) \X Pointers
    BY DEF WellBuilt, IsSize
  <1>7. ASSUME NEW n \in 1 .. l
        PROVE  nodes[k + n] = [x \in DOMAIN first.nodes[n] |->
                                 IF <<n, x>> \in first.ends THEN target
                                 ELSE IF x \in Pointers THEN first.nodes[n][x] + k ELSE first.nodes[n][x]]
    <2>1. n \in 1 .. l + m + 1 /\ n \notin l + 1 .. l + m /\ n # l + m + 1
      BY <1>2
    <2>2. r.nodes[n] = first.nodes[n]
      BY DEF IsJoin
    <2>3. \A x : <<n, x>> \notin behind
      BY <1>5b, <2>1
    <2>4. \A x : <<n, x>> \in r.ends <=> <<n, x>> \in first.ends
      BY <1>6, <2>1, <2>3
    <2> QED
      BY <1>4, <2>1, <2>2, <2>4
  <1>8. ASSUME NEW n \in 1 .. m
        PROVE  nodes[(k + l) + n] = [x \in DOMAIN second.nodes[n] |->
                                       IF <<n, x>> \in second.ends THEN target
                                       ELSE IF x \in Pointers THEN second.nodes[n][x] + (k + l)
                                       ELSE second.nodes[n][x]]
    <2>1. l + n \in 1 .. l + m + 1 /\ k + (l + n) = (k + l) + n /\ l + n # l + m + 1 /\ l + n \notin 1 .. l
      BY <1>2
    <2>2. PICK v : v = r.nodes[l + n]
      OBVIOUS
    <2>3. v = [x \in DOMAIN second.nodes[n] |->
                 IF x \in Pointers THEN second.nodes[n][x] + l ELSE second.nodes[n][x]]
      BY <2>2 DEF IsJoin
    <2>4. \A x : <<l + n, x>> \in r.ends <=> <<n, x>> \in second.ends
      <3>1. \A x : <<n + l, x>> \in behind <=> <<n, x>> \in ends
        BY <1>5c
      <3>2. n + l = l + n
        BY <1>2
      <3>3. \A x : <<l + n, x>> \notin first.ends
        BY <1>6a, <2>1
      <3> QED
        BY <1>5, <1>6, <2>1, <3>1, <3>2, <3>3
    <2>5. nodes[k + (l + n)] = [x \in DOMAIN v |->
                                  IF <<l + n, x>> \in r.ends THEN target
                                  ELSE IF x \in Pointers THEN v[x] + k ELSE v[x]]
      BY <1>4, <2>1, <2>2
    <2>6. \A x \in DOMAIN second.nodes[n] \cap Pointers : second.nodes[n][x] \in Nat
      BY NodesOf DEF Node, IsSize
    <2>7. DOMAIN v = DOMAIN second.nodes[n]
      BY <2>3
    <2>8. \A x \in DOMAIN v : (IF x \in Pointers THEN v[x] + k ELSE v[x])
             = (IF x \in Pointers THEN second.nodes[n][x] + (k + l) ELSE second.nodes[n][x])
      BY <1>2, <2>3, <2>6
    <2> QED
      BY <2>1, <2>4, <2>5, <2>7, <2>8
  <1>9. nodes[k + l + m + 1] =
          IfThenElseNode(test, IF t = Unset THEN target ELSE t + k, IF e = Unset THEN target ELSE e + k)
    <2>1. PICK n : n = l + m + 1
      OBVIOUS
    <2>2. n \in 1 .. l + m + 1 /\ n \notin 1 .. l /\ n \notin l + 1 .. l + m /\ k + n = k + l + m + 1
      BY <1>2, <2>1
    <2>3. PICK v : v = r.nodes[n]
      OBVIOUS
    <2>4. v = IfThenElseNode(test, t, e)
      BY <2>1, <2>3 DEF IsJoin
    <2>5. \A x : <<n, x>> \in r.ends <=> (t = Unset /\ x = "next_true") \/ (e = Unset /\ x = "next_false")
      BY <1>5b, <1>6, <1>6a, <2>1, <2>2
    <2>6. nodes[k + n] = [x \in DOMAIN v |-> IF <<n, x>> \in r.ends THEN target
                                             ELSE IF x \in Pointers THEN v[x] + k ELSE v[x]]
      BY <1>4, <2>2, <2>3
    <2>7. DOMAIN v = {"kind", "attr", "value", "mask", "next_true", "next_false"}
          /\ v["kind"] = "if" /\ v["attr"] = test.attr /\ v["value"] = test.value /\ v["mask"] = test.mask
          /\ v["next_true"] = t /\ v["next_false"] = e
      BY <2>4 DEF IfThenElseNode
    <2>8. PICK w : w = nodes[k + n]
      OBVIOUS
    <2>9. w = [x \in {"kind", "attr", "value", "mask", "next_true", "next_false"} |-> w[x]]
      BY <2>6, <2>7, <2>8
    <2>10. w["kind"] = "if" /\ w["attr"] = test.attr /\ w["value"] = test.value /\ w["mask"] = test.mask
      BY <2>5, <2>6, <2>7, <2>8 DEF Pointers
    <2>11. w["next_true"] = IF t = Unset THEN target ELSE t + k
      BY <2>5, <2>6, <2>7, <2>8 DEF Pointers
    <2>12. w["next_false"] = IF e = Unset THEN target ELSE e + k
      BY <2>5, <2>6, <2>7, <2>8 DEF Pointers
    <2>13. w = IfThenElseNode(test, IF t = Unset THEN target ELSE t + k, IF e = Unset THEN target ELSE e + k)
      BY <2>9, <2>10, <2>11, <2>12 DEF IfThenElseNode
    <2> QED
      BY <2>2, <2>8, <2>13
  <1>10. k + l <= Len(nodes) /\ (k + l) + m <= Len(nodes) /\ k + l + m + 1 \in 1 .. Len(nodes)
    BY <1>2, <1>3
  <1> QED
    BY <1>3, <1>7, <1>8, <1>9, <1>10 DEF Embedded, IsSize

(* The nodes of a statement do d, wherever they are, and then what follows *)
(* them does.                                                              *)
Runs(r, d, val) ==
  \A nodes : \A k \in Nat, target \in Nat, b \in Nat : \A x \in Outcome(Attribute) :
    /\ Embedded(nodes, r, k, target)
    /\ d.verdict = "none" => Yields(nodes, val, target, b, x)
    => Yields(nodes, val, r.start + k, b + Len(r.nodes), InOrder(d, x))

(* The nodes of a result do d, and so does the lack of any. *)
Works(r, d, val) ==
  /\ d \in Outcome(Attribute)
  /\ r.start = Unset => d = DoesNothing
  /\ r.start # Unset => Runs(r, d, val) /\ (d.verdict = "none" => r.ends # {})

(* No node does nothing. *)
LEMMA NothingWorks ==
  ASSUME NEW val
  PROVE  Works(Nothing, DoesNothing, val)
  BY NothingTyped DEF Works, Nothing

(* Chained results do what they do, one behind the other. *)
LEMMA ChainRuns ==
  ASSUME NEW val, NEW first, NEW second, WellBuilt(first), WellBuilt(second),
         NEW l \in Nat, IsSize(l, first), NEW r, IsChain(r, first, second, l),
         NEW c \in Outcome(Attribute), NEW d \in Outcome(Attribute),
         Runs(first, c, val), Runs(second, d, val)
  PROVE  Runs(r, InOrder(c, d), val)
  <1>1. PICK m \in Nat : m = Len(second.nodes)
    BY DEF WellBuilt
  <1>2. Len(r.nodes) = l + m /\ r.start = first.start /\ first.start \in Nat /\ second.start \in Nat
        /\ Len(first.nodes) = l
    BY <1>1 DEF IsChain, WellBuilt, IsSize
  <1>3. PICK cd : cd = InOrder(c, d)
    OBVIOUS
  <1> SUFFICES ASSUME NEW nodes, NEW k \in Nat, NEW target \in Nat, NEW b \in Nat, NEW x \in Outcome(Attribute),
                      Embedded(nodes, r, k, target),
                      cd.verdict = "none" => Yields(nodes, val, target, b, x)
               PROVE  Yields(nodes, val, r.start + k, b + Len(r.nodes), InOrder(cd, x))
    BY <1>3 DEF Runs
  <1>4. PICK between \in Nat : between = (second.start + l) + k
    BY <1>2
  <1>5. Embedded(nodes, first, k, between) /\ Embedded(nodes, second, k + l, target)
    BY <1>4, ChainEmbeds
  <1>6. PICK y : y = InOrder(d, x)
    OBVIOUS
  <1>7. y \in Outcome(Attribute)
    BY <1>6, InOrderTyped
  <1>8. c.verdict = "none" => cd.verdict = d.verdict
    BY <1>3, InOrderCases
  <1>9. c.verdict = "none" => Yields(nodes, val, between, b + m, y)
    <2> SUFFICES ASSUME c.verdict = "none" PROVE Yields(nodes, val, between, b + m, y)
      OBVIOUS
    <2>1. d.verdict = "none" => Yields(nodes, val, target, b, x)
      BY <1>8
    <2>2. PICK kl \in Nat : kl = k + l
      OBVIOUS
    <2>3. Embedded(nodes, second, kl, target)
      BY <1>5, <2>2
    <2>4. Yields(nodes, val, second.start + kl, b + Len(second.nodes), InOrder(d, x))
      BY <2>1, <2>3 DEF Runs
    <2>5. second.start + kl = between
      BY <1>2, <1>4, <2>2
    <2> QED
      BY <1>1, <1>6, <2>4, <2>5
  <1>10. PICK bm \in Nat : bm = b + m
    OBVIOUS
  <1>11. Yields(nodes, val, first.start + k, bm + Len(first.nodes), InOrder(c, y))
    BY <1>5, <1>7, <1>9, <1>10 DEF Runs
  <1>12. bm + l = b + (l + m)
    BY <1>10
  <1>13. InOrder(c, y) = InOrder(cd, x)
    BY <1>3, <1>6, InOrderAssociative
  <1>14. Yields(nodes, val, r.start + k, b + (l + m), InOrder(cd, x))
    BY <1>2, <1>11, <1>12, <1>13
  <1> QED
    BY <1>2, <1>14

(* The same where one of them may have no node. *)
LEMMA ChainedWorks ==
  ASSUME NEW val, NEW first, NEW second, WellBuilt(first), WellBuilt(second),
         NEW c, NEW d, Works(first, c, val), Works(second, d, val)
  PROVE  Works(Chained(first, second), InOrder(c, d), val)
  <1>1. c \in Outcome(Attribute) /\ d \in Outcome(Attribute)
    BY DEF Works
  <1>2. InOrder(DoesNothing, d) = d /\ InOrder(c, DoesNothing) = c
    BY <1>1, InOrderUnits
  <1>3. CASE second.start = Unset
    <2>1. d = DoesNothing
      BY <1>3 DEF Works
    <2> QED
      BY <1>2, <1>3, <2>1, ChainedNothing
  <1>4. CASE second.start # Unset /\ first.start = Unset
    <2>1. c = DoesNothing
      BY <1>4 DEF Works
    <2> QED
      BY <1>2, <1>4, <2>1, ChainedNothing
  <1>5. CASE second.start # Unset /\ first.start # Unset
    <2>1. PICK r : r = Chained(first, second)
      OBVIOUS
    <2>2. PICK l \in Nat : l = Len(first.nodes)
      BY DEF WellBuilt
    <2>3. IsChain(r, first, second, l)
      BY <1>5, <2>1, <2>2, ChainedFacts
    <2>4. IsSize(l, first)
      BY <2>2 DEF IsSize
    <2>5. Runs(r, InOrder(c, d), val)
      BY <1>1, <1>5, <2>3, <2>4, ChainRuns DEF Works
    <2>6. PICK cd : cd = InOrder(c, d)
      OBVIOUS
    <2>7. cd \in Outcome(Attribute)
      BY <1>1, <2>6, InOrderTyped
    <2>8. cd.verdict = "none" => d.verdict = "none"
      <3>1. c.verdict = "none" => cd.verdict = d.verdict
        BY <2>6, InOrderCases
      <3>2. c.verdict # "none" => cd = c
        BY <2>6, InOrderCases
      <3> QED
        BY <3>1, <3>2
    <2>9. d.verdict = "none" => second.ends # {}
      BY <1>5 DEF Works
    <2>10. r.ends = EndsBehind(l, second.ends) /\ r.start # Unset
      BY <2>3 DEF IsChain
    <2>11. second.ends # {} => r.ends # {}
      BY <2>10 DEF EndsBehind
    <2> QED
      BY <2>1, <2>5, <2>6, <2>7, <2>8, <2>9, <2>10, <2>11 DEF Works
  <1> QED
    BY <1>3, <1>4, <1>5

(* A branch leads to its first node, or past the if where it has none.     *)
LEMMA BranchRuns ==
  ASSUME NEW val, NEW r, WellBuilt(r), NEW m \in Nat, IsSize(m, r), NEW d, Works(r, d, val),
         NEW nodes, NEW k \in Nat, NEW target \in Nat, NEW b \in Nat, NEW x \in Outcome(Attribute),
         Embedded(nodes, r, k, target), d.verdict = "none" => Yields(nodes, val, target, b, x)
  PROVE  Yields(nodes, val, IF r.start = Unset THEN target ELSE r.start + k, b + m, InOrder(d, x))
  <1>1. CASE r.start # Unset
    <2>1. Runs(r, d, val) /\ Len(r.nodes) = m
      BY <1>1 DEF Works, IsSize
    <2>2. Yields(nodes, val, r.start + k, b + Len(r.nodes), InOrder(d, x))
      BY <2>1 DEF Runs
    <2> QED
      BY <1>1, <2>1, <2>2
  <1>2. CASE r.start = Unset
    <2>1. d = DoesNothing
      BY <1>2 DEF Works
    <2>2. d.verdict = "none"
      BY <2>1 DEF DoesNothing
    <2>3. InOrder(d, x) = x
      BY <2>1, InOrderUnits
    <2>4. Yields(nodes, val, target, b, x)
      BY <2>2
    <2>5. Len(<<>>) = 0
      OBVIOUS
    <2>6. r.nodes = <<>>
      BY <1>2 DEF WellBuilt
    <2>7. m = 0
      BY <2>5, <2>6 DEF IsSize
    <2>8. b + m = b
      BY <2>7
    <2> QED
      BY <1>2, <2>3, <2>4, <2>8
  <1> QED
    BY <1>1, <1>2

(* The if node chooses the branch that the if does. *)
LEMMA JoinRuns ==
  ASSUME NEW val, NEW test, test.rel \in {"==", "!="},
         NEW first, NEW second, WellBuilt(first), WellBuilt(second),
         NEW l \in Nat, IsSize(l, first), NEW m \in Nat, IsSize(m, second),
         NEW t \in Nat, NEW e \in Nat,
         t = (IF test.rel = "!=" THEN StartBehind(l, second) ELSE first.start),
         e = (IF test.rel = "!=" THEN first.start ELSE StartBehind(l, second)),
         NEW r, IsJoin(r, test, first, second, l, m, t, e),
         NEW c, NEW d, Works(first, c, val), Works(second, d, val)
  PROVE  Runs(r, IF Holds(test, val[test.attr]) THEN c ELSE d, val)
  <1>1. Len(r.nodes) = l + m + 1 /\ r.start = l + m + 1 /\ first.start \in Nat /\ second.start \in Nat
    BY DEF IsJoin, WellBuilt
  <1>2. PICK done : done = IF Holds(test, val[test.attr]) THEN c ELSE d
    OBVIOUS
  <1> SUFFICES ASSUME NEW nodes, NEW k \in Nat, NEW target \in Nat, NEW b \in Nat, NEW x \in Outcome(Attribute),
                      Embedded(nodes, r, k, target),
                      done.verdict = "none" => Yields(nodes, val, target, b, x)
               PROVE  Yields(nodes, val, r.start + k, b + Len(r.nodes), InOrder(done, x))
    BY <1>2 DEF Runs
  <1>3. PICK n : n = k + l + m + 1
    OBVIOUS
  <1>4. PICK nt : nt = IF t = Unset THEN target ELSE t + k
    OBVIOUS
  <1>5. PICK ne : ne = IF e = Unset THEN target ELSE e + k
    OBVIOUS
  <1>6. /\ Embedded(nodes, first, k, target) /\ Embedded(nodes, second, k + l, target)
        /\ n \in 1 .. Len(nodes) /\ nodes[n] = IfThenElseNode(test, nt, ne)
    BY <1>3, <1>4, <1>5, JoinEmbeds
  <1>7. nodes \in Seq(Node)
    BY DEF Embedded
  <1>8. PICK v : v = nodes[n]
    OBVIOUS
  <1>9. v.kind = "if" /\ v.attr = test.attr /\ v.value = test.value /\ v.mask = test.mask
        /\ v.next_true = nt /\ v.next_false = ne
    BY <1>6, <1>8 DEF IfThenElseNode
  <1>10. PICK a : a = IF first.start = Unset THEN target ELSE first.start + k
    OBVIOUS
  <1>11. PICK z : z = IF second.start = Unset THEN target ELSE second.start + (k + l)
    OBVIOUS
  <1>12. IF test.rel = "!=" THEN nt = z /\ ne = a ELSE nt = a /\ ne = z
    <2>1. StartBehind(l, second) = Unset <=> second.start = Unset
      BY <1>1 DEF StartBehind, Unset
    <2>2. second.start # Unset => StartBehind(l, second) + k = second.start + (k + l)
      BY <1>1 DEF StartBehind
    <2>3. CASE test.rel = "!="
      BY <1>4, <1>5, <1>10, <1>11, <2>1, <2>2, <2>3
    <2>4. CASE test.rel # "!="
      BY <1>4, <1>5, <1>10, <1>11, <2>1, <2>2, <2>4
    <2> QED
      BY <2>3, <2>4
  <1>13. PICK u : u = val[test.attr]
    OBVIOUS
  <1>14. PICK chosen : chosen = IF Masked(u, test.mask) = test.value THEN nt ELSE ne
    OBVIOUS
  <1>15. chosen = IF Holds(test, u) THEN a ELSE z
    <2>1. CASE test.rel = "=="
      BY <1>12, <1>14, <2>1 DEF Holds
    <2>2. CASE test.rel = "!="
      BY <1>12, <1>14, <2>2 DEF Holds
    <2> QED
      BY <2>1, <2>2
  <1>16. \A j \in 1 .. Len(nodes) : Paths(nodes, val)[j][n] = Paths(nodes, val)[j - 1][chosen]
    BY <1>6, <1>7, <1>8, <1>9, <1>13, <1>14, PathsCases
  <1>17. Yields(nodes, val, chosen, b + (l + m), InOrder(done, x))
    <2>1. CASE Holds(test, u)
      <3>1. done = c /\ chosen = a
        BY <1>2, <1>13, <1>15, <2>1
      <3>2. Yields(nodes, val, a, b + l, InOrder(c, x))
        BY <1>6, <1>10, <3>1, BranchRuns
      <3>3. \A j \in b + (l + m) .. Len(nodes) : j \in b + l .. Len(nodes)
        BY <1>7
      <3> QED
        BY <3>1, <3>2, <3>3 DEF Yields
    <2>2. CASE ~Holds(test, u)
      <3>1. done = d /\ chosen = z
        BY <1>2, <1>13, <1>15, <2>2
      <3>2. PICK kl \in Nat : kl = k + l
        OBVIOUS
      <3>3. Embedded(nodes, second, kl, target) /\ z = IF second.start = Unset THEN target ELSE second.start + kl
        BY <1>6, <1>11, <3>2
      <3>4. Yields(nodes, val, z, b + m, InOrder(d, x))
        BY <3>1, <3>3, BranchRuns
      <3>5. \A j \in b + (l + m) .. Len(nodes) : j \in b + m .. Len(nodes)
        BY <1>7
      <3> QED
        BY <3>1, <3>4, <3>5 DEF Yields
    <2> QED
      BY <2>1, <2>2
  <1>18. \A j \in b + (l + m + 1) .. Len(nodes) : j \in 1 .. Len(nodes) /\ j - 1 \in b + (l + m) .. Len(nodes)
    BY <1>7
  <1>19. Yields(nodes, val, n, b + (l + m + 1), InOrder(done, x))
    BY <1>16, <1>17, <1>18 DEF Yields
  <1>20. n = (l + m + 1) + k
    BY <1>3
  <1> QED
    BY <1>1, <1>19, <1>20

(* The same where branches may have no node. *)
LEMMA JoinedWorks ==
  ASSUME NEW val, NEW test \in Condition, test.rel \in {"==", "!="},
         NEW first, NEW second, WellBuilt(first), WellBuilt(second),
         NEW c, NEW d, Works(first, c, val), Works(second, d, val)
  PROVE  Works(Joined(test, first, second), IF Holds(test, val[test.attr]) THEN c ELSE d, val)
  <1>1. PICK done : done = IF Holds(test, val[test.attr]) THEN c ELSE d
    OBVIOUS
  <1>2. done \in Outcome(Attribute)
    BY <1>1 DEF Works
  <1>3. CASE first.start = Unset /\ second.start = Unset
    <2>1. done = DoesNothing
      BY <1>1, <1>3 DEF Works
    <2>2. Joined(test, first, second) = Nothing
      BY <1>3, JoinedNothing
    <2> QED
      BY <1>1, <2>1, <2>2, NothingWorks
  <1>4. CASE first.start # Unset \/ second.start # Unset
    <2>1. PICK l \in Nat : l = Len(first.nodes)
      BY DEF WellBuilt
    <2>2. PICK m \in Nat : m = Len(second.nodes)
      BY DEF WellBuilt
    <2>3. PICK t : t = IF test.rel = "!=" THEN StartBehind(l, second) ELSE first.start
      OBVIOUS
    <2>4. PICK e : e = IF test.rel = "!=" THEN first.start ELSE StartBehind(l, second)
      OBVIOUS
    <2>5. PICK r : r = Joined(test, first, second)
      OBVIOUS
    <2>6. IsJoin(r, test, first, second, l, m, t, e)
      BY <1>4, <2>1, <2>2, <2>3, <2>4, <2>5, JoinedFacts
    <2>7. first.start \in Nat /\ second.start \in Nat
      BY DEF WellBuilt
    <2>8. StartBehind(l, second) \in Nat /\ (StartBehind(l, second) = Unset <=> second.start = Unset)
      BY <2>7 DEF StartBehind, Unset
    <2>9. t \in Nat /\ e \in Nat
      BY <2>3, <2>4, <2>7, <2>8
    <2>10. IsSize(l, first) /\ IsSize(m, second)
      BY <2>1, <2>2 DEF IsSize
    <2>11. Runs(r, done, val)
      <3>1. t = (IF test.rel = "!=" THEN StartBehind(l, second) ELSE first.start)
        BY <2>3
      <3>2. e = (IF test.rel = "!=" THEN first.start ELSE StartBehind(l, second))
        BY <2>4
      <3> HIDE DEF Works
      <3>3. Runs(r, IF Holds(test, val[test.attr]) THEN c ELSE d, val)
        BY <2>6, <2>9, <2>10, <3>1, <3>2, JoinRuns
      <3> QED
        BY <1>1, <3>3
    <2>12. /\ r.start # Unset
           /\ r.ends = first.ends \cup EndsBehind(l, second.ends)
                         \cup (IF t = Unset THEN {<<l + m + 1, "next_true">>} ELSE {})
                         \cup (IF e = Unset THEN {<<l + m + 1, "next_false">>} ELSE {})
      BY <2>6 DEF IsJoin
    <2>13. (first.start = Unset \/ second.start = Unset) => (t = Unset \/ e = Unset)
      BY <2>3, <2>4, <2>8
    <2>14. EndsBehind(l, second.ends) = {} <=> second.ends = {}
      BY DEF EndsBehind
    <2>15. done.verdict = "none" => r.ends # {}
      <3> SUFFICES ASSUME done.verdict = "none", r.ends = {} PROVE FALSE
        OBVIOUS
      <3>1. first.ends = {} /\ second.ends = {} /\ t # Unset /\ e # Unset
        BY <2>12, <2>14
      <3>2. first.start # Unset /\ second.start # Unset
        BY <2>13, <3>1
      <3>3. c.verdict = "none" \/ d.verdict = "none"
        BY <1>1
      <3> QED
        BY <3>1, <3>2, <3>3 DEF Works
    <2> QED
      BY <1>1, <1>2, <2>5, <2>11, <2>12, <2>15 DEF Works
  <1> QED
    BY <1>3, <1>4

(* The node of an extraction reads its attribute. *)
LEMMA ExtractWorks ==
  ASSUME NEW val, NEW a \in Attribute
  PROVE  Works(Created(ExtractNode(a), {"next"}), Reads(a), val)
  <1>1. PICK v \in Node : v = ExtractNode(a)
    BY MadeNodes
  <1>2. {"next"} \in SUBSET Pointers
    BY DEF Pointers
  <1>3. PICK r : r = Created(v, {"next"})
    OBVIOUS
  <1>4. r.start = 1 /\ Len(r.nodes) = 1 /\ r.nodes[1] = v /\ r.ends = {<<1, x>> : x \in {"next"}}
    BY <1>2, <1>3, CreatedBuilt
  <1>5. <<1, "next">> \in r.ends
    BY <1>4
  <1>6. PICK d : d = Reads(a)
    OBVIOUS
  <1>7. d \in Outcome(Attribute) /\ d.verdict = "none" /\ d.reads = <<a>>
    BY <1>6, ReadsTyped
  <1>8. ASSUME NEW nodes, NEW k \in Nat, NEW target \in Nat, NEW b \in Nat, NEW x \in Outcome(Attribute),
               Embedded(nodes, r, k, target), Yields(nodes, val, target, b, x)
        PROVE  Yields(nodes, val, r.start + k, b + Len(r.nodes), InOrder(d, x))
    <2>1. nodes \in Seq(Node) /\ k + 1 <= Len(nodes) /\ Len(nodes) \in Nat
      BY <1>4, <1>8 DEF Embedded
    <2>2. k + 1 \in 1 .. Len(nodes)
      BY <2>1
    <2>3. nodes[k + 1] = [y \in DOMAIN v |-> IF <<1, y>> \in r.ends THEN target
                                             ELSE IF y \in Pointers THEN v[y] + k ELSE v[y]]
      <3>1. 1 \in 1 .. Len(r.nodes)
        BY <1>4
      <3> QED
        BY <1>4, <1>8, <3>1 DEF Embedded
    <2>4. PICK w : w = nodes[k + 1]
      OBVIOUS
    <2>5. DOMAIN v = {"kind", "attr", "next"} /\ v["kind"] = "extract" /\ v["attr"] = a
      BY <1>1 DEF ExtractNode
    <2>6. "kind" \notin Pointers /\ "attr" \notin Pointers
      BY DEF Pointers
    <2>7. <<1, "kind">> \notin r.ends /\ <<1, "attr">> \notin r.ends
      BY <1>4
    <2>8. w["kind"] = "extract" /\ w["attr"] = a /\ w["next"] = target
      BY <1>5, <2>3, <2>4, <2>5, <2>6, <2>7
    <2>9. w.kind = "extract" /\ w.attr = a /\ w.next = target
      BY <2>8
    <2>10. \A j \in 1 .. Len(nodes) :
             Paths(nodes, val)[j][k + 1] = InOrder(d, Paths(nodes, val)[j - 1][target])
      BY <1>6, <2>1, <2>2, <2>4, <2>9, PathsCases
    <2>11. \A j \in b + 1 .. Len(nodes) : j \in 1 .. Len(nodes) /\ j - 1 \in b .. Len(nodes)
      BY <2>1
    <2>12. Yields(nodes, val, k + 1, b + 1, InOrder(d, x))
      BY <1>8, <2>10, <2>11 DEF Yields
    <2>13. r.start + k = k + 1 /\ b + Len(r.nodes) = b + 1
      BY <1>4
    <2> QED
      BY <2>12, <2>13
  <1>9. Runs(r, d, val)
    BY <1>7, <1>8 DEF Runs
  <1>10. r.start # Unset /\ r.ends # {}
    <2>1. 1 # Unset
      BY DEF Unset
    <2> QED
      BY <1>4, <1>5, <2>1
  <1> QED
    BY <1>1, <1>3, <1>6, <1>7, <1>9, <1>10 DEF Works

(* The node of a return ends with its verdict. *)
LEMMA ExitWorks ==
  ASSUME NEW val, NEW verdict \in Verdicts
  PROVE  Works(Created(ExitNode(verdict), {}), Returns(verdict), val)
  <1>1. PICK v \in Node : v = ExitNode(verdict)
    BY MadeNodes
  <1>3. PICK r : r = Created(v, {})
    OBVIOUS
  <1>4. r.start = 1 /\ Len(r.nodes) = 1 /\ r.nodes[1] = v /\ r.ends = {}
    <2>1. {} \in SUBSET Pointers
      OBVIOUS
    <2>2. {<<1, x>> : x \in {}} = {}
      OBVIOUS
    <2> QED
      BY <1>3, <2>1, <2>2, CreatedBuilt
  <1>6. PICK d : d = Returns(verdict)
    OBVIOUS
  <1>7. d \in Outcome(Attribute) /\ d.verdict = verdict /\ verdict # "none"
    BY <1>6, ReturnsTyped DEF Returns, Verdicts
  <1>8. ASSUME NEW nodes, NEW k \in Nat, NEW target \in Nat, NEW b \in Nat, NEW x \in Outcome(Attribute),
               Embedded(nodes, r, k, target)
        PROVE  Yields(nodes, val, r.start + k, b + Len(r.nodes), InOrder(d, x))
    <2>1. nodes \in Seq(Node) /\ k + 1 <= Len(nodes) /\ Len(nodes) \in Nat
      BY <1>4, <1>8 DEF Embedded
    <2>2. k + 1 \in 1 .. Len(nodes)
      BY <2>1
    <2>3. nodes[k + 1] = [y \in DOMAIN v |-> IF y \in Pointers THEN v[y] + k ELSE v[y]]
      <3>1. 1 \in 1 .. Len(r.nodes)
        BY <1>4
      <3> QED
        BY <1>4, <1>8, <3>1 DEF Embedded
    <2>4. PICK w : w = nodes[k + 1]
      OBVIOUS
    <2>5. DOMAIN v = {"kind", "accept"} /\ v["kind"] = "exit" /\ v["accept"] = (verdict = "ACCEPT")
      BY <1>1 DEF ExitNode
    <2>6. "kind" \notin Pointers /\ "accept" \notin Pointers
      BY DEF Pointers
    <2>8. w["kind"] = "exit" /\ w["accept"] = (verdict = "ACCEPT")
      BY <2>3, <2>4, <2>5, <2>6
    <2>9. w.kind = "exit" /\ verdict = IF w.accept THEN "ACCEPT" ELSE "REJECT"
      BY <2>8 DEF Verdicts
    <2>10. \A j \in 1 .. Len(nodes) : Paths(nodes, val)[j][k + 1] = d
      BY <1>6, <2>1, <2>2, <2>4, <2>9, PathsCases
    <2>11. \A j \in b + 1 .. Len(nodes) : j \in 1 .. Len(nodes)
      BY <2>1
    <2>12. InOrder(d, x) = d
      BY <1>7, InOrderCases
    <2>13. Yields(nodes, val, k + 1, b + 1, InOrder(d, x))
      BY <2>10, <2>11, <2>12 DEF Yields
    <2>14. r.start + k = k + 1 /\ b + Len(r.nodes) = b + 1
      BY <1>4
    <2> QED
      BY <2>13, <2>14
  <1>9. Runs(r, d, val)
    BY <1>8 DEF Runs
  <1> QED
    BY <1>1, <1>3, <1>4, <1>6, <1>7, <1>9 DEF Works, Unset

(* The statements of a block, one after the other. *)
LEMMA AllChainedWork ==
  ASSUME NEW val, NEW n \in Nat, NEW results, Len(results) = n, NEW does, Len(does) = n,
         \A k \in 1 .. n : WellBuilt(results[k]) /\ Works(results[k], does[k], val)
  PROVE  Works(AllChained(results), AllInOrder(does), val)
  <1>0. Len(results) \in Nat /\ Len(does) \in Nat
    OBVIOUS
  <1>1. PICK q : Chains(q, results) /\ AllChained(results) = q[Len(results)]
    BY <1>0, ChainExists
  <1>2. PICK o : Orders(o, does) /\ AllInOrder(does) = o[Len(does)]
    BY <1>0, OrderExists
  <1>3. /\ q[0] = Nothing
        /\ \A k \in 0 .. n : WellBuilt(q[k])
        /\ \A k \in 1 .. n : q[k] = Chained(q[k - 1], results[k])
    BY <1>0, <1>1, ChainsBuilt
  <1>4. o[0] = DoesNothing /\ \A k \in 1 .. n : o[k] = InOrder(o[k - 1], does[k])
    BY <1>0, <1>2, OrdersFacts
  <1> DEFINE Good == {k \in Nat : k \in 0 .. n => Works(q[k], o[k], val)}
  <1>5. 0 \in Good
    BY <1>3, <1>4, NothingWorks
  <1>6. ASSUME NEW k \in Nat, k \in Good PROVE k + 1 \in Good
    <2> SUFFICES ASSUME k + 1 \in 0 .. n PROVE Works(q[k + 1], o[k + 1], val)
      OBVIOUS
    <2>1. k \in 0 .. n /\ k + 1 \in 1 .. n /\ (k + 1) - 1 = k
      OBVIOUS
    <2>2. PICK a : a = q[k]
      OBVIOUS
    <2>3. PICK b : b = results[k + 1]
      OBVIOUS
    <2>4. PICK c : c = o[k]
      OBVIOUS
    <2>5. PICK d : d = does[k + 1]
      OBVIOUS
    <2>6. WellBuilt(a) /\ WellBuilt(b) /\ Works(a, c, val) /\ Works(b, d, val)
      BY <1>3, <1>6, <2>1, <2>2, <2>3, <2>4, <2>5
    <2>7. q[k + 1] = Chained(a, b) /\ o[k + 1] = InOrder(c, d)
      BY <1>3, <1>4, <2>1, <2>2, <2>3, <2>4, <2>5
    <2>8. Works(Chained(a, b), InOrder(c, d), val)
      BY <2>6, ChainedWorks
    <2> QED
      BY <2>7, <2>8
  <1> HIDE DEF Good
  <1>7. n \in Good
    BY <1>5, <1>6, Counting
  <1>8. Works(q[n], o[n], val)
    BY <1>7 DEF Good
  <1> QED
    BY <1>1, <1>2, <1>8

(* The nodes of a statement do what the statement does. *)
LEMMA StatementWorks ==
  ASSUME NEW i, NEW val
  PROVE  \A s \in Statement : AllFine(i, s) /\ Clean(s) => Works(Build[s], Does(s, val), val)
  <1> DEFINE Good == {s \in Statement : AllFine(i, s) /\ Clean(s) => Works(Build[s], Does(s, val), val)}
  <1>1. ASSUME NEW s \in Statement, Children(s) \subseteq Statement, Children(s) \subseteq Good
        PROVE  s \in Good
    <2> SUFFICES ASSUME AllFine(i, s), Clean(s) PROVE Works(Build[s], Does(s, val), val)
      OBVIOUS
    <2>0. /\ Fine(i, s) /\ s.op # "error" /\ (s.op = "if" => s.test.rel \in {"==", "!="})
          /\ \A x \in Children(s) : AllFine(i, x) /\ Clean(x)
      BY PartsUnion DEF AllFine, Clean
    <2>00. s \in Nest(Statement)
      BY StatementShape
    <2>1. \A x \in Children(s) : Works(Build[x], Does(x, val), val)
      BY <1>1, <2>0
    <2>2. CASE s.op = "extract_field"
      <3>1. PICK a \in Attribute : a = s.attr
        BY <2>00, <2>2, Shapes
      <3>2. Build[s] = Created(ExtractNode(a), {"next"}) /\ Does(s, val) = Reads(a)
        BY <2>2, <3>1, BuildCases, DoesCases
      <3> QED
        BY <3>2, ExtractWorks
    <2>3. CASE s.op = "return"
      <3>1. PICK v \in Verdicts : v = s.verdict
        BY <2>0, <2>3 DEF Fine
      <3>2. Build[s] = Created(ExitNode(v), {}) /\ Does(s, val) = Returns(v)
        BY <2>3, <3>1, BuildCases, DoesCases
      <3> QED
        BY <3>2, ExitWorks
    <2>4. CASE s.op = "if"
      <3>1. s.test \in Condition /\ s.then \in Children(s) /\ s.else \in Children(s)
            /\ s.then \in Statement /\ s.else \in Statement
        BY <2>00, <2>4, Shapes DEF Children
      <3>2. PICK first : first = Build[s.then]
        OBVIOUS
      <3>3. PICK second : second = Build[s.else]
        OBVIOUS
      <3>4. PICK c : c = Does(s.then, val)
        OBVIOUS
      <3>5. PICK d : d = Does(s.else, val)
        OBVIOUS
      <3>6. WellBuilt(first) /\ WellBuilt(second) /\ Works(first, c, val) /\ Works(second, d, val)
        BY <2>1, <3>1, <3>2, <3>3, <3>4, <3>5, BuildBuilt
      <3>7. PICK test \in Condition : test = s.test
        BY <3>1
      <3>8. Build[s] = Joined(test, first, second)
        BY <2>4, <3>2, <3>3, <3>7, BuildCases
      <3>9. Does(s, val) = IF Holds(test, val[test.attr]) THEN c ELSE d
        <4>1. Does(s, val) = Does(IF Holds(test, val[test.attr]) THEN s.then ELSE s.else, val)
          BY <2>4, <3>7, DoesCases
        <4> QED
          BY <3>4, <3>5, <4>1
      <3>10. test.rel \in {"==", "!="}
        BY <2>0, <2>4, <3>7
      <3>11. Works(Joined(test, first, second), IF Holds(test, val[test.attr]) THEN c ELSE d, val)
        BY <3>6, <3>10, JoinedWorks
      <3> QED
        BY <3>8, <3>9, <3>11
    <2>5. CASE s.op = "block"
      <3>1. /\ s.body \in Seq(Statement) /\ Len(BuiltParts(s)) = Len(s.body) /\ Len(s.body) \in Nat
            /\ \A k \in 1 .. Len(s.body) : /\ s.body[k] \in Children(s) /\ s.body[k] \in Statement
                                           /\ BuiltParts(s)[k] = Build[s.body[k]]
        BY <2>5, PartsOfBlock
      <3>2. PICK n \in Nat : n = Len(s.body)
        BY <3>1
      <3>3. PICK results : results = BuiltParts(s)
        OBVIOUS
      <3>4. PICK does : does = DoesOf(s.body, val)
        OBVIOUS
      <3>5. does = [k \in 1 .. n |-> Does(s.body[k], val)]
        BY <3>1, <3>2, <3>4 DEF DoesOf
      <3>6. Len(does) = n /\ \A k \in 1 .. n : does[k] = Does(s.body[k], val)
        BY <3>5
      <3>7. \A k \in 1 .. n : WellBuilt(results[k]) /\ Works(results[k], does[k], val)
        BY <2>1, <3>1, <3>2, <3>3, <3>6, BuildBuilt
      <3>8. Len(results) = n
        BY <3>1, <3>2, <3>3
      <3>9. Works(AllChained(results), AllInOrder(does), val)
        BY <3>6, <3>7, <3>8, AllChainedWork
      <3>10. Build[s] = AllChained(results) /\ Does(s, val) = AllInOrder(does)
        BY <2>5, <3>3, <3>4, BuildCases, DoesCases
      <3> QED
        BY <3>9, <3>10
    <2>6. CASE s.op = "none"
      <3>1. Build[s] = Nothing /\ Does(s, val) = DoesNothing
        BY <2>6, BuildCases, DoesCases
      <3> QED
        BY <3>1, NothingWorks
    <2>7. s.op \in {"extract_field", "return", "block", "if", "none"}
      BY <2>0 DEF Fine
    <2> HIDE DEF Good
    <2> QED
      BY <2>2, <2>3, <2>4, <2>5, <2>6, <2>7
  <1> HIDE DEF Good
  <1>2. Statement \subseteq Good
    BY <1>1, StatementInduction
  <1> QED
    BY <1>2 DEF Good

(* A graph without open ends does what its statement does. *)
LEMMA GraphMeans ==
  ASSUME NEW i, NEW w, NEW own \in Statement, AllFine(i, own), Clean(own),
         Build[own].start # Unset, Build[own].ends = {}
  PROVE  Walk(Graph(own).nodes, Graph(own).start, w) = Does(own, w)
  <1>1. PICK r : r = Build[own]
    OBVIOUS
  <1>2. PICK d : d = Does(own, w)
    OBVIOUS
  <1>3. WellBuilt(r) /\ Works(r, d, w)
    BY <1>1, <1>2, StatementWorks, BuildBuilt
  <1>4. r.start # Unset /\ r.ends = {}
    BY <1>1
  <1>5. Runs(r, d, w) /\ d.verdict # "none"
    BY <1>3, <1>4 DEF Works
  <1>6. PICK nodes : nodes = r.nodes
    OBVIOUS
  <1>7. nodes \in Seq(Node) /\ Len(nodes) \in Nat /\ r.start \in Nat
    BY <1>3, <1>6 DEF WellBuilt
  <1>8. PICK m \in Nat : m = Len(nodes)
    BY <1>7
  <1>9. Embedded(nodes, r, 0, 0)
    <2>1. ASSUME NEW n \in 1 .. m
          PROVE  nodes[0 + n] = [x \in DOMAIN nodes[n] |->
                                   IF <<n, x>> \in r.ends THEN 0
                                   ELSE IF x \in Pointers THEN nodes[n][x] + 0 ELSE nodes[n][x]]
      <3>1. PICK v : v = nodes[n]
        OBVIOUS
      <3>2. v \in Node
        BY <1>7, <1>8, <3>1, Elements
      <3>3. \A x \in DOMAIN v \cap Pointers : v[x] \in Nat
        BY <3>2 DEF Node
      <3>4. \A x \in DOMAIN v : (IF x \in Pointers THEN v[x] + 0 ELSE v[x]) = v[x]
        BY <3>3
      <3>5. v = [x \in DOMAIN v |-> v[x]]
        BY <3>2 DEF Node
      <3>6. v = [x \in DOMAIN v |-> IF x \in Pointers THEN v[x] + 0 ELSE v[x]]
        BY <3>4, <3>5
      <3>7. 0 + n = n
        OBVIOUS
      <3> QED
        BY <1>4, <3>1, <3>6, <3>7
    <2>2. 0 + m <= m
      OBVIOUS
    <2> QED
      BY <1>6, <1>7, <1>8, <2>1, <2>2 DEF Embedded
  <1>10. DoesNothing \in Outcome(Attribute)
    BY NothingTyped
  <1>11. Yields(nodes, w, r.start + 0, 0 + Len(r.nodes), InOrder(d, DoesNothing))
    BY <1>5, <1>9, <1>10 DEF Runs
  <1>12. InOrder(d, DoesNothing) = d
    BY <1>5, InOrderCases
  <1>13. r.start + 0 = r.start /\ 0 + m = m /\ m \in m .. m
    BY <1>7
  <1>14. Yields(nodes, w, r.start, m, d)
    BY <1>6, <1>8, <1>11, <1>12, <1>13
  <1>15. Paths(nodes, w)[m][r.start] = d
    BY <1>8, <1>13, <1>14 DEF Yields
  <1>16. Graph(own).nodes = nodes /\ Graph(own).start = r.start
    BY <1>1, <1>6 DEF Graph
  <1> QED
    BY <1>2, <1>8, <1>15, <1>16 DEF Walk

(* MeansSource: every graph that is built of its own file extracts and     *)
(* returns what its source does, for every value of the compared fields:   *)
(* whatever the program, its flag and the order in which constants are     *)
(* numbered.                                                               *)
THEOREM GraphsMeanSource == Spec => []MeansSource
  <1>1. TypeInv /\ OwnResult /\ (\A c \in Compilations : source[c] \in Sources[c]) => MeansSource
    <2> SUFFICES ASSUME OwnResult, \A c \in Compilations : source[c] \in Sources[c],
                        NEW c \in Compilations, Undisturbed(c, "built"), NEW val \in Values(info[c]),
                        NEW w \in {f \in [DOMAIN val -> UNION {Representatives(info[c], a, val[a]) : a \in DOMAIN val}] :
                                     \A a \in DOMAIN val : f[a] \in Representatives(info[c], a, val[a])}
                 PROVE  Walk(graph[c].nodes, graph[c].start, w) = Expanded(info[c], Does(Body(source[c]), val))
      BY DEF MeansSource
    <2>1. PICK prog \in ParserPrograms : prog = source[c]
      BY ProgramAssumption
    <2>2. PICK i : i = info[c]
      OBVIOUS
    <2>3. PICK own : own = PcProgram(i, prog)
      OBVIOUS
    <2>4. stage[c] = "built" /\ ~disturbed[c] /\ Regular(i, Body(prog))
      BY <2>1, <2>2 DEF Undisturbed
    <2>5. Collectable(prog) /\ i \in InfosOf(c) /\ graph[c] = Graph(own) /\ Generates(i, own)
      BY <2>1, <2>2, <2>3, <2>4 DEF OwnResult
    <2>6. Describes(i, prog) /\ Numbered(i, prog)
      BY <2>1, <2>5, OwnInfos DEF InfosOf
    <2>7. own \in Statement /\ AllFine(i, own) /\ Clean(own) /\ Emitted(i, Body(prog)) = <<own>>
      BY <2>3, <2>4, <2>5, <2>6, OwnProgram
    <2>8. Body(prog) \in Statement /\ Body(prog).op = "block" /\ OfProgram(prog, Body(prog))
      BY <2>5, BodyFacts
    <2>9. Build[own].start # Unset
      <3>1. own \in ToSet(Emitted(i, Body(prog)))
        BY <2>7 DEF ToSet
      <3> QED
        BY <2>4, <2>5, <2>6, <2>8, <3>1, EmittedEnds
    <2>10. Build[own].ends = {}
      BY <2>5 DEF Generates
    <2>11. Walk(Graph(own).nodes, Graph(own).start, w) = Does(own, w)
      BY <2>7, <2>9, <2>10, GraphMeans
    <2>12. StandsFor(i, w, val, prog)
      <3>1. DOMAIN val = ComparedAttrs(i)
        BY <2>2 DEF Values
      <3>2. \A a \in ComparedAttrs(i) : w[a] \in Representatives(i, a, val[a])
        BY <2>2, <3>1
      <3>3. ASSUME NEW t \in Tests(Body(prog)) PROVE t.attr \in ComparedAttrs(i)
        <4>1. t.attr \in Attributes(prog) /\ Kind(prog, t.attr) # "NotCompared"
          BY <2>5, CollectedTests
        <4> QED
          BY <2>6, <4>1 DEF ComparedAttrs, IsCompared, Describes
      <3> QED
        BY <3>2, <3>3 DEF StandsFor
    <2>13. AllInOrder(DoesOf(Emitted(i, Body(prog)), w)) = Expanded(i, Does(Body(prog), val))
      BY <2>4, <2>5, <2>6, <2>8, <2>12, EmittedMeans
    <2>14. own \in FineStatement(i)
      BY <2>7 DEF FineStatement
    <2>15. AllInOrder(DoesOf(Emitted(i, Body(prog)), w)) = Does(own, w)
      BY <2>7, <2>14, DoesOfOne
    <2> QED
      BY <2>1, <2>2, <2>5, <2>11, <2>13, <2>15
  <1> QED
    BY <1>1, AlwaysTypeInv, AlwaysOwnSource, OwnGraph, PTL
===============================================================================
