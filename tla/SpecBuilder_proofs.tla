------------------------- MODULE SpecBuilder_proofs -------------------------
(***************************************************************************)
(* Proofs about SpecBuilder, for every well-formed graph, every width of   *)
(* the attributes and every packet: what get_spec rejects, and what the    *)
(* specifications it returns mean.                                         *)
(***************************************************************************)
EXTENDS SpecBuilder, ControlFlowGraph_proofs

-----------------------------------------------------------------------------
(* The paths of a graph.                                                   *)

NodesOf(g) == {g[n] : n \in Nodes(g)}

LEMMA PathsStep ==
  ASSUME NEW g, WellFormed(g), NEW n \in Nodes(g),
         NEW f, \A k \in n + 1 .. Len(g) : f[k] \in SUBSET Seq(NodesOf(g))
  PROVE  /\ PathsFrom(g, f, n) \in SUBSET Seq(NodesOf(g))
         /\ \A h : (\A k \in n + 1 .. Len(g) : h[k] = f[k]) =>
                    PathsFrom(g, h, n) = PathsFrom(g, f, n)
  <1> DEFINE node == g[n]
             Then(h) == CASE node.kind = "exit" -> {<<>>}
                          [] node.kind = "extract" -> h[node.next]
                          [] node.kind = "if" -> h[node.next_true] \cup h[node.next_false]
  <1>1. \A h : PathsFrom(g, h, n) = {<<node>> \o p : p \in Then(h)}
    BY DEF PathsFrom
  <1>2. Then(f) \in SUBSET Seq(NodesOf(g))
    <2>1. CASE node.kind = "exit"
      BY <2>1
    <2>2. CASE node.kind = "extract"
      BY <2>2 DEF WellFormed, Nodes
    <2>3. CASE node.kind = "if"
      BY <2>3 DEF WellFormed, Nodes
    <2> QED
      BY <2>1, <2>2, <2>3 DEF WellFormed, Nodes
  <1>3. ASSUME NEW h, \A k \in n + 1 .. Len(g) : h[k] = f[k]
        PROVE  Then(h) = Then(f)
    BY <1>3 DEF WellFormed, Nodes
  <1>4. node \in NodesOf(g)
    BY DEF NodesOf
  <1>5. ASSUME NEW S, NEW x \in S, NEW q \in Seq(S)
        PROVE  <<x>> \o q \in Seq(S)
    OBVIOUS
  <1> HIDE DEF Then, node
  <1>6. \A q \in Then(f) : <<node>> \o q \in Seq(NodesOf(g))
    <2>1. \A q \in Then(f) : q \in Seq(NodesOf(g))
      BY <1>2
    <2> QED
      BY <1>4, <1>5, <2>1
  <1>7. PathsFrom(g, f, n) \in SUBSET Seq(NodesOf(g))
    <2>1. PathsFrom(g, f, n) = {<<node>> \o q : q \in Then(f)}
      BY <1>1
    <2> QED
      BY <1>6, <2>1
  <1>8. ASSUME NEW h, \A k \in n + 1 .. Len(g) : h[k] = f[k]
        PROVE  PathsFrom(g, h, n) = PathsFrom(g, f, n)
    <2>1. Then(h) = Then(f)
      BY <1>3, <1>8
    <2> QED
      BY <1>1, <2>1
  <1> QED
    BY <1>7, <1>8

LEMMA PathsExist ==
  ASSUME NEW g, WellFormed(g)
  PROVE  \A n \in Nodes(g) : /\ Paths(g, n) \in SUBSET Seq(NodesOf(g))
                            /\ Paths(g, n) = PathsFrom(g, AllPaths(g), n)
  <1> DEFINE D    == Nodes(g)
             V    == SUBSET Seq(NodesOf(g))
             node == [n \in D |-> n]
             step == [x \in D \X [D -> V] |-> PathsFrom(g, x[2], x[1])]
  <1>0. D = 1 .. Len(g)
    BY DEF WellFormed, Nodes
  <1>1. node \in [D -> 1 .. Len(g)] /\ Len(g) \in Nat \ {0}
    BY <1>0 DEF WellFormed
  <1>2. V # {}
    OBVIOUS
  <1>3. \A n \in D, f \in [D -> V] :
          /\ PathsFrom(g, f, n) \in V
          /\ \A h : (\A k \in n + 1 .. Len(g) : h[k] = f[k]) =>
                    PathsFrom(g, h, n) = PathsFrom(g, f, n)
    <2>1. \A n \in D : n + 1 .. Len(g) \subseteq D
      BY <1>0, <1>1
    <2>2. \A n \in D, f \in [D -> V] : \A k \in n + 1 .. Len(g) : f[k] \in V
      BY <2>1
    <2> HIDE DEF V
    <2> QED
      BY <2>2, PathsStep DEF V
  <1>4. step \in [D \X [D -> V] -> V]
    <2> HIDE DEF D, V
    <2> QED
      BY <1>3
  <1>5. \A a \in D : \A f, h \in [D -> V] :
          (\A b \in D : node[b] > node[a] => f[b] = h[b]) => step[<<a, f>>] = step[<<a, h>>]
    <2> SUFFICES ASSUME NEW a \in D, NEW f \in [D -> V], NEW h \in [D -> V],
                        \A b \in D : node[b] > node[a] => f[b] = h[b]
                 PROVE  step[<<a, f>>] = step[<<a, h>>]
      OBVIOUS
    <2>1. \A k \in a + 1 .. Len(g) : h[k] = f[k]
      BY <1>0, <1>1
    <2>2. step[<<a, f>>] = PathsFrom(g, f, a) /\ step[<<a, h>>] = PathsFrom(g, h, a)
      <3> HIDE DEF D, V
      <3> QED
        OBVIOUS
    <2> QED
      BY <1>3, <2>1, <2>2
  <1>6. PICK f \in [D -> V] : \A a \in D : f[a] = step[<<a, f>>]
    <2>1. LooksAhead(Len(g), D, V, node, step)
      <3> HIDE DEF D, V, node, step
      <3> QED
        BY <1>1, <1>2, <1>4, <1>5 DEF LooksAhead
    <2> HIDE DEF D, V, node, step
    <2> QED
      BY <2>1, RecursionExists
  <1>7. \A a \in D : f[a] = PathsFrom(g, f, a)
    <2> HIDE DEF D, V
    <2> QED
      BY <1>6
  <1> DEFINE Solves(w) == w = [n \in D |-> PathsFrom(g, w, n)]
  <1>8. Solves(AllPaths(g))
    <2>1. Solves(f)
      <3> HIDE DEF D, V
      <3> QED
        BY <1>7
    <2>2. AllPaths(g) = CHOOSE w : Solves(w)
      BY DEF AllPaths
    <2> HIDE DEF Solves
    <2> QED
      BY <2>1, <2>2
  <1>9. \A n \in D : AllPaths(g)[n] = PathsFrom(g, AllPaths(g), n)
    <2> HIDE DEF D
    <2> QED
      BY <1>8
  <1>10. \A n \in D : AllPaths(g)[n] \in V
    <2>1. ASSUME NEW a \in D, \A b \in D : node[b] > node[a] => AllPaths(g)[b] \in V
          PROVE  AllPaths(g)[a] \in V
      <3>1. \A k \in a + 1 .. Len(g) : AllPaths(g)[k] \in V
        BY <1>0, <1>1, <2>1
      <3> HIDE DEF D, V
      <3> QED
        BY <1>9, <3>1, PathsStep DEF D, V
    <2> HIDE DEF D, V, node
    <2> QED
      BY <1>1, <2>1, RecursionTyped
  <1> QED
    BY <1>9, <1>10 DEF Paths

(* Legal behind the marks M. *)
LegalFrom(path, M) ==
  \A i \in 1 .. Len(path) :
     /\ path[i].kind = "extract" => path[i].attr \notin M \cup ExtractedBefore(path, i)
     /\ path[i].kind = "if" => path[i].attr \in M \cup ExtractedBefore(path, i)

MarksAt(node, M) == IF node.kind = "extract" THEN M \cup {node.attr} ELSE M

LEMMA LegalStep ==
  ASSUME NEW S, NEW node \in S, NEW rest \in Seq(S), NEW M
  PROVE  LegalFrom(<<node>> \o rest, M) <=>
           /\ node.kind = "extract" => node.attr \notin M
           /\ node.kind = "if" => node.attr \in M
           /\ LegalFrom(rest, MarksAt(node, M))
  <1> DEFINE path == <<node>> \o rest
             Allowed(i) ==
               /\ path[i].kind = "extract" => path[i].attr \notin M \cup ExtractedBefore(path, i)
               /\ path[i].kind = "if" => path[i].attr \in M \cup ExtractedBefore(path, i)
             AllowedInRest(i) ==
               /\ rest[i].kind = "extract" =>
                    rest[i].attr \notin MarksAt(node, M) \cup ExtractedBefore(rest, i)
               /\ rest[i].kind = "if" =>
                    rest[i].attr \in MarksAt(node, M) \cup ExtractedBefore(rest, i)
  <1>1. /\ path[1] = node
        /\ Len(path) = Len(rest) + 1
        /\ \A i \in 1 .. Len(rest) : path[i + 1] = rest[i]
        /\ Len(rest) \in Nat
    OBVIOUS
  <1> HIDE DEF path
  <1>2. ExtractedBefore(path, 1) = {}
    BY DEF ExtractedBefore
  <1>3. ASSUME NEW i \in 1 .. Len(rest)
        PROVE  M \cup ExtractedBefore(path, i + 1) = MarksAt(node, M) \cup ExtractedBefore(rest, i)
    <2>1. ASSUME NEW x \in ExtractedBefore(path, i + 1)
          PROVE  x \in MarksAt(node, M) \cup ExtractedBefore(rest, i)
      <3>1. PICK j \in 1 .. i : path[j].kind = "extract" /\ x = path[j].attr
        BY DEF ExtractedBefore
      <3>2. CASE j = 1
        BY <1>1, <3>1, <3>2 DEF MarksAt
      <3>3. CASE j # 1
        <4>1. j - 1 \in 1 .. i - 1 /\ j - 1 \in 1 .. Len(rest) /\ (j - 1) + 1 = j
          BY <1>1, <3>3
        <4>2. path[j] = rest[j - 1]
          BY <1>1, <4>1
        <4> QED
          BY <3>1, <4>1, <4>2 DEF ExtractedBefore
      <3> QED
        BY <3>2, <3>3
    <2>2. ASSUME NEW x \in ExtractedBefore(rest, i)
          PROVE  x \in ExtractedBefore(path, i + 1)
      <3>1. PICK j \in 1 .. i - 1 : rest[j].kind = "extract" /\ x = rest[j].attr
        BY DEF ExtractedBefore
      <3>2. j + 1 \in 1 .. (i + 1) - 1 /\ path[j + 1] = rest[j]
        BY <1>1
      <3> QED
        BY <3>1, <3>2 DEF ExtractedBefore
    <2>3. node.kind = "extract" => node.attr \in ExtractedBefore(path, i + 1)
      <3>1. 1 \in 1 .. (i + 1) - 1
        BY <1>1
      <3> QED
        BY <1>1, <3>1 DEF ExtractedBefore
    <2> QED
      BY <2>1, <2>2, <2>3 DEF MarksAt
  <1>4. \A i \in 1 .. Len(rest) : Allowed(i + 1) <=> AllowedInRest(i)
    BY <1>1, <1>3
  <1>5. Allowed(1) <=> /\ node.kind = "extract" => node.attr \notin M
                       /\ node.kind = "if" => node.attr \in M
    BY <1>1, <1>2
  <1> HIDE DEF Allowed, AllowedInRest
  <1>6. (\A i \in 1 .. Len(path) : Allowed(i)) <=>
          Allowed(1) /\ \A i \in 1 .. Len(rest) : Allowed(i + 1)
    <2>1. 1 \in 1 .. Len(path) /\ \A i \in 1 .. Len(rest) : i + 1 \in 1 .. Len(path)
      BY <1>1
    <2>2. \A i \in 1 .. Len(path) : i = 1 \/ (i - 1 \in 1 .. Len(rest) /\ (i - 1) + 1 = i)
      BY <1>1
    <2> QED
      BY <2>1, <2>2
  <1>7. LegalFrom(path, M) <=> \A i \in 1 .. Len(path) : Allowed(i)
    BY DEF LegalFrom, Allowed
  <1>8. LegalFrom(rest, MarksAt(node, M)) <=> \A i \in 1 .. Len(rest) : AllowedInRest(i)
    BY DEF LegalFrom, AllowedInRest
  <1>9. LegalFrom(path, M) <=>
          /\ node.kind = "extract" => node.attr \notin M
          /\ node.kind = "if" => node.attr \in M
          /\ LegalFrom(rest, MarksAt(node, M))
    BY <1>4, <1>5, <1>6, <1>7, <1>8
  <1> QED
    BY <1>9 DEF path

(* The walk raises an error exactly if a path from the node is illegal     *)
(* behind its marks.                                                       *)
RaisesOnIllegal(g, n) ==
  /\ Paths(g, n) # {}
  /\ \A ptr \in Nat, M \in SUBSET Attrs :
       Raises(g, n, ptr, M) <=> \E path \in Paths(g, n) : ~LegalFrom(path, M)

LEMMA NodeRaisesOnIllegal ==
  ASSUME NEW g, WellFormed(g), NEW n \in Nodes(g),
         \A k \in n + 1 .. Len(g) : RaisesOnIllegal(g, k)
  PROVE  RaisesOnIllegal(g, n)
  <1> DEFINE node == g[n]
  <1>1. node \in NodesOf(g)
    BY DEF NodesOf
  <1>2. \A k \in n + 1 .. Len(g) :
          /\ k \in Nodes(g)
          /\ Paths(g, k) # {}
          /\ \A path \in Paths(g, k) : path \in Seq(NodesOf(g))
    BY PathsExist DEF RaisesOnIllegal, WellFormed, Nodes
  <1>3. CASE node.kind = "exit"
    <2>1. Paths(g, n) = {<<node>> \o <<>>}
      BY <1>3, PathsExist DEF PathsFrom
    <2>2. ASSUME NEW M PROVE LegalFrom(<<node>> \o <<>>, M)
      <3>1. LegalFrom(<<>>, MarksAt(node, M))
        BY DEF LegalFrom
      <3>2. <<>> \in Seq(NodesOf(g))
        OBVIOUS
      <3> QED
        BY <1>1, <1>3, <3>1, <3>2, LegalStep
    <2>3. \A ptr \in Nat, M \in SUBSET Attrs : ~Raises(g, n, ptr, M)
      BY <1>3, SizeWalkRaises
    <2> QED
      BY <2>1, <2>2, <2>3 DEF RaisesOnIllegal
  <1>4. CASE node.kind = "extract"
    <2>1. node.next \in n + 1 .. Len(g) /\ node.attr \in Attrs
      BY <1>4 DEF WellFormed, Nodes
    <2>2. Paths(g, n) = {<<node>> \o path : path \in Paths(g, node.next)}
      BY <1>4, PathsExist DEF PathsFrom, Paths
    <2>3. ASSUME NEW ptr \in Nat, NEW M \in SUBSET Attrs
          PROVE  Raises(g, n, ptr, M) <=> \E path \in Paths(g, n) : ~LegalFrom(path, M)
      <3> DEFINE M1 == M \cup {node.attr}
                 ptr1 == ptr + AttrSize[node.attr]
      <3>1. Raises(g, n, ptr, M) <=> node.attr \in M \/ Raises(g, node.next, ptr1, M1)
        BY <1>4, SizeWalkRaises
      <3>2. ptr1 \in Nat /\ M1 \in SUBSET Attrs
        BY <2>1, GraphAssumption
      <3> HIDE DEF ptr1
      <3>3. Raises(g, node.next, ptr1, M1) <=>
              \E path \in Paths(g, node.next) : ~LegalFrom(path, M1)
        BY <2>1, <3>2 DEF RaisesOnIllegal
      <3>4. \A path \in Paths(g, node.next) :
              LegalFrom(<<node>> \o path, M) <=> node.attr \notin M /\ LegalFrom(path, M1)
        <4>1. MarksAt(node, M) = M1
          BY <1>4 DEF MarksAt
        <4>2. \A path \in Paths(g, node.next) : path \in Seq(NodesOf(g))
          BY <1>2, <2>1
        <4> HIDE DEF node, M1
        <4> QED
          BY <1>1, <1>4, <4>1, <4>2, LegalStep
      <3> HIDE DEF M1, node
      <3> QED
        BY <1>2, <2>1, <2>2, <3>1, <3>3, <3>4
    <2>4. Paths(g, n) # {}
      BY <1>2, <2>1, <2>2
    <2> QED
      BY <2>3, <2>4 DEF RaisesOnIllegal
  <1>5. CASE node.kind = "if"
    <2>1. node.next_true \in n + 1 .. Len(g) /\ node.next_false \in n + 1 .. Len(g)
      BY <1>5 DEF WellFormed, Nodes
    <2>2. Paths(g, n) = {<<node>> \o path :
                           path \in Paths(g, node.next_true) \cup Paths(g, node.next_false)}
      BY <1>5, PathsExist DEF PathsFrom, Paths
    <2>3. ASSUME NEW ptr \in Nat, NEW M \in SUBSET Attrs
          PROVE  Raises(g, n, ptr, M) <=> \E path \in Paths(g, n) : ~LegalFrom(path, M)
      <3>1. Raises(g, n, ptr, M) <=>
              \/ node.attr \notin M
              \/ Raises(g, node.next_true, ptr, M)
              \/ Raises(g, node.next_false, ptr, M)
        BY <1>5, SizeWalkRaises
      <3>2. /\ Raises(g, node.next_true, ptr, M) <=>
                 \E path \in Paths(g, node.next_true) : ~LegalFrom(path, M)
            /\ Raises(g, node.next_false, ptr, M) <=>
                 \E path \in Paths(g, node.next_false) : ~LegalFrom(path, M)
        BY <2>1 DEF RaisesOnIllegal
      <3>3. \A path \in Paths(g, node.next_true) \cup Paths(g, node.next_false) :
              LegalFrom(<<node>> \o path, M) <=> node.attr \in M /\ LegalFrom(path, M)
        <4>1. MarksAt(node, M) = M
          BY <1>5 DEF MarksAt
        <4>2. \A path \in Paths(g, node.next_true) \cup Paths(g, node.next_false) :
                path \in Seq(NodesOf(g))
          BY <1>2, <2>1
        <4> HIDE DEF node
        <4> QED
          BY <1>1, <1>5, <4>1, <4>2, LegalStep
      <3> DEFINE then == Paths(g, node.next_true) \cup Paths(g, node.next_false)
      <3>4. then # {}
        BY <1>2, <2>1
      <3>5. Raises(g, n, ptr, M) <=>
              node.attr \notin M \/ \E path \in then : ~LegalFrom(path, M)
        BY <3>1, <3>2
      <3>6. (\E path \in Paths(g, n) : ~LegalFrom(path, M)) <=>
              \E path \in then : ~LegalFrom(<<node>> \o path, M)
        BY <2>2
      <3> HIDE DEF node, then
      <3> QED
        BY <3>3, <3>4, <3>5, <3>6 DEF then
    <2>4. Paths(g, n) # {}
      BY <1>2, <2>1, <2>2
    <2> QED
      BY <2>3, <2>4 DEF RaisesOnIllegal
  <1> QED
    BY <1>3, <1>4, <1>5 DEF WellFormed, Nodes

LEMMA WalkRaisesOnIllegal ==
  ASSUME NEW g, WellFormed(g)
  PROVE  Raises(g, 1, 0, {}) <=> \E path \in Paths(g, 1) : ~Legal(path)
  <1> DEFINE Good == {n \in 1 .. Len(g) : RaisesOnIllegal(g, n)}
  <1>1. Len(g) \in Nat \ {0} /\ Nodes(g) = 1 .. Len(g)
    BY DEF WellFormed, Nodes
  <1>2. ASSUME NEW n \in 1 .. Len(g), n + 1 .. Len(g) \subseteq Good
        PROVE  n \in Good
    <2>1. \A k \in n + 1 .. Len(g) : RaisesOnIllegal(g, k)
      BY <1>2
    <2> QED
      BY <1>1, <2>1, NodeRaisesOnIllegal
  <1>3. 1 .. Len(g) \subseteq Good
    <2> HIDE DEF Good
    <2> QED
      BY <1>1, <1>2, NodeInduction
  <1>4. RaisesOnIllegal(g, 1) /\ 1 \in Nodes(g)
    BY <1>1, <1>3
  <1>5. Raises(g, 1, 0, {}) <=> \E path \in Paths(g, 1) : ~LegalFrom(path, {})
    <2>1. 0 \in Nat /\ {} \in SUBSET Attrs
      OBVIOUS
    <2> QED
      BY <1>4, <2>1 DEF RaisesOnIllegal
  <1>6. ASSUME NEW path \in Paths(g, 1) PROVE LegalFrom(path, {}) <=> Legal(path)
    <2>1. path \in Seq(NodesOf(g))
      BY <1>4, PathsExist
    <2>2. DOMAIN path = 1 .. Len(path)
      BY <2>1
    <2> QED
      BY <2>2 DEF LegalFrom, Legal
  <1> QED
    BY <1>5, <1>6

-----------------------------------------------------------------------------
(* What holds of get_spec between the calls of the specification: the list *)
(* is any list of words, since every walk may have written to it, but the  *)
(* validation has not raised an error.                                     *)
IInv ==
  /\ graph \in Graphs
  /\ cur_phv \in [Fields -> Word]
  /\ status \in {"built", "rejected", "valid", "specified"}
  /\ status = "rejected" => Raises(graph, 1, 0, {})
  /\ status \in {"valid", "specified"} => ~Raises(graph, 1, 0, {})
  /\ SpecIsMeaning

LEMMA InitIInv == Init => IInv
  BY SentinelIsWord DEF Init, IInv, InitialPhv, SpecIsMeaning

LEMMA ValidateIInv ==
  ASSUME IInv, Validate
  PROVE  IInv'
  BY DEF Validate, IInv, Raises, SpecIsMeaning

LEMMA CallSpecIInv ==
  ASSUME IInv, NEW p, CallSpec(p)
  PROVE  IInv'
  <1> DEFINE v == MakeSpec(graph, 1, cur_phv, 0, p)
  <1>1. /\ graph' = graph /\ packet' = p /\ status' = "specified"
        /\ cur_phv' = v.cur
        /\ result' = [phv |-> v.phv, accept |-> v.accept]
    BY DEF CallSpec
  <1>2. WellFormed(graph) /\ ~Raises(graph, 1, 0, {})
    BY GraphsAssumption DEF IInv, CallSpec
  <1>3. /\ v \in SpecResult
        /\ [phv |-> v.phv, accept |-> v.accept] = Follow(graph, 1, InitialPhv, 0, p)
    BY <1>2, MakeSpecMeans DEF IInv
  <1> HIDE DEF v
  <1>4. SpecIsMeaning'
    BY <1>1, <1>3 DEF SpecIsMeaning
  <1>5. cur_phv' \in [Fields -> Word]
    BY <1>1, <1>3 DEF SpecResult
  <1> QED
    BY <1>1, <1>2, <1>4, <1>5 DEF IInv

LEMMA AlwaysIInv == Spec => []IInv
  <1>1. ASSUME IInv, [Next]_vars
        PROVE  IInv'
    <2>1. CASE Validate
      BY <1>1, <2>1, ValidateIInv
    <2>2. CASE \E p \in Packets(max_packet_size) : CallSpec(p)
      BY <1>1, <2>2, CallSpecIInv
    <2>3. CASE UNCHANGED vars
      BY <1>1, <2>3 DEF IInv, vars, SpecIsMeaning
    <2> QED
      BY <1>1, <2>1, <2>2, <2>3 DEF Next
  <1> QED
    BY <1>1, InitIInv, PTL DEF Spec

(* Whatever the packets of the earlier calls left in the shared list, what *)
(* get_spec returns is the meaning of the program on the packet.           *)
THEOREM EverySpecIsMeaning == Spec => []SpecIsMeaning
  <1>1. IInv => SpecIsMeaning
    BY DEF IInv
  <1> QED
    BY <1>1, AlwaysIInv, PTL

(* get_max_packet_size rejects a program exactly if one of its paths       *)
(* extracts a field twice or compares a field it has not extracted.        *)
THEOREM OnlyIllegalRejected == Spec => []RejectsIllegalPaths
  <1>1. IInv => RejectsIllegalPaths
    <2> SUFFICES ASSUME IInv, status # "built"
                 PROVE  status = "rejected" <=> \E path \in Paths(graph, 1) : ~Legal(path)
      BY DEF RejectsIllegalPaths
    <2>1. WellFormed(graph)
      BY GraphsAssumption DEF IInv
    <2>2. status = "rejected" <=> Raises(graph, 1, 0, {})
      BY DEF IInv
    <2> QED
      BY <2>1, <2>2, WalkRaisesOnIllegal
  <1> QED
    BY <1>1, AlwaysIInv, PTL
=============================================================================
