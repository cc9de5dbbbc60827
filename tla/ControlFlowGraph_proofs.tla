----------------------- MODULE ControlFlowGraph_proofs -----------------------
(***************************************************************************)
(* What the walks over a control-flow graph compute, for every well-formed *)
(* graph, every width of the attributes and every packet.  The walks are   *)
(* recursive functions: that each exists, and induction from the last node *)
(* to the first, are lemmas of StateMachine_proofs for any step that looks *)
(* only at later nodes.                                                    *)
(***************************************************************************)
EXTENDS ControlFlowGraph, StateMachine_proofs, FiniteSetTheorems

-----------------------------------------------------------------------------
(* get_max_packet_size.                                                    *)

SizeArgs(g)  == Nodes(g) \X Nat \X SUBSET Attrs
SizeResult   == [size : Nat, marked : SUBSET Attrs, raised : BOOLEAN]
LaterSizes(g, n) == {a \in SizeArgs(g) : a[1] > n}

LEMMA MaxOfTwo ==
  ASSUME NEW x \in Nat, NEW y \in Nat
  PROVE  Max({x, y}) = IF x >= y THEN x ELSE y
  <1> DEFINE top == IF x >= y THEN x ELSE y
  <1>1. top \in {x, y} /\ \A z \in {x, y} : top >= z
    OBVIOUS
  <1>2. \A z \in {x, y} : (\A w \in {x, y} : z >= w) => z = top
    OBVIOUS
  <1> QED
    BY <1>1, <1>2 DEF Max

(* What a node's method asks of the later nodes, and what it makes of it.  *)
LEMMA SizeAtStep ==
  ASSUME NEW g, WellFormed(g), NEW n \in Nodes(g), NEW ptr \in Nat, NEW M \in SUBSET Attrs,
         NEW f, \A a \in LaterSizes(g, n) : f[a] \in SizeResult
  PROVE  /\ SizeAt(g, f, n, ptr, M) \in SizeResult
         /\ \A h : (\A a \in LaterSizes(g, n) : h[a] = f[a]) =>
                    SizeAt(g, h, n, ptr, M) = SizeAt(g, f, n, ptr, M)
  <1> DEFINE node == g[n]
  <1>1. CASE node.kind = "exit"
    BY <1>1 DEF SizeAt, SizeResult
  <1>2. CASE node.kind = "extract" /\ node.attr \in M
    BY <1>2 DEF SizeAt, SizeResult
  <1>3. CASE node.kind = "extract" /\ node.attr \notin M
    <2> DEFINE a == <<node.next, ptr + AttrSize[node.attr], M \cup {node.attr}>>
    <2>1. a \in LaterSizes(g, n)
      <3>1. node.attr \in Attrs /\ node.next \in n + 1 .. Len(g)
        BY <1>3 DEF WellFormed, Nodes
      <3>2. AttrSize[node.attr] \in Nat
        BY <3>1, GraphAssumption
      <3> QED
        BY <3>1, <3>2 DEF LaterSizes, SizeArgs, WellFormed, Nodes
    <2>2. f[a] \in SizeResult
      BY <2>1
    <2>3. \A h : SizeAt(g, h, n, ptr, M) = [h[a] EXCEPT !.marked = @ \ {node.attr}]
      BY <1>3 DEF SizeAt, Unmark
    <2>4. [f[a] EXCEPT !.marked = @ \ {node.attr}] \in SizeResult
      <3> HIDE DEF a
      <3> QED
        BY <2>2 DEF SizeResult
    <2> HIDE DEF a, node
    <2> QED
      BY <2>1, <2>3, <2>4
  <1>4. CASE node.kind = "if" /\ node.attr \notin M
    BY <1>4 DEF SizeAt, SizeResult
  <1>5. CASE node.kind = "if" /\ node.attr \in M
    <2> DEFINE a    == <<node.next_true, ptr, M>>
               b(r) == <<node.next_false, ptr, r.marked>>
    <2>1. /\ a \in LaterSizes(g, n)
          /\ \A r \in SizeResult : b(r) \in LaterSizes(g, n)
      <3>1. {node.next_true, node.next_false} \subseteq n + 1 .. Len(g)
        BY <1>5 DEF WellFormed, Nodes
      <3> QED
        BY <3>1 DEF LaterSizes, SizeArgs, WellFormed, Nodes, SizeResult
    <2>2. f[a] \in SizeResult /\ f[b(f[a])] \in SizeResult
      BY <2>1
    <2>3. \A h : SizeAt(g, h, n, ptr, M) =
                  IF h[a].raised THEN h[a]
                  ELSE [h[b(h[a])] EXCEPT !.size = Max({h[a].size, @})]
      BY <1>5 DEF SizeAt
    <2>4. Max({f[a].size, f[b(f[a])].size}) \in Nat
      BY <2>2, MaxOfTwo DEF SizeResult
    <2>5. SizeAt(g, f, n, ptr, M) \in SizeResult
      <3> HIDE DEF a, b
      <3> QED
        BY <2>2, <2>3, <2>4 DEF SizeResult
    <2>6. ASSUME NEW h, \A c \in LaterSizes(g, n) : h[c] = f[c]
          PROVE  SizeAt(g, h, n, ptr, M) = SizeAt(g, f, n, ptr, M)
      <3>1. h[a] = f[a] /\ h[b(f[a])] = f[b(f[a])]
        BY <2>1, <2>2, <2>6
      <3> HIDE DEF a
      <3> QED
        BY <2>3, <3>1
    <2> QED
      BY <2>5, <2>6
  <1> QED
    BY <1>1, <1>2, <1>3, <1>4, <1>5 DEF WellFormed, Nodes

(* The walk exists and does at every node what the node's method does.     *)
LEMMA SizeWalkExists ==
  ASSUME NEW g, WellFormed(g)
  PROVE  /\ SizeWalk(g) \in [SizeArgs(g) -> SizeResult]
         /\ \A a \in SizeArgs(g) : SizeWalk(g)[a] = SizeAt(g, SizeWalk(g), a[1], a[2], a[3])
  <1> DEFINE D    == SizeArgs(g)
             V    == SizeResult
             node == [a \in D |-> a[1]]
             step == [x \in D \X [D -> V] |-> SizeAt(g, x[2], x[1][1], x[1][2], x[1][3])]
  <1>1. node \in [D -> 1 .. Len(g)] /\ Len(g) \in Nat \ {0}
    BY DEF SizeArgs, WellFormed, Nodes
  <1>2. V # {}
    <2>1. [size |-> 0, marked |-> {}, raised |-> FALSE] \in V
      BY DEF SizeResult
    <2> QED
      BY <2>1
  <1>3. \A a \in D : a[1] \in Nodes(g) /\ a[2] \in Nat /\ a[3] \in SUBSET Attrs
    BY DEF SizeArgs
  <1>4. \A a \in D, f \in [D -> V] :
          /\ SizeAt(g, f, a[1], a[2], a[3]) \in V
          /\ \A h : (\A b \in LaterSizes(g, a[1]) : h[b] = f[b]) =>
                    SizeAt(g, h, a[1], a[2], a[3]) = SizeAt(g, f, a[1], a[2], a[3])
    BY <1>3, SizeAtStep DEF LaterSizes
  <1>5. step \in [D \X [D -> V] -> V]
    <2>1. \A x \in D \X [D -> V] : SizeAt(g, x[2], x[1][1], x[1][2], x[1][3]) \in V
      BY <1>4
    <2> HIDE DEF D, V
    <2> QED
      BY <2>1
  <1>6. \A a \in D : \A f, h \in [D -> V] :
          (\A b \in D : node[b] > node[a] => f[b] = h[b]) => step[<<a, f>>] = step[<<a, h>>]
    <2> SUFFICES ASSUME NEW a \in D, NEW f \in [D -> V], NEW h \in [D -> V],
                        \A b \in D : node[b] > node[a] => f[b] = h[b]
                 PROVE  step[<<a, f>>] = step[<<a, h>>]
      OBVIOUS
    <2>1. \A b \in LaterSizes(g, a[1]) : h[b] = f[b]
      BY DEF LaterSizes
    <2>2. /\ step[<<a, f>>] = SizeAt(g, f, a[1], a[2], a[3])
          /\ step[<<a, h>>] = SizeAt(g, h, a[1], a[2], a[3])
      <3> HIDE DEF D, V
      <3> QED
        OBVIOUS
    <2> QED
      BY <1>4, <2>1, <2>2
  <1>7. PICK f \in [D -> V] : \A a \in D : f[a] = step[<<a, f>>]
    <2>1. LooksAhead(Len(g), D, V, node, step)
      <3> HIDE DEF D, V, node, step
      <3> QED
        BY <1>1, <1>2, <1>5, <1>6 DEF LooksAhead
    <2> HIDE DEF D, V, node, step
    <2> QED
      BY <2>1, RecursionExists
  <1>8. \A a \in D : f[a] = SizeAt(g, f, a[1], a[2], a[3])
    <2> HIDE DEF D, V
    <2> QED
      BY <1>7
  <1> DEFINE Solves(w) == w = [a \in D |-> SizeAt(g, w, a[1], a[2], a[3])]
  <1>9. Solves(SizeWalk(g))
    <2>1. Solves(f)
      <3> HIDE DEF D, V
      <3> QED
        BY <1>8
    <2>2. SizeWalk(g) = CHOOSE w : Solves(w)
      BY DEF SizeWalk, SizeArgs
    <2> HIDE DEF Solves
    <2> QED
      BY <2>1, <2>2
  <1>10. \A a \in D : SizeWalk(g)[a] = SizeAt(g, SizeWalk(g), a[1], a[2], a[3])
    <2> HIDE DEF D
    <2> QED
      BY <1>9
  <1>11. \A a \in D : SizeWalk(g)[a] \in V
    <2>1. ASSUME NEW a \in D, \A b \in D : node[b] > node[a] => SizeWalk(g)[b] \in V
          PROVE  SizeWalk(g)[a] \in V
      <3>1. \A b \in LaterSizes(g, a[1]) : SizeWalk(g)[b] \in V
        BY <2>1 DEF LaterSizes
      <3> HIDE DEF D, V
      <3> QED
        BY <1>3, <1>10, <3>1, SizeAtStep DEF V
    <2> HIDE DEF D, V, node
    <2> QED
      BY <1>1, <2>1, RecursionTyped
  <1>12. SizeWalk(g) \in [D -> V]
    <2> HIDE DEF D, V
    <2> QED
      BY <1>9, <1>11
  <1> QED
    BY <1>10, <1>12

(* A walk that ends without an error leaves the marks as it found them.    *)
LEMMA SizeWalkUnmarks ==
  ASSUME NEW g, WellFormed(g), NEW n \in Nodes(g), NEW ptr \in Nat, NEW M \in SUBSET Attrs
  PROVE  /\ GetMaxPacketSize(g, n, ptr, M) \in SizeResult
         /\ ~GetMaxPacketSize(g, n, ptr, M).raised => GetMaxPacketSize(g, n, ptr, M).marked = M
  <1> DEFINE W == SizeWalk(g)
             Clean(k) == \A q \in Nat, S \in SUBSET Attrs :
                           ~W[<<k, q, S>>].raised => W[<<k, q, S>>].marked = S
             Good == {k \in 1 .. Len(g) : Clean(k)}
  <1>1. \A k \in Nodes(g), q \in Nat, S \in SUBSET Attrs :
           /\ W[<<k, q, S>>] \in SizeResult
           /\ W[<<k, q, S>>] = SizeAt(g, W, k, q, S)
    <2> SUFFICES ASSUME NEW k \in Nodes(g), NEW q \in Nat, NEW S \in SUBSET Attrs
                 PROVE  /\ W[<<k, q, S>>] \in SizeResult
                        /\ W[<<k, q, S>>] = SizeAt(g, W, k, q, S)
      OBVIOUS
    <2>1. <<k, q, S>> \in SizeArgs(g)
      BY DEF SizeArgs
    <2> HIDE DEF W
    <2> QED
      BY <2>1, SizeWalkExists DEF W
  <1>2. ASSUME NEW k \in 1 .. Len(g), k + 1 .. Len(g) \subseteq Good
        PROVE  k \in Good
    <2> SUFFICES ASSUME NEW q \in Nat, NEW S \in SUBSET Attrs, ~W[<<k, q, S>>].raised
                 PROVE  W[<<k, q, S>>].marked = S
      OBVIOUS
    <2> DEFINE node == g[k]
    <2>1. W[<<k, q, S>>] = SizeAt(g, W, k, q, S)
      BY <1>1 DEF WellFormed, Nodes
    <2>2. \A j \in k + 1 .. Len(g) : Clean(j) /\ j \in Nodes(g)
      BY <1>2 DEF WellFormed, Nodes
    <2> HIDE DEF W, Clean, Good
    <2>3. CASE node.kind = "exit"
      BY <2>1, <2>3 DEF SizeAt
    <2>4. CASE node.kind = "extract"
      <3>1. node.attr \notin S
        BY <2>1, <2>4 DEF SizeAt
      <3> DEFINE q1 == q + AttrSize[node.attr]
                 S1 == S \cup {node.attr}
                 rest == W[<<node.next, q1, S1>>]
      <3>2. node.attr \in Attrs /\ node.next \in k + 1 .. Len(g)
        BY <2>4 DEF WellFormed
      <3>3. q1 \in Nat /\ S1 \in SUBSET Attrs
        BY <3>2, GraphAssumption
      <3>4. W[<<k, q, S>>] = [rest EXCEPT !.marked = @ \ {node.attr}]
        BY <2>1, <2>4, <3>1 DEF SizeAt, Unmark
      <3>5. rest \in SizeResult /\ Clean(node.next)
        BY <1>1, <2>2, <3>2, <3>3
      <3> HIDE DEF q1, S1
      <3>6. ~rest.raised => rest.marked = S1
        BY <3>3, <3>5 DEF Clean
      <3> HIDE DEF rest
      <3>7. ~rest.raised /\ W[<<k, q, S>>].marked = rest.marked \ {node.attr}
        BY <3>4, <3>5 DEF SizeResult
      <3> QED
        BY <3>1, <3>6, <3>7 DEF S1
    <2>5. CASE node.kind = "if"
      <3>1. node.attr \in S
        BY <2>1, <2>5 DEF SizeAt
      <3> DEFINE t == W[<<node.next_true, q, S>>]
                 e == W[<<node.next_false, q, S>>]
      <3>2. {node.next_true, node.next_false} \subseteq k + 1 .. Len(g)
        BY <2>5 DEF WellFormed
      <3>3. /\ t \in SizeResult /\ Clean(node.next_true)
            /\ e \in SizeResult /\ Clean(node.next_false)
        BY <1>1, <2>2, <3>2
      <3>4. ~t.raised /\ t.marked = S
        BY <2>1, <2>5, <3>1, <3>3 DEF SizeAt, Clean
      <3>5. W[<<k, q, S>>] = [e EXCEPT !.size = Max({t.size, @})]
        BY <2>1, <2>5, <3>1, <3>4 DEF SizeAt
      <3>6. ~e.raised => e.marked = S
        BY <3>3 DEF Clean
      <3> HIDE DEF e
      <3> QED
        BY <3>3, <3>5, <3>6 DEF SizeResult
    <2> QED
      BY <2>3, <2>4, <2>5 DEF WellFormed
  <1>3. n \in Good
    <2>1. Len(g) \in Nat /\ n \in 1 .. Len(g)
      BY DEF WellFormed, Nodes
    <2> HIDE DEF Good
    <2> QED
      BY <1>2, <2>1, NodeInduction
  <1> QED
    BY <1>1, <1>3 DEF GetMaxPacketSize

Raises(g, n, ptr, M) == GetMaxPacketSize(g, n, ptr, M).raised

(* Where the walk raises an error. *)
LEMMA SizeWalkRaises ==
  ASSUME NEW g, WellFormed(g), NEW n \in Nodes(g), NEW ptr \in Nat, NEW M \in SUBSET Attrs
  PROVE  /\ Raises(g, n, ptr, M) \in BOOLEAN
         /\ g[n].kind = "exit" => ~Raises(g, n, ptr, M)
         /\ g[n].kind = "extract" =>
              (Raises(g, n, ptr, M) <=>
                 \/ g[n].attr \in M
                 \/ Raises(g, g[n].next, ptr + AttrSize[g[n].attr], M \cup {g[n].attr}))
         /\ g[n].kind = "if" =>
              (Raises(g, n, ptr, M) <=>
                 \/ g[n].attr \notin M
                 \/ Raises(g, g[n].next_true, ptr, M)
                 \/ Raises(g, g[n].next_false, ptr, M))
  <1> DEFINE node == g[n]
             W(k, q, S) == GetMaxPacketSize(g, k, q, S)
  <1>1. W(n, ptr, M) = SizeAt(g, SizeWalk(g), n, ptr, M)
    <2>1. <<n, ptr, M>> \in SizeArgs(g)
      BY DEF SizeArgs
    <2> QED
      BY <2>1, SizeWalkExists DEF GetMaxPacketSize
  <1>2. W(n, ptr, M).raised \in BOOLEAN
    BY SizeWalkUnmarks DEF SizeResult
  <1>3. CASE node.kind = "exit"
    BY <1>1, <1>2, <1>3 DEF SizeAt, Raises
  <1>4. CASE node.kind = "extract"
    <2> DEFINE rest == W(node.next, ptr + AttrSize[node.attr], M \cup {node.attr})
    <2>1. node.attr \in M => W(n, ptr, M).raised
      BY <1>1, <1>4 DEF SizeAt
    <2>2. ASSUME node.attr \notin M PROVE W(n, ptr, M).raised = rest.raised
      <3>1. rest \in SizeResult
        <4>1. node.attr \in Attrs /\ node.next \in Nodes(g)
          BY <1>4 DEF WellFormed, Nodes
        <4>2. ptr + AttrSize[node.attr] \in Nat /\ M \cup {node.attr} \in SUBSET Attrs
          BY <4>1, GraphAssumption
        <4> QED
          BY <4>1, <4>2, SizeWalkUnmarks
      <3>2. W(n, ptr, M) = [rest EXCEPT !.marked = @ \ {node.attr}]
        BY <1>1, <1>4, <2>2 DEF SizeAt, Unmark, GetMaxPacketSize
      <3> HIDE DEF rest, W
      <3> QED
        BY <3>1, <3>2 DEF SizeResult
    <2> HIDE DEF rest
    <2>3. W(n, ptr, M).raised <=> node.attr \in M \/ rest.raised
      BY <1>2, <2>1, <2>2
    <2> QED
      BY <1>2, <1>4, <2>3 DEF rest, Raises
  <1>5. CASE node.kind = "if"
    <2> DEFINE t == W(node.next_true, ptr, M)
               e == W(node.next_false, ptr, M)
    <2>1. node.attr \notin M => W(n, ptr, M).raised
      BY <1>1, <1>5 DEF SizeAt
    <2>2. ASSUME node.attr \in M
          PROVE  W(n, ptr, M).raised = (t.raised \/ e.raised)
      <3>1. /\ t \in SizeResult /\ (~t.raised => t.marked = M)
            /\ e \in SizeResult
        <4>1. node.next_true \in Nodes(g) /\ node.next_false \in Nodes(g)
          BY <1>5 DEF WellFormed, Nodes
        <4> QED
          BY <4>1, SizeWalkUnmarks
      <3>2. CASE t.raised
        BY <1>1, <1>5, <2>2, <3>1, <3>2 DEF SizeAt, GetMaxPacketSize, SizeResult
      <3>3. CASE ~t.raised
        <4>1. W(n, ptr, M) = [e EXCEPT !.size = Max({t.size, @})]
          BY <1>1, <1>5, <2>2, <3>1, <3>3 DEF SizeAt, GetMaxPacketSize
        <4> HIDE DEF e, t, W
        <4> QED
          BY <3>1, <3>3, <4>1 DEF SizeResult
      <3> QED
        BY <3>2, <3>3
    <2>3. W(n, ptr, M).raised <=> node.attr \notin M \/ t.raised \/ e.raised
      <3> HIDE DEF t, e, W, node
      <3> QED
        BY <1>2, <2>1, <2>2
    <2> QED
      BY <1>2, <1>5, <2>3 DEF Raises
  <1> QED
    BY <1>2, <1>3, <1>4, <1>5 DEF WellFormed, Nodes

-----------------------------------------------------------------------------
(* Different attributes that are kept have different fields. *)
LEMMA FieldNoInjective ==
  /\ \A a \in Attrs : Kept(a) => FieldNo(a) \in Fields
  /\ \A a, b \in Attrs : Kept(a) /\ Kept(b) /\ a # b => FieldNo(a) # FieldNo(b)
  <1>1. Attrs \subseteq Nat /\ Cardinality(Attrs) \in Nat
    BY GraphAssumption, FS_CardinalityType
  <1>2. CASE ~DropUncompared
    <2>1. {a \in Attrs : Kept(a)} = Attrs
      BY <1>2 DEF Kept
    <2>2. NoFields = Cardinality(Attrs) /\ Attrs = 0 .. Cardinality(Attrs) - 1
      BY <2>1, GraphAssumption
    <2> QED
      BY <1>2, <2>2 DEF Fields, FieldNo
  <1>3. CASE DropUncompared
    <2> DEFINE Before(a) == {b \in Compared : b < a}
    <2>1. IsFiniteSet(Compared) /\ Compared \subseteq Attrs
      BY GraphAssumption, FS_Subset
    <2>2. {a \in Attrs : Kept(a)} = Compared
      BY <1>3, <2>1 DEF Kept
    <2>3. NoFields = Cardinality(Compared)
      BY <2>2, GraphAssumption
    <2>4. \A a \in Compared : IsFiniteSet(Before(a)) /\ Cardinality(Before(a)) \in Nat
      BY <2>1, FS_Subset, FS_CardinalityType
    <2>5. ASSUME NEW a \in Compared
          PROVE  Cardinality(Before(a)) < Cardinality(Compared)
      <3>1. Before(a) \subseteq Compared /\ a \notin Before(a)
        BY <1>1, <2>1
      <3>2. Before(a) # Compared
        BY <3>1
      <3> HIDE DEF Before
      <3>3. Cardinality(Before(a)) \in Nat /\ Cardinality(Compared) \in Nat
        BY <2>1, <2>4, FS_CardinalityType
      <3> QED
        BY <2>1, <3>1, <3>2, <3>3, FS_Subset
    <2>6. ASSUME NEW a \in Compared, NEW b \in Compared, a < b
          PROVE  Cardinality(Before(a)) < Cardinality(Before(b))
      <3>1. a \in Nat /\ b \in Nat /\ Compared \subseteq Nat
        BY <1>1, <2>1
      <3>2. ASSUME NEW c \in Before(a) PROVE c \in Before(b)
        <4>1. c \in Compared /\ c < a
          OBVIOUS
        <4>2. c \in Nat
          BY <3>1, <4>1
        <4>3. c < b
          BY <2>6, <3>1, <4>1, <4>2
        <4> QED
          BY <4>1, <4>3
      <3>3. a \notin Before(a) /\ a \in Before(b)
        BY <2>6, <3>1
      <3>4. Before(a) # Before(b)
        BY <3>3
      <3> HIDE DEF Before
      <3> QED
        BY <2>4, <3>2, <3>4, FS_Subset
    <2>7. \A a \in Compared : FieldNo(a) = Cardinality(Before(a))
      BY <1>3 DEF FieldNo
    <2>8. \A a \in Attrs : Kept(a) => a \in Compared
      BY <1>3 DEF Kept
    <2> HIDE DEF Before
    <2>9. \A a \in Compared : FieldNo(a) \in Fields
      <3>1. Cardinality(Compared) \in Nat
        BY <2>1, FS_CardinalityType
      <3> QED
        BY <2>3, <2>4, <2>5, <2>7, <3>1 DEF Fields
    <2>10. \A a, b \in Compared : a # b => FieldNo(a) # FieldNo(b)
      <3> SUFFICES ASSUME NEW a \in Compared, NEW b \in Compared, a # b
                   PROVE  FieldNo(a) # FieldNo(b)
        OBVIOUS
      <3>1. a \in Nat /\ b \in Nat
        BY <1>1, <2>1
      <3>2. CASE a < b
        BY <2>4, <2>6, <2>7, <3>2
      <3>3. CASE b < a
        BY <2>4, <2>6, <2>7, <3>3
      <3> QED
        BY <3>1, <3>2, <3>3
    <2> QED
      BY <2>8, <2>9, <2>10
  <1> QED
    BY <1>2, <1>3

-----------------------------------------------------------------------------
(* make_spec.                                                              *)

SpecArgs(g)  == Nodes(g) \X [Fields -> Word] \X Nat
SpecResult   == [cur : [Fields -> Word], phv : [Fields -> Word], accept : BOOLEAN]
LaterSpecs(g, n) == {a \in SpecArgs(g) : a[1] > n}

LEMMA SpecAtStep ==
  ASSUME NEW g, WellFormed(g), NEW n \in Nodes(g), NEW cur \in [Fields -> Word],
         NEW ptr \in Nat, NEW p, NEW f, \A a \in LaterSpecs(g, n) : f[a] \in SpecResult
  PROVE  /\ SpecAt(g, f, n, cur, ptr, p) \in SpecResult
         /\ \A h : (\A a \in LaterSpecs(g, n) : h[a] = f[a]) =>
                    SpecAt(g, h, n, cur, ptr, p) = SpecAt(g, f, n, cur, ptr, p)
  <1> DEFINE node == g[n]
  <1>1. CASE node.kind = "exit"
    <2>1. InitialPhv \in [Fields -> Word]
      BY SentinelIsWord DEF InitialPhv
    <2>2. node.accept \in BOOLEAN
      BY <1>1 DEF WellFormed, Nodes
    <2>3. \A h : SpecAt(g, h, n, cur, ptr, p) =
                  [cur |-> cur, phv |-> InitialPhv, accept |-> node.accept]
      BY <1>1 DEF SpecAt
    <2> HIDE DEF node
    <2> QED
      BY <2>1, <2>2, <2>3 DEF SpecResult
  <1>2. CASE node.kind = "extract" /\ ~Kept(node.attr)
    <2> DEFINE a == <<node.next, cur, ptr + AttrSize[node.attr]>>
    <2>1. a \in LaterSpecs(g, n)
      <3>1. node.attr \in Attrs /\ node.next \in n + 1 .. Len(g)
        BY <1>2 DEF WellFormed, Nodes
      <3>2. AttrSize[node.attr] \in Nat
        BY <3>1, GraphAssumption
      <3> QED
        BY <3>1, <3>2 DEF LaterSpecs, SpecArgs, WellFormed, Nodes
    <2>2. \A h : SpecAt(g, h, n, cur, ptr, p) = h[a]
      BY <1>2 DEF SpecAt, SkipUncompared
    <2> HIDE DEF a
    <2> QED
      BY <2>1, <2>2
  <1>3. CASE node.kind = "extract" /\ Kept(node.attr)
    <2> DEFINE word == Slice(p, ptr, AttrSize[node.attr])
               no   == FieldNo(node.attr)
               cur1 == [cur EXCEPT ![no] = word]
               a    == <<node.next, cur1, ptr + AttrSize[node.attr]>>
    <2>1. node.attr \in Attrs /\ node.next \in n + 1 .. Len(g)
      BY <1>3 DEF WellFormed, Nodes
    <2>2. word \in Word /\ no \in Fields
      BY <1>3, <2>1, SliceIsWord, FieldNoInjective
    <2>3. a \in LaterSpecs(g, n)
      <3>1. AttrSize[node.attr] \in Nat
        BY <2>1, GraphAssumption
      <3> HIDE DEF word, no
      <3>2. cur1 \in [Fields -> Word]
        BY <2>2
      <3> HIDE DEF cur1
      <3> QED
        BY <2>1, <3>1, <3>2 DEF LaterSpecs, SpecArgs, WellFormed, Nodes
    <2>4. \A h : SpecAt(g, h, n, cur, ptr, p) = [h[a] EXCEPT !.phv[no] = word]
      BY <1>3 DEF SpecAt
    <2>5. [f[a] EXCEPT !.phv[no] = word] \in SpecResult
      <3>1. f[a] \in SpecResult
        BY <2>3
      <3> HIDE DEF a, word, no
      <3> QED
        BY <2>2, <3>1 DEF SpecResult
    <2> HIDE DEF a, word, no
    <2> QED
      BY <2>3, <2>4, <2>5
  <1>4. CASE node.kind = "if"
    <2> DEFINE a    == <<node.next_true, cur, ptr>>
               b(r) == <<node.next_false, r.cur, ptr>>
               no   == FieldNo(node.attr)
    <2>1. /\ a \in LaterSpecs(g, n)
          /\ \A r \in SpecResult : b(r) \in LaterSpecs(g, n)
      <3>1. {node.next_true, node.next_false} \subseteq n + 1 .. Len(g)
        BY <1>4 DEF WellFormed, Nodes
      <3> QED
        BY <3>1 DEF LaterSpecs, SpecArgs, WellFormed, Nodes, SpecResult
    <2>2. f[a] \in SpecResult /\ f[b(f[a])] \in SpecResult
      BY <2>1
    <2>3. \A h : SpecAt(g, h, n, cur, ptr, p) =
                  [(IF Matches(h[b(h[a])].cur[no], node) THEN h[a] ELSE h[b(h[a])])
                     EXCEPT !.cur = h[b(h[a])].cur]
      BY <1>4 DEF SpecAt
    <2>4. SpecAt(g, f, n, cur, ptr, p) \in SpecResult
      <3> DEFINE e     == f[b(f[a])]
                 taken == IF Matches(e.cur[no], node) THEN f[a] ELSE e
      <3>1. SpecAt(g, f, n, cur, ptr, p) = [taken EXCEPT !.cur = e.cur]
        BY <2>3
      <3>2. taken \in SpecResult /\ e \in SpecResult
        BY <2>2
      <3> HIDE DEF e, taken
      <3> QED
        BY <3>1, <3>2 DEF SpecResult
    <2>5. ASSUME NEW h, \A c \in LaterSpecs(g, n) : h[c] = f[c]
          PROVE  SpecAt(g, h, n, cur, ptr, p) = SpecAt(g, f, n, cur, ptr, p)
      <3>1. h[a] = f[a] /\ h[b(f[a])] = f[b(f[a])]
        BY <2>1, <2>2, <2>5
      <3>2. /\ SpecAt(g, h, n, cur, ptr, p) =
                  [(IF Matches(h[b(h[a])].cur[no], node) THEN h[a] ELSE h[b(h[a])])
                     EXCEPT !.cur = h[b(h[a])].cur]
            /\ SpecAt(g, f, n, cur, ptr, p) =
                  [(IF Matches(f[b(f[a])].cur[no], node) THEN f[a] ELSE f[b(f[a])])
                     EXCEPT !.cur = f[b(f[a])].cur]
        BY <2>3
      <3> HIDE DEF a, no, node
      <3> QED
        BY <3>1, <3>2
    <2> QED
      BY <2>4, <2>5
  <1> QED
    BY <1>1, <1>2, <1>3, <1>4 DEF WellFormed, Nodes

LEMMA SpecWalkExists ==
  ASSUME NEW g, WellFormed(g), NEW p
  PROVE  /\ SpecWalk(g, p) \in [SpecArgs(g) -> SpecResult]
         /\ \A a \in SpecArgs(g) :
              SpecWalk(g, p)[a] = SpecAt(g, SpecWalk(g, p), a[1], a[2], a[3], p)
  <1> DEFINE D    == SpecArgs(g)
             V    == SpecResult
             node == [a \in D |-> a[1]]
             step == [x \in D \X [D -> V] |-> SpecAt(g, x[2], x[1][1], x[1][2], x[1][3], p)]
  <1>1. node \in [D -> 1 .. Len(g)] /\ Len(g) \in Nat \ {0}
    BY DEF SpecArgs, WellFormed, Nodes
  <1>2. V # {}
    <2>1. [cur |-> InitialPhv, phv |-> InitialPhv, accept |-> FALSE] \in V
      BY SentinelIsWord DEF SpecResult, InitialPhv
    <2> QED
      BY <2>1
  <1>3. \A a \in D : a[1] \in Nodes(g) /\ a[2] \in [Fields -> Word] /\ a[3] \in Nat
    BY DEF SpecArgs
  <1>4. \A a \in D, f \in [D -> V] :
          /\ SpecAt(g, f, a[1], a[2], a[3], p) \in V
          /\ \A h : (\A b \in LaterSpecs(g, a[1]) : h[b] = f[b]) =>
                    SpecAt(g, h, a[1], a[2], a[3], p) = SpecAt(g, f, a[1], a[2], a[3], p)
    BY <1>3, SpecAtStep DEF LaterSpecs
  <1>5. step \in [D \X [D -> V] -> V]
    <2>1. \A x \in D \X [D -> V] : SpecAt(g, x[2], x[1][1], x[1][2], x[1][3], p) \in V
      BY <1>4
    <2> HIDE DEF D, V
    <2> QED
      BY <2>1
  <1>6. \A a \in D : \A f, h \in [D -> V] :
          (\A b \in D : node[b] > node[a] => f[b] = h[b]) => step[<<a, f>>] = step[<<a, h>>]
    <2> SUFFICES ASSUME NEW a \in D, NEW f \in [D -> V], NEW h \in [D -> V],
                        \A b \in D : node[b] > node[a] => f[b] = h[b]
                 PROVE  step[<<a, f>>] = step[<<a, h>>]
      OBVIOUS
    <2>1. \A b \in LaterSpecs(g, a[1]) : h[b] = f[b]
      BY DEF LaterSpecs
    <2>2. /\ step[<<a, f>>] = SpecAt(g, f, a[1], a[2], a[3], p)
          /\ step[<<a, h>>] = SpecAt(g, h, a[1], a[2], a[3], p)
      <3> HIDE DEF D, V
      <3> QED
        OBVIOUS
    <2> QED
      BY <1>4, <2>1, <2>2
  <1>7. PICK f \in [D -> V] : \A a \in D : f[a] = step[<<a, f>>]
    <2>1. LooksAhead(Len(g), D, V, node, step)
      <3> HIDE DEF D, V, node, step
      <3> QED
        BY <1>1, <1>2, <1>5, <1>6 DEF LooksAhead
    <2> HIDE DEF D, V, node, step
    <2> QED
      BY <2>1, RecursionExists
  <1>8. \A a \in D : f[a] = SpecAt(g, f, a[1], a[2], a[3], p)
    <2> HIDE DEF D, V
    <2> QED
      BY <1>7
  <1> DEFINE Solves(w) == w = [a \in D |-> SpecAt(g, w, a[1], a[2], a[3], p)]
  <1>9. Solves(SpecWalk(g, p))
    <2>1. Solves(f)
      <3> HIDE DEF D, V
      <3> QED
        BY <1>8
    <2>2. SpecWalk(g, p) = CHOOSE w : Solves(w)
      BY DEF SpecWalk, SpecArgs
    <2> HIDE DEF Solves
    <2> QED
      BY <2>1, <2>2
  <1>10. \A a \in D : SpecWalk(g, p)[a] = SpecAt(g, SpecWalk(g, p), a[1], a[2], a[3], p)
    <2> HIDE DEF D
    <2> QED
      BY <1>9
  <1>11. \A a \in D : SpecWalk(g, p)[a] \in V
    <2>1. ASSUME NEW a \in D, \A b \in D : node[b] > node[a] => SpecWalk(g, p)[b] \in V
          PROVE  SpecWalk(g, p)[a] \in V
      <3>1. \A b \in LaterSpecs(g, a[1]) : SpecWalk(g, p)[b] \in V
        BY <2>1 DEF LaterSpecs
      <3> HIDE DEF D, V
      <3> QED
        BY <1>3, <1>10, <3>1, SpecAtStep DEF V
    <2> HIDE DEF D, V, node
    <2> QED
      BY <1>1, <2>1, RecursionTyped
  <1>12. SpecWalk(g, p) \in [D -> V]
    <2> HIDE DEF D, V
    <2> QED
      BY <1>9, <1>11
  <1> QED
    BY <1>10, <1>12

-----------------------------------------------------------------------------
(* The reference meaning.                                                  *)

FollowResult == [phv : [Fields -> Word], accept : BOOLEAN]

LEMMA FollowStep ==
  ASSUME NEW g, WellFormed(g), NEW n \in Nodes(g), NEW phv \in [Fields -> Word],
         NEW ptr \in Nat, NEW p, NEW f, \A a \in LaterSpecs(g, n) : f[a] \in FollowResult
  PROVE  /\ FollowFrom(g, f, n, phv, ptr, p) \in FollowResult
         /\ \A h : (\A a \in LaterSpecs(g, n) : h[a] = f[a]) =>
                    FollowFrom(g, h, n, phv, ptr, p) = FollowFrom(g, f, n, phv, ptr, p)
  <1> DEFINE node == g[n]
  <1>1. CASE node.kind = "exit"
    BY <1>1 DEF FollowFrom, FollowResult, WellFormed, Nodes
  <1>2. CASE node.kind = "extract"
    <2> DEFINE word == Slice(p, ptr, AttrSize[node.attr])
               no   == FieldNo(node.attr)
               phv1 == IF Kept(node.attr) THEN [phv EXCEPT ![no] = word] ELSE phv
               a    == <<node.next, phv1, ptr + AttrSize[node.attr]>>
    <2>1. node.attr \in Attrs /\ node.next \in n + 1 .. Len(g)
      BY <1>2 DEF WellFormed, Nodes
    <2>2. word \in Word /\ (Kept(node.attr) => no \in Fields)
      BY <2>1, SliceIsWord, FieldNoInjective
    <2>3. a \in LaterSpecs(g, n)
      <3>1. AttrSize[node.attr] \in Nat
        BY <2>1, GraphAssumption
      <3> HIDE DEF word, no
      <3>2. phv1 \in [Fields -> Word]
        BY <2>2
      <3> HIDE DEF phv1
      <3> QED
        BY <2>1, <3>1, <3>2 DEF LaterSpecs, SpecArgs, WellFormed, Nodes
    <2>4. \A h : FollowFrom(g, h, n, phv, ptr, p) = h[a]
      BY <1>2 DEF FollowFrom
    <2> HIDE DEF a
    <2> QED
      BY <2>3, <2>4
  <1>3. CASE node.kind = "if"
    <2> DEFINE a == <<IF Matches(phv[FieldNo(node.attr)], node)
                      THEN node.next_true ELSE node.next_false, phv, ptr>>
    <2>1. a \in LaterSpecs(g, n)
      <3>1. {node.next_true, node.next_false} \subseteq n + 1 .. Len(g)
        BY <1>3 DEF WellFormed, Nodes
      <3> QED
        BY <3>1 DEF LaterSpecs, SpecArgs, WellFormed, Nodes
    <2>2. \A h : FollowFrom(g, h, n, phv, ptr, p) = h[a]
      BY <1>3 DEF FollowFrom
    <2> HIDE DEF a
    <2> QED
      BY <2>1, <2>2
  <1> QED
    BY <1>1, <1>2, <1>3 DEF WellFormed, Nodes

LEMMA FollowExists ==
  ASSUME NEW g, WellFormed(g), NEW p
  PROVE  /\ FollowAll(g, p) \in [SpecArgs(g) -> FollowResult]
         /\ \A a \in SpecArgs(g) :
              FollowAll(g, p)[a] = FollowFrom(g, FollowAll(g, p), a[1], a[2], a[3], p)
  <1> DEFINE D    == SpecArgs(g)
             V    == FollowResult
             node == [a \in D |-> a[1]]
             step == [x \in D \X [D -> V] |-> FollowFrom(g, x[2], x[1][1], x[1][2], x[1][3], p)]
  <1>1. node \in [D -> 1 .. Len(g)] /\ Len(g) \in Nat \ {0}
    BY DEF SpecArgs, WellFormed, Nodes
  <1>2. V # {}
    <2>1. [phv |-> InitialPhv, accept |-> FALSE] \in V
      BY SentinelIsWord DEF FollowResult, InitialPhv
    <2> QED
      BY <2>1
  <1>3. \A a \in D : a[1] \in Nodes(g) /\ a[2] \in [Fields -> Word] /\ a[3] \in Nat
    BY DEF SpecArgs
  <1>4. \A a \in D, f \in [D -> V] :
          /\ FollowFrom(g, f, a[1], a[2], a[3], p) \in V
          /\ \A h : (\A b \in LaterSpecs(g, a[1]) : h[b] = f[b]) =>
                    FollowFrom(g, h, a[1], a[2], a[3], p) = FollowFrom(g, f, a[1], a[2], a[3], p)
    BY <1>3, FollowStep DEF LaterSpecs
  <1>5. step \in [D \X [D -> V] -> V]
    <2>1. \A x \in D \X [D -> V] : FollowFrom(g, x[2], x[1][1], x[1][2], x[1][3], p) \in V
      BY <1>4
    <2> HIDE DEF D, V
    <2> QED
      BY <2>1
  <1>6. \A a \in D : \A f, h \in [D -> V] :
          (\A b \in D : node[b] > node[a] => f[b] = h[b]) => step[<<a, f>>] = step[<<a, h>>]
    <2> SUFFICES ASSUME NEW a \in D, NEW f \in [D -> V], NEW h \in [D -> V],
                        \A b \in D : node[b] > node[a] => f[b] = h[b]
                 PROVE  step[<<a, f>>] = step[<<a, h>>]
      OBVIOUS
    <2>1. \A b \in LaterSpecs(g, a[1]) : h[b] = f[b]
      BY DEF LaterSpecs
    <2>2. /\ step[<<a, f>>] = FollowFrom(g, f, a[1], a[2], a[3], p)
          /\ step[<<a, h>>] = FollowFrom(g, h, a[1], a[2], a[3], p)
      <3> HIDE DEF D, V
      <3> QED
        OBVIOUS
    <2> QED
      BY <1>4, <2>1, <2>2
  <1>7. PICK f \in [D -> V] : \A a \in D : f[a] = step[<<a, f>>]
    <2>1. LooksAhead(Len(g), D, V, node, step)
      <3> HIDE DEF D, V, node, step
      <3> QED
        BY <1>1, <1>2, <1>5, <1>6 DEF LooksAhead
    <2> HIDE DEF D, V, node, step
    <2> QED
      BY <2>1, RecursionExists
  <1>8. \A a \in D : f[a] = FollowFrom(g, f, a[1], a[2], a[3], p)
    <2> HIDE DEF D, V
    <2> QED
      BY <1>7
  <1> DEFINE Solves(w) == w = [a \in D |-> FollowFrom(g, w, a[1], a[2], a[3], p)]
  <1>9. Solves(FollowAll(g, p))
    <2>1. Solves(f)
      <3> HIDE DEF D, V
      <3> QED
        BY <1>8
    <2>2. FollowAll(g, p) = CHOOSE w : Solves(w)
      BY DEF FollowAll, SpecArgs
    <2> HIDE DEF Solves
    <2> QED
      BY <2>1, <2>2
  <1>10. \A a \in D : FollowAll(g, p)[a] = FollowFrom(g, FollowAll(g, p), a[1], a[2], a[3], p)
    <2> HIDE DEF D
    <2> QED
      BY <1>9
  <1>11. \A a \in D : FollowAll(g, p)[a] \in V
    <2>1. ASSUME NEW a \in D, \A b \in D : node[b] > node[a] => FollowAll(g, p)[b] \in V
          PROVE  FollowAll(g, p)[a] \in V
      <3>1. \A b \in LaterSpecs(g, a[1]) : FollowAll(g, p)[b] \in V
        BY <2>1 DEF LaterSpecs
      <3> HIDE DEF D, V
      <3> QED
        BY <1>3, <1>10, <3>1, FollowStep DEF V
    <2> HIDE DEF D, V, node
    <2> QED
      BY <1>1, <2>1, RecursionTyped
  <1>12. FollowAll(g, p) \in [D -> V]
    <2> HIDE DEF D, V
    <2> QED
      BY <1>9, <1>11
  <1> QED
    BY <1>10, <1>12

-----------------------------------------------------------------------------
(* make_spec and the reference meaning, node by node.                      *)

LEMMA SpecEquation ==
  ASSUME NEW g, WellFormed(g), NEW n \in Nodes(g), NEW cur \in [Fields -> Word],
         NEW ptr \in Nat, NEW p
  PROVE  /\ MakeSpec(g, n, cur, ptr, p) \in SpecResult
         /\ MakeSpec(g, n, cur, ptr, p) = SpecAt(g, SpecWalk(g, p), n, cur, ptr, p)
  <1>1. <<n, cur, ptr>> \in SpecArgs(g)
    BY DEF SpecArgs
  <1> QED
    BY <1>1, SpecWalkExists DEF MakeSpec

LEMMA FollowEquation ==
  ASSUME NEW g, WellFormed(g), NEW n \in Nodes(g), NEW phv \in [Fields -> Word],
         NEW ptr \in Nat, NEW p
  PROVE  /\ Follow(g, n, phv, ptr, p) \in FollowResult
         /\ Follow(g, n, phv, ptr, p) = FollowFrom(g, FollowAll(g, p), n, phv, ptr, p)
  <1>1. <<n, phv, ptr>> \in SpecArgs(g)
    BY DEF SpecArgs
  <1> QED
    BY <1>1, FollowExists DEF Follow

After(g, n, ptr)   == ptr + AttrSize[g[n].attr]
No(g, n)           == FieldNo(g[n].attr)
Read(g, n, ptr, p) == Slice(p, ptr, AttrSize[g[n].attr])

OnTrue(g, n, cur, ptr, p)  == MakeSpec(g, g[n].next_true, cur, ptr, p)
OnFalse(g, n, cur, ptr, p) == MakeSpec(g, g[n].next_false, OnTrue(g, n, cur, ptr, p).cur, ptr, p)
Joined(g, n, t, e) ==
  [(IF Matches(e.cur[No(g, n)], g[n]) THEN t ELSE e) EXCEPT !.cur = e.cur]

Noted(g, n, phv, ptr, p)  == [phv EXCEPT ![No(g, n)] = Read(g, n, ptr, p)]
Stored(g, n, ptr, p, rest) == [rest EXCEPT !.phv[No(g, n)] = Read(g, n, ptr, p)]

LEMMA SpecExit ==
  ASSUME NEW g, WellFormed(g), NEW n \in Nodes(g), NEW cur \in [Fields -> Word],
         NEW ptr \in Nat, NEW p, g[n].kind = "exit"
  PROVE  MakeSpec(g, n, cur, ptr, p) =
           [cur |-> cur, phv |-> InitialPhv, accept |-> g[n].accept]
  <1>1. MakeSpec(g, n, cur, ptr, p) = SpecAt(g, SpecWalk(g, p), n, cur, ptr, p)
    BY SpecEquation
  <1> QED
    BY <1>1 DEF SpecAt

LEMMA SpecSkip ==
  ASSUME NEW g, WellFormed(g), NEW n \in Nodes(g), NEW cur \in [Fields -> Word],
         NEW ptr \in Nat, NEW p, g[n].kind = "extract", ~Kept(g[n].attr)
  PROVE  MakeSpec(g, n, cur, ptr, p) = MakeSpec(g, g[n].next, cur, After(g, n, ptr), p)
  <1>1. MakeSpec(g, n, cur, ptr, p) = SpecAt(g, SpecWalk(g, p), n, cur, ptr, p)
    BY SpecEquation
  <1> QED
    BY <1>1 DEF SpecAt, SkipUncompared, MakeSpec, After

LEMMA SpecExtract ==
  ASSUME NEW g, WellFormed(g), NEW n \in Nodes(g), NEW cur \in [Fields -> Word],
         NEW ptr \in Nat, NEW p, g[n].kind = "extract", Kept(g[n].attr)
  PROVE  MakeSpec(g, n, cur, ptr, p) =
           Stored(g, n, ptr, p, MakeSpec(g, g[n].next, Noted(g, n, cur, ptr, p), After(g, n, ptr), p))
  <1>1. MakeSpec(g, n, cur, ptr, p) = SpecAt(g, SpecWalk(g, p), n, cur, ptr, p)
    BY SpecEquation
  <1> QED
    BY <1>1 DEF SpecAt, MakeSpec, After, Stored, Noted, No, Read

LEMMA SpecIf ==
  ASSUME NEW g, WellFormed(g), NEW n \in Nodes(g), NEW cur \in [Fields -> Word],
         NEW ptr \in Nat, NEW p, g[n].kind = "if"
  PROVE  MakeSpec(g, n, cur, ptr, p) =
           Joined(g, n, OnTrue(g, n, cur, ptr, p), OnFalse(g, n, cur, ptr, p))
  <1>1. MakeSpec(g, n, cur, ptr, p) = SpecAt(g, SpecWalk(g, p), n, cur, ptr, p)
    BY SpecEquation
  <1> QED
    BY <1>1 DEF SpecAt, MakeSpec, No, OnTrue, OnFalse, Joined

LEMMA FollowExit ==
  ASSUME NEW g, WellFormed(g), NEW n \in Nodes(g), NEW phv \in [Fields -> Word],
         NEW ptr \in Nat, NEW p, g[n].kind = "exit"
  PROVE  Follow(g, n, phv, ptr, p) = [phv |-> phv, accept |-> g[n].accept]
  <1>1. Follow(g, n, phv, ptr, p) = FollowFrom(g, FollowAll(g, p), n, phv, ptr, p)
    BY FollowEquation
  <1> QED
    BY <1>1 DEF FollowFrom

LEMMA FollowSkip ==
  ASSUME NEW g, WellFormed(g), NEW n \in Nodes(g), NEW phv \in [Fields -> Word],
         NEW ptr \in Nat, NEW p, g[n].kind = "extract", ~Kept(g[n].attr)
  PROVE  Follow(g, n, phv, ptr, p) = Follow(g, g[n].next, phv, After(g, n, ptr), p)
  <1>1. Follow(g, n, phv, ptr, p) = FollowFrom(g, FollowAll(g, p), n, phv, ptr, p)
    BY FollowEquation
  <1> QED
    BY <1>1 DEF FollowFrom, Follow, After

LEMMA FollowExtract ==
  ASSUME NEW g, WellFormed(g), NEW n \in Nodes(g), NEW phv \in [Fields -> Word],
         NEW ptr \in Nat, NEW p, g[n].kind = "extract", Kept(g[n].attr)
  PROVE  Follow(g, n, phv, ptr, p) =
           Follow(g, g[n].next, Noted(g, n, phv, ptr, p), After(g, n, ptr), p)
  <1>1. Follow(g, n, phv, ptr, p) = FollowFrom(g, FollowAll(g, p), n, phv, ptr, p)
    BY FollowEquation
  <1> QED
    BY <1>1 DEF FollowFrom, Follow, After, Noted, No, Read

LEMMA FollowIf ==
  ASSUME NEW g, WellFormed(g), NEW n \in Nodes(g), NEW phv \in [Fields -> Word],
         NEW ptr \in Nat, NEW p, g[n].kind = "if"
  PROVE  Follow(g, n, phv, ptr, p) =
           Follow(g, IF Matches(phv[No(g, n)], g[n]) THEN g[n].next_true ELSE g[n].next_false,
                  phv, ptr, p)
  <1>1. Follow(g, n, phv, ptr, p) = FollowFrom(g, FollowAll(g, p), n, phv, ptr, p)
    BY FollowEquation
  <1> QED
    BY <1>1 DEF FollowFrom, Follow, No

(* The fields of the attributes extracted so far. *)
Marked(M) == {FieldNo(a) : a \in {b \in M : Kept(b)}}

LEMMA MarkOne ==
  ASSUME NEW M \in SUBSET Attrs, NEW a \in Attrs, a \notin M
  PROVE  /\ Marked(M) \subseteq Fields
         /\ ~Kept(a) => Marked(M \cup {a}) = Marked(M)
         /\ Kept(a) => /\ Marked(M \cup {a}) = Marked(M) \cup {FieldNo(a)}
                       /\ FieldNo(a) \in Fields \ Marked(M)
  BY FieldNoInjective DEF Marked

(* The walk with list cur behind the marks M: it leaves the entries of the *)
(* marked fields alone, and from a PHV that holds these entries and        *)
(* nothing else the packet's path leads to the same verdict and, on the    *)
(* unmarked fields, to the same PHV.                                       *)
Shows(phv, cur, M) ==
  \A f \in Fields : phv[f] = IF f \in Marked(M) THEN cur[f] ELSE Sentinel

SameOutcome(r, v, phv, M) ==
  /\ r.accept = v.accept
  /\ \A f \in Fields : r.phv[f] = IF f \in Marked(M) THEN phv[f] ELSE v.phv[f]

Means(g, n, p) ==
  \A ptr \in Nat, M \in SUBSET Attrs, cur \in [Fields -> Word] :
    ~Raises(g, n, ptr, M) =>
      /\ \A f \in Marked(M) : MakeSpec(g, n, cur, ptr, p).cur[f] = cur[f]
      /\ \A phv \in [Fields -> Word] :
           Shows(phv, cur, M) =>
             SameOutcome(Follow(g, n, phv, ptr, p), MakeSpec(g, n, cur, ptr, p), phv, M)

LEMMA ExitMeans ==
  ASSUME NEW g, WellFormed(g), NEW n \in Nodes(g), NEW p, g[n].kind = "exit"
  PROVE  Means(g, n, p)
  <1> SUFFICES ASSUME NEW ptr \in Nat, NEW M \in SUBSET Attrs, NEW cur \in [Fields -> Word]
               PROVE  /\ \A f \in Marked(M) : MakeSpec(g, n, cur, ptr, p).cur[f] = cur[f]
                      /\ \A phv \in [Fields -> Word] :
                           Shows(phv, cur, M) =>
                             SameOutcome(Follow(g, n, phv, ptr, p), MakeSpec(g, n, cur, ptr, p), phv, M)
    BY DEF Means
  <1>1. MakeSpec(g, n, cur, ptr, p) = [cur |-> cur, phv |-> InitialPhv, accept |-> g[n].accept]
    BY SpecExit
  <1>2. \A phv \in [Fields -> Word] :
          Follow(g, n, phv, ptr, p) = [phv |-> phv, accept |-> g[n].accept]
    BY FollowExit
  <1> QED
    BY <1>1, <1>2 DEF Shows, SameOutcome, InitialPhv

LEMMA ExtractMeans ==
  ASSUME NEW g, WellFormed(g), NEW n \in Nodes(g), NEW p, g[n].kind = "extract",
         Means(g, g[n].next, p)
  PROVE  Means(g, n, p)
  <1> DEFINE node == g[n]
             a    == node.attr
             no   == No(g, n)
  <1>1. a \in Attrs /\ node.next \in Nodes(g) /\ AttrSize[a] \in Nat
    BY GraphAssumption DEF WellFormed, Nodes
  <1> SUFFICES ASSUME NEW ptr \in Nat, NEW M \in SUBSET Attrs, NEW cur \in [Fields -> Word],
                      ~Raises(g, n, ptr, M)
               PROVE  /\ \A f \in Marked(M) : MakeSpec(g, n, cur, ptr, p).cur[f] = cur[f]
                      /\ \A phv \in [Fields -> Word] :
                           Shows(phv, cur, M) =>
                             SameOutcome(Follow(g, n, phv, ptr, p), MakeSpec(g, n, cur, ptr, p), phv, M)
    BY DEF Means
  <1> DEFINE ptr1 == After(g, n, ptr)
             M1   == M \cup {a}
             word == Read(g, n, ptr, p)
  <1>2. a \notin M /\ ~Raises(g, node.next, ptr1, M1)
    BY SizeWalkRaises DEF After
  <1>3. ptr1 \in Nat /\ M1 \in SUBSET Attrs
    BY <1>1 DEF After
  <1> DEFINE next == node.next
  <1>4. /\ next \in Nodes(g) /\ Means(g, next, p) /\ ~Raises(g, next, ptr1, M1)
    BY <1>1, <1>2
  <1>5. CASE ~Kept(a)
    <2>1. MakeSpec(g, n, cur, ptr, p) = MakeSpec(g, next, cur, ptr1, p)
      BY <1>5, SpecSkip
    <2>2. \A phv \in [Fields -> Word] :
            Follow(g, n, phv, ptr, p) = Follow(g, next, phv, ptr1, p)
      BY <1>5, FollowSkip
    <2>3. Marked(M1) = Marked(M)
      BY <1>1, <1>2, <1>5, MarkOne
    <2> HIDE DEF ptr1, M1, next, node
    <2> QED
      BY <1>4, <1>3, <2>1, <2>2, <2>3 DEF Means, Shows, SameOutcome
  <1>6. CASE Kept(a)
    <2> DEFINE cur1   == Noted(g, n, cur, ptr, p)
               phv1(w) == Noted(g, n, w, ptr, p)
               rest   == MakeSpec(g, next, cur1, ptr1, p)
               v      == MakeSpec(g, n, cur, ptr, p)
    <2>1. v = Stored(g, n, ptr, p, rest)
      BY <1>6, SpecExtract
    <2>2. \A phv \in [Fields -> Word] :
            Follow(g, n, phv, ptr, p) = Follow(g, next, phv1(phv), ptr1, p)
      BY <1>6, FollowExtract
    <2>3. Marked(M1) = Marked(M) \cup {no} /\ no \in Fields /\ no \notin Marked(M)
          /\ Marked(M) \subseteq Fields
      BY <1>1, <1>2, <1>6, MarkOne DEF No
    <2>4. word \in Word
      BY SliceIsWord DEF Read
    <2> HIDE DEF ptr1, M1, word, no, next, node
    <2>5. \A w \in [Fields -> Word] :
            /\ Noted(g, n, w, ptr, p) \in [Fields -> Word]
            /\ \A f \in Fields : Noted(g, n, w, ptr, p)[f] = IF f = no THEN word ELSE w[f]
      BY <2>3, <2>4 DEF Noted, no, word
    <2>6. rest \in SpecResult
      BY <1>4, <1>3, <2>5, SpecEquation
    <2>7. /\ v.cur = rest.cur /\ v.accept = rest.accept
          /\ \A f \in Fields : v.phv[f] = IF f = no THEN word ELSE rest.phv[f]
      <3>1. v = [rest EXCEPT !.phv[no] = word]
        BY <2>1 DEF Stored, no, word
      <3> HIDE DEF rest, v
      <3> QED
        BY <2>6, <3>1 DEF SpecResult
    <2>8. \A f \in Marked(M1) : rest.cur[f] = cur1[f]
      BY <1>4, <1>3, <2>5 DEF Means
    <2>9. \A f \in Marked(M) : v.cur[f] = cur[f]
      <3> HIDE DEF rest, v
      <3> QED
        BY <2>3, <2>5, <2>7, <2>8
    <2>10. ASSUME NEW phv \in [Fields -> Word], Shows(phv, cur, M)
           PROVE  SameOutcome(Follow(g, n, phv, ptr, p), v, phv, M)
      <3> DEFINE r == Follow(g, next, phv1(phv), ptr1, p)
      <3>1. Shows(phv1(phv), cur1, M1)
        BY <2>3, <2>5, <2>10 DEF Shows
      <3>2. SameOutcome(r, rest, phv1(phv), M1)
        BY <1>4, <1>3, <2>5, <3>1 DEF Means
      <3> HIDE DEF r, rest, v
      <3>3. SameOutcome(r, v, phv, M)
        BY <2>3, <2>5, <2>7, <3>2 DEF SameOutcome
      <3> QED
        BY <2>2, <3>3 DEF r
    <2> QED
      BY <2>9, <2>10
  <1> QED
    BY <1>5, <1>6

LEMMA IfMeans ==
  ASSUME NEW g, WellFormed(g), NEW n \in Nodes(g), NEW p, g[n].kind = "if",
         Means(g, g[n].next_true, p), Means(g, g[n].next_false, p)
  PROVE  Means(g, n, p)
  <1> DEFINE node == g[n]
             no   == No(g, n)
  <1>1. node.next_true \in Nodes(g) /\ node.next_false \in Nodes(g)
    BY DEF WellFormed, Nodes
  <1> SUFFICES ASSUME NEW ptr \in Nat, NEW M \in SUBSET Attrs, NEW cur \in [Fields -> Word],
                      ~Raises(g, n, ptr, M)
               PROVE  /\ \A f \in Marked(M) : MakeSpec(g, n, cur, ptr, p).cur[f] = cur[f]
                      /\ \A phv \in [Fields -> Word] :
                           Shows(phv, cur, M) =>
                             SameOutcome(Follow(g, n, phv, ptr, p), MakeSpec(g, n, cur, ptr, p), phv, M)
    BY DEF Means
  <1> DEFINE t == MakeSpec(g, node.next_true, cur, ptr, p)
             e == MakeSpec(g, node.next_false, t.cur, ptr, p)
             v == MakeSpec(g, n, cur, ptr, p)
             taken == IF Matches(e.cur[no], node) THEN t ELSE e
  <1>2. /\ node.attr \in M
        /\ ~Raises(g, node.next_true, ptr, M)
        /\ ~Raises(g, node.next_false, ptr, M)
    BY SizeWalkRaises
  <1>3. t \in SpecResult
    BY <1>1, SpecEquation
  <1>4. t.cur \in [Fields -> Word]
    BY <1>3 DEF SpecResult
  <1>5. e \in SpecResult
    BY <1>1, <1>4, SpecEquation
  <1>6. v = [taken EXCEPT !.cur = e.cur]
    <2>1. v = Joined(g, n, OnTrue(g, n, cur, ptr, p), OnFalse(g, n, cur, ptr, p))
      BY SpecIf
    <2>2. t = OnTrue(g, n, cur, ptr, p) /\ e = OnFalse(g, n, cur, ptr, p)
      BY DEF OnTrue, OnFalse
    <2> HIDE DEF t, e, v
    <2> QED
      BY <2>1, <2>2 DEF Joined
  <1>7. \A f \in Marked(M) : t.cur[f] = cur[f] /\ e.cur[f] = cur[f]
    <2>1. \A f \in Marked(M) : t.cur[f] = cur[f]
      BY <1>2 DEF Means
    <2>2. \A f \in Marked(M) : e.cur[f] = t.cur[f]
      <3> HIDE DEF t
      <3> QED
        BY <1>2, <1>4 DEF Means
    <2> QED
      BY <2>1, <2>2
  <1>8. no \in Marked(M) /\ Marked(M) \subseteq Fields
    <2>1. Kept(node.attr) /\ node.attr \in Compared
      BY DEF WellFormed, Nodes, Kept
    <2> QED
      BY <1>2, <2>1, FieldNoInjective DEF Marked, No
  <1>9. v.cur = e.cur /\ v.phv = taken.phv /\ v.accept = taken.accept
    <2>1. taken \in SpecResult
      BY <1>3, <1>5
    <2> HIDE DEF taken, e
    <2> QED
      BY <1>6, <2>1 DEF SpecResult
  <1>10. ASSUME NEW phv \in [Fields -> Word], Shows(phv, cur, M)
         PROVE  SameOutcome(Follow(g, n, phv, ptr, p), v, phv, M)
    <2>1. phv[no] = e.cur[no]
      BY <1>7, <1>8, <1>10 DEF Shows
    <2>2. CASE Matches(phv[no], node)
      <3>1. Follow(g, n, phv, ptr, p) = Follow(g, node.next_true, phv, ptr, p)
        BY <2>2, FollowIf
      <3>2. SameOutcome(Follow(g, node.next_true, phv, ptr, p), t, phv, M)
        BY <1>2, <1>10 DEF Means
      <3>3. taken = t
        BY <2>1, <2>2
      <3> HIDE DEF t, e, v, taken
      <3> QED
        BY <1>9, <3>1, <3>2, <3>3 DEF SameOutcome
    <2>3. CASE ~Matches(phv[no], node)
      <3>1. Follow(g, n, phv, ptr, p) = Follow(g, node.next_false, phv, ptr, p)
        BY <2>3, FollowIf
      <3>2. Shows(phv, t.cur, M)
        BY <1>7, <1>10 DEF Shows
      <3>3. SameOutcome(Follow(g, node.next_false, phv, ptr, p), e, phv, M)
        <4> HIDE DEF t
        <4> QED
          BY <1>2, <1>4, <3>2 DEF Means
      <3>4. taken = e
        BY <2>1, <2>3
      <3> HIDE DEF t, e, v, taken
      <3> QED
        BY <1>9, <3>1, <3>3, <3>4 DEF SameOutcome
    <2> QED
      BY <2>2, <2>3
  <1> QED
    BY <1>7, <1>9, <1>10

LEMMA EveryNodeMeans ==
  ASSUME NEW g, WellFormed(g), NEW p
  PROVE  \A n \in Nodes(g) : Means(g, n, p)
  <1> DEFINE Good == {n \in 1 .. Len(g) : Means(g, n, p)}
  <1>1. ASSUME NEW n \in 1 .. Len(g), n + 1 .. Len(g) \subseteq Good
        PROVE  n \in Good
    <2>1. n \in Nodes(g) /\ \A k \in n + 1 .. Len(g) : Means(g, k, p)
      BY <1>1 DEF WellFormed, Nodes
    <2>2. CASE g[n].kind = "exit"
      BY <2>1, <2>2, ExitMeans
    <2>3. CASE g[n].kind = "extract"
      <3>1. g[n].next \in n + 1 .. Len(g)
        BY <2>3 DEF WellFormed
      <3> QED
        BY <2>1, <2>3, <3>1, ExtractMeans
    <2>4. CASE g[n].kind = "if"
      <3>1. {g[n].next_true, g[n].next_false} \subseteq n + 1 .. Len(g)
        BY <2>4 DEF WellFormed
      <3> QED
        BY <2>1, <2>4, <3>1, IfMeans
    <2> QED
      BY <2>2, <2>3, <2>4 DEF WellFormed
  <1>2. 1 .. Len(g) \subseteq Good /\ Nodes(g) = 1 .. Len(g)
    <2>1. Len(g) \in Nat /\ Nodes(g) = 1 .. Len(g)
      BY DEF WellFormed, Nodes
    <2> HIDE DEF Good
    <2> QED
      BY <1>1, <2>1, NodeInduction
  <1> QED
    BY <1>2

(* What make_spec returns for a validated program is the meaning of the    *)
(* program on the packet, whatever list it is given.                       *)
LEMMA MakeSpecMeans ==
  ASSUME NEW g, WellFormed(g), ~Raises(g, 1, 0, {}), NEW cur \in [Fields -> Word], NEW p
  PROVE  /\ MakeSpec(g, 1, cur, 0, p) \in SpecResult
         /\ [phv    |-> MakeSpec(g, 1, cur, 0, p).phv,
             accept |-> MakeSpec(g, 1, cur, 0, p).accept] = Follow(g, 1, InitialPhv, 0, p)
  <1> DEFINE v == MakeSpec(g, 1, cur, 0, p)
             r == Follow(g, 1, InitialPhv, 0, p)
  <1>1. 1 \in Nodes(g) /\ InitialPhv \in [Fields -> Word]
    BY SentinelIsWord DEF InitialPhv, WellFormed, Nodes
  <1>2. v \in SpecResult
    BY <1>1, SpecEquation
  <1>3. r \in FollowResult
    BY <1>1, FollowEquation
  <1>4. Marked({}) = {}
    BY DEF Marked
  <1>5. SameOutcome(r, v, InitialPhv, {})
    <2>1. Shows(InitialPhv, cur, {})
      BY <1>4 DEF Shows, InitialPhv
    <2>2. Means(g, 1, p)
      BY <1>1, EveryNodeMeans
    <2>3. 0 \in Nat /\ {} \in SUBSET Attrs
      OBVIOUS
    <2> QED
      BY <1>1, <2>1, <2>2, <2>3 DEF Means
  <1> HIDE DEF r, v
  <1>6. \A f \in Fields : r.phv[f] = v.phv[f]
    BY <1>4, <1>5 DEF SameOutcome
  <1>7. r.phv = v.phv
    BY <1>2, <1>3, <1>6 DEF SpecResult, FollowResult
  <1>8. [phv |-> v.phv, accept |-> v.accept] = r
    BY <1>3, <1>5, <1>7 DEF SameOutcome, FollowResult
  <1> QED
    BY <1>2, <1>8 DEF r, v
=============================================================================
