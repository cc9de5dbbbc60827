-------------------------- MODULE CompileToPc_proofs --------------------------
(***************************************************************************)
(* What holds of compile_to_pc for any number of compilations and any      *)
(* programs: it uses the .pc files by the protocol of PcFile, so that what *)
(* an undisturbed compilation hands on is its own; and the constants of a  *)
(* minimised field stay apart.  First come the facts about syntax trees,   *)
(* sequences and Info that these proofs need; behind them those that       *)
(* Frontend_proofs rests on: that the recursive functions of the frontend  *)
(* are what their definitions say, what Info holds, the statements that    *)
(* are emitted, the nodes they become, and what statements do.             *)
(***************************************************************************)
EXTENDS Frontend, FiniteSetTheorems, WellFoundedInduction, TLAPS

-----------------------------------------------------------------------------
(* Numbers.                                                                *)

LEMMA HasLeast ==
  ASSUME NEW S, S \subseteq Nat, S # {}
  PROVE  \E i \in S : \A j \in S : i <= j
  <1> DEFINE Less == {ss \in Nat \X Nat : ss[1] < ss[2]}
  <1>1. IsWellFoundedOn(Less, Nat)
    BY NatLessThanWellFounded DEF OpToRel
  <1>2. PICK x \in S : \A y \in S : ~ (<<y, x>> \in Less)
    <2> HIDE DEF Less
    <2> QED
      BY <1>1, WFMin
  <1>3. ASSUME NEW y \in S PROVE x <= y
    <2>1. x \in Nat /\ y \in Nat
      OBVIOUS
    <2>2. ~(y < x)
      BY <1>2, <2>1
    <2> QED
      BY <2>1, <2>2
  <1> QED
    BY <1>3

LEMMA Counting ==
  ASSUME NEW Good, 0 \in Good, \A n \in Nat : n \in Good => n + 1 \in Good
  PROVE  Nat \subseteq Good
  <1> DEFINE Bad == Nat \ Good
  <1> SUFFICES ASSUME Bad # {} PROVE FALSE
    OBVIOUS
  <1>1. PICK m \in Bad : \A j \in Bad : m <= j
    <2>1. Bad \subseteq Nat
      OBVIOUS
    <2> HIDE DEF Bad
    <2> QED
      BY <2>1, HasLeast
  <1>2. m \in Nat \ {0}
    OBVIOUS
  <1>3. m - 1 \in Nat /\ m - 1 \in Good
    BY <1>1, <1>2
  <1>4. (m - 1) + 1 \in Good
    BY <1>3
  <1> QED
    BY <1>2, <1>4

-----------------------------------------------------------------------------
(* Syntax trees.                                                           *)

(* The statements with parts in a set, and leaves. *)
Nest(S) == Leaf \cup [op : {"block"}, body : Seq(S)]
                \cup [op : {"if"}, test : Condition, then : S, else : S]

LEMMA TreesFacts ==
  /\ Trees[0] = Leaf
  /\ \A d \in 0 .. MaxDepth - 1 : Trees[d + 1] = Nest(Trees[d])
  <1> DEFINE Solves(f, d) == f = [n \in 0 .. d |-> IF n = 0 THEN Leaf ELSE Nest(f[n - 1])]
             Good == {d \in Nat : \E f : Solves(f, d)}
  <1>1. 0 \in Good
    <2>1. Solves([n \in 0 .. 0 |-> Leaf], 0)
      OBVIOUS
    <2> HIDE DEF Solves
    <2> QED
      BY <2>1
  <1>2. ASSUME NEW d \in Nat, d \in Good PROVE d + 1 \in Good
    <2>1. PICK f : Solves(f, d)
      BY <1>2
    <2> DEFINE g == [n \in 0 .. d + 1 |-> IF n = d + 1 THEN Nest(f[d]) ELSE f[n]]
    <2>2. \A n \in 0 .. d : f[n] = IF n = 0 THEN Leaf ELSE Nest(f[n - 1])
      BY <2>1
    <2>3. ASSUME NEW n \in 0 .. d + 1
          PROVE  g[n] = IF n = 0 THEN Leaf ELSE Nest(g[n - 1])
      <3>1. CASE n = d + 1
        <4>1. g[n] = Nest(f[d]) /\ g[n - 1] = f[d]
          BY <3>1
        <4> HIDE DEF g
        <4> QED
          BY <3>1, <4>1
      <3>2. CASE n # d + 1
        <4>1. n \in 0 .. d /\ g[n] = f[n]
          BY <3>2
        <4>2. n # 0 => g[n - 1] = f[n - 1]
          BY <3>2
        <4> HIDE DEF g
        <4> QED
          BY <2>2, <4>1, <4>2
      <3> QED
        BY <3>1, <3>2
    <2>4. Solves(g, d + 1)
      <3>1. g = [n \in 0 .. d + 1 |-> g[n]]
        OBVIOUS
      <3> HIDE DEF g
      <3> QED
        BY <2>3, <3>1
    <2> HIDE DEF Solves, g
    <2> QED
      BY <2>4
  <1>3. \E f : Solves(f, MaxDepth)
    <2> HIDE DEF Good
    <2>1. MaxDepth \in Good
      BY <1>1, <1>2, Counting, DepthAssumption
    <2> QED
      BY <2>1 DEF Good
  <1>4. Solves(Trees, MaxDepth)
    <2>1. Trees = CHOOSE f : Solves(f, MaxDepth)
      BY DEF Trees, Nest
    <2> HIDE DEF Solves
    <2> QED
      BY <1>3, <2>1
  <1>5. ASSUME NEW n \in 0 .. MaxDepth PROVE Trees[n] = IF n = 0 THEN Leaf ELSE Nest(Trees[n - 1])
    <2>1. Trees = [m \in 0 .. MaxDepth |-> IF m = 0 THEN Leaf ELSE Nest(Trees[m - 1])]
      BY <1>4
    <2> QED
      BY <2>1
  <1>6. \A d \in 0 .. MaxDepth - 1 : d + 1 \in 0 .. MaxDepth /\ d + 1 # 0 /\ (d + 1) - 1 = d
    BY DepthAssumption
  <1> QED
    BY <1>5, <1>6, DepthAssumption

LEMMA NestMonotone ==
  ASSUME NEW S, NEW T, S \subseteq T
  PROVE  Nest(S) \subseteq Nest(T)
  BY DEF Nest

LEMMA TreesGrow == \A d \in 0 .. MaxDepth - 1 : Trees[d] \subseteq Trees[d + 1]
  <1> DEFINE Good == {d \in Nat : d \in 0 .. MaxDepth - 1 => Trees[d] \subseteq Trees[d + 1]}
  <1>1. 0 \in Good
    BY TreesFacts DEF Nest
  <1>2. ASSUME NEW d \in Nat, d \in Good PROVE d + 1 \in Good
    <2> SUFFICES ASSUME d + 1 \in 0 .. MaxDepth - 1 PROVE Trees[d + 1] \subseteq Trees[(d + 1) + 1]
      OBVIOUS
    <2>1. d \in 0 .. MaxDepth - 1 /\ d + 1 \in 0 .. MaxDepth - 1
      BY DepthAssumption
    <2>2. Trees[d + 1] = Nest(Trees[d]) /\ Trees[(d + 1) + 1] = Nest(Trees[d + 1])
      BY <2>1, TreesFacts
    <2>3. Trees[d] \subseteq Trees[d + 1]
      BY <1>2, <2>1
    <2>4. Nest(Trees[d]) \subseteq Nest(Trees[d + 1])
      BY <2>3, NestMonotone
    <2> QED
      BY <2>2, <2>4
  <1> HIDE DEF Good
  <1>3. Nat \subseteq Good
    BY <1>1, <1>2, Counting
  <1> QED
    BY <1>3, DepthAssumption DEF Good

LEMMA TreesInStatement == \A d \in 0 .. MaxDepth : Trees[d] \subseteq Statement
  <1> DEFINE Good == {k \in Nat : k \in 0 .. MaxDepth => Trees[MaxDepth - k] \subseteq Statement}
  <1>1. 0 \in Good
    BY DepthAssumption DEF Statement
  <1>2. ASSUME NEW k \in Nat, k \in Good PROVE k + 1 \in Good
    <2> SUFFICES ASSUME k + 1 \in 0 .. MaxDepth PROVE Trees[MaxDepth - (k + 1)] \subseteq Statement
      OBVIOUS
    <2> DEFINE d == MaxDepth - (k + 1)
    <2>1. d \in 0 .. MaxDepth - 1 /\ d + 1 = MaxDepth - k /\ k \in 0 .. MaxDepth
      BY DepthAssumption
    <2>2. Trees[d + 1] \subseteq Statement
      BY <1>2, <2>1
    <2> HIDE DEF d
    <2>3. Trees[d] \subseteq Trees[d + 1]
      BY <2>1, TreesGrow
    <2> QED
      BY <2>2, <2>3 DEF d
  <1> HIDE DEF Good
  <1>3. Nat \subseteq Good
    BY <1>1, <1>2, Counting
  <1>4. ASSUME NEW d \in 0 .. MaxDepth PROVE Trees[d] \subseteq Statement
    <2>1. MaxDepth - d \in Nat /\ MaxDepth - d \in 0 .. MaxDepth /\ MaxDepth - (MaxDepth - d) = d
      BY DepthAssumption
    <2> QED
      BY <1>3, <2>1 DEF Good
  <1> QED
    BY <1>4

(* What a statement is made of. *)
LEMMA Shapes ==
  ASSUME NEW S, NEW s \in Nest(S)
  PROVE  /\ s.op \in {"extract", "extract_field", "return", "if", "block",
                      "none", "other", "error", "empty", "garbled"}
         /\ s.op = "extract" => s.member \in STRING
         /\ s.op = "extract_field" => s.attr \in Attribute /\ s.size \in Int
         /\ s.op = "return" => s.verdict \in STRING
         /\ s.op = "block" => s.body \in Seq(S)
         /\ s.op = "if" => s.test \in Condition /\ s.then \in S /\ s.else \in S
         /\ s.op = "none" => s = NoElse
  <1>1. CASE s \in Leaf
    BY <1>1 DEF Leaf, NoElse
  <1>2. CASE s \in [op : {"block"}, body : Seq(S)]
    BY <1>2
  <1>3. CASE s \in [op : {"if"}, test : Condition, then : S, else : S]
    BY <1>3
  <1> QED
    BY <1>1, <1>2, <1>3 DEF Nest

LEMMA ChildrenShape ==
  ASSUME NEW S, NEW s \in Nest(S)
  PROVE  Children(s) \subseteq S
  <1>1. CASE s.op = "block"
    <2>1. Children(s) = ToSet(s.body) /\ s.body \in Seq(S)
      BY <1>1, Shapes DEF Children
    <2> QED
      BY <2>1 DEF ToSet
  <1>2. CASE s.op = "if"
    BY <1>2, Shapes DEF Children
  <1>3. CASE s.op # "block" /\ s.op # "if"
    BY <1>3 DEF Children
  <1> QED
    BY <1>1, <1>2, <1>3

LEMMA LeafChildren == \A s \in Leaf : Children(s) = {}
  BY DEF Leaf, Children

(* Induction over syntax trees. *)
LEMMA StatementInduction ==
  ASSUME NEW Good, \A s \in Statement : Children(s) \subseteq Statement /\ Children(s) \subseteq Good => s \in Good
  PROVE  Statement \subseteq Good
  <1> DEFINE Deep == {d \in Nat : d \in 0 .. MaxDepth => Trees[d] \subseteq Good}
  <1>1. 0 \in Deep
    <2>1. \A s \in Trees[0] : s \in Statement /\ Children(s) = {}
      BY TreesFacts, LeafChildren, TreesInStatement, DepthAssumption
    <2> QED
      BY <2>1
  <1>2. ASSUME NEW d \in Nat, d \in Deep PROVE d + 1 \in Deep
    <2> SUFFICES ASSUME d + 1 \in 0 .. MaxDepth, NEW s \in Trees[d + 1] PROVE s \in Good
      OBVIOUS
    <2>1. d \in 0 .. MaxDepth - 1 /\ d \in 0 .. MaxDepth
      BY DepthAssumption
    <2>2. s \in Statement
      BY TreesInStatement
    <2>3. Children(s) \subseteq Trees[d]
      BY <2>1, TreesFacts, ChildrenShape
    <2>4. Trees[d] \subseteq Good /\ Trees[d] \subseteq Statement
      BY <1>2, <2>1, TreesInStatement
    <2> QED
      BY <2>2, <2>3, <2>4
  <1> HIDE DEF Deep
  <1>3. Nat \subseteq Deep
    BY <1>1, <1>2, Counting
  <1> QED
    BY <1>3, DepthAssumption DEF Deep, Statement

LEMMA StatementShape == Statement \subseteq Nest(Statement)
  <1>1. CASE MaxDepth = 0
    BY <1>1, TreesFacts DEF Statement, Nest
  <1>2. CASE MaxDepth # 0
    <2>1. MaxDepth - 1 \in 0 .. MaxDepth - 1 /\ MaxDepth - 1 \in 0 .. MaxDepth /\ (MaxDepth - 1) + 1 = MaxDepth
      BY <1>2, DepthAssumption
    <2>2. Statement = Nest(Trees[MaxDepth - 1])
      BY <2>1, TreesFacts DEF Statement
    <2> QED
      BY <2>1, <2>2, TreesInStatement, NestMonotone
  <1> QED
    BY <1>1, <1>2

LEMMA ChildrenFacts == \A s \in Statement : Children(s) \subseteq Statement
  BY StatementShape, ChildrenShape

-----------------------------------------------------------------------------
(* The recursive functions on syntax trees exist: they are put together    *)
(* depth by depth, since they look at the children only.                   *)
PartsStep(f, s) == {s} \cup UNION {f[x] : x \in Children(s)}

LEMMA PartsLocal ==
  ASSUME NEW f, NEW g, NEW s, \A x \in Children(s) : f[x] = g[x]
  PROVE  PartsStep(f, s) = PartsStep(g, s)
  BY DEF PartsStep

LEMMA PartsSolves ==
  \A s \in Statement : Parts[s] = PartsStep(Parts, s)
  <1> DEFINE Solves(f, d) == f = [s \in Trees[d] |-> PartsStep(f, s)]
             Good == {d \in Nat : d \in 0 .. MaxDepth => \E f : Solves(f, d)}
  <1>1. 0 \in Good
    <2> DEFINE f == [s \in Trees[0] |-> PartsStep(<<>>, s)]
    <2>1. \A s \in Trees[0] : PartsStep(f, s) = PartsStep(<<>>, s)
      BY TreesFacts, LeafChildren, PartsLocal
    <2>2. Solves(f, 0)
      BY <2>1
    <2> HIDE DEF Solves, f
    <2> QED
      BY <2>2
  <1>2. ASSUME NEW d \in Nat, d \in Good PROVE d + 1 \in Good
    <2> SUFFICES ASSUME d + 1 \in 0 .. MaxDepth PROVE \E f : Solves(f, d + 1)
      OBVIOUS
    <2>1. d \in 0 .. MaxDepth - 1 /\ d \in 0 .. MaxDepth
      BY DepthAssumption
    <2>2. PICK f : Solves(f, d)
      BY <1>2, <2>1
    <2> DEFINE h == [s \in Trees[d + 1] |-> PartsStep(f, s)]
    <2>3. \A x \in Trees[d] : h[x] = f[x]
      <3>1. \A x \in Trees[d] : f[x] = PartsStep(f, x)
        BY <2>2
      <3> QED
        BY <2>1, <3>1, TreesGrow
    <2>4. \A s \in Trees[d + 1] : PartsStep(h, s) = PartsStep(f, s)
      <3> HIDE DEF h
      <3>1. \A s \in Trees[d + 1] : Children(s) \subseteq Trees[d]
        BY <2>1, TreesFacts, ChildrenShape
      <3> QED
        BY <2>3, <3>1, PartsLocal
    <2>5. Solves(h, d + 1)
      BY <2>4
    <2> HIDE DEF Solves, h
    <2> QED
      BY <2>5
  <1>3. \E f : Solves(f, MaxDepth)
    <2> HIDE DEF Good
    <2>1. MaxDepth \in Good
      BY <1>1, <1>2, Counting, DepthAssumption
    <2> QED
      BY <2>1, DepthAssumption DEF Good
  <1>4. Solves(Parts, MaxDepth)
    BY <1>3 DEF Parts, PartsStep, Statement
  <1> QED
    BY <1>4 DEF Statement

-----------------------------------------------------------------------------
(* Sequences put one behind the other. *)
Then(a, b) == a \o b

LEMMA ThenFacts ==
  ASSUME NEW S, NEW a \in Seq(S), NEW b \in Seq(S)
  PROVE  /\ Then(a, b) \in Seq(S)
         /\ Len(Then(a, b)) = Len(a) + Len(b)
         /\ Then(<<>>, a) = a /\ Then(a, <<>>) = a
         /\ \A k \in 1 .. Len(a) : Then(a, b)[k] = a[k]
         /\ \A k \in 1 .. Len(b) : Then(a, b)[Len(a) + k] = b[k]
  BY DEF Then

LEMMA ThenAssociative ==
  ASSUME NEW S, NEW a \in Seq(S), NEW b \in Seq(S), NEW c \in Seq(S)
  PROVE  Then(Then(a, b), c) = Then(a, Then(b, c))
  BY DEF Then

LEMMA ThenElements ==
  ASSUME NEW S, NEW a \in Seq(S), NEW b \in Seq(S)
  PROVE  ToSet(Then(a, b)) = ToSet(a) \cup ToSet(b)
  <1>0. PICK c : c = Then(a, b)
    OBVIOUS
  <1>1. /\ c \in Seq(S) /\ Len(c) = Len(a) + Len(b)
        /\ \A k \in 1 .. Len(a) : c[k] = a[k]
        /\ \A k \in 1 .. Len(b) : c[Len(a) + k] = b[k]
    BY <1>0 DEF Then
  <1>2. DOMAIN a = 1 .. Len(a) /\ DOMAIN b = 1 .. Len(b) /\ DOMAIN c = 1 .. Len(a) + Len(b)
        /\ Len(a) \in Nat /\ Len(b) \in Nat
    BY <1>1
  <1>3. ASSUME NEW k \in 1 .. Len(a) + Len(b)
        PROVE  c[k] \in ToSet(a) \cup ToSet(b)
    <2>1. CASE k \in 1 .. Len(a)
      BY <1>1, <1>2, <2>1 DEF ToSet
    <2>2. CASE k \notin 1 .. Len(a)
      <3>1. k - Len(a) \in 1 .. Len(b) /\ Len(a) + (k - Len(a)) = k
        BY <1>2, <2>2
      <3>2. c[k] = b[k - Len(a)]
        BY <1>1, <3>1
      <3> QED
        BY <1>2, <3>1, <3>2 DEF ToSet
    <2> QED
      BY <2>1, <2>2
  <1>4. \A k \in 1 .. Len(a) : k \in 1 .. Len(a) + Len(b)
    BY <1>2
  <1>5. \A k \in 1 .. Len(b) : Len(a) + k \in 1 .. Len(a) + Len(b)
    BY <1>2
  <1>6. ToSet(c) \subseteq ToSet(a) \cup ToSet(b)
    BY <1>2, <1>3 DEF ToSet
  <1>7. ToSet(a) \subseteq ToSet(c)
    BY <1>1, <1>2, <1>4 DEF ToSet
  <1>8. ToSet(b) \subseteq ToSet(c)
    BY <1>1, <1>2, <1>5 DEF ToSet
  <1> QED
    BY <1>0, <1>6, <1>7, <1>8

(* p[k] is what the first k sequences give, one behind the other.          *)
Flattens(p, seqs) ==
  /\ p = [k \in 0 .. Len(seqs) |-> p[k]] /\ p[0] = <<>>
  /\ \A k \in 1 .. Len(seqs) : p[k] = Then(p[k - 1], seqs[k])

LEMMA FlattenExists ==
  ASSUME NEW S, NEW seqs \in Seq(Seq(S))
  PROVE  \E p : Flattens(p, seqs) /\ FlattenSeq(seqs) = p[Len(seqs)]
  <1> DEFINE n == Len(seqs)
             Solves(f, d) == f = [k \in 1 .. d |-> IF k = 1 THEN seqs[k] ELSE f[k - 1] \o seqs[k]]
             Good == {d \in Nat : \E f : Solves(f, d)}
  <1>1. 0 \in Good
    <2>1. Solves([k \in 1 .. 0 |-> <<>>], 0)
      OBVIOUS
    <2> HIDE DEF Solves
    <2> QED
      BY <2>1
  <1>2. ASSUME NEW d \in Nat, d \in Good PROVE d + 1 \in Good
    <2>1. PICK f : Solves(f, d)
      BY <1>2
    <2> DEFINE g == [k \in 1 .. d + 1 |-> IF k = d + 1 THEN (IF k = 1 THEN seqs[k] ELSE f[d] \o seqs[k]) ELSE f[k]]
    <2>2. \A k \in 1 .. d : f[k] = IF k = 1 THEN seqs[k] ELSE f[k - 1] \o seqs[k]
      BY <2>1
    <2>3. ASSUME NEW k \in 1 .. d + 1
          PROVE  g[k] = IF k = 1 THEN seqs[k] ELSE g[k - 1] \o seqs[k]
      <3>1. CASE k = d + 1
        <4>1. g[k] = (IF k = 1 THEN seqs[k] ELSE f[d] \o seqs[k]) /\ (k # 1 => g[k - 1] = f[d])
          BY <3>1
        <4> HIDE DEF g
        <4> QED
          BY <3>1, <4>1
      <3>2. CASE k # d + 1
        <4>1. k \in 1 .. d /\ g[k] = f[k]
          BY <3>2
        <4>2. k # 1 => g[k - 1] = f[k - 1]
          BY <3>2
        <4> HIDE DEF g
        <4> QED
          BY <2>2, <4>1, <4>2
      <3> QED
        BY <3>1, <3>2
    <2>4. Solves(g, d + 1)
      <3>1. g = [k \in 1 .. d + 1 |-> g[k]]
        OBVIOUS
      <3> HIDE DEF g
      <3> QED
        BY <2>3, <3>1
    <2> HIDE DEF Solves, g
    <2> QED
      BY <2>4
  <1>3. n \in Nat
    OBVIOUS
  <1>4. \E f : Solves(f, n)
    <2> HIDE DEF Good, n
    <2>1. n \in Good
      BY <1>1, <1>2, <1>3, Counting
    <2> QED
      BY <2>1 DEF Good
  <1> DEFINE flatten == CHOOSE f : Solves(f, n)
  <1>5. Solves(flatten, n)
    <2> HIDE DEF Solves
    <2> QED
      BY <1>4
  <1>6. n # 0 => FlattenSeq(seqs) = flatten[n]
    BY DEF FlattenSeq
  <1>7. n = 0 => FlattenSeq(seqs) = <<>>
    BY DEF FlattenSeq
  <1> HIDE DEF flatten
  <1>8. \A k \in 1 .. n : flatten[k] = IF k = 1 THEN seqs[k] ELSE flatten[k - 1] \o seqs[k]
    BY <1>5
  <1> DEFINE p == [k \in 0 .. n |-> IF k = 0 THEN <<>> ELSE flatten[k]]
  <1>9. ASSUME NEW k \in 1 .. n PROVE p[k] = Then(p[k - 1], seqs[k])
    <2>1. seqs[k] \in Seq(S)
      OBVIOUS
    <2>2. CASE k = 1
      <3>1. p[k] = seqs[k] /\ p[k - 1] = <<>>
        BY <1>8, <2>2
      <3> HIDE DEF p
      <3> QED
        BY <2>1, <3>1, ThenFacts
    <2>3. CASE k # 1
      <3>1. p[k] = flatten[k] /\ p[k - 1] = flatten[k - 1]
        BY <2>3
      <3> HIDE DEF p
      <3> QED
        BY <1>8, <2>3, <3>1 DEF Then
    <2> QED
      BY <2>2, <2>3
  <1>10. p[0] = <<>> /\ p = [k \in 0 .. n |-> p[k]] /\ (n # 0 => p[n] = flatten[n])
    BY <1>3
  <1> HIDE DEF p
  <1>11. Flattens(p, seqs)
    BY <1>9, <1>10 DEF Flattens
  <1> QED
    BY <1>3, <1>6, <1>7, <1>10, <1>11

LEMMA FlattensTyped ==
  ASSUME NEW S, NEW seqs \in Seq(Seq(S)), NEW p, Flattens(p, seqs)
  PROVE  p \in [0 .. Len(seqs) -> Seq(S)]
  <1> DEFINE Good == {k \in Nat : k \in 0 .. Len(seqs) => p[k] \in Seq(S)}
  <1>1. 0 \in Good
    <2>1. <<>> \in Seq(S)
      OBVIOUS
    <2> QED
      BY <2>1 DEF Flattens
  <1>2. ASSUME NEW k \in Nat, k \in Good PROVE k + 1 \in Good
    <2> SUFFICES ASSUME k + 1 \in 0 .. Len(seqs) PROVE p[k + 1] \in Seq(S)
      OBVIOUS
    <2>1. k \in 0 .. Len(seqs) /\ k + 1 \in 1 .. Len(seqs) /\ (k + 1) - 1 = k
      OBVIOUS
    <2>2. p[k + 1] = Then(p[k], seqs[k + 1])
      BY <2>1 DEF Flattens
    <2>3. p[k] \in Seq(S) /\ seqs[k + 1] \in Seq(S)
      BY <1>2, <2>1
    <2> QED
      BY <2>2, <2>3, ThenFacts
  <1> HIDE DEF Good
  <1>3. Nat \subseteq Good
    BY <1>1, <1>2, Counting
  <1>4. \A k \in 0 .. Len(seqs) : p[k] \in Seq(S)
    BY <1>3 DEF Good
  <1>5. p = [k \in 0 .. Len(seqs) |-> p[k]]
    BY DEF Flattens
  <1> QED
    BY <1>4, <1>5

LEMMA FlattenElements ==
  ASSUME NEW S, NEW seqs \in Seq(Seq(S))
  PROVE  /\ FlattenSeq(seqs) \in Seq(S)
         /\ ToSet(FlattenSeq(seqs)) = UNION {ToSet(seqs[k]) : k \in 1 .. Len(seqs)}
  <1>1. PICK p : Flattens(p, seqs) /\ FlattenSeq(seqs) = p[Len(seqs)]
    BY FlattenExists
  <1>2. p \in [0 .. Len(seqs) -> Seq(S)]
    BY <1>1, FlattensTyped
  <1> DEFINE Good == {k \in Nat : k \in 0 .. Len(seqs) => ToSet(p[k]) = UNION {ToSet(seqs[j]) : j \in 1 .. k}}
  <1>3. 0 \in Good
    BY <1>1 DEF Flattens, ToSet
  <1>4. ASSUME NEW k \in Nat, k \in Good PROVE k + 1 \in Good
    <2> SUFFICES ASSUME k + 1 \in 0 .. Len(seqs) 
                 PROVE ToSet(p[k + 1]) = UNION {ToSet(seqs[j]) : j \in 1 .. k + 1}
      OBVIOUS
    <2>1. k \in 0 .. Len(seqs) /\ k + 1 \in 1 .. Len(seqs) /\ (k + 1) - 1 = k
      OBVIOUS
    <2>2. p[k + 1] = Then(p[k], seqs[k + 1])
      BY <1>1, <2>1 DEF Flattens
    <2>3. p[k] \in Seq(S) /\ seqs[k + 1] \in Seq(S)
      <3>1. PICK T : T = Seq(S)
        OBVIOUS
      <3>2. seqs \in Seq(T) /\ p \in [0 .. Len(seqs) -> T]
        BY <1>2, <3>1
      <3>3. p[k] \in T
        BY <2>1, <3>2
      <3>4. seqs[k + 1] \in T
        BY <2>1, <3>2
      <3> QED
        BY <3>1, <3>3, <3>4
    <2>4. ToSet(p[k + 1]) = ToSet(p[k]) \cup ToSet(seqs[k + 1])
      BY <2>2, <2>3, ThenElements
    <2>5. 1 .. k + 1 = (1 .. k) \cup {k + 1}
      OBVIOUS
    <2>6. ToSet(p[k]) = UNION {ToSet(seqs[j]) : j \in 1 .. k}
      BY <1>4, <2>1
    <2>7. ASSUME NEW e
          PROVE  e \in ToSet(p[k + 1]) <=> \E j \in 1 .. k + 1 : e \in ToSet(seqs[j])
      <3>1. e \in ToSet(p[k]) <=> \E j \in 1 .. k : e \in ToSet(seqs[j])
        BY <2>6
      <3>2. e \in ToSet(p[k + 1]) <=> e \in ToSet(p[k]) \/ e \in ToSet(seqs[k + 1])
        BY <2>4
      <3> QED
        BY <2>5, <3>1, <3>2
    <2> QED
      BY <2>7
  <1> HIDE DEF Good
  <1>5. Nat \subseteq Good
    BY <1>3, <1>4, Counting
  <1> QED
    BY <1>1, <1>2, <1>5 DEF Good

-----------------------------------------------------------------------------
(* What collect_info gathers, and what the modifiers leave of it.          *)

LEMMA Elements ==
  ASSUME NEW S, NEW s \in Seq(S)
  PROVE  /\ Len(s) \in Nat /\ DOMAIN s = 1 .. Len(s)
         /\ ToSet(s) \subseteq S
         /\ \A k \in 1 .. Len(s) : s[k] \in ToSet(s) /\ s[k] \in S
         /\ \A x \in ToSet(s) : \E k \in 1 .. Len(s) : x = s[k]
  BY DEF ToSet

LEMMA MapIsSeq ==
  ASSUME NEW S, NEW n \in Nat, NEW f, f = [k \in 1 .. n |-> f[k]], \A k \in 1 .. n : f[k] \in S
  PROVE  f \in Seq(S) /\ Len(f) = n
  <1>1. f \in [1 .. n -> S]
    OBVIOUS
  <1> QED
    BY <1>1

LEMMA Selected ==
  ASSUME NEW S, NEW i, NEW attrs \in Seq(S)
  PROVE  /\ ComparedAmong(i, attrs) \in Seq(S)
         /\ ToSet(ComparedAmong(i, attrs)) = {a \in ToSet(attrs) : IsCompared(i, a)}
  <1> DEFINE parts == [k \in DOMAIN attrs |-> IF IsCompared(i, attrs[k]) THEN <<attrs[k]>> ELSE <<>>]
  <1>0. Len(attrs) \in Nat /\ DOMAIN attrs = 1 .. Len(attrs) /\ \A k \in 1 .. Len(attrs) : attrs[k] \in S
    BY Elements
  <1>a. \A x \in S : <<x>> \in Seq(S) /\ <<>> \in Seq(S) /\ ToSet(<<x>>) = {x} /\ ToSet(<<>>) = {}
    BY DEF ToSet
  <1>b. \A k \in 1 .. Len(attrs) : parts[k] \in Seq(S)
    BY <1>0, <1>a
  <1>2. \A k \in 1 .. Len(attrs) :
          ToSet(parts[k]) = IF IsCompared(i, attrs[k]) THEN {attrs[k]} ELSE {}
    BY <1>0, <1>a
  <1>1. parts \in Seq(Seq(S)) /\ Len(parts) = Len(attrs)
    <2>1. parts = [k \in 1 .. Len(attrs) |-> parts[k]]
      BY <1>0
    <2> HIDE DEF parts
    <2> QED
      BY <1>0, <1>b, <2>1, MapIsSeq
  <1>3. ComparedAmong(i, attrs) = FlattenSeq(parts)
    BY DEF ComparedAmong
  <1> HIDE DEF parts
  <1>4. /\ FlattenSeq(parts) \in Seq(S)
        /\ ToSet(FlattenSeq(parts)) = UNION {ToSet(parts[k]) : k \in 1 .. Len(parts)}
    BY <1>1, FlattenElements
  <1>5. UNION {ToSet(parts[k]) : k \in 1 .. Len(attrs)} = {a \in ToSet(attrs) : IsCompared(i, a)}
    <2>1. ASSUME NEW a, a \in UNION {ToSet(parts[k]) : k \in 1 .. Len(attrs)}
          PROVE  a \in ToSet(attrs) /\ IsCompared(i, a)
      <3>1. PICK k \in 1 .. Len(attrs) : a \in ToSet(parts[k])
        BY <2>1
      <3>2. a = attrs[k] /\ IsCompared(i, a)
        BY <1>2, <3>1
      <3> QED
        BY <3>2, Elements
    <2>2. ASSUME NEW a \in ToSet(attrs), IsCompared(i, a)
          PROVE  a \in UNION {ToSet(parts[k]) : k \in 1 .. Len(attrs)}
      <3>1. PICK k \in 1 .. Len(attrs) : a = attrs[k]
        BY Elements
      <3>2. a \in ToSet(parts[k])
        BY <1>2, <2>2, <3>1
      <3> QED
        BY <3>2
    <2> QED
      BY <2>1, <2>2
  <1> QED
    BY <1>1, <1>3, <1>4, <1>5

Field == [name : STRING, bits : Int]

(* The declarations of an accepted program. *)
LEMMA Declarations ==
  ASSUME NEW prog \in ParserPrograms, WellDeclared(prog)
  PROVE  /\ Members(prog) \in Seq([name : STRING, type : STRING])
         /\ Names(Members(prog)) \subseteq STRING
         /\ \A m \in Names(Members(prog)) :
              FieldsOf(prog, m) \in Seq(Field) /\ FieldsOf(prog, m) # <<>>
         /\ Body(prog) \in Statement /\ Body(prog).op = "block"
  <1>1. /\ prog.structs \in Seq([name : STRING, fields : Seq(Field)])
        /\ prog.phvs \in Seq(Seq([name : STRING, type : STRING]))
        /\ prog.functions \in Seq([name : STRING, body : Statement])
        /\ \A f \in ToSet(prog.functions) : f.body.op = "block"
    BY DEF ParserPrograms, Field
  <1>2. Len(prog.phvs) = 1 /\ Len(prog.functions) = 1
    BY DEF WellDeclared
  <1>3. Members(prog) \in Seq([name : STRING, type : STRING])
    BY <1>1, <1>2 DEF Members
  <1>4. prog.functions[1] \in ToSet(prog.functions) /\ prog.functions[1] \in [name : STRING, body : Statement]
    <2>1. 1 \in 1 .. Len(prog.functions)
      BY <1>2
    <2> QED
      BY <1>1, <2>1, Elements
  <1>5. Body(prog) \in Statement /\ Body(prog).op = "block"
    BY <1>1, <1>4 DEF Body
  <1>6. ASSUME NEW m \in Names(Members(prog))
        PROVE  m \in STRING /\ FieldsOf(prog, m) \in Seq(Field) /\ FieldsOf(prog, m) # <<>>
    <2>1. PICK k \in DOMAIN Members(prog) : m = Members(prog)[k].name
      BY <1>6 DEF Names
    <2>2. Members(prog)[k] \in ToSet(Members(prog)) /\ Members(prog)[k].name \in STRING
      <3>1. k \in 1 .. Len(Members(prog))
        BY <1>3, <2>1, Elements
      <3>2. Members(prog)[k] \in ToSet(Members(prog)) /\ Members(prog)[k] \in [name : STRING, type : STRING]
        BY <1>3, <3>1, Elements
      <3> QED
        BY <3>2
    <2> DEFINE d == CHOOSE x \in ToSet(Members(prog)) : x.name = m
    <2>3. d \in ToSet(Members(prog))
      BY <2>1, <2>2
    <2> HIDE DEF d
    <2>4. d.type \in Names(prog.structs)
      BY <2>3 DEF WellDeclared
    <2>5. PICK j \in DOMAIN prog.structs : prog.structs[j].name = d.type
      BY <2>4 DEF Names
    <2>6. prog.structs[j] \in ToSet(prog.structs)
      BY <2>5 DEF ToSet
    <2> DEFINE s == CHOOSE x \in ToSet(prog.structs) : x.name = d.type
    <2>7. s \in ToSet(prog.structs)
      BY <2>5, <2>6
    <2> HIDE DEF s
    <2>8. s \in [name : STRING, fields : Seq(Field)]
      BY <1>1, <2>7, Elements
    <2>9. s.fields # <<>>
      BY <2>7 DEF WellDeclared
    <2>10. FieldsOf(prog, m) = s.fields
      BY DEF FieldsOf, d, s
    <2> QED
      BY <2>1, <2>2, <2>8, <2>9, <2>10
  <1> QED
    BY <1>3, <1>5, <1>6

LEMMA FieldNamesFacts ==
  ASSUME NEW prog \in ParserPrograms, WellDeclared(prog), NEW m \in Names(Members(prog))
  PROVE  /\ FieldNames(prog, m) \in Seq(STRING) /\ FieldNames(prog, m) # <<>>
         /\ ToSet(FieldNames(prog, m)) = Names(FieldsOf(prog, m))
  <1>1. FieldsOf(prog, m) \in Seq(Field) /\ FieldsOf(prog, m) # <<>>
    BY Declarations
  <1>2. \A k \in DOMAIN FieldsOf(prog, m) : FieldsOf(prog, m)[k].name \in STRING
    <2>1. \A k \in DOMAIN FieldsOf(prog, m) : FieldsOf(prog, m)[k] \in Field
      BY <1>1, Elements
    <2> QED
      BY <2>1 DEF Field
  <1>3. DOMAIN FieldsOf(prog, m) = 1 .. Len(FieldsOf(prog, m)) /\ Len(FieldsOf(prog, m)) \in Nat
    BY <1>1
  <1>4. FieldNames(prog, m) \in Seq(STRING) /\ Len(FieldNames(prog, m)) = Len(FieldsOf(prog, m))
    BY <1>2, <1>3 DEF FieldNames
  <1>5. Len(FieldsOf(prog, m)) # 0
    BY <1>1
  <1> QED
    BY <1>3, <1>4, <1>5 DEF FieldNames, Names, ToSet

LEMMA AttributesFacts ==
  ASSUME NEW prog
  PROVE  Attributes(prog) = UNION {{<<m, f>> : f \in ToSet(FieldNames(prog, m))} : m \in Names(Members(prog))}
  <1>1. \A m \in Names(Members(prog)) :
          ToSet(AttrsOf(m, FieldNames(prog, m))) = {<<m, f>> : f \in ToSet(FieldNames(prog, m))}
    BY DEF ToSet, AttrsOf
  <1> QED
    BY <1>1 DEF Attributes

LEMMA PartsFacts ==
  \A s \in Statement :
    /\ s \in Parts[s] /\ Parts[s] \subseteq Statement
    /\ \A x \in Children(s) : Parts[x] \subseteq Parts[s]
  <1> DEFINE Good == {s \in Statement : Parts[s] \subseteq Statement}
  <1>1. \A s \in Statement : Parts[s] = {s} \cup UNION {Parts[x] : x \in Children(s)}
    BY PartsSolves DEF PartsStep
  <1>2. ASSUME NEW s \in Statement, Children(s) \subseteq Statement, Children(s) \subseteq Good
        PROVE  s \in Good
    BY <1>1, <1>2
  <1>3. Statement \subseteq Good
    <2> HIDE DEF Good
    <2> QED
      BY <1>2, StatementInduction
  <1> QED
    BY <1>1, <1>3

LEMMA ImageFinite ==
  ASSUME NEW f, IsFiniteSet(DOMAIN f)
  PROVE  IsFiniteSet({f[x] : x \in DOMAIN f})
  <1> DEFINE T == {f[x] : x \in DOMAIN f}
             g == [x \in DOMAIN f |-> f[x]]
  <1>1. g \in Surjection(DOMAIN f, T)
    BY DEF Surjection
  <1> QED
    BY <1>1, FS_Surjection

LEMMA PartsFinite == \A s \in Statement : IsFiniteSet(Parts[s])
  <1> DEFINE Good == {s \in Statement : IsFiniteSet(Parts[s])}
  <1>1. ASSUME NEW s \in Statement, Children(s) \subseteq Statement, Children(s) \subseteq Good
        PROVE  s \in Good
    <2>1. IsFiniteSet(Children(s))
      <3>1. CASE s.op = "block"
        <4>1. s.body \in Seq(Statement)
          BY <3>1, StatementShape, Shapes
        <4>2. DOMAIN s.body = 1 .. Len(s.body) /\ Len(s.body) \in Nat
          BY <4>1
        <4>3. IsFiniteSet(DOMAIN s.body)
          BY <4>2, FS_Interval
        <4>4. PICK b : b = s.body
          OBVIOUS
        <4>5. Children(s) = ToSet(b)
          BY <3>1, <4>4 DEF Children
        <4>6. IsFiniteSet(ToSet(b))
          BY <4>3, <4>4, ImageFinite DEF ToSet
        <4> QED
          BY <4>5, <4>6
      <3>2. CASE s.op = "if"
        <4>1. Children(s) = {s.then} \cup {s.else}
          BY <3>2 DEF Children
        <4>2. IsFiniteSet({s.then}) /\ IsFiniteSet({s.else})
          BY FS_Singleton
        <4>3. IsFiniteSet({s.then} \cup {s.else})
          BY <4>2, FS_Union
        <4> QED
          BY <4>1, <4>3
      <3>3. CASE s.op # "block" /\ s.op # "if"
        <4>1. Children(s) = {}
          BY <3>3 DEF Children
        <4> QED
          BY <4>1, FS_EmptySet
      <3> QED
        BY <3>1, <3>2, <3>3
    <2> DEFINE f == [x \in Children(s) |-> Parts[x]]
    <2>2. IsFiniteSet({f[x] : x \in DOMAIN f})
      <3>1. IsFiniteSet(DOMAIN f)
        BY <2>1
      <3> HIDE DEF f
      <3> QED
        BY <3>1, ImageFinite
    <2>3. {f[x] : x \in DOMAIN f} = {Parts[x] : x \in Children(s)}
      OBVIOUS
    <2>4. \A T \in {Parts[x] : x \in Children(s)} : IsFiniteSet(T)
      BY <1>1
    <2>5. IsFiniteSet(UNION {Parts[x] : x \in Children(s)})
      BY <2>2, <2>3, <2>4, FS_UNION
    <2>6. Parts[s] = {s} \cup UNION {Parts[x] : x \in Children(s)}
      BY PartsSolves DEF PartsStep
    <2>7. IsFiniteSet({s})
      BY FS_Singleton
    <2>8. PICK U : U = UNION {Parts[x] : x \in Children(s)}
      OBVIOUS
    <2>9. IsFiniteSet({s} \cup U)
      BY <2>5, <2>7, <2>8, FS_Union
    <2> QED
      BY <2>6, <2>8, <2>9
  <1> HIDE DEF Good
  <1>2. Statement \subseteq Good
    BY <1>1, StatementInduction
  <1> QED
    BY <1>2 DEF Good

LEMMA TestsFinite == \A s \in Statement : IsFiniteSet(Tests(s))
  <1> SUFFICES ASSUME NEW s \in Statement PROVE IsFiniteSet(Tests(s))
    OBVIOUS
  <1> DEFINE ifs == {y \in Parts[s] : y.op = "if"}
             f == [x \in ifs |-> x.test]
  <1>1. IsFiniteSet(ifs)
    BY PartsFinite, FS_Subset
  <1>2. IsFiniteSet({f[x] : x \in DOMAIN f})
    <2>1. IsFiniteSet(DOMAIN f)
      BY <1>1
    <2> HIDE DEF f
    <2> QED
      BY <2>1, ImageFinite
  <1>3. {f[x] : x \in DOMAIN f} = Tests(s)
    BY DEF Tests
  <1> QED
    BY <1>2, <1>3

(* What the Collector has let through. *)
LEMMA CollectedTests ==
  ASSUME NEW prog \in ParserPrograms, Collectable(prog), NEW t \in Tests(Body(prog))
  PROVE  /\ t \in Condition /\ WellFormedTest(prog, t)
         /\ t.attr \in Attributes(prog) /\ t.attr = <<t.attr[1], t.attr[2]>>
         /\ t.attr[1] \in Names(Members(prog))
         /\ t.attr[2] \in ToSet(FieldNames(prog, t.attr[1]))
         /\ Kind(prog, t.attr) # "NotCompared"
  <1>1. PICK x \in Parts[Body(prog)] : x.op = "if" /\ t = x.test
    BY DEF Tests
  <1>2. WellDeclared(prog) /\ Visitable(prog, Body(prog))
    BY DEF Collectable
  <1>3. Body(prog) \in Statement
    BY <1>2, Declarations
  <1>4. x \in Statement
    BY <1>3, PartsFacts
  <1>5. t \in Condition
    BY <1>1, <1>4, StatementShape, Shapes
  <1>6. WellFormedTest(prog, t)
    BY <1>1, <1>2 DEF Visitable
  <1>7. t.attr \in STRING \X STRING
    BY <1>5 DEF Condition, Attribute
  <1>8. t.attr = <<t.attr[1], t.attr[2]>>
    BY <1>7
  <1>9. t.attr[1] \in Names(Members(prog)) /\ t.attr[2] \in Names(FieldsOf(prog, t.attr[1]))
    BY <1>6 DEF WellFormedTest
  <1>10. t.attr[2] \in ToSet(FieldNames(prog, t.attr[1]))
    BY <1>2, <1>9, FieldNamesFacts
  <1>11. t.attr \in Attributes(prog)
    <2>1. PICK m \in Names(Members(prog)) : m = t.attr[1]
      BY <1>9
    <2>2. PICK f \in ToSet(FieldNames(prog, m)) : f = t.attr[2]
      BY <1>10, <2>1
    <2>3. <<m, f>> \in Attributes(prog)
      BY <1>2, AttributesFacts
    <2> QED
      BY <1>8, <2>1, <2>2, <2>3
  <1>12. Kind(prog, t.attr) # "NotCompared"
    BY DEF Kind
  <1> QED
    BY <1>5, <1>6, <1>8, <1>9, <1>10, <1>11, <1>12

(* What Info says of its program. *)
Describes(i, prog) ==
  /\ i.members \in Seq(STRING) /\ ToSet(i.members) = Names(Members(prog))
  /\ DOMAIN i.kind = Attributes(prog) /\ DOMAIN i.new_size = Attributes(prog)
  /\ \A a \in Attributes(prog) : i.kind[a] = Kind(prog, a)
  /\ \A m \in Names(Members(prog)) :
       /\ i.contents[m] \in Seq(STRING) /\ i.contents[m] # <<>>
       /\ \A f \in ToSet(i.contents[m]) : <<m, f>> \in Attributes(prog)
  /\ \A t \in Tests(Body(prog)) : t.attr[2] \in ToSet(i.contents[t.attr[1]])

LEMMA CollectedInfo ==
  ASSUME NEW prog \in ParserPrograms, Collectable(prog)
  PROVE  Describes(CollectInfo(prog), prog) /\ IsInfo(CollectInfo(prog))
  <1> DEFINE i == CollectInfo(prog)
  <1>1. WellDeclared(prog)
    BY DEF Collectable
  <1>2. Members(prog) \in Seq([name : STRING, type : STRING])
    BY <1>1, Declarations
  <1>3. i.members \in Seq(STRING) /\ ToSet(i.members) = Names(Members(prog))
    <2>1. i.members = [k \in DOMAIN Members(prog) |-> Members(prog)[k].name]
      BY DEF CollectInfo
    <2>2. DOMAIN Members(prog) = 1 .. Len(Members(prog)) /\ Len(Members(prog)) \in Nat
          /\ \A k \in 1 .. Len(Members(prog)) : Members(prog)[k] \in [name : STRING, type : STRING]
      BY <1>2, Elements
    <2> HIDE DEF i
    <2>3. i.members \in Seq(STRING)
      BY <2>1, <2>2
    <2> QED
      BY <2>1, <2>3 DEF Names, ToSet
  <1>4. /\ DOMAIN i.kind = Attributes(prog) /\ DOMAIN i.new_size = Attributes(prog)
        /\ \A a \in Attributes(prog) : i.kind[a] = Kind(prog, a)
        /\ i.new_constant = [a \in Attributes(prog) |-> [c \in ExactConstants(prog, a) |-> c]]
        /\ \A m \in Names(Members(prog)) : i.contents[m] = FieldNames(prog, m)
        /\ DOMAIN i = {"members", "fields", "contents", "kind", "old_size", "new_size", "new_constant"}
    BY DEF CollectInfo
  <1> HIDE DEF i
  <1>5. \A m \in Names(Members(prog)) :
          /\ i.contents[m] \in Seq(STRING) /\ i.contents[m] # <<>>
          /\ \A f \in ToSet(i.contents[m]) : <<m, f>> \in Attributes(prog)
    BY <1>1, <1>4, FieldNamesFacts, AttributesFacts
  <1>6. \A t \in Tests(Body(prog)) : t.attr[2] \in ToSet(i.contents[t.attr[1]])
    BY <1>4, CollectedTests
  <1>7. ASSUME NEW a \in Attributes(prog) PROVE IsFiniteSet(ExactConstants(prog, a))
    <2> DEFINE ts == {u \in Tests(Body(prog)) : u.attr = a /\ u.mask = NoMask}
               f == [t \in ts |-> t.value]
    <2>1. IsFiniteSet(ts)
      BY <1>1, Declarations, TestsFinite, FS_Subset
    <2>2. IsFiniteSet({f[x] : x \in DOMAIN f})
      <3>1. IsFiniteSet(DOMAIN f)
        BY <2>1
      <3> HIDE DEF f
      <3> QED
        BY <3>1, ImageFinite
    <2>3. {f[x] : x \in DOMAIN f} = ExactConstants(prog, a)
      BY DEF ExactConstants
    <2> QED
      BY <2>2, <2>3
  <1>8. IsInfo(i)
    BY <1>4, <1>7 DEF IsInfo
  <1>9. Describes(i, prog)
    BY <1>3, <1>4, <1>5, <1>6 DEF Describes
  <1> QED
    BY <1>8, <1>9 DEF i

-----------------------------------------------------------------------------
(* The frontend's steps.                                                   *)

Stages == {"start", "refused", "collected", "modified", "opened", "written", "built", "failed"}

TypeInv ==
  /\ stage \in [Compilations -> Stages]
  /\ DOMAIN info = Compilations
  /\ DOMAIN graph = Compilations
  /\ DOMAIN field_min = Compilations
  /\ DOMAIN pc_file = {Stem[c] : c \in Compilations}

(* A compilation's Info is that of its own source, minimised by its flag.  *)
OwnInfo ==
  \A c \in Compilations :
    /\ stage[c] \notin {"start", "refused"} => Collectable(source[c])
    /\ stage[c] = "collected" => info[c] = CollectInfo(source[c])
    /\ stage[c] \in {"modified", "opened", "written", "built", "failed"} => info[c] \in InfosOf(c)

phase == [c \in Compilations |-> IF stage[c] \in InUse THEN stage[c] ELSE "idle"]
text == [c \in Compilations |-> IF stage[c] \in InUse THEN PcProgram(info[c], source[c]) ELSE Empty]

(* A step of one compilation, seen by the others. *)
LEMMA OthersStay ==
  ASSUME TypeInv, NEW c \in Compilations,
         Collect(c) \/ Modify(c) \/ OpenPc(c) \/ WritePc(c) \/ ReadPc(c) \/ Again(c),
         NEW d \in Compilations, d # c
  PROVE  /\ stage'[d] = stage[d] /\ info'[d] = info[d] /\ graph'[d] = graph[d]
         /\ field_min'[d] = field_min[d] /\ source'[d] = source[d]
         /\ ~disturbed'[d] /\ stage[d] \notin {"opened", "written"} => ~disturbed[d]
  BY DEF TypeInv, Collect, Modify, OpenPc, WritePc, ReadPc, Again, Reaches, Disturbs

LEMMA TypeStep ==
  ASSUME TypeInv, [Next]_vars
  PROVE  TypeInv'
  <1>1. ASSUME NEW c \in Compilations, Collect(c) \/ Modify(c) \/ ReadPc(c) \/ Again(c)
        PROVE  TypeInv'
    BY <1>1 DEF TypeInv, Stages, Collect, Modify, ReadPc, Again, Reaches
  <1>2. ASSUME NEW c \in Compilations, OpenPc(c) \/ WritePc(c)
        PROVE  TypeInv'
    BY <1>2 DEF TypeInv, Stages, OpenPc, WritePc, Reaches
  <1>3. CASE UNCHANGED vars
    BY <1>3 DEF TypeInv, vars
  <1> QED
    BY <1>1, <1>2, <1>3 DEF Next

LEMMA AlwaysTypeInv == Spec => []TypeInv
  <1>1. Init => TypeInv
    BY DEF Init, TypeInv, Stages
  <1> QED
    BY <1>1, TypeStep, PTL DEF Spec

-----------------------------------------------------------------------------
(* The frontend's steps are steps of PcFile, or leave the files alone.     *)

LEMMA InitImplements == Init => Pc!Init
  BY DEF Init, Pc!Init, Pc!Stems, InUse

(* A compilation that goes from phase to phase; the others keep theirs. *)
LEMMA OneProceeds ==
  ASSUME TypeInv, NEW c \in Compilations,
         Collect(c) \/ Modify(c) \/ OpenPc(c) \/ WritePc(c) \/ ReadPc(c) \/ Again(c),
         NEW p, phase'[c] = p
  PROVE  Pc!Proceeds(c, p)
  <1>1. \A d \in Compilations \ {c} : phase'[d] = phase[d] /\ text'[d] = text[d]
    BY OthersStay DEF phase, text, InUse
  <1>2. phase' = [phase EXCEPT ![c] = p]
    BY <1>1 DEF phase
  <1> QED
    BY <1>1, <1>2 DEF Pc!Proceeds, phase, text

LEMMA OpenImplements ==
  ASSUME TypeInv, NEW c \in Compilations, OpenPc(c)
  PROVE  Pc!Open(c)
  <1>1. phase[c] = "idle" /\ phase'[c] = "opened"
    BY DEF TypeInv, OpenPc, Reaches, phase, InUse
  <1>2. Pc!Proceeds(c, "opened")
    BY <1>1, OneProceeds
  <1>3. Pc!Disturbs(c)
    BY <1>1 DEF OpenPc, Disturbs, Pc!Disturbs, Pc!Uses, phase, InUse
  <1> QED
    BY <1>1, <1>2, <1>3 DEF OpenPc, Pc!Open, phase

LEMMA WriteImplements ==
  ASSUME TypeInv, NEW c \in Compilations, WritePc(c)
  PROVE  Pc!Write(c)
  <1>1. phase[c] = "opened" /\ phase'[c] = "written" /\ stage[c] = "opened"
    BY DEF TypeInv, WritePc, Reaches, phase, InUse
  <1>2. Pc!Proceeds(c, "written")
    BY <1>1, OneProceeds
  <1>3. text[c] = PcProgram(info[c], source[c]) /\ text'[c] = text[c]
    BY DEF TypeInv, WritePc, Reaches, text, InUse
  <1>4. Pc!Disturbs(c)
    BY <1>1 DEF WritePc, Disturbs, Pc!Disturbs, Pc!Uses, phase, InUse
  <1>5. \/ pc_file' = [pc_file EXCEPT ![Stem[c]] = text[c]]
        \/ pc_file[Stem[c]] # Empty /\ pc_file' = [pc_file EXCEPT ![Stem[c]] = Garbled]
    BY <1>3 DEF WritePc
  <1> QED
    BY <1>1, <1>2, <1>3, <1>4, <1>5 DEF Pc!Write, phase, text

(* The stages that leave the file alone; one that was using it leaves.     *)
LEMMA LeaveImplements ==
  ASSUME TypeInv, NEW c \in Compilations, Collect(c) \/ Modify(c) \/ ReadPc(c) \/ Again(c)
  PROVE  Pc!Leave(c)
  <1>1. phase'[c] = "idle"
    BY DEF TypeInv, Collect, Modify, ReadPc, Again, Reaches, phase, InUse
  <1>2. Pc!Proceeds(c, "idle")
    BY <1>1, OneProceeds
  <1> QED
    BY <1>2 DEF Collect, Modify, ReadPc, Again, Pc!Leave

(* Every file is truncated before it is filled, and filled with the        *)
(* program of the very run that opened it: the frontend implements PcFile. *)
THEOREM Refinement == Spec => ImplementsPcFile
  <1>1. TypeInv /\ [Next]_vars => [Pc!Next]_Pc!pvars
    <2> SUFFICES ASSUME TypeInv, [Next]_vars
                 PROVE  [Pc!Next]_Pc!pvars
      OBVIOUS
    <2>1. ASSUME NEW c \in Compilations,
                 Collect(c) \/ Modify(c) \/ OpenPc(c) \/ WritePc(c) \/ ReadPc(c) \/ Again(c)
          PROVE  Pc!Next
      BY <2>1, OpenImplements, WriteImplements, LeaveImplements DEF Pc!Next
    <2>2. CASE UNCHANGED vars
      BY <2>2 DEF vars, Pc!pvars, InUse
    <2> QED
      BY <2>1, <2>2 DEF Next
  <1> QED
    BY <1>1, InitImplements, AlwaysTypeInv, PTL DEF Spec, ImplementsPcFile, Pc!Spec

-----------------------------------------------------------------------------
(* The protocol of the .pc files keeps undisturbed compilations apart.     *)

PcTypeInv ==
  /\ phase \in [Compilations -> {"idle", "opened", "written"}]
  /\ DOMAIN pc_file = Pc!Stems
  /\ disturbed \in [Compilations -> BOOLEAN]

(* Between its open and its close an undisturbed compilation's file is     *)
(* empty: what it flushes is all the file will hold.                       *)
FindsEmpty ==
  \A c \in Compilations :
    phase[c] = "opened" /\ ~disturbed[c] => pc_file[Stem[c]] = Empty

PcInv == PcTypeInv /\ FindsEmpty /\ Pc!ReadsOwnText

LEMMA PcTypeStep == ASSUME PcTypeInv, [Pc!Next]_Pc!pvars PROVE PcTypeInv'
  <1>1. ASSUME NEW c \in Compilations, Pc!Open(c) \/ Pc!Write(c) PROVE PcTypeInv'
    <2>1. phase' \in [Compilations -> {"idle", "opened", "written"}]
      BY <1>1 DEF PcTypeInv, Pc!Open, Pc!Write, Pc!Proceeds, phase, text
    <2>2. DOMAIN pc_file' = Pc!Stems
      BY <1>1 DEF PcTypeInv, Pc!Open, Pc!Write, phase, text
    <2>3. disturbed' \in [Compilations -> BOOLEAN]
      BY <1>1 DEF PcTypeInv, Pc!Open, Pc!Write, Pc!Disturbs, phase, text
    <2> QED
      BY <2>1, <2>2, <2>3 DEF PcTypeInv, phase, text
  <1>2. ASSUME NEW c \in Compilations, Pc!Leave(c) PROVE PcTypeInv'
    BY <1>2 DEF PcTypeInv, Pc!Leave, Pc!Proceeds, phase, text
  <1>3. CASE UNCHANGED Pc!pvars
    BY <1>3 DEF PcTypeInv, Pc!pvars, phase, text
  <1> QED
    BY <1>1, <1>2, <1>3 DEF Pc!Next, phase, text

(* What a compilation d sees when another one, c, uses a file: it is       *)
(* disturbed, or its file stays.                                           *)
LEMMA OthersDisturbed ==
  ASSUME PcTypeInv, NEW c \in Compilations, Pc!Open(c) \/ Pc!Write(c),
         NEW d \in Compilations, d # c, Pc!Uses(d), ~disturbed'[d]
  PROVE  /\ phase'[d] = phase[d] /\ text'[d] = text[d] /\ ~disturbed[d]
         /\ pc_file'[Stem[d]] = pc_file[Stem[d]]
  <1>1. phase'[d] = phase[d] /\ text'[d] = text[d]
    BY DEF PcTypeInv, Pc!Open, Pc!Write, Pc!Proceeds, phase, text
  <1>2. ~disturbed[d] /\ Stem[d] # Stem[c]
    BY DEF Pc!Open, Pc!Write, Pc!Disturbs, phase, text
  <1>3. pc_file'[Stem[d]] = pc_file[Stem[d]]
    BY <1>2 DEF PcTypeInv, Pc!Stems, Pc!Open, Pc!Write, phase, text
  <1> QED
    BY <1>1, <1>2, <1>3

(* An undisturbed compilation reads back the program it wrote. *)
THEOREM OwnText == Pc!Spec => []Pc!ReadsOwnText
  <1>1. Pc!Init => PcInv
    BY DEF Pc!Init, PcInv, PcTypeInv, FindsEmpty, Pc!ReadsOwnText, phase, text
  <1>2. PcInv /\ [Pc!Next]_Pc!pvars => PcInv'
    <2> SUFFICES ASSUME PcInv, [Pc!Next]_Pc!pvars PROVE PcInv'
      OBVIOUS
    <2>1. PcTypeInv /\ PcTypeInv'
      BY PcTypeStep DEF PcInv
    <2>2. ASSUME NEW c \in Compilations, Pc!Open(c) PROVE (FindsEmpty /\ Pc!ReadsOwnText)'
      <3>1. phase'[c] = "opened" /\ pc_file'[Stem[c]] = Empty
        BY <2>1, <2>2 DEF PcTypeInv, Pc!Stems, Pc!Open, Pc!Proceeds, phase, text
      <3>2. \A d \in Compilations \ {c} : phase'[d] = phase[d]
        BY <2>1, <2>2 DEF PcTypeInv, Pc!Open, Pc!Proceeds, phase, text
      <3>3. \A d \in Compilations \ {c} : Pc!Uses(d) /\ ~disturbed'[d] =>
              /\ text'[d] = text[d] /\ ~disturbed[d]
              /\ pc_file'[Stem[d]] = pc_file[Stem[d]]
        BY <2>1, <2>2, OthersDisturbed
      <3> QED
        BY <3>1, <3>2, <3>3 DEF PcInv, FindsEmpty, Pc!ReadsOwnText, Pc!Uses, phase, text
    <2>3. ASSUME NEW c \in Compilations, Pc!Write(c) PROVE (FindsEmpty /\ Pc!ReadsOwnText)'
      <3>1. phase[c] = "opened" /\ phase'[c] = "written" /\ text'[c] = text[c]
        BY <2>1, <2>3 DEF PcTypeInv, Pc!Write, Pc!Proceeds, phase, text
      <3>2. ~disturbed'[c] => ~disturbed[c]
        BY <2>1, <2>3 DEF PcTypeInv, Pc!Write, Pc!Disturbs, phase, text
      <3>3. ~disturbed'[c] => pc_file'[Stem[c]] = text[c]
        BY <2>1, <2>3, <3>1, <3>2 DEF PcInv, PcTypeInv, Pc!Stems, FindsEmpty, Pc!Write, phase, text
      <3>4. \A d \in Compilations \ {c} : phase'[d] = phase[d]
        BY <2>1, <2>3 DEF PcTypeInv, Pc!Write, Pc!Proceeds, phase, text
      <3>5. \A d \in Compilations \ {c} : Pc!Uses(d) /\ ~disturbed'[d] =>
              /\ text'[d] = text[d] /\ ~disturbed[d]
              /\ pc_file'[Stem[d]] = pc_file[Stem[d]]
        BY <2>1, <2>3, OthersDisturbed
      <3> QED
        BY <3>1, <3>3, <3>4, <3>5 DEF PcInv, FindsEmpty, Pc!ReadsOwnText, Pc!Uses, phase, text
    <2>4. ASSUME NEW c \in Compilations, Pc!Leave(c) PROVE (FindsEmpty /\ Pc!ReadsOwnText)'
      <3>1. /\ phase'[c] = "idle" /\ UNCHANGED <<pc_file, disturbed>>
            /\ \A d \in Compilations \ {c} : phase'[d] = phase[d] /\ text'[d] = text[d]
        BY <2>1, <2>4 DEF PcTypeInv, Pc!Leave, Pc!Proceeds, phase, text
      <3> QED
        BY <3>1 DEF PcInv, FindsEmpty, Pc!ReadsOwnText, phase, text
    <2>5. CASE UNCHANGED Pc!pvars
      BY <2>5 DEF PcInv, PcTypeInv, FindsEmpty, Pc!ReadsOwnText, Pc!pvars, phase, text
    <2> QED
      BY <2>1, <2>2, <2>3, <2>4, <2>5 DEF PcInv, Pc!Next, phase, text
  <1>3. PcInv => Pc!ReadsOwnText
    BY DEF PcInv
  <1> QED
    BY <1>1, <1>2, <1>3, PTL DEF Pc!Spec, phase, text

-----------------------------------------------------------------------------
(* Reads find the compilation's own program: PcFile's theorem, inherited.  *)
ReadsOwnPc ==
  \A c \in Compilations : stage[c] = "written" /\ ~disturbed[c] =>
    pc_file[Stem[c]] = PcProgram(info[c], source[c])

LEMMA AlwaysReadsOwnPc == Spec => []ReadsOwnPc
  <1>1. Pc!ReadsOwnText => ReadsOwnPc
    BY DEF Pc!ReadsOwnText, ReadsOwnPc, InUse
  <1> QED
    BY <1>1, Refinement, OwnText, PTL DEF ImplementsPcFile

-----------------------------------------------------------------------------
(* Whatever happens in the directory, only the compilation's own source    *)
(* and flag show in what it hands on.                                      *)

LEMMA OwnInfoStep ==
  ASSUME TypeInv, OwnInfo, [Next]_vars
  PROVE  OwnInfo'
  <1>1. ASSUME NEW c \in Compilations,
               Collect(c) \/ Modify(c) \/ OpenPc(c) \/ WritePc(c) \/ ReadPc(c) \/ Again(c)
        PROVE  OwnInfo'
    <2>1. \A d \in Compilations \ {c} :
            /\ stage'[d] = stage[d] /\ info'[d] = info[d]
            /\ field_min'[d] = field_min[d] /\ source'[d] = source[d]
      BY <1>1, OthersStay
    <2>2. /\ stage'[c] \notin {"start", "refused"} => Collectable(source'[c])
          /\ stage'[c] = "collected" => info'[c] = CollectInfo(source'[c])
          /\ stage'[c] \in {"modified", "opened", "written", "built", "failed"} =>
               info'[c] \in (IF field_min'[c] THEN Minimised(CollectInfo(source'[c]))
                             ELSE {CollectInfo(source'[c])})
      <3>1. CASE Collect(c)
        BY <3>1 DEF TypeInv, Collect, Reaches
      <3>2. CASE Modify(c)
        BY <3>2 DEF TypeInv, OwnInfo, Modify, Reaches
      <3>3. CASE OpenPc(c) \/ WritePc(c) \/ ReadPc(c)
        BY <3>3 DEF TypeInv, OwnInfo, InfosOf, OpenPc, WritePc, ReadPc, Reaches
      <3>4. CASE Again(c)
        BY <3>4 DEF TypeInv, Again, Reaches
      <3> QED
        BY <1>1, <3>1, <3>2, <3>3, <3>4
    <2> QED
      BY <2>1, <2>2 DEF OwnInfo, InfosOf
  <1>2. CASE UNCHANGED vars
    BY <1>2 DEF OwnInfo, InfosOf, vars
  <1> QED
    BY <1>1, <1>2 DEF Next

LEMMA AlwaysOwnInfo == Spec => []OwnInfo
  <1>1. Init => OwnInfo
    BY DEF Init, OwnInfo
  <1> QED
    BY <1>1, OwnInfoStep, AlwaysTypeInv, PTL DEF Spec

(* What ReadPc finds is its own program, and it builds the graph of that.  *)
LEMMA OwnResultStep ==
  ASSUME TypeInv, OwnInfo, ReadsOwnPc, OwnResult, [Next]_vars
  PROVE  OwnResult'
  <1>1. ASSUME NEW c \in Compilations,
               Collect(c) \/ Modify(c) \/ OpenPc(c) \/ WritePc(c) \/ ReadPc(c) \/ Again(c)
        PROVE  OwnResult'
    <2>1. \A d \in Compilations \ {c} :
            /\ stage'[d] = stage[d] /\ info'[d] = info[d] /\ graph'[d] = graph[d]
            /\ field_min'[d] = field_min[d] /\ source'[d] = source[d]
            /\ ~disturbed'[d] /\ stage[d] \notin {"opened", "written"} => ~disturbed[d]
      BY <1>1, OthersStay
    <2>2. CASE ReadPc(c)
      <3>1. stage[c] = "written" /\ info' = info /\ source' = source /\ field_min' = field_min
            /\ disturbed' = disturbed
        BY <2>2 DEF ReadPc
      <3>2. Collectable(source[c]) /\ info[c] \in InfosOf(c)
        BY <3>1 DEF OwnInfo
      <3>3. ~disturbed[c] =>
              IF Generates(info[c], PcProgram(info[c], source[c]))
              THEN stage'[c] = "built" /\ graph'[c] = Graph(PcProgram(info[c], source[c]))
              ELSE stage'[c] = "failed"
        BY <2>2, <3>1 DEF ReadPc, ReadsOwnPc, Reaches, TypeInv
      <3> QED
        BY <2>1, <3>1, <3>2, <3>3 DEF OwnResult, InfosOf
    <2>3. CASE ~ReadPc(c)
      <3>1. stage'[c] \notin {"built", "failed"}
        BY <1>1, <2>3 DEF TypeInv, Collect, Modify, OpenPc, WritePc, Again, Reaches
      <3> QED
        BY <2>1, <3>1 DEF OwnResult, InfosOf
    <2> QED
      BY <2>2, <2>3
  <1>2. CASE UNCHANGED vars
    BY <1>2 DEF OwnResult, InfosOf, vars
  <1> QED
    BY <1>1, <1>2 DEF Next

(* An undisturbed compilation hands on the graph of its own program, made  *)
(* with its own flag, or fails because of that program: whatever else runs *)
(* in the directory, and whatever was killed or run there before.          *)
THEOREM OwnGraph == Spec => []OwnResult
  <1>1. Init => OwnResult
    BY DEF Init, OwnResult
  <1>2. TypeInv /\ OwnInfo /\ ReadsOwnPc /\ OwnResult /\ [Next]_vars => OwnResult'
    BY OwnResultStep
  <1> QED
    BY <1>1, <1>2, AlwaysTypeInv, AlwaysOwnInfo, AlwaysReadsOwnPc, PTL DEF Spec

-----------------------------------------------------------------------------
(* Powers of two.                                                          *)

(* Doubling up to w, from which Pow2 is put together.                      *)
Doubles(f, w) ==
  /\ f \in [0 .. w -> Nat]
  /\ f[0] = 1
  /\ \A n \in 0 .. w - 1 : f[n + 1] = 2 * f[n]

LEMMA DoublesExists == \A w \in Nat : \E f : Doubles(f, w)
  <1> DEFINE Good == {w \in Nat : \E f : Doubles(f, w)}
  <1>1. 0 \in Good
    <2>1. Doubles([n \in 0 .. 0 |-> 1], 0)
      BY DEF Doubles
    <2> QED
      BY <2>1
  <1>2. ASSUME NEW w \in Nat, w \in Good PROVE w + 1 \in Good
    <2>1. PICK f : Doubles(f, w)
      BY <1>2
    <2> DEFINE g == [n \in 0 .. w + 1 |-> IF n = w + 1 THEN 2 * f[w] ELSE f[n]]
    <2>2. g \in [0 .. w + 1 -> Nat]
      BY <2>1 DEF Doubles
    <2>3. g[0] = 1
      BY <2>1 DEF Doubles
    <2>4. ASSUME NEW n \in 0 .. w PROVE g[n + 1] = 2 * g[n]
      BY <2>1 DEF Doubles
    <2>5. Doubles(g, w + 1)
      <3> HIDE DEF g
      <3> QED
        BY <2>2, <2>3, <2>4 DEF Doubles
    <2> QED
      BY <2>5
  <1> HIDE DEF Good
  <1>3. Nat \subseteq Good
    BY <1>1, <1>2, Counting
  <1> QED
    BY <1>3 DEF Good

LEMMA DoublesAgree ==
  ASSUME NEW v \in Nat, NEW w \in Nat, v <= w, NEW f, NEW g, Doubles(f, v), Doubles(g, w)
  PROVE  \A n \in 0 .. v : f[n] = g[n]
  <1> DEFINE Good == {n \in Nat : n <= v => f[n] = g[n]}
  <1>1. 0 \in Good
    BY DEF Doubles
  <1>2. ASSUME NEW n \in Nat, n \in Good PROVE n + 1 \in Good
    BY <1>2 DEF Doubles
  <1>3. Nat \subseteq Good
    <2> HIDE DEF Good
    <2> QED
      BY <1>1, <1>2, Counting
  <1> QED
    BY <1>3

LEMMA Pow2Facts ==
  /\ Pow2[0] = 1
  /\ \A n \in Nat : Pow2[n] \in Nat /\ Pow2[n + 1] = 2 * Pow2[n]
  <1> DEFINE upTo(w) == CHOOSE f : Doubles(f, w)
             h == [n \in Nat |-> upTo(n)[n]]
             Solves(p) == p = [n \in Nat |-> IF n = 0 THEN 1 ELSE 2 * p[n - 1]]
  <1>1. \A w \in Nat : Doubles(upTo(w), w)
    BY DoublesExists
  <1>2. h[0] = 1 /\ \A n \in Nat : h[n] \in Nat
    <2> HIDE DEF upTo
    <2> QED
      BY <1>1 DEF Doubles
  <1>3. ASSUME NEW n \in Nat PROVE h[n + 1] = 2 * h[n]
    <2> HIDE DEF upTo
    <2>1. Doubles(upTo(n), n) /\ Doubles(upTo(n + 1), n + 1)
      BY <1>1
    <2>2. upTo(n)[n] = upTo(n + 1)[n]
      BY <2>1, DoublesAgree
    <2>3. upTo(n + 1)[n + 1] = 2 * upTo(n + 1)[n]
      BY <2>1 DEF Doubles
    <2> QED
      BY <2>2, <2>3
  <1>4. Solves(h)
    <2>1. ASSUME NEW n \in Nat PROVE h[n] = IF n = 0 THEN 1 ELSE 2 * h[n - 1]
      <3>1. CASE n = 0
        BY <1>2, <3>1
      <3>2. CASE n # 0
        <4>1. n - 1 \in Nat /\ (n - 1) + 1 = n
          BY <3>2
        <4> HIDE DEF h
        <4> QED
          BY <1>3, <3>2, <4>1
      <3> QED
        BY <3>1, <3>2
    <2>2. h = [n \in Nat |-> h[n]]
      OBVIOUS
    <2> HIDE DEF h
    <2> QED
      BY <2>1, <2>2
  <1>5. Solves(Pow2)
    <2>1. Pow2 = CHOOSE p : Solves(p)
      BY DEF Pow2
    <2> HIDE DEF Solves, h
    <2> QED
      BY <1>4, <2>1
  <1>6. Pow2[0] = 1 /\ \A n \in Nat : Pow2[n + 1] = 2 * Pow2[n]
    <2>1. \A n \in Nat : Pow2[n] = IF n = 0 THEN 1 ELSE 2 * Pow2[n - 1]
      BY <1>5
    <2>2. \A n \in Nat : n + 1 \in Nat /\ n + 1 # 0 /\ (n + 1) - 1 = n
      OBVIOUS
    <2> QED
      BY <2>1, <2>2
  <1>7. \A n \in Nat : Pow2[n] \in Nat
    <2> DEFINE Good == {n \in Nat : Pow2[n] \in Nat}
    <2>1. 0 \in Good
      BY <1>6
    <2>2. ASSUME NEW n \in Nat, n \in Good PROVE n + 1 \in Good
      BY <1>6, <2>2
    <2> HIDE DEF Good
    <2>3. Nat \subseteq Good
      BY <2>1, <2>2, Counting
    <2> QED
      BY <2>3 DEF Good
  <1> QED
    BY <1>6, <1>7

-----------------------------------------------------------------------------
(* FieldMinimiser: the narrowed field has twice as many values as there    *)
(* are constants, and two more.                                            *)
LEMMA ReducedSizeSuffices ==
  ASSUME NEW k \in Nat
  PROVE  ReducedSize(k) \in Nat /\ Pow2[ReducedSize(k)] >= 2 * (k + 1)
  <1> DEFINE Enough == {n \in 0 .. k + 1 : Pow2[n] >= k + 1}
             Good == {n \in Nat : Pow2[n] >= n + 1}
  <1>1. Nat \subseteq Good
    <2>1. 0 \in Good
      BY Pow2Facts
    <2>2. ASSUME NEW n \in Nat, n \in Good PROVE n + 1 \in Good
      <3>1. Pow2[n] \in Nat /\ Pow2[n + 1] = 2 * Pow2[n] /\ Pow2[n] >= n + 1
        BY <2>2, Pow2Facts
      <3> QED
        BY <3>1
    <2> HIDE DEF Good
    <2> QED
      BY <2>1, <2>2, Counting
  <1>2. k + 1 \in Enough
    <2>1. k + 1 \in Nat /\ k + 1 \in Good
      BY <1>1
    <2>2. Pow2[k + 1] \in Nat
      BY <2>1, Pow2Facts
    <2> QED
      BY <2>1, <2>2
  <1>3. PICK m \in Enough : \A j \in Enough : m <= j
    <2>1. Enough \subseteq Nat
      OBVIOUS
    <2> HIDE DEF Enough
    <2> QED
      BY <1>2, <2>1, HasLeast
  <1>4. Min(Enough) \in Enough
    <2> HIDE DEF Enough
    <2> QED
      BY <1>3 DEF Min
  <1> DEFINE l == Min(Enough)
  <1>5. l \in Nat /\ Pow2[l] >= k + 1
    <2> HIDE DEF l
    <2> QED
      BY <1>4 DEF l
  <1>6. ReducedSize(k) = l + 1
    BY DEF ReducedSize
  <1> HIDE DEF l
  <1>7. Pow2[l] \in Nat /\ Pow2[l + 1] = 2 * Pow2[l]
    BY <1>5, Pow2Facts
  <1> QED
    BY <1>5, <1>6, <1>7

(* What best_modifier makes of an exactly compared attribute. *)
LEMMA MinimisedField ==
  ASSUME NEW i, IsInfo(i), NEW j \in Minimised(i), NEW a \in DOMAIN j.kind, j.kind[a] = "Exact"
  PROVE  /\ a \in DOMAIN i.kind
         /\ j.new_constant[a] \in Renumberings(DOMAIN i.new_constant[a])
         /\ j.new_size[a] = ReducedSize(Cardinality(DOMAIN i.new_constant[a]))
  <1>1. PICK r \in [DOMAIN i.kind -> UNION {NewConstants(i, b) : b \in DOMAIN i.kind}] :
          /\ \A b \in DOMAIN i.kind : r[b] \in NewConstants(i, b)
          /\ j = [i EXCEPT !.new_size     = [b \in DOMAIN i.kind |-> NewSize(i, b)],
                           !.new_constant = r,
                           !.contents     = [m \in DOMAIN i.fields |-> NewContents(i, m)]]
    BY DEF Minimised
  <1>2. /\ j.kind = i.kind /\ j.new_constant = r
        /\ j.new_size = [b \in DOMAIN i.kind |-> NewSize(i, b)]
    BY <1>1 DEF IsInfo
  <1>3. a \in DOMAIN i.kind /\ i.kind[a] = "Exact"
    BY <1>2
  <1>4. r[a] \in Renumberings(DOMAIN i.new_constant[a])
    BY <1>1, <1>3 DEF NewConstants
  <1>5. NewSize(i, a) = ReducedSize(Cardinality(DOMAIN i.new_constant[a]))
    BY <1>3 DEF NewSize
  <1> QED
    BY <1>2, <1>3, <1>4, <1>5

Apart(new, size) ==
  /\ \A v, w \in DOMAIN new : new[v] = new[w] => v = w
  /\ \A v \in DOMAIN new : new[v] \in 0 .. Pow2[size] - 1
  /\ Pow2[size] - Cardinality(DOMAIN new) > Cardinality(DOMAIN new)

LEMMA RenumberingApart ==
  ASSUME NEW constants, IsFiniteSet(constants), NEW new \in Renumberings(constants)
  PROVE  Apart(new, ReducedSize(Cardinality(constants)))
  <1> DEFINE k == Cardinality(constants)
             size == ReducedSize(k)
  <1>1. k \in Nat
    BY FS_CardinalityType
  <1>2. new \in [constants -> 0 .. k - 1] /\ \A v, w \in constants : new[v] = new[w] => v = w
    BY DEF Renumberings
  <1> HIDE DEF k
  <1>3. size \in Nat /\ Pow2[size] >= 2 * (k + 1)
    BY <1>1, ReducedSizeSuffices
  <1> HIDE DEF size
  <1>4. Pow2[size] \in Nat
    BY <1>3, Pow2Facts
  <1>5. DOMAIN new = constants /\ Cardinality(DOMAIN new) = k
    BY <1>2 DEF k
  <1>6. \A v \in constants : new[v] \in 0 .. Pow2[size] - 1
    BY <1>1, <1>2, <1>3, <1>4
  <1>7. Pow2[size] - k > k
    BY <1>1, <1>3, <1>4
  <1> QED
    BY <1>2, <1>5, <1>6, <1>7 DEF Apart, size, k

LEMMA AlwaysOwnSource == Spec => [](\A c \in Compilations : source[c] \in Sources[c])
  <1>1. Init => \A c \in Compilations : source[c] \in Sources[c]
    BY DEF Init
  <1>2. (\A c \in Compilations : source[c] \in Sources[c]) /\ [Next]_vars
          => (\A c \in Compilations : source[c] \in Sources[c])'
    <2>1. [Next]_vars => source' = source
      BY DEF Next, vars, Collect, Modify, OpenPc, WritePc, ReadPc, Again
    <2> QED
      BY <2>1
  <1> QED
    BY <1>1, <1>2, PTL DEF Spec

(* However many constants a field is compared with, and in whatever order  *)
(* they are numbered: the narrowed field keeps them apart, holds them, and *)
(* has more values that stand for none of them.                            *)
THEOREM ConstantsApart == Spec => []ConstantsStayApart
  <1>1. TypeInv /\ OwnInfo /\ (\A c \in Compilations : source[c] \in Sources[c])
          => ConstantsStayApart
    <2> SUFFICES ASSUME OwnInfo, \A c \in Compilations : source[c] \in Sources[c],
                        NEW c \in Compilations, stage[c] = "modified", field_min[c],
                        NEW a \in DOMAIN info[c].kind, info[c].kind[a] = "Exact"
                 PROVE  Apart(info[c].new_constant[a], info[c].new_size[a])
      BY DEF ConstantsStayApart, Apart
    <2> DEFINE i == CollectInfo(source[c])
    <2>1. IsInfo(i)
      <3>1. source[c] \in ParserPrograms
        BY ProgramAssumption
      <3>2. Collectable(source[c])
        BY DEF OwnInfo
      <3> QED
        BY <3>1, <3>2, CollectedInfo
    <2>2. info[c] \in Minimised(i)
      BY DEF OwnInfo, InfosOf
    <2> HIDE DEF i
    <2>3. /\ a \in DOMAIN i.kind
          /\ info[c].new_constant[a] \in Renumberings(DOMAIN i.new_constant[a])
          /\ info[c].new_size[a] = ReducedSize(Cardinality(DOMAIN i.new_constant[a]))
      BY <2>1, <2>2, MinimisedField
    <2>4. IsFiniteSet(DOMAIN i.new_constant[a])
      BY <2>1, <2>3 DEF IsInfo
    <2> QED
      BY <2>3, <2>4, RenumberingApart
  <1> QED
    BY <1>1, AlwaysTypeInv, AlwaysOwnInfo, AlwaysOwnSource, PTL

-----------------------------------------------------------------------------
(* The recursive functions on syntax trees exist, as Parts does.           *)
FallsThroughStep(f, s) ==
  /\ s.op # "return"
  /\ s.op = "if" => f[s.then] \/ f[s.else]
  /\ s.op = "block" => \A x \in Children(s) : f[x]

(* Each looks at the parts of a statement only. *)
LEMMA FallsThroughLocal ==
  ASSUME NEW f, NEW g, NEW s, \A x \in Children(s) : f[x] = g[x]
  PROVE  FallsThroughStep(f, s) = FallsThroughStep(g, s)
  <1>1. CASE s.op = "if"
    BY <1>1 DEF FallsThroughStep, Children
  <1>2. CASE s.op = "block"
    BY <1>2 DEF FallsThroughStep
  <1>3. CASE s.op # "if" /\ s.op # "block"
    BY <1>3 DEF FallsThroughStep
  <1> QED
    BY <1>1, <1>2, <1>3

(* So FallsThrough is what its recursive definition says. *)
LEMMA FallsThroughSolves ==
  \A s \in Statement : FallsThrough[s] = FallsThroughStep(FallsThrough, s)
  <1> DEFINE Solves(f, d) == f = [s \in Trees[d] |-> FallsThroughStep(f, s)]
             Good == {d \in Nat : d \in 0 .. MaxDepth => \E f : Solves(f, d)}
  <1>1. 0 \in Good
    <2> DEFINE f == [s \in Trees[0] |-> FallsThroughStep(<<>>, s)]
    <2>1. \A s \in Trees[0] : FallsThroughStep(f, s) = FallsThroughStep(<<>>, s)
      BY TreesFacts, LeafChildren, FallsThroughLocal
    <2>2. Solves(f, 0)
      BY <2>1
    <2> HIDE DEF Solves, f
    <2> QED
      BY <2>2
  <1>2. ASSUME NEW d \in Nat, d \in Good PROVE d + 1 \in Good
    <2> SUFFICES ASSUME d + 1 \in 0 .. MaxDepth PROVE \E f : Solves(f, d + 1)
      OBVIOUS
    <2>1. d \in 0 .. MaxDepth - 1 /\ d \in 0 .. MaxDepth
      BY DepthAssumption
    <2>2. PICK f : Solves(f, d)
      BY <1>2, <2>1
    <2> DEFINE h == [s \in Trees[d + 1] |-> FallsThroughStep(f, s)]
    <2>3. \A x \in Trees[d] : h[x] = f[x]
      <3>1. \A x \in Trees[d] : f[x] = FallsThroughStep(f, x)
        BY <2>2
      <3> QED
        BY <2>1, <3>1, TreesGrow
    <2>4. \A s \in Trees[d + 1] : FallsThroughStep(h, s) = FallsThroughStep(f, s)
      <3> HIDE DEF h
      <3>1. \A s \in Trees[d + 1] : Children(s) \subseteq Trees[d]
        BY <2>1, TreesFacts, ChildrenShape
      <3> QED
        BY <2>3, <3>1, FallsThroughLocal
    <2>5. Solves(h, d + 1)
      BY <2>4
    <2> HIDE DEF Solves, h
    <2> QED
      BY <2>5
  <1>3. \E f : Solves(f, MaxDepth)
    <2> HIDE DEF Good
    <2>1. MaxDepth \in Good
      BY <1>1, <1>2, Counting, DepthAssumption
    <2> QED
      BY <2>1, DepthAssumption DEF Good
  <1>4. Solves(FallsThrough, MaxDepth)
    BY <1>3 DEF FallsThrough, FallsThroughStep, Statement
  <1> QED
    BY <1>4 DEF Statement

(* Build, from the results of the parts. *)
BuildStep(f, s) ==
  CASE s.op = "extract_field" -> Created(ExtractNode(s.attr), {"next"})
    [] s.op = "return"        -> Created(ExitNode(s.verdict), {})
    [] s.op = "if"            -> Joined(s.test, f[s.then], f[s.else])
    [] s.op = "block"         -> AllChained([i \in DOMAIN s.body |-> f[s.body[i]]])
    [] OTHER                  -> Nothing

(* The values of the parts of a block. *)
LEMMA SamePartValues ==
  ASSUME NEW f, NEW g, NEW s, s.op = "block", \A x \in Children(s) : f[x] = g[x]
  PROVE  [i \in DOMAIN s.body |-> f[s.body[i]]] = [i \in DOMAIN s.body |-> g[s.body[i]]]
  BY DEF Children, ToSet

(* It looks at the parts of a statement only. *)
LEMMA BuildLocal ==
  ASSUME NEW f, NEW g, NEW s, \A x \in Children(s) : f[x] = g[x]
  PROVE  BuildStep(f, s) = BuildStep(g, s)
  <1>1. CASE s.op = "if"
    BY <1>1 DEF BuildStep, Children
  <1>2. CASE s.op = "block"
    BY <1>2, SamePartValues DEF BuildStep
  <1>3. CASE s.op # "if" /\ s.op # "block"
    BY <1>3 DEF BuildStep
  <1> QED
    BY <1>1, <1>2, <1>3

(* So Build is what its recursive definition says. *)
LEMMA BuildSolves ==
  \A s \in Statement : Build[s] = BuildStep(Build, s)
  <1> DEFINE Solves(f, d) == f = [s \in Trees[d] |-> BuildStep(f, s)]
             Good == {d \in Nat : d \in 0 .. MaxDepth => \E f : Solves(f, d)}
  <1>1. 0 \in Good
    <2> DEFINE f == [s \in Trees[0] |-> BuildStep(<<>>, s)]
    <2>1. \A s \in Trees[0] : BuildStep(f, s) = BuildStep(<<>>, s)
      BY TreesFacts, LeafChildren, BuildLocal
    <2>2. Solves(f, 0)
      BY <2>1
    <2> HIDE DEF Solves, f
    <2> QED
      BY <2>2
  <1>2. ASSUME NEW d \in Nat, d \in Good PROVE d + 1 \in Good
    <2> SUFFICES ASSUME d + 1 \in 0 .. MaxDepth PROVE \E f : Solves(f, d + 1)
      OBVIOUS
    <2>1. d \in 0 .. MaxDepth - 1 /\ d \in 0 .. MaxDepth
      BY DepthAssumption
    <2>2. PICK f : Solves(f, d)
      BY <1>2, <2>1
    <2> DEFINE h == [s \in Trees[d + 1] |-> BuildStep(f, s)]
    <2>3. \A x \in Trees[d] : h[x] = f[x]
      <3>1. \A x \in Trees[d] : f[x] = BuildStep(f, x)
        BY <2>2
      <3> QED
        BY <2>1, <3>1, TreesGrow
    <2>4. \A s \in Trees[d + 1] : BuildStep(h, s) = BuildStep(f, s)
      <3> HIDE DEF h
      <3>1. \A s \in Trees[d + 1] : Children(s) \subseteq Trees[d]
        BY <2>1, TreesFacts, ChildrenShape
      <3> QED
        BY <2>3, <3>1, BuildLocal
    <2>5. Solves(h, d + 1)
      BY <2>4
    <2> HIDE DEF Solves, h
    <2> QED
      BY <2>5
  <1>3. \E f : Solves(f, MaxDepth)
    <2> HIDE DEF Good
    <2>1. MaxDepth \in Good
      BY <1>1, <1>2, Counting, DepthAssumption
    <2> QED
      BY <2>1, DepthAssumption DEF Good
  <1>4. Solves(Build, MaxDepth)
    BY <1>3 DEF Build, BuildStep, Statement
  <1> QED
    BY <1>4 DEF Statement

(* What IRGen emits, from what it emits for the parts. *)
EmittedStep(f, s, i) ==
  CASE s.op = "extract" -> Extractions(i, s.member)
    [] s.op = "block"   -> <<Block(FlattenSeq([k \in DOMAIN s.body |-> f[s.body[k]]]))>>
    [] s.op = "if"      -> Branching(NewTest(i, s.test), f[s.then], f[s.else])
    [] OTHER            -> <<s>>

(* It looks at the parts of a statement only. *)
LEMMA EmittedLocal ==
  ASSUME NEW f, NEW g, NEW s, NEW i, \A x \in Children(s) : f[x] = g[x]
  PROVE  EmittedStep(f, s, i) = EmittedStep(g, s, i)
  <1>1. CASE s.op = "if"
    BY <1>1 DEF EmittedStep, Children
  <1>2. CASE s.op = "block"
    BY <1>2, SamePartValues DEF EmittedStep
  <1>3. CASE s.op # "if" /\ s.op # "block"
    BY <1>3 DEF EmittedStep
  <1> QED
    BY <1>1, <1>2, <1>3

(* So Emitted is what the recursive definition in IRGen says. *)
LEMMA EmittedSolves ==
  ASSUME NEW i
  PROVE  \A s \in Statement : Emitted(i, s) = EmittedStep(IRGen(i), s, i)
  <1> DEFINE Solves(f, d) == f = [s \in Trees[d] |-> EmittedStep(f, s, i)]
             Good == {d \in Nat : d \in 0 .. MaxDepth => \E f : Solves(f, d)}
  <1>1. 0 \in Good
    <2> DEFINE f == [s \in Trees[0] |-> EmittedStep(<<>>, s, i)]
    <2>1. \A s \in Trees[0] : EmittedStep(f, s, i) = EmittedStep(<<>>, s, i)
      BY TreesFacts, LeafChildren, EmittedLocal
    <2>2. Solves(f, 0)
      BY <2>1
    <2> HIDE DEF Solves, f
    <2> QED
      BY <2>2
  <1>2. ASSUME NEW d \in Nat, d \in Good PROVE d + 1 \in Good
    <2> SUFFICES ASSUME d + 1 \in 0 .. MaxDepth PROVE \E f : Solves(f, d + 1)
      OBVIOUS
    <2>1. d \in 0 .. MaxDepth - 1 /\ d \in 0 .. MaxDepth
      BY DepthAssumption
    <2>2. PICK f : Solves(f, d)
      BY <1>2, <2>1
    <2> DEFINE h == [s \in Trees[d + 1] |-> EmittedStep(f, s, i)]
    <2>3. \A x \in Trees[d] : h[x] = f[x]
      <3>1. \A x \in Trees[d] : f[x] = EmittedStep(f, x, i)
        BY <2>2
      <3> QED
        BY <2>1, <3>1, TreesGrow
    <2>4. \A s \in Trees[d + 1] : EmittedStep(h, s, i) = EmittedStep(f, s, i)
      <3> HIDE DEF h
      <3>1. \A s \in Trees[d + 1] : Children(s) \subseteq Trees[d]
        BY <2>1, TreesFacts, ChildrenShape
      <3> QED
        BY <2>3, <3>1, EmittedLocal
    <2>5. Solves(h, d + 1)
      BY <2>4
    <2> HIDE DEF Solves, h
    <2> QED
      BY <2>5
  <1>3. \E f : Solves(f, MaxDepth)
    <2> HIDE DEF Good
    <2>1. MaxDepth \in Good
      BY <1>1, <1>2, Counting, DepthAssumption
    <2> QED
      BY <2>1, DepthAssumption DEF Good
  <1>4. Solves(IRGen(i), MaxDepth)
    BY <1>3 DEF IRGen, EmittedStep, Statement
  <1>5. \A s \in Statement : Emitted(i, s) = IRGen(i)[s]
    BY DEF Emitted
  <1> QED
    BY <1>4, <1>5 DEF Statement

(* What a statement does, from what its parts do. *)
DoesStep(f, s, val) ==
  CASE s.op = "extract"       -> Reads(s.member)
    [] s.op = "extract_field" -> Reads(s.attr)
    [] s.op = "return"        -> Returns(s.verdict)
    [] s.op = "if"            -> f[IF Holds(s.test, val[s.test.attr]) THEN s.then ELSE s.else]
    [] s.op = "block"         -> AllInOrder([k \in DOMAIN s.body |-> f[s.body[k]]])
    [] OTHER                  -> DoesNothing

(* It looks at the parts of a statement only. *)
LEMMA DoesLocal ==
  ASSUME NEW f, NEW g, NEW s, NEW val, \A x \in Children(s) : f[x] = g[x]
  PROVE  DoesStep(f, s, val) = DoesStep(g, s, val)
  <1>1. CASE s.op = "if"
    BY <1>1 DEF DoesStep, Children
  <1>2. CASE s.op = "block"
    BY <1>2, SamePartValues DEF DoesStep
  <1>3. CASE s.op # "if" /\ s.op # "block"
    BY <1>3 DEF DoesStep
  <1> QED
    BY <1>1, <1>2, <1>3

(* So Does is what the recursive definition in Meaning says. *)
LEMMA DoesSolves ==
  ASSUME NEW val
  PROVE  \A s \in Statement : Does(s, val) = DoesStep(Meaning(val), s, val)
  <1> DEFINE Solves(f, d) == f = [s \in Trees[d] |-> DoesStep(f, s, val)]
             Good == {d \in Nat : d \in 0 .. MaxDepth => \E f : Solves(f, d)}
  <1>1. 0 \in Good
    <2> DEFINE f == [s \in Trees[0] |-> DoesStep(<<>>, s, val)]
    <2>1. \A s \in Trees[0] : DoesStep(f, s, val) = DoesStep(<<>>, s, val)
      BY TreesFacts, LeafChildren, DoesLocal
    <2>2. Solves(f, 0)
      BY <2>1
    <2> HIDE DEF Solves, f
    <2> QED
      BY <2>2
  <1>2. ASSUME NEW d \in Nat, d \in Good PROVE d + 1 \in Good
    <2> SUFFICES ASSUME d + 1 \in 0 .. MaxDepth PROVE \E f : Solves(f, d + 1)
      OBVIOUS
    <2>1. d \in 0 .. MaxDepth - 1 /\ d \in 0 .. MaxDepth
      BY DepthAssumption
    <2>2. PICK f : Solves(f, d)
      BY <1>2, <2>1
    <2> DEFINE h == [s \in Trees[d + 1] |-> DoesStep(f, s, val)]
    <2>3. \A x \in Trees[d] : h[x] = f[x]
      <3>1. \A x \in Trees[d] : f[x] = DoesStep(f, x, val)
        BY <2>2
      <3> QED
        BY <2>1, <3>1, TreesGrow
    <2>4. \A s \in Trees[d + 1] : DoesStep(h, s, val) = DoesStep(f, s, val)
      <3> HIDE DEF h
      <3>1. \A s \in Trees[d + 1] : Children(s) \subseteq Trees[d]
        BY <2>1, TreesFacts, ChildrenShape
      <3> QED
        BY <2>3, <3>1, DoesLocal
    <2>5. Solves(h, d + 1)
      BY <2>4
    <2> HIDE DEF Solves, h
    <2> QED
      BY <2>5
  <1>3. \E f : Solves(f, MaxDepth)
    <2> HIDE DEF Good
    <2>1. MaxDepth \in Good
      BY <1>1, <1>2, Counting, DepthAssumption
    <2> QED
      BY <2>1, DepthAssumption DEF Good
  <1>4. Solves(Meaning(val), MaxDepth)
    BY <1>3 DEF Meaning, DoesStep, Statement
  <1>5. \A s \in Statement : Does(s, val) = Meaning(val)[s]
    BY DEF Does
  <1> QED
    BY <1>4, <1>5 DEF Statement

(* What holds of the Info of a program, minimised or not.                  *)
Numbered(i, prog) ==
  \A a \in Attributes(prog) :
    LET new == i.new_constant[a]
    IN  /\ DOMAIN new = ExactConstants(prog, a)
        /\ \A c \in DOMAIN new : new[c] \in Int
        /\ \A c, d \in DOMAIN new : new[c] = new[d] => c = d
        /\ Kind(prog, a) = "Ternary" => \A c \in DOMAIN new : new[c] = c
        /\ i.new_size[a] \in Int

(* The widths that fields are given are integers. *)
LEMMA Widths ==
  ASSUME NEW prog \in ParserPrograms, WellDeclared(prog), NEW a \in Attributes(prog)
  PROVE  Width(prog, a) \in Int
  <1>0. PICK m \in Names(Members(prog)) : \E x \in ToSet(FieldNames(prog, m)) : a = <<m, x>>
    BY AttributesFacts
  <1>1. PICK f \in ToSet(FieldNames(prog, m)) : a = <<m, f>>
    BY <1>0
  <1>2. FieldsOf(prog, m) \in Seq(Field) /\ f \in Names(FieldsOf(prog, m))
    BY <1>1, Declarations, FieldNamesFacts
  <1>3. PICK decls : decls = FieldsOf(prog, m)
    OBVIOUS
  <1>4. PICK k \in DOMAIN decls : f = decls[k].name
    BY <1>2, <1>3 DEF Names
  <1>5. decls[k] \in ToSet(decls) /\ ToSet(decls) \subseteq Field
    BY <1>2, <1>3, <1>4, Elements
  <1>6. PICK d : d = CHOOSE x \in ToSet(decls) : x.name = f
    OBVIOUS
  <1>7. d \in ToSet(decls)
    BY <1>4, <1>5, <1>6
  <1>8. Width(prog, a) = d.bits
    BY <1>1, <1>3, <1>6 DEF Width
  <1> QED
    BY <1>5, <1>7, <1>8 DEF Field

(* What collect_info returns is numbered well. *)
LEMMA CollectedNumbers ==
  ASSUME NEW prog \in ParserPrograms, Collectable(prog)
  PROVE  Numbered(CollectInfo(prog), prog)
  <1>1. \A t \in Tests(Body(prog)) : t.value \in Int
    BY CollectedTests DEF Condition
  <1>2. \A a \in Attributes(prog) : ExactConstants(prog, a) \subseteq Int
    BY <1>1 DEF ExactConstants
  <1>3. CollectInfo(prog).new_constant = [a \in Attributes(prog) |-> [c \in ExactConstants(prog, a) |-> c]]
    BY DEF CollectInfo
  <1>4. \A a \in Attributes(prog) : CollectInfo(prog).new_size[a] \in Int
    BY Widths DEF CollectInfo, Collectable
  <1> QED
    BY <1>2, <1>3, <1>4 DEF Numbered

(* The attributes of a member, in the order of its fields. *)
LEMMA AttrsOfFacts ==
  ASSUME NEW m \in STRING, NEW fields \in Seq(STRING)
  PROVE  /\ AttrsOf(m, fields) \in Seq(Attribute)
         /\ ToSet(AttrsOf(m, fields)) = {<<m, f>> : f \in ToSet(fields)}
  <1>1. DOMAIN fields = 1 .. Len(fields) /\ Len(fields) \in Nat /\ \A k \in 1 .. Len(fields) : fields[k] \in STRING
    BY Elements
  <1>2. PICK a : a = AttrsOf(m, fields)
    OBVIOUS
  <1>3. a = [k \in 1 .. Len(fields) |-> <<m, fields[k]>>]
    BY <1>1, <1>2 DEF AttrsOf
  <1>4. \A k \in 1 .. Len(fields) : a[k] \in Attribute
    BY <1>1, <1>3 DEF Attribute
  <1>5. a \in Seq(Attribute)
    BY <1>1, <1>3, <1>4, MapIsSeq
  <1>6. ToSet(a) = {<<m, f>> : f \in ToSet(fields)}
    BY <1>1, <1>3 DEF ToSet
  <1> QED
    BY <1>2, <1>5, <1>6

(* What drop_unused_members leaves of a member. *)
LEMMA NewContentsFacts ==
  ASSUME NEW prog \in ParserPrograms, Collectable(prog), NEW i, Describes(i, prog),
         i.contents = i.fields, i.fields = [m \in Names(Members(prog)) |-> FieldNames(prog, m)],
         NEW m \in Names(Members(prog))
  PROVE  /\ NewContents(i, m) \in Seq(STRING) /\ NewContents(i, m) # <<>>
         /\ \A f \in ToSet(NewContents(i, m)) : <<m, f>> \in Attributes(prog)
         /\ \A t \in Tests(Body(prog)) : t.attr[1] = m => t.attr[2] \in ToSet(NewContents(i, m))
  <1>1. WellDeclared(prog)
    BY DEF Collectable
  <1>2. m \in STRING /\ FieldNames(prog, m) \in Seq(STRING) /\ FieldNames(prog, m) # <<>>
    BY <1>1, Declarations, FieldNamesFacts
  <1>3. PICK names : names = FieldNames(prog, m)
    OBVIOUS
  <1>4. i.fields[m] = names /\ i.contents[m] = names
    BY <1>3
  <1>5. PICK attrs : attrs = AttrsOf(m, names)
    OBVIOUS
  <1>6. attrs \in Seq(Attribute) /\ ToSet(attrs) = {<<m, f>> : f \in ToSet(names)}
    BY <1>2, <1>3, <1>5, AttrsOfFacts
  <1>7. PICK compared : compared = ComparedAmong(i, attrs)
    OBVIOUS
  <1>8. compared \in Seq(Attribute) /\ ToSet(compared) = {a \in ToSet(attrs) : IsCompared(i, a)}
    BY <1>6, <1>7, Selected
  <1>9. NewContents(i, m) = IF compared # <<>> THEN [k \in DOMAIN compared |-> compared[k][2]] ELSE <<names[1]>>
    BY <1>4, <1>5, <1>7 DEF NewContents
  <1>10. \A f \in ToSet(names) : <<m, f>> \in Attributes(prog)
    BY <1>3, AttributesFacts
  <1>11. ASSUME NEW t \in Tests(Body(prog)), t.attr[1] = m
         PROVE  t.attr \in ToSet(compared)
    <2>1. t.attr = <<m, t.attr[2]>> /\ t.attr[2] \in ToSet(names) /\ t.attr \in Attributes(prog)
          /\ Kind(prog, t.attr) # "NotCompared"
      BY <1>3, <1>11, CollectedTests
    <2>2. IsCompared(i, t.attr)
      BY <2>1 DEF IsCompared, Describes
    <2> QED
      BY <1>6, <1>8, <2>1, <2>2
  <1>12. CASE compared # <<>>
    <2>1. PICK new : new = NewContents(i, m)
      OBVIOUS
    <2>2. /\ DOMAIN compared = 1 .. Len(compared) /\ Len(compared) \in Nat
          /\ \A k \in 1 .. Len(compared) : compared[k] \in ToSet(compared)
          /\ \A a \in ToSet(compared) : \E k \in 1 .. Len(compared) : a = compared[k]
      BY <1>8, Elements
    <2>3. new = [k \in 1 .. Len(compared) |-> compared[k][2]]
      BY <1>9, <1>12, <2>1, <2>2
    <2>4. \A k \in 1 .. Len(compared) :
            \E f \in ToSet(names) : compared[k] = <<m, f>> /\ new[k] = f
      BY <1>6, <1>8, <2>2, <2>3
    <2>5. ToSet(names) \subseteq STRING
      BY <1>2, <1>3, Elements
    <2>6. new \in Seq(STRING) /\ Len(new) = Len(compared)
      BY <2>2, <2>3, <2>4, <2>5, MapIsSeq
    <2>7. Len(compared) # 0
      BY <1>8, <1>12
    <2>8. new # <<>>
      BY <2>6, <2>7
    <2>9. \A f \in ToSet(new) : f \in ToSet(names)
      BY <2>4, <2>6, Elements
    <2>10. ASSUME NEW t \in Tests(Body(prog)), t.attr[1] = m
           PROVE  t.attr[2] \in ToSet(new)
      <3>1. PICK k \in 1 .. Len(compared) : t.attr = compared[k]
        BY <1>11, <2>2, <2>10
      <3>2. new[k] = t.attr[2]
        BY <2>3, <3>1
      <3> QED
        BY <2>6, <3>1, <3>2, Elements
    <2> QED
      BY <1>10, <2>1, <2>6, <2>8, <2>9, <2>10
  <1>13. CASE compared = <<>>
    <2>1. names \in Seq(STRING) /\ names # <<>>
      BY <1>2, <1>3
    <2>2. Len(names) \in Nat /\ Len(names) # 0
      BY <2>1
    <2>3. names[1] \in ToSet(names) /\ names[1] \in STRING
      BY <2>1, <2>2, Elements
    <2>4. NewContents(i, m) = <<names[1]>>
      BY <1>9, <1>13
    <2>5. ToSet(NewContents(i, m)) = {names[1]}
      BY <2>4 DEF ToSet
    <2>6. ToSet(compared) = {}
      BY <1>13 DEF ToSet
    <2> QED
      BY <1>10, <1>11, <2>3, <2>4, <2>5, <2>6
  <1> QED
    BY <1>12, <1>13

(* best_modifier describes and numbers the program it is given. *)
LEMMA MinimisedInfo ==
  ASSUME NEW prog \in ParserPrograms, Collectable(prog), NEW j \in Minimised(CollectInfo(prog))
  PROVE  Describes(j, prog) /\ Numbered(j, prog)
  <1>1. PICK i : i = CollectInfo(prog)
    OBVIOUS
  <1>2. Describes(i, prog) /\ IsInfo(i) /\ Numbered(i, prog)
    BY <1>1, CollectedInfo, CollectedNumbers
  <1>3. i.contents = i.fields /\ i.fields = [m \in Names(Members(prog)) |-> FieldNames(prog, m)]
    BY <1>1 DEF CollectInfo
  <1>4. PICK r \in [DOMAIN i.kind -> UNION {NewConstants(i, b) : b \in DOMAIN i.kind}] :
          /\ \A b \in DOMAIN i.kind : r[b] \in NewConstants(i, b)
          /\ j = [i EXCEPT !.new_size     = [b \in DOMAIN i.kind |-> NewSize(i, b)],
                           !.new_constant = r,
                           !.contents     = [m \in DOMAIN i.fields |-> NewContents(i, m)]]
    <2>1. j \in Minimised(i)
      BY <1>1
    <2> QED
      BY <2>1 DEF Minimised
  <1>5. /\ j.kind = i.kind /\ j.members = i.members /\ j.new_constant = r
        /\ DOMAIN j.new_size = DOMAIN i.kind
        /\ j.contents = [m \in DOMAIN i.fields |-> NewContents(i, m)]
    BY <1>2, <1>4 DEF IsInfo
  <1>6. \A m \in Names(Members(prog)) : j.contents[m] = NewContents(i, m)
    BY <1>3, <1>5
  <1>7. \A m \in Names(Members(prog)) :
          /\ j.contents[m] \in Seq(STRING) /\ j.contents[m] # <<>>
          /\ \A f \in ToSet(j.contents[m]) : <<m, f>> \in Attributes(prog)
    BY <1>2, <1>3, <1>6, NewContentsFacts
  <1>8. \A t \in Tests(Body(prog)) : t.attr[2] \in ToSet(j.contents[t.attr[1]])
    <2> SUFFICES ASSUME NEW t \in Tests(Body(prog)) PROVE t.attr[2] \in ToSet(j.contents[t.attr[1]])
      OBVIOUS
    <2>1. t.attr[1] \in Names(Members(prog))
      BY CollectedTests
    <2> QED
      BY <1>2, <1>3, <1>6, <2>1, NewContentsFacts
  <1>9. Describes(j, prog)
    BY <1>2, <1>5, <1>7, <1>8 DEF Describes
  <1>10. ASSUME NEW a \in Attributes(prog)
         PROVE  /\ DOMAIN r[a] = ExactConstants(prog, a)
                /\ \A c \in DOMAIN r[a] : r[a][c] \in Int
                /\ \A c, d \in DOMAIN r[a] : r[a][c] = r[a][d] => c = d
                /\ Kind(prog, a) = "Ternary" => \A c \in DOMAIN r[a] : r[a][c] = c
    <2>1. /\ a \in DOMAIN i.kind /\ i.kind[a] = Kind(prog, a)
          /\ DOMAIN i.new_constant[a] = ExactConstants(prog, a)
      BY <1>2 DEF Describes, Numbered
    <2>2. CASE i.kind[a] = "Exact"
      <3>1. r[a] \in Renumberings(ExactConstants(prog, a))
        BY <1>4, <2>1, <2>2 DEF NewConstants
      <3>2. IsFiniteSet(ExactConstants(prog, a))
        BY <1>2, <2>1 DEF IsInfo
      <3>3. Cardinality(ExactConstants(prog, a)) \in Nat
        BY <3>2, FS_CardinalityType
      <3> QED
        BY <2>1, <2>2, <3>1, <3>3 DEF Renumberings
    <2>3. CASE i.kind[a] # "Exact"
      <3>1. r[a] = i.new_constant[a]
        BY <1>4, <2>1, <2>3 DEF NewConstants
      <3> QED
        BY <1>2, <3>1 DEF Numbered
    <2> QED
      BY <2>2, <2>3
  <1>11. ASSUME NEW a \in Attributes(prog)
         PROVE  j.new_size[a] \in Int
    <2>1. a \in DOMAIN i.kind /\ i.kind[a] = Kind(prog, a) /\ DOMAIN i.new_constant = DOMAIN i.kind
      BY <1>2 DEF Describes, IsInfo
    <2>2. j.new_size[a] = NewSize(i, a)
      BY <1>2, <1>4, <2>1 DEF IsInfo
    <2>3. CASE i.kind[a] = "Exact"
      <3>1. Cardinality(DOMAIN i.new_constant[a]) \in Nat
        BY <1>2, <2>1, FS_CardinalityType DEF IsInfo
      <3> QED
        BY <2>2, <2>3, <3>1, ReducedSizeSuffices DEF NewSize
    <2>4. CASE i.kind[a] = "NotCompared"
      BY <2>2, <2>4 DEF NewSize
    <2>5. CASE i.kind[a] = "Ternary"
      <3>1. i.old_size[a] = Width(prog, a)
        BY <1>1 DEF CollectInfo
      <3>2. Width(prog, a) \in Int
        BY Widths DEF Collectable
      <3> QED
        BY <2>2, <2>5, <3>1, <3>2 DEF NewSize
    <2> QED
      BY <2>1, <2>3, <2>4, <2>5 DEF Kind
  <1>12. Numbered(j, prog)
    BY <1>5, <1>10, <1>11 DEF Numbered
  <1> QED
    BY <1>9, <1>12
(* So does every Info that a compilation may hold. *)
LEMMA OwnInfos ==
  ASSUME NEW prog \in ParserPrograms, Collectable(prog),
         NEW i \in Minimised(CollectInfo(prog)) \cup {CollectInfo(prog)}
  PROVE  Describes(i, prog) /\ Numbered(i, prog)
  BY MinimisedInfo, CollectedInfo, CollectedNumbers

(* The numbering of the fields. *)
LEMMA FieldNumbers ==
  ASSUME NEW prog \in ParserPrograms, Collectable(prog), NEW i, Describes(i, prog)
  PROVE  /\ \A m \in Names(Members(prog)) : \A f \in ToSet(i.contents[m]) : <<m, f>> \in ToSet(AllFields(i))
         /\ \A t \in Tests(Body(prog)) : t.attr \in ToSet(ComparedFields(i))
  <1> DEFINE parts == [k \in DOMAIN i.members |-> AttrsOf(i.members[k], i.contents[i.members[k]])]
  <1>1. i.members \in Seq(STRING) /\ ToSet(i.members) = Names(Members(prog))
    BY DEF Describes
  <1>2. /\ DOMAIN i.members = 1 .. Len(i.members) /\ Len(i.members) \in Nat
        /\ \A k \in 1 .. Len(i.members) : i.members[k] \in Names(Members(prog)) /\ i.members[k] \in STRING
        /\ \A m \in Names(Members(prog)) : \E k \in 1 .. Len(i.members) : m = i.members[k]
    BY <1>1, Elements
  <1>3. \A m \in Names(Members(prog)) : i.contents[m] \in Seq(STRING)
    BY DEF Describes
  <1>4. \A k \in 1 .. Len(i.members) :
          /\ parts[k] \in Seq(Attribute)
          /\ ToSet(parts[k]) = {<<i.members[k], f>> : f \in ToSet(i.contents[i.members[k]])}
    BY <1>2, <1>3, AttrsOfFacts
  <1>5. parts = [k \in 1 .. Len(i.members) |-> parts[k]]
    BY <1>2
  <1>6. AllFields(i) = FlattenSeq(parts)
    BY DEF AllFields
  <1> HIDE DEF parts
  <1>7. parts \in Seq(Seq(Attribute)) /\ Len(parts) = Len(i.members)
    BY <1>2, <1>4, <1>5, MapIsSeq
  <1>8. /\ AllFields(i) \in Seq(Attribute)
        /\ ToSet(AllFields(i)) = UNION {ToSet(parts[k]) : k \in 1 .. Len(i.members)}
    BY <1>6, <1>7, FlattenElements
  <1>9. ASSUME NEW m \in Names(Members(prog)), NEW f \in ToSet(i.contents[m])
        PROVE  <<m, f>> \in ToSet(AllFields(i))
    <2>1. PICK k \in 1 .. Len(i.members) : m = i.members[k]
      BY <1>2
    <2>2. <<m, f>> \in ToSet(parts[k])
      BY <1>4, <2>1
    <2> QED
      BY <1>8, <2>2
  <1>10. ASSUME NEW t \in Tests(Body(prog)) PROVE t.attr \in ToSet(ComparedFields(i))
    <2>1. /\ t.attr = <<t.attr[1], t.attr[2]>> /\ t.attr[1] \in Names(Members(prog))
          /\ t.attr \in Attributes(prog) /\ Kind(prog, t.attr) # "NotCompared"
      BY CollectedTests
    <2>2. t.attr[2] \in ToSet(i.contents[t.attr[1]]) /\ i.kind[t.attr] = Kind(prog, t.attr)
      BY <2>1 DEF Describes
    <2>3. t.attr \in ToSet(AllFields(i))
      <3>1. PICK m \in Names(Members(prog)), f \in ToSet(i.contents[t.attr[1]]) : m = t.attr[1] /\ f = t.attr[2]
        BY <2>1, <2>2
      <3>2. <<m, f>> \in ToSet(AllFields(i))
        BY <1>9, <2>2, <3>1
      <3> QED
        BY <2>1, <3>1, <3>2
    <2>4. IsCompared(i, t.attr)
      BY <2>1, <2>2 DEF IsCompared
    <2> QED
      BY <1>8, <2>3, <2>4, Selected DEF ComparedFields
  <1> QED
    BY <1>9, <1>10

-----------------------------------------------------------------------------
(* The statements that IRGen emits.                                        *)

(* A part of a program. *)
OfProgram(prog, s) == Parts[s] \subseteq Parts[Body(prog)]

(* The Collector has looked at every part of a program. *)
LEMMA OfProgramFacts ==
  ASSUME NEW prog \in ParserPrograms, Collectable(prog), NEW s \in Statement, OfProgram(prog, s)
  PROVE  /\ \A x \in Children(s) : x \in Statement /\ OfProgram(prog, x)
         /\ s.op \in {"extract", "return", "block", "if", "none"}
         /\ s.op = "extract" => s.member \in Names(Members(prog))
         /\ s.op = "return" => s.verdict \in Verdicts
         /\ s.op = "block" => s.body \in Seq(Statement) /\ s.body # <<>> /\ \A k \in 1 .. Len(s.body) : s.body[k] \in Children(s)
         /\ s.op = "if" => /\ s.test \in Tests(Body(prog)) /\ s.then \in Children(s) /\ s.else \in Children(s)
                           /\ s.test \in Condition
         /\ s.op = "none" => s = NoElse
  <1>1. s \in Parts[Body(prog)] /\ \A x \in Children(s) : x \in Statement /\ Parts[x] \subseteq Parts[s]
    BY PartsFacts, ChildrenFacts DEF OfProgram
  <1>2. \A x \in Children(s) : x \in Statement /\ OfProgram(prog, x)
    BY <1>1 DEF OfProgram
  <1>3. CASE s.op = "extract"
    BY <1>1, <1>2, <1>3 DEF Collectable, Visitable
  <1>4. CASE s.op = "return"
    BY <1>1, <1>2, <1>4 DEF Collectable, Visitable
  <1>5. CASE s.op = "block"
    <2>1. s.body # <<>>
      BY <1>1, <1>5 DEF Collectable, Visitable
    <2>2. s.body \in Seq(Statement)
      BY <1>5, StatementShape, Shapes
    <2>3. \A k \in 1 .. Len(s.body) : s.body[k] \in Children(s)
      <3>1. Children(s) = ToSet(s.body)
        BY <1>5 DEF Children
      <3> QED
        BY <2>2, <3>1, Elements
    <2> QED
      BY <1>2, <1>5, <2>1, <2>2, <2>3
  <1>6. CASE s.op = "if"
    <2>1. s.test \in Tests(Body(prog))
      BY <1>1, <1>6 DEF Tests
    <2>2. s.then \in Children(s) /\ s.else \in Children(s)
      BY <1>6 DEF Children
    <2>3. s.test \in Condition
      BY <1>6, StatementShape, Shapes
    <2> QED
      BY <1>2, <1>6, <2>1, <2>2, <2>3
  <1>7. CASE s.op \notin {"extract", "return", "block", "if"}
    <2>1. s = NoElse
      BY <1>1, <1>7 DEF Collectable, Visitable
    <2> QED
      BY <1>2, <2>1 DEF NoElse
  <1> QED
    BY <1>3, <1>4, <1>5, <1>6, <1>7

(* The branches of an if that is regular. *)
LEMMA RegularFacts ==
  ASSUME NEW i, NEW s \in Statement, Regular(i, s)
  PROVE  /\ \A x \in Children(s) : Regular(i, x)
         /\ s.op = "if" => s.test.rel # "&" /\ Len(Emitted(i, s.then)) = 1 /\ Len(Emitted(i, s.else)) = 1
  BY PartsFacts DEF Regular

(* The field extractions that an extraction becomes. *)
AreExtractions(q, i, m) ==
  /\ q \in Seq(Leaf) /\ q # <<>> /\ Len(q) = Len(i.contents[m])
  /\ \A k \in 1 .. Len(q) :
       /\ q[k].op = "extract_field" /\ q[k].attr = <<m, i.contents[m][k]>>
       /\ q[k].size = i.new_size[q[k].attr]
       /\ q[k].attr \in DOMAIN i.new_size /\ q[k].attr \in ToSet(AllFields(i))

(* Extractions gives those. *)
LEMMA ExtractionsFacts ==
  ASSUME NEW prog \in ParserPrograms, Collectable(prog), NEW i, Describes(i, prog), Numbered(i, prog),
         NEW m \in Names(Members(prog))
  PROVE  AreExtractions(Extractions(i, m), i, m)
  <1>1. PICK fields : fields = i.contents[m]
    OBVIOUS
  <1>2. PICK e : e = Extractions(i, m)
    OBVIOUS
  <1>3. /\ fields \in Seq(STRING) /\ fields # <<>>
        /\ \A f \in ToSet(fields) : <<m, f>> \in Attributes(prog)
        /\ DOMAIN i.new_size = Attributes(prog)
    BY <1>1 DEF Describes
  <1>4. /\ DOMAIN fields = 1 .. Len(fields) /\ Len(fields) \in Nat
        /\ \A k \in 1 .. Len(fields) : fields[k] \in ToSet(fields) /\ fields[k] \in STRING
    BY <1>3, Elements
  <1>5. m \in STRING
    BY Declarations DEF Collectable
  <1>6. e = [k \in 1 .. Len(fields) |->
               [op |-> "extract_field", attr |-> <<m, fields[k]>>, size |-> i.new_size[<<m, fields[k]>>]]]
    BY <1>1, <1>2, <1>4 DEF Extractions
  <1>7. \A k \in 1 .. Len(fields) : <<m, fields[k]>> \in Attribute /\ i.new_size[<<m, fields[k]>>] \in Int
    BY <1>3, <1>4, <1>5 DEF Attribute, Numbered
  <1>8. \A k \in 1 .. Len(fields) : e[k] \in Leaf
    BY <1>6, <1>7 DEF Leaf
  <1>9. e \in Seq(Leaf) /\ Len(e) = Len(fields)
    BY <1>4, <1>6, <1>8, MapIsSeq
  <1>10. e # <<>>
    BY <1>3, <1>4, <1>9
  <1>11. \A k \in 1 .. Len(fields) : <<m, fields[k]>> \in ToSet(AllFields(i))
    BY <1>1, <1>4, FieldNumbers
  <1>12. \A k \in 1 .. Len(fields) :
           /\ e[k].op = "extract_field" /\ e[k].attr = <<m, fields[k]>>
           /\ e[k].size = i.new_size[<<m, fields[k]>>]
    BY <1>4, <1>6
  <1>13. \A k \in 1 .. Len(fields) : <<m, fields[k]>> \in DOMAIN i.new_size
    BY <1>3, <1>4
  <1>14. \A k \in 1 .. Len(e) :
           /\ e[k].op = "extract_field" /\ e[k].attr = <<m, fields[k]>>
           /\ e[k].size = i.new_size[e[k].attr]
           /\ e[k].attr \in DOMAIN i.new_size /\ e[k].attr \in ToSet(AllFields(i))
    BY <1>9, <1>11, <1>12, <1>13
  <1>15. AreExtractions(e, i, m)
    BY <1>1, <1>9, <1>10, <1>14 DEF AreExtractions
  <1> QED
    BY <1>2, <1>15

(* The test that is emitted compares the same attribute in the same way. *)
LEMMA NewTestFacts ==
  ASSUME NEW prog \in ParserPrograms, Collectable(prog), NEW i, Describes(i, prog), Numbered(i, prog),
         NEW t \in Tests(Body(prog))
  PROVE  /\ NewTest(i, t) \in Condition
         /\ NewTest(i, t).rel = t.rel /\ NewTest(i, t).attr = t.attr /\ NewTest(i, t).mask = t.mask
         /\ t.mask = NoMask => /\ t.value \in DOMAIN i.new_constant[t.attr]
                               /\ NewTest(i, t).value = i.new_constant[t.attr][t.value]
         /\ t.mask # NoMask => NewTest(i, t).value = t.value
         /\ t.attr \in DOMAIN i.new_size /\ t.attr \in ToSet(ComparedFields(i))
  <1>1. t \in Condition /\ t.attr \in Attributes(prog)
    BY CollectedTests
  <1>2. t.attr \in DOMAIN i.new_size /\ t.attr \in ToSet(ComparedFields(i))
    BY <1>1, FieldNumbers DEF Describes
  <1>3. CASE t.mask = NoMask
    <2>1. t.value \in ExactConstants(prog, t.attr)
      BY <1>3 DEF ExactConstants
    <2>2. t.value \in DOMAIN i.new_constant[t.attr] /\ i.new_constant[t.attr][t.value] \in Int
      BY <1>1, <2>1 DEF Numbered
    <2>3. NewTest(i, t) = [t EXCEPT !.value = i.new_constant[t.attr][t.value]]
      BY <1>3 DEF NewTest
    <2> QED
      BY <1>1, <1>2, <1>3, <2>2, <2>3 DEF Condition
  <1>4. CASE t.mask # NoMask
    BY <1>1, <1>2, <1>4 DEF NewTest
  <1> QED
    BY <1>3, <1>4

(* An if over the first statements of its branches. *)
Whole(test, then, else) == [op |-> "if", test |-> test, then |-> Head(then), else |-> Head(else)]

(* What Branching emits comes from its branches. *)
LEMMA BranchingFacts ==
  ASSUME NEW S, NEW test, NEW then \in Seq(S), NEW else \in Seq(S), then # <<>>, else # <<>>
  PROVE  /\ Head(then) \in ToSet(then) /\ Head(else) \in ToSet(else)
         /\ Head(then) = then[1] /\ Head(else) = else[1]
         /\ Branching(test, then, else) # <<>>
         /\ \/ Branching(test, then, else) = <<SyntaxError>> /\ Len(then) > 1
            \/ /\ Branching(test, then, else) \in Seq(S \cup {Whole(test, then, else)})
               /\ ToSet(Branching(test, then, else))
                    \subseteq ToSet(then) \cup ToSet(else) \cup {Whole(test, then, else)}
         /\ Len(then) = 1 /\ Len(else) = 1 => Branching(test, then, else) = <<Whole(test, then, else)>>
  <1>1. /\ Len(then) \in Nat /\ Len(then) # 0 /\ Head(then) = then[1]
        /\ Len(else) \in Nat /\ Len(else) # 0 /\ Head(else) = else[1]
    OBVIOUS
  <1>2. then[1] \in ToSet(then) /\ else[1] \in ToSet(else)
    BY <1>1, Elements
  <1>3. CASE else # <<NoElse>> /\ Len(then) > 1
    <2>1. Branching(test, then, else) = <<SyntaxError>>
      BY <1>3 DEF Branching
    <2>2. <<SyntaxError>> # <<>>
      OBVIOUS
    <2>3. ~(Len(then) = 1)
      <3>1. PICK n \in Nat : n = Len(then)
        BY <1>1
      <3>2. n > 1
        BY <1>3, <3>1
      <3>3. n # 1
        BY <3>2
      <3> QED
        BY <3>1, <3>3
    <2> QED
      BY <1>1, <1>2, <1>3, <2>1, <2>2, <2>3
  <1>4. CASE ~(else # <<NoElse>> /\ Len(then) > 1)
    <2>1. PICK last : last = IF else = <<NoElse>> THEN then ELSE else
      OBVIOUS
    <2>2. PICK w : w = Whole(test, then, else)
      OBVIOUS
    <2>3. Branching(test, then, else) = <<w>> \o Tail(last)
      BY <1>4, <2>1, <2>2 DEF Branching, Whole
    <2>4. last \in Seq(S) /\ last # <<>> /\ ToSet(last) \subseteq ToSet(then) \cup ToSet(else)
      BY <2>1
    <2>5. PICK tail : tail = Tail(last)
      OBVIOUS
    <2>5a. tail \in Seq(S) /\ Len(tail) = Len(last) - 1
          /\ \A k \in 1 .. Len(last) - 1 : tail[k] = last[k + 1]
      BY <2>4, <2>5
    <2>6. ToSet(tail) \subseteq ToSet(last)
      <3> SUFFICES ASSUME NEW x \in ToSet(tail) PROVE x \in ToSet(last)
        OBVIOUS
      <3>1. PICK k \in 1 .. Len(last) - 1 : x = last[k + 1]
        <4>1. Len(tail) = Len(last) - 1 /\ tail \in Seq(S)
          BY <2>5a
        <4>2. PICK k \in 1 .. Len(tail) : x = tail[k]
          BY <4>1, Elements
        <4> QED
          BY <2>5a, <4>1, <4>2
      <3>2. k + 1 \in 1 .. Len(last)
        BY <2>4, <3>1
      <3> QED
        BY <2>4, <3>1, <3>2, Elements
    <2>6a. PICK one : one = <<w>>
      OBVIOUS
    <2>6b. PICK X : X = S \cup {w}
      OBVIOUS
    <2>7. one \in Seq(X) /\ tail \in Seq(X) /\ Len(one) = 1
      BY <2>5a, <2>6a, <2>6b
    <2>8. PICK r : r = Then(one, tail)
      OBVIOUS
    <2>9. r \in Seq(X) /\ Len(r) = Len(one) + Len(tail) /\ ToSet(r) = ToSet(one) \cup ToSet(tail)
      <3>1. r \in Seq(X) /\ Len(r) = Len(one) + Len(tail)
        BY <2>7, <2>8, ThenFacts
      <3>2. ToSet(r) = ToSet(one) \cup ToSet(tail)
        BY <2>7, <2>8, ThenElements
      <3> QED
        BY <3>1, <3>2
    <2>10. r = Branching(test, then, else)
      BY <2>3, <2>5, <2>6a, <2>8 DEF Then
    <2>11. r # <<>>
      BY <2>4, <2>5a, <2>7, <2>9
    <2>12. ToSet(one) = {w}
      BY <2>6a DEF ToSet
    <2>13. ToSet(r) \subseteq ToSet(then) \cup ToSet(else) \cup {w}
      BY <2>4, <2>6, <2>9, <2>12
    <2>14. Len(then) = 1 /\ Len(else) = 1 => r = <<w>>
      <3> SUFFICES ASSUME Len(then) = 1, Len(else) = 1 PROVE r = <<w>>
        OBVIOUS
      <3>1. Len(last) = 1
        BY <2>1
      <3>2. tail = <<>>
        BY <2>5a, <3>1
      <3> QED
        BY <2>6a, <2>7, <2>8, <3>2, ThenFacts
    <2> QED
      BY <1>1, <1>2, <2>2, <2>6b, <2>9, <2>10, <2>11, <2>13, <2>14
  <1> QED
    BY <1>3, <1>4

(* What is emitted for the parts of a block. *)
EmittedParts(i, s) == [k \in DOMAIN s.body |-> Emitted(i, s.body[k])]

(* What is emitted for each kind of statement. *)
LEMMA EmittedCases ==
  ASSUME NEW i, NEW s \in Statement
  PROVE  /\ s.op = "extract" => Emitted(i, s) = Extractions(i, s.member)
         /\ s.op = "block" => Emitted(i, s) = <<Block(FlattenSeq(EmittedParts(i, s)))>>
         /\ s.op = "if" => Emitted(i, s) = Branching(NewTest(i, s.test), Emitted(i, s.then), Emitted(i, s.else))
         /\ s.op \in {"return", "none"} => Emitted(i, s) = <<s>>
  <1>1. Emitted(i, s) = EmittedStep(IRGen(i), s, i)
    BY EmittedSolves
  <1>2. CASE s.op = "block"
    <2>1. EmittedParts(i, s) = [k \in DOMAIN s.body |-> IRGen(i)[s.body[k]]]
      BY DEF EmittedParts, Emitted
    <2> QED
      BY <1>1, <1>2, <2>1 DEF EmittedStep
  <1>3. CASE s.op # "block"
    BY <1>1, <1>3 DEF EmittedStep, Emitted
  <1> QED
    BY <1>2, <1>3

(* Leaves are trees of every depth. *)
LEMMA LeafTrees == \A d \in 0 .. MaxDepth : Leaf \subseteq Trees[d]
  <1> SUFFICES ASSUME NEW d \in 0 .. MaxDepth PROVE Leaf \subseteq Trees[d]
    OBVIOUS
  <1>1. CASE d = 0
    BY <1>1, TreesFacts
  <1>2. CASE d # 0
    <2>1. d - 1 \in 0 .. MaxDepth - 1 /\ (d - 1) + 1 = d
      BY <1>2, DepthAssumption
    <2> QED
      BY <2>1, TreesFacts DEF Nest
  <1> QED
    BY <1>1, <1>2

(* The depth below that of a statement with children. *)
LEMMA Below ==
  ASSUME NEW d \in 0 .. MaxDepth, NEW s \in Trees[d], s.op \in {"block", "if"}
  PROVE  \E e \in 0 .. MaxDepth : Trees[d] = Nest(Trees[e]) /\ Trees[e] \subseteq Trees[d]
  <1>1. d # 0
    BY TreesFacts DEF Leaf
  <1>2. d - 1 \in 0 .. MaxDepth - 1 /\ d - 1 \in 0 .. MaxDepth /\ (d - 1) + 1 = d
    BY <1>1, DepthAssumption
  <1> QED
    BY <1>2, TreesFacts, TreesGrow

(* The emitted statements are nested no deeper than the source's. *)
LEMMA EmittedTyped ==
  ASSUME NEW prog \in ParserPrograms, Collectable(prog), NEW i, Describes(i, prog), Numbered(i, prog)
  PROVE  \A s \in Statement : OfProgram(prog, s) =>
           /\ Emitted(i, s) # <<>>
           /\ \A d \in 0 .. MaxDepth : s \in Trees[d] => Emitted(i, s) \in Seq(Trees[d])
  <1> DEFINE Typed(s) == /\ Emitted(i, s) # <<>>
                         /\ \A d \in 0 .. MaxDepth : s \in Trees[d] => Emitted(i, s) \in Seq(Trees[d])
             Good == {s \in Statement : OfProgram(prog, s) => Typed(s)}
  <1>1. ASSUME NEW s \in Statement, Children(s) \subseteq Statement, Children(s) \subseteq Good
        PROVE  s \in Good
    <2> SUFFICES ASSUME OfProgram(prog, s) PROVE Typed(s)
      OBVIOUS
    <2>1. \A x \in Children(s) : x \in Statement /\ Typed(x)
      BY <1>1, OfProgramFacts
    <2>2. CASE s.op = "extract"
      <3>1. s.member \in Names(Members(prog))
        BY <2>2, OfProgramFacts
      <3>2. PICK e : e = Extractions(i, s.member)
        OBVIOUS
      <3>3. Emitted(i, s) = e
        BY <2>2, <3>2, EmittedCases
      <3>4. e \in Seq(Leaf) /\ e # <<>>
        <4>1. AreExtractions(e, i, s.member)
          BY <3>1, <3>2, ExtractionsFacts
        <4> QED
          BY <4>1 DEF AreExtractions
      <3>5. \A d \in 0 .. MaxDepth : e \in Seq(Trees[d])
        BY <3>4, LeafTrees
      <3> QED
        BY <3>3, <3>4, <3>5
    <2>3. CASE s.op \in {"return", "none"}
      <3>1. Emitted(i, s) = <<s>>
        BY <2>3, EmittedCases
      <3>2. <<s>> # <<>> /\ \A S : s \in S => <<s>> \in Seq(S)
        OBVIOUS
      <3> QED
        BY <3>1, <3>2
    <2>4. CASE s.op = "block"
      <3>1. /\ s.body \in Seq(Statement) /\ DOMAIN s.body = 1 .. Len(s.body) /\ Len(s.body) \in Nat
            /\ \A k \in 1 .. Len(s.body) : s.body[k] \in Children(s)
        BY <2>4, OfProgramFacts
      <3>2. PICK parts : parts = EmittedParts(i, s)
        OBVIOUS
      <3>3. PICK inner : inner = FlattenSeq(parts)
        OBVIOUS
      <3>4. Emitted(i, s) = <<Block(inner)>>
        BY <2>4, <3>2, <3>3, EmittedCases
      <3>5. ASSUME NEW d \in 0 .. MaxDepth, s \in Trees[d]
            PROVE  <<Block(inner)>> \in Seq(Trees[d])
        <4>1. PICK e \in 0 .. MaxDepth : Trees[d] = Nest(Trees[e])
          BY <2>4, <3>5, Below
        <4>2. \A k \in 1 .. Len(s.body) : s.body[k] \in Trees[e]
          BY <3>1, <3>5, <4>1, ChildrenShape
        <4>3. parts = [k \in 1 .. Len(s.body) |-> Emitted(i, s.body[k])]
          BY <3>1, <3>2 DEF EmittedParts
        <4>4. \A k \in 1 .. Len(s.body) : parts[k] \in Seq(Trees[e])
          <5> SUFFICES ASSUME NEW k \in 1 .. Len(s.body) PROVE parts[k] \in Seq(Trees[e])
            OBVIOUS
          <5>1. Typed(s.body[k]) /\ s.body[k] \in Trees[e]
            BY <2>1, <3>1, <4>2
          <5> QED
            BY <4>3, <5>1
        <4>5. PICK S : S = Trees[e]
          OBVIOUS
        <4>5a. parts \in Seq(Seq(S))
          <5>1. parts = [k \in 1 .. Len(s.body) |-> parts[k]] /\ \A k \in 1 .. Len(s.body) : parts[k] \in Seq(S)
            BY <4>3, <4>4, <4>5
          <5> QED
            BY <3>1, <5>1, MapIsSeq
        <4>6. inner \in Seq(Trees[e])
          BY <3>3, <4>5, <4>5a, FlattenElements
        <4>7. Block(inner) \in Nest(Trees[e])
          BY <4>6 DEF Nest, Block
        <4> QED
          BY <4>1, <4>7
      <3> QED
        BY <3>4, <3>5
    <2>5. CASE s.op = "if"
      <3>1. s.test \in Tests(Body(prog)) /\ s.then \in Children(s) /\ s.else \in Children(s)
        BY <2>5, OfProgramFacts
      <3>2. PICK then : then = Emitted(i, s.then)
        OBVIOUS
      <3>3. PICK else : else = Emitted(i, s.else)
        OBVIOUS
      <3>4. PICK test : test = NewTest(i, s.test)
        OBVIOUS
      <3>5. test \in Condition
        BY <3>1, <3>4, NewTestFacts
      <3>6. PICK r : r = Branching(test, then, else)
        OBVIOUS
      <3>7. Emitted(i, s) = r
        BY <2>5, <3>2, <3>3, <3>4, <3>6, EmittedCases
      <3>8. Typed(s.then) /\ Typed(s.else)
        BY <2>1, <3>1
      <3>9. then # <<>> /\ else # <<>>
        BY <3>2, <3>3, <3>8
      <3>10. \A d \in 0 .. MaxDepth : /\ s.then \in Trees[d] => then \in Seq(Trees[d])
                                      /\ s.else \in Trees[d] => else \in Seq(Trees[d])
        BY <3>2, <3>3, <3>8
      <3>11. r # <<>>
        <4>1. s.then \in Trees[MaxDepth] /\ s.else \in Trees[MaxDepth] /\ MaxDepth \in 0 .. MaxDepth
          BY <2>1, <3>1, DepthAssumption DEF Statement
        <4>2. then \in Seq(Statement) /\ else \in Seq(Statement)
          BY <3>10, <4>1 DEF Statement
        <4> QED
          BY <3>6, <3>9, <4>2, BranchingFacts
      <3>12. ASSUME NEW d \in 0 .. MaxDepth, s \in Trees[d]
             PROVE  r \in Seq(Trees[d])
        <4>1. PICK e \in 0 .. MaxDepth : Trees[d] = Nest(Trees[e]) /\ Trees[e] \subseteq Trees[d]
          BY <2>5, <3>12, Below
        <4>2. s.then \in Trees[e] /\ s.else \in Trees[e]
          BY <3>1, <3>12, <4>1, ChildrenShape
        <4>3. then \in Seq(Trees[e]) /\ else \in Seq(Trees[e])
          BY <3>10, <4>2
        <4>4. PICK w : w = Whole(test, then, else)
          OBVIOUS
        <4>5. /\ Head(then) \in Trees[e] /\ Head(else) \in Trees[e]
              /\ r = <<SyntaxError>> \/ r \in Seq(Trees[e] \cup {w})
          <5>1. PICK S : S = Trees[e]
            OBVIOUS
          <5>2. then \in Seq(S) /\ else \in Seq(S)
            BY <4>3, <5>1
          <5>3. /\ Head(then) \in ToSet(then) /\ Head(else) \in ToSet(else)
                /\ r = <<SyntaxError>> \/ r \in Seq(S \cup {w})
            BY <3>6, <3>9, <4>4, <5>2, BranchingFacts
          <5>4. ToSet(then) \subseteq S /\ ToSet(else) \subseteq S
            BY <5>2, Elements
          <5> QED
            BY <5>1, <5>3, <5>4
        <4>6. w \in Trees[d]
          BY <3>5, <4>1, <4>4, <4>5 DEF Whole, Nest
        <4>7. SyntaxError \in Leaf
          BY DEF SyntaxError, Leaf
        <4>8. SyntaxError \in Trees[d]
          BY <4>7, LeafTrees
        <4>9. \A q \in Seq(Trees[e] \cup {w}) : q \in Seq(Trees[d])
          <5>1. PICK X : X = Trees[e] \cup {w}
            OBVIOUS
          <5>2. X \subseteq Trees[d]
            BY <4>1, <4>6, <5>1
          <5>3. \A q \in Seq(X) : q \in Seq(Trees[d])
            BY <5>2
          <5> QED
            BY <5>1, <5>3
        <4>10. <<SyntaxError>> \in Seq(Trees[d])
          <5>1. PICK x : x = SyntaxError
            OBVIOUS
          <5>2. PICK S : S = Trees[d]
            OBVIOUS
          <5>3. x \in S
            BY <4>8, <5>1, <5>2
          <5>4. <<x>> \in Seq(S)
            BY <5>3
          <5> QED
            BY <5>1, <5>2, <5>4
        <4> QED
          BY <4>5, <4>9, <4>10
      <3> QED
        BY <3>7, <3>11, <3>12
    <2> QED
      BY <2>2, <2>3, <2>4, <2>5, OfProgramFacts
  <1> HIDE DEF Good
  <1>2. Statement \subseteq Good
    BY <1>1, StatementInduction
  <1> QED
    BY <1>2 DEF Good
(* So what is emitted is a sequence of statements, and no empty one. *)
LEMMA EmittedStatements ==
  ASSUME NEW prog \in ParserPrograms, Collectable(prog), NEW i, Describes(i, prog), Numbered(i, prog),
         NEW s \in Statement, OfProgram(prog, s)
  PROVE  /\ Emitted(i, s) \in Seq(Statement) /\ Emitted(i, s) # <<>>
         /\ Len(Emitted(i, s)) \in Nat /\ Len(Emitted(i, s)) # 0
  <1>1. MaxDepth \in 0 .. MaxDepth
    BY DepthAssumption
  <1>2. PICK e : e = Emitted(i, s)
    OBVIOUS
  <1>3. e \in Seq(Statement) /\ e # <<>>
    BY <1>1, <1>2, EmittedTyped DEF Statement
  <1>4. Len(e) \in Nat /\ Len(e) # 0
    BY <1>3
  <1> QED
    BY <1>2, <1>3, <1>4

(* The emitted statements agree with Info. *)
Fine(i, x) ==
  /\ x.op \in {"extract_field", "return", "block", "if", "none", "error"}
  /\ x.op = "extract_field" => /\ x.attr \in DOMAIN i.new_size /\ x.size = i.new_size[x.attr]
                               /\ x.attr \in ToSet(AllFields(i))
  /\ x.op = "return" => x.verdict \in Verdicts
  /\ x.op = "if" => x.test.attr \in DOMAIN i.new_size /\ x.test.attr \in ToSet(ComparedFields(i))

(* All parts of an emitted statement do. *)
AllFine(i, e) == \A x \in Parts[e] : Fine(i, x)

(* They are as they are meant: no syntax error, no lone "&".               *)
Clean(e) ==
  \A x \in Parts[e] : x.op # "error" /\ (x.op = "if" => x.test.rel \in {"==", "!="})

(* The parts of a statement are itself and the parts of its parts. *)
LEMMA PartsUnion ==
  ASSUME NEW e \in Statement
  PROVE  Parts[e] = {e} \cup UNION {Parts[x] : x \in Children(e)}
  BY PartsSolves DEF PartsStep

(* Everything emitted agrees with Info; it is clean if the source is *)
(* regular.                                                          *)
LEMMA EmittedFine ==
  ASSUME NEW prog \in ParserPrograms, Collectable(prog), NEW i, Describes(i, prog), Numbered(i, prog)
  PROVE  \A s \in Statement : OfProgram(prog, s) =>
           \A e \in ToSet(Emitted(i, s)) : AllFine(i, e) /\ (Regular(i, s) => Clean(e))
  <1> DEFINE Right(s) == \A e \in ToSet(Emitted(i, s)) : AllFine(i, e) /\ (Regular(i, s) => Clean(e))
             Good == {s \in Statement : OfProgram(prog, s) => Right(s)}
  <1>0. ASSUME NEW e \in Statement, Children(e) = {}, Fine(i, e), e.op \notin {"error", "if"}
        PROVE  AllFine(i, e) /\ Clean(e)
    BY <1>0, PartsUnion DEF AllFine, Clean
  <1>1. ASSUME NEW s \in Statement, Children(s) \subseteq Statement, Children(s) \subseteq Good
        PROVE  s \in Good
    <2> SUFFICES ASSUME OfProgram(prog, s) PROVE Right(s)
      OBVIOUS
    <2>1. \A x \in Children(s) : x \in Statement /\ OfProgram(prog, x) /\ Right(x)
      BY <1>1, OfProgramFacts
    <2>2. \A e \in ToSet(Emitted(i, s)) : e \in Statement
      BY EmittedStatements, Elements
    <2>3. CASE s.op = "extract"
      <3>1. PICK m \in Names(Members(prog)) : m = s.member
        BY <2>3, OfProgramFacts
      <3>2. PICK q : q = Extractions(i, m)
        OBVIOUS
      <3>3. Emitted(i, s) = q
        BY <2>3, <3>1, <3>2, EmittedCases
      <3>4. /\ q \in Seq(Leaf)
            /\ \A k \in 1 .. Len(q) :
                 /\ q[k].op = "extract_field" /\ q[k].attr \in DOMAIN i.new_size
                 /\ q[k].size = i.new_size[q[k].attr] /\ q[k].attr \in ToSet(AllFields(i))
        <4>1. AreExtractions(q, i, m)
          BY <3>2, ExtractionsFacts
        <4> QED
          BY <4>1 DEF AreExtractions
      <3>5. ASSUME NEW e \in ToSet(q) PROVE AllFine(i, e) /\ Clean(e)
        <4>1. PICK k \in 1 .. Len(q) : e = q[k]
          BY <3>4, Elements
        <4>2. Fine(i, e) /\ e.op \notin {"error", "if"}
          BY <3>4, <4>1 DEF Fine
        <4>3. Children(e) = {} /\ e \in Statement
          BY <2>2, <3>3, <3>4, <4>1 DEF Children
        <4> QED
          BY <1>0, <4>2, <4>3
      <3> QED
        BY <3>3, <3>5
    <2>4. CASE s.op \in {"return", "none"}
      <3>1. Emitted(i, s) = <<s>>
        BY <2>4, EmittedCases
      <3>2. ToSet(Emitted(i, s)) = {s}
        BY <3>1 DEF ToSet
      <3>3. Children(s) = {} /\ Fine(i, s) /\ s.op \notin {"error", "if"}
        BY <2>4, OfProgramFacts DEF Children, Fine
      <3> QED
        BY <1>0, <3>2, <3>3
    <2>5. CASE s.op = "block"
      <3>1. /\ s.body \in Seq(Statement) /\ DOMAIN s.body = 1 .. Len(s.body) /\ Len(s.body) \in Nat
            /\ \A k \in 1 .. Len(s.body) : s.body[k] \in Children(s)
        BY <2>5, OfProgramFacts
      <3>2. PICK parts : parts = EmittedParts(i, s)
        OBVIOUS
      <3>3. PICK inner : inner = FlattenSeq(parts)
        OBVIOUS
      <3>4. PICK b : b = Block(inner)
        OBVIOUS
      <3>5. Emitted(i, s) = <<b>>
        BY <2>5, <3>2, <3>3, <3>4, EmittedCases
      <3>6. parts = [k \in 1 .. Len(s.body) |-> Emitted(i, s.body[k])]
        BY <3>1, <3>2 DEF EmittedParts
      <3>7. \A k \in 1 .. Len(s.body) : parts[k] \in Seq(Statement)
        BY <2>1, <3>1, <3>6, EmittedStatements
      <3>8. parts \in Seq(Seq(Statement)) /\ Len(parts) = Len(s.body)
        <4>1. parts = [k \in 1 .. Len(s.body) |-> parts[k]]
          BY <3>6
        <4> QED
          BY <3>1, <3>7, <4>1, MapIsSeq
      <3>9. inner \in Seq(Statement) /\ ToSet(inner) = UNION {ToSet(parts[k]) : k \in 1 .. Len(s.body)}
        BY <3>3, <3>8, FlattenElements
      <3>10. ToSet(Emitted(i, s)) = {b}
        BY <3>5 DEF ToSet
      <3>11. b \in Statement
        BY <2>2, <3>10
      <3>12. ASSUME NEW x \in ToSet(inner)
             PROVE  AllFine(i, x) /\ (Regular(i, s) => Clean(x))
        <4>1. PICK k \in 1 .. Len(s.body) : x \in ToSet(parts[k])
          BY <3>9
        <4>2. s.body[k] \in Children(s) /\ x \in ToSet(Emitted(i, s.body[k]))
          BY <3>1, <3>6, <4>1
        <4>3. AllFine(i, x) /\ (Regular(i, s.body[k]) => Clean(x))
          BY <2>1, <4>2
        <4> QED
          BY <4>2, <4>3, RegularFacts
      <3>13. b.op = "block" /\ Children(b) = ToSet(inner)
        BY <3>4 DEF Block, Children
      <3>14. Fine(i, b)
        BY <3>13 DEF Fine
      <3>15. AllFine(i, b) /\ (Regular(i, s) => Clean(b))
        BY <3>11, <3>12, <3>13, <3>14, PartsUnion DEF AllFine, Clean
      <3> QED
        BY <3>10, <3>15
    <2>6. CASE s.op = "if"
      <3>1. s.test \in Tests(Body(prog)) /\ s.then \in Children(s) /\ s.else \in Children(s)
        BY <2>6, OfProgramFacts
      <3>2. PICK then : then = Emitted(i, s.then)
        OBVIOUS
      <3>3. PICK else : else = Emitted(i, s.else)
        OBVIOUS
      <3>4. PICK test : test = NewTest(i, s.test)
        OBVIOUS
      <3>5. test.attr \in DOMAIN i.new_size /\ test.attr \in ToSet(ComparedFields(i))
        BY <3>1, <3>4, NewTestFacts
      <3>6. PICK r : r = Branching(test, then, else)
        OBVIOUS
      <3>7. Emitted(i, s) = r
        BY <2>6, <3>2, <3>3, <3>4, <3>6, EmittedCases
      <3>8. then \in Seq(Statement) /\ then # <<>> /\ else \in Seq(Statement) /\ else # <<>>
        BY <2>1, <3>1, <3>2, <3>3, EmittedStatements
      <3>9. PICK w : w = Whole(test, then, else)
        OBVIOUS
      <3>10. /\ Head(then) \in ToSet(then) /\ Head(else) \in ToSet(else)
             /\ \/ r = <<SyntaxError>> /\ Len(then) > 1
                \/ ToSet(r) \subseteq ToSet(then) \cup ToSet(else) \cup {w}
        BY <3>6, <3>8, <3>9, BranchingFacts
      <3>11. \A x \in ToSet(then) \cup ToSet(else) : AllFine(i, x) /\ (Regular(i, s) => Clean(x))
        BY <2>1, <3>1, <3>2, <3>3, RegularFacts
      <3>12. CASE r = <<SyntaxError>> /\ Len(then) > 1
        <4>1. ~Regular(i, s)
          <5> SUFFICES ASSUME Regular(i, s) PROVE FALSE
            OBVIOUS
          <5>1. Len(then) = 1
            BY <2>6, <3>2, RegularFacts
          <5>2. PICK n : n = Len(then)
            OBVIOUS
          <5>3. n = 1 /\ n > 1
            BY <3>12, <5>1, <5>2
          <5> QED
            BY <5>3
        <4>2. PICK e : e = SyntaxError
          OBVIOUS
        <4>3. ToSet(Emitted(i, s)) = {e}
          BY <3>7, <3>12, <4>2 DEF ToSet
        <4>4. e \in Statement /\ e.op = "error" /\ Children(e) = {}
          BY <2>2, <4>2, <4>3 DEF SyntaxError, Children
        <4>5. AllFine(i, e)
          BY <4>4, PartsUnion DEF AllFine, Fine
        <4> QED
          BY <4>1, <4>3, <4>5
      <3>13. CASE ToSet(r) \subseteq ToSet(then) \cup ToSet(else) \cup {w}
        <4>1. w.op = "if" /\ w.test = test /\ Children(w) = {Head(then), Head(else)}
          BY <3>9 DEF Whole, Children
        <4>2. Fine(i, w)
          BY <3>5, <4>1 DEF Fine
        <4>2a. Regular(i, s) => test.rel \in {"==", "!="}
          <5>1. test.rel = s.test.rel
            BY <3>1, <3>4, NewTestFacts
          <5>2. s.test.rel \in {"==", "!=", "&"}
            BY <3>1, CollectedTests DEF WellFormedTest
          <5>3. Regular(i, s) => s.test.rel # "&"
            BY <2>6, RegularFacts
          <5> QED
            BY <5>1, <5>2, <5>3
        <4>3. w \in Statement => AllFine(i, w) /\ (Regular(i, s) => Clean(w))
          BY <3>10, <3>11, <4>1, <4>2, <4>2a, PartsUnion DEF AllFine, Clean
        <4> QED
          BY <2>2, <3>7, <3>11, <3>13, <4>3
      <3> QED
        BY <3>10, <3>12, <3>13
    <2> QED
      BY <2>3, <2>4, <2>5, <2>6, OfProgramFacts
  <1> HIDE DEF Good
  <1>2. Statement \subseteq Good
    BY <1>1, StatementInduction
  <1> QED
    BY <1>2 DEF Good

-----------------------------------------------------------------------------
(* The nodes that CFGGenerator makes, and the numbers in them.             *)

(* What the keys of a node may hold. *)
Value == {"extract", "exit", "if"} \cup Attribute \cup Int \cup BOOLEAN

(* The keys of a node, by its kind. *)
Keys(kind) ==
  CASE kind = "extract" -> {"kind", "attr", "next"}
    [] kind = "exit"    -> {"kind", "accept"}
    [] kind = "if"      -> {"kind", "attr", "value", "mask", "next_true", "next_false"}

(* A node, whose pointers are numbers. *)
Node ==
  {v \in UNION {[Keys(kind) -> Value] : kind \in {"extract", "exit", "if"}} :
     /\ v["kind"] \in {"extract", "exit", "if"}
     /\ DOMAIN v = Keys(v["kind"])
     /\ \A x \in DOMAIN v \cap Pointers : v[x] \in Nat}

(* A function on the keys of a node that differs in the pointers only. *)
LEMMA NodeShape ==
  ASSUME NEW v \in Node, NEW e, e = [x \in DOMAIN v |-> e[x]],
         \A x \in DOMAIN v : IF x \in Pointers THEN e[x] \in Nat ELSE e[x] = v[x]
  PROVE  e \in Node
  <1>1. PICK kind \in {"extract", "exit", "if"} : v \in [Keys(kind) -> Value]
    BY DEF Node
  <1>2. DOMAIN v = Keys(kind) /\ kind = v["kind"]
    BY <1>1 DEF Node, Keys
  <1>3. \A x \in DOMAIN v : e[x] \in Value
    <2>1. \A x \in DOMAIN v : v[x] \in Value
      BY <1>1
    <2> QED
      BY <2>1 DEF Value
  <1>4. e \in [Keys(kind) -> Value]
    BY <1>2, <1>3
  <1>5. "kind" \in DOMAIN v /\ "kind" \notin Pointers
    BY <1>2 DEF Keys, Pointers
  <1>6. e["kind"] = kind /\ DOMAIN e = Keys(kind)
    BY <1>2, <1>5
  <1> QED
    BY <1>4, <1>6 DEF Node

(* Patch sets the open ends and leaves everything else alone. *)
IsPatched(p, nodes, ends, target) ==
  /\ p \in Seq(Node) /\ Len(p) = Len(nodes)
  /\ \A n \in 1 .. Len(nodes) :
       p[n] = [x \in DOMAIN nodes[n] |-> IF <<n, x>> \in ends THEN target ELSE nodes[n][x]]

LEMMA PatchFacts ==
  ASSUME NEW nodes \in Seq(Node), NEW ends, NEW target \in Nat,
         \A e \in ends : e[2] \in Pointers
  PROVE  IsPatched(Patch(nodes, ends, target), nodes, ends, target)
  <1>1. DOMAIN nodes = 1 .. Len(nodes) /\ Len(nodes) \in Nat /\ \A n \in 1 .. Len(nodes) : nodes[n] \in Node
    BY Elements
  <1>2. PICK p : p = Patch(nodes, ends, target)
    OBVIOUS
  <1>3. p = [n \in 1 .. Len(nodes) |-> [x \in DOMAIN nodes[n] |-> IF <<n, x>> \in ends THEN target ELSE nodes[n][x]]]
    BY <1>1, <1>2 DEF Patch
  <1>4. ASSUME NEW n \in 1 .. Len(nodes) PROVE p[n] \in Node
    <2>1. p[n] = [x \in DOMAIN nodes[n] |-> IF <<n, x>> \in ends THEN target ELSE nodes[n][x]]
      BY <1>3
    <2>2. \A x \in DOMAIN nodes[n] \cap Pointers : nodes[n][x] \in Nat
      BY <1>1 DEF Node
    <2>3. \A x \in DOMAIN nodes[n] : IF x \in Pointers THEN p[n][x] \in Nat ELSE p[n][x] = nodes[n][x]
      BY <2>1, <2>2
    <2>4. p[n] = [x \in DOMAIN nodes[n] |-> p[n][x]]
      BY <2>1
    <2> QED
      BY <1>1, <2>3, <2>4, NodeShape
  <1>5. p = [n \in 1 .. Len(nodes) |-> p[n]]
    BY <1>3
  <1>6. p \in Seq(Node) /\ Len(p) = Len(nodes)
    BY <1>1, <1>4, <1>5, MapIsSeq
  <1>7. IsPatched(p, nodes, ends, target)
    BY <1>3, <1>6 DEF IsPatched
  <1> QED
    BY <1>2, <1>7

(* Behind moves the pointers and leaves everything else alone. *)
LEMMA BehindFacts ==
  ASSUME NEW nodes \in Seq(Node), NEW k \in Nat
  PROVE  /\ Behind(k, nodes) \in Seq(Node) /\ Len(Behind(k, nodes)) = Len(nodes)
         /\ \A n \in 1 .. Len(nodes) :
              Behind(k, nodes)[n] =
                [x \in DOMAIN nodes[n] |-> IF x \in Pointers THEN nodes[n][x] + k ELSE nodes[n][x]]
  <1>1. DOMAIN nodes = 1 .. Len(nodes) /\ Len(nodes) \in Nat /\ \A n \in 1 .. Len(nodes) : nodes[n] \in Node
    BY Elements
  <1>2. PICK p : p = Behind(k, nodes)
    OBVIOUS
  <1>3. p = [n \in 1 .. Len(nodes) |-> [x \in DOMAIN nodes[n] |-> IF x \in Pointers THEN nodes[n][x] + k ELSE nodes[n][x]]]
    BY <1>1, <1>2 DEF Behind
  <1>4. ASSUME NEW n \in 1 .. Len(nodes) PROVE p[n] \in Node
    <2>1. p[n] = [x \in DOMAIN nodes[n] |-> IF x \in Pointers THEN nodes[n][x] + k ELSE nodes[n][x]]
      BY <1>3
    <2>2. \A x \in DOMAIN nodes[n] \cap Pointers : nodes[n][x] \in Nat
      BY <1>1 DEF Node
    <2>3. \A x \in DOMAIN nodes[n] : IF x \in Pointers THEN p[n][x] \in Nat ELSE p[n][x] = nodes[n][x]
      BY <2>1, <2>2
    <2>4. p[n] = [x \in DOMAIN nodes[n] |-> p[n][x]]
      BY <2>1
    <2> QED
      BY <1>1, <2>3, <2>4, NodeShape
  <1>5. p = [n \in 1 .. Len(nodes) |-> p[n]]
    BY <1>3
  <1>6. p \in Seq(Node) /\ Len(p) = Len(nodes)
    BY <1>1, <1>4, <1>5, MapIsSeq
  <1> QED
    BY <1>2, <1>3, <1>6

(* The three constructors make nodes. *)
LEMMA MadeNodes ==
  /\ \A a \in Attribute : ExtractNode(a) \in Node
  /\ \A v : ExitNode(v) \in Node
  /\ \A t \in Condition : \A a, b \in Nat : IfThenElseNode(t, a, b) \in Node
  <1>1. ASSUME NEW a \in Attribute PROVE ExtractNode(a) \in Node
    <2>1. PICK v : v = ExtractNode(a)
      OBVIOUS
    <2>2. v["kind"] = "extract" /\ v["attr"] = a /\ v["next"] = 0
      BY <2>1 DEF ExtractNode, Unset
    <2>3. v = [x \in {"kind", "attr", "next"} |-> v[x]]
      BY <2>1 DEF ExtractNode
    <2>4. \A x \in {"kind", "attr", "next"} : v[x] \in Value
      BY <2>2 DEF Value
    <2>5. Keys("extract") = {"kind", "attr", "next"}
      BY DEF Keys
    <2>6. v \in [Keys("extract") -> Value]
      BY <2>3, <2>4, <2>5
    <2> QED
      BY <2>1, <2>2, <2>5, <2>6 DEF Node, Pointers
  <1>2. ASSUME NEW a PROVE ExitNode(a) \in Node
    <2>1. PICK v : v = ExitNode(a)
      OBVIOUS
    <2>2. v["kind"] = "exit" /\ v["accept"] \in BOOLEAN
      BY <2>1 DEF ExitNode
    <2>3. v = [x \in {"kind", "accept"} |-> v[x]]
      BY <2>1 DEF ExitNode
    <2>4. \A x \in {"kind", "accept"} : v[x] \in Value
      BY <2>2 DEF Value
    <2>5. Keys("exit") = {"kind", "accept"}
      BY DEF Keys
    <2>6. v \in [Keys("exit") -> Value]
      BY <2>3, <2>4, <2>5
    <2> QED
      BY <2>1, <2>2, <2>5, <2>6 DEF Node, Pointers
  <1>3. ASSUME NEW t \in Condition, NEW a \in Nat, NEW b \in Nat PROVE IfThenElseNode(t, a, b) \in Node
    <2>1. PICK v : v = IfThenElseNode(t, a, b)
      OBVIOUS
    <2>2. v["kind"] = "if" /\ v["attr"] = t.attr /\ v["value"] = t.value /\ v["mask"] = t.mask
          /\ v["next_true"] = a /\ v["next_false"] = b
      BY <2>1 DEF IfThenElseNode
    <2>2a. t.attr \in Attribute /\ t.value \in Int /\ t.mask \in Int
      BY DEF Condition
    <2>3. v = [x \in {"kind", "attr", "value", "mask", "next_true", "next_false"} |-> v[x]]
      BY <2>1 DEF IfThenElseNode
    <2>4. \A x \in {"kind", "attr", "value", "mask", "next_true", "next_false"} : v[x] \in Value
      BY <2>2, <2>2a DEF Value
    <2>5. Keys("if") = {"kind", "attr", "value", "mask", "next_true", "next_false"}
      BY DEF Keys
    <2>6. v \in [Keys("if") -> Value]
      BY <2>3, <2>4, <2>5
    <2> QED
      BY <2>1, <2>2, <2>5, <2>6 DEF Node, Pointers
  <1> QED
    BY <1>1, <1>2, <1>3

(* What visiting a statement gives. *)
WellBuilt(r) ==
  /\ r.nodes \in Seq(Node) /\ Len(r.nodes) \in Nat
  /\ r.ends \subseteq (1 .. Len(r.nodes)) \X Pointers
  /\ r.start \in 0 .. Len(r.nodes)
  /\ r.start = Unset => r.nodes = <<>> /\ r.ends = {}

(* Open ends move with their nodes. *)
LEMMA EndsBehindFacts ==
  ASSUME NEW k \in Nat, NEW n \in Nat, NEW ends \in SUBSET ((1 .. n) \X Pointers)
  PROVE  /\ EndsBehind(k, ends) \subseteq (k + 1 .. k + n) \X Pointers
         /\ \A m \in 1 .. n : \A x : <<m + k, x>> \in EndsBehind(k, ends) <=> <<m, x>> \in ends
         /\ EndsBehind(k, ends) = {} <=> ends = {}
  <1>1. \A e \in ends : e = <<e[1], e[2]>> /\ e[1] \in 1 .. n /\ e[2] \in Pointers
    OBVIOUS
  <1>2. \A e \in EndsBehind(k, ends) : \E d \in ends : e = <<d[1] + k, d[2]>>
    BY DEF EndsBehind
  <1>3. EndsBehind(k, ends) \subseteq (k + 1 .. k + n) \X Pointers
    <2> SUFFICES ASSUME NEW e \in EndsBehind(k, ends) PROVE e \in (k + 1 .. k + n) \X Pointers
      OBVIOUS
    <2>1. PICK d \in ends : e = <<d[1] + k, d[2]>>
      BY <1>2
    <2>2. d[1] + k \in k + 1 .. k + n /\ d[2] \in Pointers
      BY <1>1
    <2> QED
      BY <2>1, <2>2
  <1>4. ASSUME NEW m \in 1 .. n, NEW x
        PROVE  <<m + k, x>> \in EndsBehind(k, ends) <=> <<m, x>> \in ends
    <2>1. ASSUME <<m + k, x>> \in EndsBehind(k, ends) PROVE <<m, x>> \in ends
      <3>1. PICK d \in ends : <<m + k, x>> = <<d[1] + k, d[2]>>
        BY <1>2, <2>1
      <3>2. d[1] = m /\ d[2] = x
        BY <1>1, <3>1
      <3> QED
        BY <1>1, <3>2
    <2>2. ASSUME <<m, x>> \in ends PROVE <<m + k, x>> \in EndsBehind(k, ends)
      BY <2>2 DEF EndsBehind
    <2> QED
      BY <2>1, <2>2
  <1>5. EndsBehind(k, ends) = {} <=> ends = {}
    BY DEF EndsBehind
  <1> QED
    BY <1>3, <1>4, <1>5

(* A leaf gives one node. *)
LEMMA CreatedBuilt ==
  ASSUME NEW node \in Node, NEW pointers \in SUBSET Pointers
  PROVE  /\ WellBuilt(Created(node, pointers)) /\ Created(node, pointers).start = 1
         /\ Len(Created(node, pointers).nodes) = 1 /\ Created(node, pointers).nodes[1] = node
         /\ Created(node, pointers).ends = {<<1, x>> : x \in pointers}
         /\ Created(node, pointers).ends = {} <=> pointers = {}
  <1>1. PICK r : r = Created(node, pointers)
    OBVIOUS
  <1>2. r.nodes = <<node>> /\ r.start = 1 /\ r.ends = {<<1, x>> : x \in pointers}
    BY <1>1 DEF Created
  <1>3. <<node>> \in Seq(Node) /\ Len(<<node>>) = 1
    OBVIOUS
  <1>4. r.nodes \in Seq(Node) /\ Len(r.nodes) = 1 /\ r.nodes[1] = node
    BY <1>2, <1>3
  <1>5. \A x \in pointers : <<1, x>> \in (1 .. 1) \X Pointers
    OBVIOUS
  <1>6. r.ends \subseteq (1 .. 1) \X Pointers
    BY <1>2, <1>5
  <1>7. WellBuilt(r)
    BY <1>2, <1>4, <1>6 DEF WellBuilt, Unset
  <1> QED
    BY <1>1, <1>2, <1>4, <1>7

(* A statement may give no node at all. *)
LEMMA NothingBuilt == WellBuilt(Nothing) /\ Nothing.start = Unset /\ Nothing.nodes = <<>> /\ Nothing.ends = {}
  BY DEF WellBuilt, Nothing, Unset

(* The elements of two sequences, one behind the other. *)
LEMMA ThenAt ==
  ASSUME NEW S, NEW a \in Seq(S), NEW b \in Seq(S), NEW n \in Nat, NEW m \in Nat, Len(a) = n, Len(b) = m
  PROVE  /\ Then(a, b) \in Seq(S) /\ Len(Then(a, b)) = n + m
         /\ \A k \in 1 .. n : Then(a, b)[k] = a[k]
         /\ \A k \in 1 .. m : Then(a, b)[n + k] = b[k]
  <1>1. Then(a, b) \in Seq(S) /\ Len(Then(a, b)) = n + m
    BY DEF Then
  <1>2. \A k \in 1 .. n : Then(a, b)[k] = a[k]
    BY DEF Then
  <1>3. \A k \in 1 .. m : Then(a, b)[n + k] = b[k]
    BY DEF Then
  <1> QED
    BY <1>1, <1>2, <1>3

(* One result behind the other: the first k nodes, then the others. *)
IsChain(r, first, second, k) ==
  /\ WellBuilt(r) /\ r.start = first.start /\ r.start # Unset
  /\ Len(r.nodes) = k + Len(second.nodes)
  /\ r.ends = EndsBehind(k, second.ends)
  /\ \A n \in 1 .. k :
       r.nodes[n] = [x \in DOMAIN first.nodes[n] |->
                       IF <<n, x>> \in first.ends THEN second.start + k ELSE first.nodes[n][x]]
  /\ \A n \in 1 .. Len(second.nodes) :
       r.nodes[k + n] = [x \in DOMAIN second.nodes[n] |->
                           IF x \in Pointers THEN second.nodes[n][x] + k ELSE second.nodes[n][x]]

(* Chained puts one result behind the other. *)
LEMMA ChainedFacts ==
  ASSUME NEW first, NEW second, WellBuilt(first), WellBuilt(second), first.start # Unset, second.start # Unset
  PROVE  IsChain(Chained(first, second), first, second, Len(first.nodes))
  <1>1. PICK k : k = Len(first.nodes)
    OBVIOUS
  <1>2. PICK m : m = Len(second.nodes)
    OBVIOUS
  <1>3. k \in Nat /\ m \in Nat /\ first.nodes \in Seq(Node) /\ second.nodes \in Seq(Node)
        /\ first.ends \subseteq (1 .. k) \X Pointers /\ second.ends \subseteq (1 .. m) \X Pointers
        /\ first.start \in 1 .. k /\ second.start \in 1 .. m
    BY <1>1, <1>2 DEF WellBuilt, Unset
  <1>4. PICK a : a = Patch(first.nodes, first.ends, second.start + k)
    OBVIOUS
  <1>5. PICK b : b = Behind(k, second.nodes)
    OBVIOUS
  <1>6. /\ a \in Seq(Node) /\ Len(a) = k
        /\ \A n \in 1 .. k : a[n] = [x \in DOMAIN first.nodes[n] |->
                                       IF <<n, x>> \in first.ends THEN second.start + k ELSE first.nodes[n][x]]
    <2>1. second.start + k \in Nat /\ \A e \in first.ends : e[2] \in Pointers
      BY <1>3
    <2>2. first.nodes \in Seq(Node)
      BY <1>3
    <2>3. IsPatched(Patch(first.nodes, first.ends, second.start + k), first.nodes, first.ends, second.start + k)
      BY <2>1, <2>2, PatchFacts
    <2>4. IsPatched(a, first.nodes, first.ends, second.start + k)
      BY <1>4, <2>3
    <2>5. Len(a) = k
      BY <1>1, <2>4 DEF IsPatched
    <2>6. \A n \in 1 .. Len(first.nodes) :
            a[n] = [x \in DOMAIN first.nodes[n] |->
                      IF <<n, x>> \in first.ends THEN second.start + k ELSE first.nodes[n][x]]
      BY <2>4 DEF IsPatched
    <2>7. ASSUME NEW n \in 1 .. k
          PROVE  a[n] = [x \in DOMAIN first.nodes[n] |->
                           IF <<n, x>> \in first.ends THEN second.start + k ELSE first.nodes[n][x]]
      <3>1. n \in 1 .. Len(first.nodes)
        BY <1>1
      <3> QED
        BY <2>6, <3>1
    <2> QED
      BY <2>4, <2>5, <2>7 DEF IsPatched
  <1>7. /\ b \in Seq(Node) /\ Len(b) = m
        /\ \A n \in 1 .. m : b[n] = [x \in DOMAIN second.nodes[n] |->
                                       IF x \in Pointers THEN second.nodes[n][x] + k ELSE second.nodes[n][x]]
    BY <1>2, <1>3, <1>5, BehindFacts
  <1>8. PICK r : r = Chained(first, second)
    OBVIOUS
  <1>9. r = [nodes |-> a \o b, start |-> first.start, ends |-> EndsBehind(k, second.ends)]
    BY <1>1, <1>4, <1>5, <1>8 DEF Chained
  <1>10. PICK q : q = Then(a, b)
    OBVIOUS
  <1>11. /\ q \in Seq(Node) /\ Len(q) = k + m
         /\ \A n \in 1 .. k : q[n] = a[n]
         /\ \A n \in 1 .. m : q[k + n] = b[n]
    BY <1>3, <1>6, <1>7, <1>10, ThenAt
  <1>12. r.nodes = q /\ r.start = first.start /\ r.ends = EndsBehind(k, second.ends)
    BY <1>9, <1>10 DEF Then
  <1>13. WellBuilt(r)
    <2>1. r.ends \subseteq (k + 1 .. k + m) \X Pointers
      <3>1. PICK ends : ends = second.ends
        OBVIOUS
      <3>2. EndsBehind(k, ends) \subseteq (k + 1 .. k + m) \X Pointers
        BY <1>3, <3>1, EndsBehindFacts
      <3> QED
        BY <1>12, <3>1, <3>2
    <2>2. r.ends \subseteq (1 .. k + m) \X Pointers
      BY <1>3, <2>1
    <2>3. r.start \in 0 .. k + m /\ r.start # Unset
      BY <1>3, <1>12
    <2> QED
      BY <1>3, <1>11, <1>12, <2>2, <2>3 DEF WellBuilt
  <1>14. \A n \in 1 .. k : r.nodes[n] = a[n]
    BY <1>11, <1>12
  <1>15. \A n \in 1 .. m : r.nodes[k + n] = b[n]
    BY <1>11, <1>12
  <1>16. r.start # Unset
    BY <1>12
  <1>17. Len(r.nodes) = k + m
    BY <1>11, <1>12
  <1>18. IsChain(r, first, second, k)
    <2>1. \A n \in 1 .. k :
            r.nodes[n] = [x \in DOMAIN first.nodes[n] |->
                            IF <<n, x>> \in first.ends THEN second.start + k ELSE first.nodes[n][x]]
      BY <1>6, <1>14
    <2>2. \A n \in 1 .. m :
            r.nodes[k + n] = [x \in DOMAIN second.nodes[n] |->
                                IF x \in Pointers THEN second.nodes[n][x] + k ELSE second.nodes[n][x]]
      BY <1>7, <1>15
    <2> QED
      BY <1>2, <1>12, <1>13, <1>16, <1>17, <2>1, <2>2 DEF IsChain
  <1> QED
    BY <1>1, <1>8, <1>18

(* Where one of them is nothing, it gives the other. *)
LEMMA ChainedNothing ==
  ASSUME NEW first, NEW second, WellBuilt(first), WellBuilt(second),
         first.start = Unset \/ second.start = Unset
  PROVE  /\ second.start = Unset => Chained(first, second) = first
         /\ second.start # Unset => Chained(first, second) = second
  BY DEF Chained

(* The if node behind its branches, which it leads to in the order t, e.   *)
IsJoin(r, test, first, second, k, m, t, e) ==
  /\ WellBuilt(r) /\ r.start = k + m + 1 /\ r.start # Unset /\ Len(r.nodes) = k + m + 1
  /\ r.nodes[k + m + 1] = IfThenElseNode(test, t, e)
  /\ \A j \in 1 .. k : r.nodes[j] = first.nodes[j]
  /\ \A j \in 1 .. m :
       r.nodes[k + j] = [x \in DOMAIN second.nodes[j] |->
                           IF x \in Pointers THEN second.nodes[j][x] + k ELSE second.nodes[j][x]]
  /\ r.ends = first.ends \cup EndsBehind(k, second.ends)
                \cup (IF t = Unset THEN {<<k + m + 1, "next_true">>} ELSE {})
                \cup (IF e = Unset THEN {<<k + m + 1, "next_false">>} ELSE {})

(* Where a result starts behind k nodes. *)
StartBehind(k, r) == IF r.start = Unset THEN Unset ELSE r.start + k

(* Joined makes the if node and leads it to its branches. *)
LEMMA JoinedFacts ==
  ASSUME NEW first, NEW second, WellBuilt(first), WellBuilt(second), NEW test \in Condition,
         first.start # Unset \/ second.start # Unset
  PROVE  IsJoin(Joined(test, first, second), test, first, second, Len(first.nodes), Len(second.nodes),
                IF test.rel = "!=" THEN StartBehind(Len(first.nodes), second) ELSE first.start,
                IF test.rel = "!=" THEN first.start ELSE StartBehind(Len(first.nodes), second))
  <1>1. PICK k : k = Len(first.nodes)
    OBVIOUS
  <1>2. PICK m : m = Len(second.nodes)
    OBVIOUS
  <1>3. PICK n : n = k + m + 1
    OBVIOUS
  <1>4. k \in Nat /\ m \in Nat /\ n \in Nat /\ first.nodes \in Seq(Node) /\ second.nodes \in Seq(Node)
        /\ first.ends \subseteq (1 .. k) \X Pointers /\ second.ends \subseteq (1 .. m) \X Pointers
        /\ first.start \in 0 .. k /\ second.start \in 0 .. m
        /\ (first.start = Unset => first.ends = {}) /\ (second.start = Unset => second.ends = {})
    <2>1. /\ k \in Nat /\ first.nodes \in Seq(Node) /\ first.ends \subseteq (1 .. k) \X Pointers
          /\ first.start \in 0 .. k /\ (first.start = Unset => first.ends = {})
      BY <1>1 DEF WellBuilt
    <2>2. /\ m \in Nat /\ second.nodes \in Seq(Node) /\ second.ends \subseteq (1 .. m) \X Pointers
          /\ second.start \in 0 .. m /\ (second.start = Unset => second.ends = {})
      BY <1>2 DEF WellBuilt
    <2> QED
      BY <1>3, <2>1, <2>2
  <1>5. PICK two : two = StartBehind(k, second)
    OBVIOUS
  <1>6. PICK ends : ends = EndsBehind(k, second.ends)
    OBVIOUS
  <1>7. PICK t : t = IF test.rel = "!=" THEN two ELSE first.start
    OBVIOUS
  <1>8. PICK e : e = IF test.rel = "!=" THEN first.start ELSE two
    OBVIOUS
  <1>9. two \in 0 .. n - 1 /\ t \in Nat /\ e \in Nat
    BY <1>3, <1>4, <1>5, <1>7, <1>8 DEF Unset, StartBehind
  <1>10. PICK b : b = Behind(k, second.nodes)
    OBVIOUS
  <1>11. /\ b \in Seq(Node) /\ Len(b) = m
         /\ \A j \in 1 .. m : b[j] = [x \in DOMAIN second.nodes[j] |->
                                        IF x \in Pointers THEN second.nodes[j][x] + k ELSE second.nodes[j][x]]
    BY <1>2, <1>4, <1>10, BehindFacts
  <1>12. PICK node : node = IfThenElseNode(test, t, e)
    OBVIOUS
  <1>13. node \in Node
    BY <1>9, <1>12, MadeNodes
  <1>14. PICK last : last = <<node>>
    OBVIOUS
  <1>15. last \in Seq(Node) /\ Len(last) = 1 /\ last[1] = node
    BY <1>13, <1>14
  <1>16. PICK a : a = Then(first.nodes, b)
    OBVIOUS
  <1>17. /\ a \in Seq(Node) /\ Len(a) = k + m
         /\ \A j \in 1 .. k : a[j] = first.nodes[j]
         /\ \A j \in 1 .. m : a[k + j] = b[j]
    BY <1>1, <1>4, <1>11, <1>16, ThenAt
  <1>18. PICK q : q = Then(a, last)
    OBVIOUS
  <1>19. /\ q \in Seq(Node) /\ Len(q) = k + m + 1
         /\ \A j \in 1 .. k + m : q[j] = a[j]
         /\ q[k + m + 1] = last[1]
    <2>1. PICK p \in Nat : p = k + m
      BY <1>4
    <2>2. PICK l \in Nat : l = 1
      OBVIOUS
    <2>3. /\ q \in Seq(Node) /\ Len(q) = p + l
          /\ \A j \in 1 .. p : q[j] = a[j]
          /\ \A j \in 1 .. l : q[p + j] = last[j]
      <3>1. Len(a) = p /\ Len(last) = l
        BY <1>15, <1>17, <2>1, <2>2
      <3>2. a \in Seq(Node) /\ last \in Seq(Node)
        BY <1>15, <1>17
      <3>3. /\ Then(a, last) \in Seq(Node) /\ Len(Then(a, last)) = p + l
            /\ \A j \in 1 .. p : Then(a, last)[j] = a[j]
            /\ \A j \in 1 .. l : Then(a, last)[p + j] = last[j]
        BY <3>1, <3>2, ThenAt
      <3> QED
        BY <1>18, <3>3
    <2> QED
      BY <2>1, <2>2, <2>3
  <1>20. PICK r : r = Joined(test, first, second)
    OBVIOUS
  <1>21. /\ r.nodes = (first.nodes \o b) \o <<node>> /\ r.start = n
         /\ r.ends = BranchEnds(t, IF test.rel = "!=" THEN ends ELSE first.ends, n, "next_true")
                       \cup BranchEnds(e, IF test.rel = "!=" THEN first.ends ELSE ends, n, "next_false")
    <2>1. CASE test.rel = "!="
      BY <1>1, <1>2, <1>3, <1>5, <1>6, <1>7, <1>8, <1>10, <1>12, <1>20, <2>1 DEF Joined, StartBehind
    <2>2. CASE test.rel # "!="
      BY <1>1, <1>2, <1>3, <1>5, <1>6, <1>7, <1>8, <1>10, <1>12, <1>20, <2>2 DEF Joined, StartBehind
    <2> QED
      BY <2>1, <2>2
  <1>22. r.nodes = q
    BY <1>14, <1>16, <1>18, <1>21 DEF Then
  <1>23. ends \subseteq (k + 1 .. k + m) \X Pointers /\ (second.start = Unset => ends = {})
    BY <1>4, <1>6, EndsBehindFacts
  <1>24. (two = Unset <=> second.start = Unset)
    BY <1>4, <1>5 DEF Unset, StartBehind
  <1>25. r.ends = first.ends \cup ends \cup (IF t = Unset THEN {<<n, "next_true">>} ELSE {})
                    \cup (IF e = Unset THEN {<<n, "next_false">>} ELSE {})
    BY <1>4, <1>7, <1>8, <1>21, <1>23, <1>24 DEF BranchEnds
  <1>26. r.ends \subseteq (1 .. n) \X Pointers
    <2>1. first.ends \subseteq (1 .. n) \X Pointers /\ ends \subseteq (1 .. n) \X Pointers
      BY <1>3, <1>4, <1>23
    <2>2. <<n, "next_true">> \in (1 .. n) \X Pointers /\ <<n, "next_false">> \in (1 .. n) \X Pointers
      BY <1>3, <1>4 DEF Pointers
    <2> QED
      BY <1>25, <2>1, <2>2
  <1>27. n # Unset /\ n \in 0 .. n
    BY <1>3, <1>4 DEF Unset
  <1>28. WellBuilt(r)
    BY <1>3, <1>4, <1>19, <1>21, <1>22, <1>26, <1>27 DEF WellBuilt
  <1>29. \A j \in 1 .. k : q[j] = first.nodes[j]
    BY <1>4, <1>17, <1>19
  <1>30. \A j \in 1 .. m : q[k + j] = b[j]
    BY <1>4, <1>17, <1>19
  <1>31. q[n] = node
    BY <1>3, <1>15, <1>19
  <1>32. r.nodes[k + m + 1] = IfThenElseNode(test, t, e)
    BY <1>3, <1>12, <1>22, <1>31
  <1>33. \A j \in 1 .. k : r.nodes[j] = first.nodes[j]
    BY <1>22, <1>29
  <1>34. \A j \in 1 .. m :
           r.nodes[k + j] = [x \in DOMAIN second.nodes[j] |->
                               IF x \in Pointers THEN second.nodes[j][x] + k ELSE second.nodes[j][x]]
    BY <1>11, <1>22, <1>30
  <1>35. r.start = k + m + 1 /\ r.start # Unset /\ Len(r.nodes) = k + m + 1
    BY <1>3, <1>19, <1>21, <1>22, <1>27
  <1>36. r.ends = first.ends \cup EndsBehind(k, second.ends)
                     \cup (IF t = Unset THEN {<<k + m + 1, "next_true">>} ELSE {})
                     \cup (IF e = Unset THEN {<<k + m + 1, "next_false">>} ELSE {})
    BY <1>3, <1>6, <1>25
  <1>37. IsJoin(r, test, first, second, k, m, t, e)
    BY <1>28, <1>32, <1>33, <1>34, <1>35, <1>36 DEF IsJoin
  <1> QED
    BY <1>1, <1>2, <1>5, <1>7, <1>8, <1>20, <1>37

(* An if without branches gives no node. *)
LEMMA JoinedNothing ==
  ASSUME NEW first, NEW second, NEW test, first.start = Unset, second.start = Unset
  PROVE  Joined(test, first, second) = Nothing
  BY DEF Joined

-----------------------------------------------------------------------------

(* q[k] is what the first k results give when they are chained.           *)
Chains(q, results) ==
  q = [k \in 0 .. Len(results) |-> IF k = 0 THEN Nothing ELSE Chained(q[k - 1], results[k])]

(* AllChained is the last of them. *)
LEMMA ChainExists ==
  ASSUME NEW results, Len(results) \in Nat
  PROVE  \E q : Chains(q, results) /\ AllChained(results) = q[Len(results)]
  <1> DEFINE Solves(f, d) == f = [k \in 0 .. d |-> IF k = 0 THEN Nothing ELSE Chained(f[k - 1], results[k])]
             Good == {d \in Nat : \E f : Solves(f, d)}
  <1>1. 0 \in Good
    <2>1. Solves([k \in 0 .. 0 |-> Nothing], 0)
      OBVIOUS
    <2> HIDE DEF Solves
    <2> QED
      BY <2>1
  <1>2. ASSUME NEW d \in Nat, d \in Good PROVE d + 1 \in Good
    <2>1. PICK f : Solves(f, d)
      BY <1>2
    <2>2. \A k \in 0 .. d : f[k] = IF k = 0 THEN Nothing ELSE Chained(f[k - 1], results[k])
      BY <2>1
    <2> DEFINE g == [k \in 0 .. d + 1 |-> IF k = d + 1 THEN Chained(f[d], results[d + 1]) ELSE f[k]]
    <2>3. ASSUME NEW k \in 0 .. d + 1
          PROVE  g[k] = IF k = 0 THEN Nothing ELSE Chained(g[k - 1], results[k])
      <3>1. CASE k = d + 1
        <4>1. g[k] = Chained(f[d], results[d + 1]) /\ g[k - 1] = f[d] /\ k - 1 = d /\ k # 0
          BY <3>1
        <4> HIDE DEF g
        <4> QED
          BY <3>1, <4>1
      <3>2. CASE k # d + 1
        <4>1. k \in 0 .. d /\ g[k] = f[k]
          BY <3>2
        <4>2. k # 0 => g[k - 1] = f[k - 1]
          BY <3>2
        <4> HIDE DEF g
        <4> QED
          BY <2>2, <4>1, <4>2
      <3> QED
        BY <3>1, <3>2
    <2>4. Solves(g, d + 1)
      <3>1. g = [k \in 0 .. d + 1 |-> g[k]]
        OBVIOUS
      <3> HIDE DEF g
      <3> QED
        BY <2>3, <3>1
    <2> HIDE DEF Solves, g
    <2> QED
      BY <2>4
  <1>3. \E f : Solves(f, Len(results))
    <2> HIDE DEF Good
    <2>1. Len(results) \in Good
      BY <1>1, <1>2, Counting
    <2> QED
      BY <2>1 DEF Good
  <1> DEFINE solution == CHOOSE f : Solves(f, Len(results))
  <1>4. Solves(solution, Len(results))
    <2> HIDE DEF Solves
    <2> QED
      BY <1>3
  <1>5. AllChained(results) = solution[Len(results)]
    BY DEF AllChained
  <1> HIDE DEF solution
  <1>6. Chains(solution, results)
    BY <1>4 DEF Chains
  <1> QED
    BY <1>5, <1>6

(* The same for the meaning of statements.                                *)
Orders(q, results) ==
  q = [k \in 0 .. Len(results) |-> IF k = 0 THEN DoesNothing ELSE InOrder(q[k - 1], results[k])]

(* AllInOrder is the last of them. *)
LEMMA OrderExists ==
  ASSUME NEW results, Len(results) \in Nat
  PROVE  \E q : Orders(q, results) /\ AllInOrder(results) = q[Len(results)]
  <1> DEFINE Solves(f, d) == f = [k \in 0 .. d |-> IF k = 0 THEN DoesNothing ELSE InOrder(f[k - 1], results[k])]
             Good == {d \in Nat : \E f : Solves(f, d)}
  <1>1. 0 \in Good
    <2>1. Solves([k \in 0 .. 0 |-> DoesNothing], 0)
      OBVIOUS
    <2> HIDE DEF Solves
    <2> QED
      BY <2>1
  <1>2. ASSUME NEW d \in Nat, d \in Good PROVE d + 1 \in Good
    <2>1. PICK f : Solves(f, d)
      BY <1>2
    <2>2. \A k \in 0 .. d : f[k] = IF k = 0 THEN DoesNothing ELSE InOrder(f[k - 1], results[k])
      BY <2>1
    <2> DEFINE g == [k \in 0 .. d + 1 |-> IF k = d + 1 THEN InOrder(f[d], results[d + 1]) ELSE f[k]]
    <2>3. ASSUME NEW k \in 0 .. d + 1
          PROVE  g[k] = IF k = 0 THEN DoesNothing ELSE InOrder(g[k - 1], results[k])
      <3>1. CASE k = d + 1
        <4>1. g[k] = InOrder(f[d], results[d + 1]) /\ g[k - 1] = f[d] /\ k - 1 = d /\ k # 0
          BY <3>1
        <4> HIDE DEF g
        <4> QED
          BY <3>1, <4>1
      <3>2. CASE k # d + 1
        <4>1. k \in 0 .. d /\ g[k] = f[k]
          BY <3>2
        <4>2. k # 0 => g[k - 1] = f[k - 1]
          BY <3>2
        <4> HIDE DEF g
        <4> QED
          BY <2>2, <4>1, <4>2
      <3> QED
        BY <3>1, <3>2
    <2>4. Solves(g, d + 1)
      <3>1. g = [k \in 0 .. d + 1 |-> g[k]]
        OBVIOUS
      <3> HIDE DEF g
      <3> QED
        BY <2>3, <3>1
    <2> HIDE DEF Solves, g
    <2> QED
      BY <2>4
  <1>3. \E f : Solves(f, Len(results))
    <2> HIDE DEF Good
    <2>1. Len(results) \in Good
      BY <1>1, <1>2, Counting
    <2> QED
      BY <2>1 DEF Good
  <1> DEFINE solution == CHOOSE f : Solves(f, Len(results))
  <1>4. Solves(solution, Len(results))
    <2> HIDE DEF Solves
    <2> QED
      BY <1>3
  <1>5. AllInOrder(results) = solution[Len(results)]
    BY DEF AllInOrder
  <1> HIDE DEF solution
  <1>6. Orders(solution, results)
    BY <1>4 DEF Orders
  <1> QED
    BY <1>5, <1>6

(* What a graph does in k steps at most. *)
PathsStep(f, k, nodes, val) ==
  [n \in DOMAIN nodes |->
     CASE k = 0 -> DoesNothing
       [] k # 0 /\ nodes[n].kind = "exit" ->
            Returns(IF nodes[n].accept THEN "ACCEPT" ELSE "REJECT")
       [] k # 0 /\ nodes[n].kind = "extract" ->
            InOrder(Reads(nodes[n].attr), f[k - 1][nodes[n].next])
       [] k # 0 /\ nodes[n].kind = "if" ->
            f[k - 1][IF Masked(val[nodes[n].attr], nodes[n].mask) = nodes[n].value
                     THEN nodes[n].next_true ELSE nodes[n].next_false]]

(* They depend on one step less only. *)
LEMMA PathsLocal ==
  ASSUME NEW f, NEW g, NEW k, NEW nodes, NEW val, k # 0 => f[k - 1] = g[k - 1]
  PROVE  PathsStep(f, k, nodes, val) = PathsStep(g, k, nodes, val)
  <1>1. CASE k = 0
    BY <1>1 DEF PathsStep
  <1>2. CASE k # 0
    BY <1>2 DEF PathsStep
  <1> QED
    BY <1>1, <1>2

(* So Paths is what its recursive definition says. *)
LEMMA PathsSolves ==
  ASSUME NEW nodes, Len(nodes) \in Nat, NEW val
  PROVE  Paths(nodes, val) = [k \in 0 .. Len(nodes) |-> PathsStep(Paths(nodes, val), k, nodes, val)]
  <1> DEFINE Solves(f, d) == f = [k \in 0 .. d |-> PathsStep(f, k, nodes, val)]
             Good == {d \in Nat : \E f : Solves(f, d)}
  <1>1. 0 \in Good
    <2> DEFINE f == [k \in 0 .. 0 |-> PathsStep(<<>>, k, nodes, val)]
    <2>1. \A k \in 0 .. 0 : PathsStep(f, k, nodes, val) = PathsStep(<<>>, k, nodes, val)
      BY PathsLocal
    <2>2. Solves(f, 0)
      BY <2>1
    <2> HIDE DEF Solves, f
    <2> QED
      BY <2>2
  <1>2. ASSUME NEW d \in Nat, d \in Good PROVE d + 1 \in Good
    <2>1. PICK f : Solves(f, d)
      BY <1>2
    <2> DEFINE h == [k \in 0 .. d + 1 |-> PathsStep(f, k, nodes, val)]
    <2>2. \A k \in 0 .. d : h[k] = f[k]
      BY <2>1
    <2>3. \A k \in 0 .. d + 1 : PathsStep(h, k, nodes, val) = PathsStep(f, k, nodes, val)
      <3>1. \A k \in 0 .. d + 1 : k # 0 => k - 1 \in 0 .. d
        OBVIOUS
      <3> HIDE DEF h
      <3> QED
        BY <2>2, <3>1, PathsLocal
    <2>4. Solves(h, d + 1)
      BY <2>3
    <2> HIDE DEF Solves, h
    <2> QED
      BY <2>4
  <1>3. \E f : Solves(f, Len(nodes))
    <2> HIDE DEF Good
    <2>1. Len(nodes) \in Good
      BY <1>1, <1>2, Counting
    <2> QED
      BY <2>1 DEF Good
  <1> QED
    BY <1>3 DEF Paths, PathsStep

-----------------------------------------------------------------------------
(* The nodes of a statement.                                               *)
BuiltParts(s) == [k \in DOMAIN s.body |-> Build[s.body[k]]]

(* The nodes of each kind of statement. *)
LEMMA BuildCases ==
  ASSUME NEW s \in Statement
  PROVE  /\ s.op = "extract_field" => Build[s] = Created(ExtractNode(s.attr), {"next"})
         /\ s.op = "return" => Build[s] = Created(ExitNode(s.verdict), {})
         /\ s.op = "if" => Build[s] = Joined(s.test, Build[s.then], Build[s.else])
         /\ s.op = "block" => Build[s] = AllChained(BuiltParts(s))
         /\ s.op \in {"extract", "none", "other", "error", "empty", "garbled"} => Build[s] = Nothing
  BY BuildSolves DEF BuildStep, BuiltParts

(* Chaining well-built results gives well-built ones. *)
LEMMA ChainsBuilt ==
  ASSUME NEW results, Len(results) \in Nat, \A k \in 1 .. Len(results) : WellBuilt(results[k]),
         NEW q, Chains(q, results)
  PROVE  /\ q[0] = Nothing
         /\ \A k \in 0 .. Len(results) : WellBuilt(q[k])
         /\ \A k \in 1 .. Len(results) : q[k] = Chained(q[k - 1], results[k])
  <1>1. \A k \in 0 .. Len(results) : q[k] = IF k = 0 THEN Nothing ELSE Chained(q[k - 1], results[k])
    BY DEF Chains
  <1>2. q[0] = Nothing /\ \A k \in 1 .. Len(results) : q[k] = Chained(q[k - 1], results[k])
    BY <1>1
  <1> DEFINE Good == {k \in Nat : k \in 0 .. Len(results) => WellBuilt(q[k])}
  <1>3. 0 \in Good
    BY <1>2, NothingBuilt
  <1>4. ASSUME NEW k \in Nat, k \in Good PROVE k + 1 \in Good
    <2> SUFFICES ASSUME k + 1 \in 0 .. Len(results) PROVE WellBuilt(q[k + 1])
      OBVIOUS
    <2>1. k \in 0 .. Len(results) /\ k + 1 \in 1 .. Len(results) /\ (k + 1) - 1 = k
      OBVIOUS
    <2>2. q[k + 1] = Chained(q[k], results[k + 1])
      BY <1>2, <2>1
    <2>3. WellBuilt(q[k]) /\ WellBuilt(results[k + 1])
      BY <1>4, <2>1
    <2>3a. PICK a : a = q[k]
      OBVIOUS
    <2>3b. PICK b : b = results[k + 1]
      OBVIOUS
    <2>3c. WellBuilt(a) /\ WellBuilt(b) /\ q[k + 1] = Chained(a, b)
      BY <2>2, <2>3, <2>3a, <2>3b
    <2>4. CASE a.start = Unset \/ b.start = Unset
      BY <2>3c, <2>4, ChainedNothing
    <2>5. CASE a.start # Unset /\ b.start # Unset
      <3>1. IsChain(Chained(a, b), a, b, Len(a.nodes))
        BY <2>3c, <2>5, ChainedFacts
      <3> QED
        BY <2>3c, <3>1 DEF IsChain
    <2> QED
      BY <2>4, <2>5
  <1> HIDE DEF Good
  <1>5. Nat \subseteq Good
    BY <1>3, <1>4, Counting
  <1> QED
    BY <1>2, <1>5 DEF Good

(* The statements of a block and their nodes. *)
LEMMA PartsOfBlock ==
  ASSUME NEW s \in Statement, s.op = "block"
  PROVE  /\ s.body \in Seq(Statement) /\ Len(s.body) \in Nat /\ DOMAIN s.body = 1 .. Len(s.body)
         /\ Len(BuiltParts(s)) = Len(s.body)
         /\ \A k \in 1 .. Len(s.body) : /\ s.body[k] \in Children(s) /\ s.body[k] \in Statement
                                        /\ BuiltParts(s)[k] = Build[s.body[k]]
  <1>1. s.body \in Seq(Statement)
    BY StatementShape, Shapes
  <1>2. Len(s.body) \in Nat /\ DOMAIN s.body = 1 .. Len(s.body)
        /\ \A k \in 1 .. Len(s.body) : s.body[k] \in ToSet(s.body) /\ s.body[k] \in Statement
    BY <1>1, Elements
  <1>3. BuiltParts(s) = [k \in 1 .. Len(s.body) |-> Build[s.body[k]]]
    BY <1>2 DEF BuiltParts
  <1>4. Len(BuiltParts(s)) = Len(s.body)
    BY <1>2, <1>3
  <1> QED
    BY <1>1, <1>2, <1>3, <1>4 DEF Children

(* Whatever is visited, the result is well built. *)
LEMMA BuildBuilt == \A s \in Statement : WellBuilt(Build[s])
  <1> DEFINE Good == {s \in Statement : WellBuilt(Build[s])}
  <1>1. ASSUME NEW s \in Statement, Children(s) \subseteq Statement, Children(s) \subseteq Good
        PROVE  s \in Good
    <2>0. s \in Nest(Statement)
      BY StatementShape
    <2>1. CASE s.op = "extract_field"
      <3>1. PICK a \in Attribute : a = s.attr
        BY <2>0, <2>1, Shapes
      <3>2. ExtractNode(a) \in Node
        BY MadeNodes
      <3>3. PICK v \in Node : v = ExtractNode(a)
        BY <3>2
      <3>4. {"next"} \in SUBSET Pointers
        BY DEF Pointers
      <3>5. WellBuilt(Created(v, {"next"}))
        BY <3>4, CreatedBuilt
      <3>6. Build[s] = Created(v, {"next"})
        BY <2>1, <3>1, <3>3, BuildCases
      <3> QED
        BY <3>5, <3>6
    <2>2. CASE s.op = "return"
      <3>1. PICK v \in Node : v = ExitNode(s.verdict)
        BY MadeNodes
      <3>2. {} \in SUBSET Pointers
        OBVIOUS
      <3>3. WellBuilt(Created(v, {}))
        BY <3>2, CreatedBuilt
      <3>4. Build[s] = Created(v, {})
        BY <2>2, <3>1, BuildCases
      <3> QED
        BY <3>3, <3>4
    <2>3. CASE s.op = "if"
      <3>1. s.test \in Condition /\ s.then \in Children(s) /\ s.else \in Children(s)
        BY <2>0, <2>3, Shapes DEF Children
      <3>2. PICK first : first = Build[s.then]
        OBVIOUS
      <3>3. PICK second : second = Build[s.else]
        OBVIOUS
      <3>4. WellBuilt(first) /\ WellBuilt(second)
        BY <1>1, <3>1, <3>2, <3>3
      <3>5. PICK test \in Condition : test = s.test
        BY <3>1
      <3>6. Build[s] = Joined(test, first, second)
        BY <2>3, <3>2, <3>3, <3>5, BuildCases
      <3>7. CASE first.start # Unset \/ second.start # Unset
        <4>1. \E k, m, t, e : IsJoin(Joined(test, first, second), test, first, second, k, m, t, e)
          BY <3>4, <3>7, JoinedFacts
        <4>2. WellBuilt(Joined(test, first, second))
          BY <4>1 DEF IsJoin
        <4> QED
          BY <3>6, <4>2
      <3>8. CASE first.start = Unset /\ second.start = Unset
        BY <3>6, <3>8, JoinedNothing, NothingBuilt
      <3> QED
        BY <3>7, <3>8
    <2>4. CASE s.op = "block"
      <3>1. PICK results : results = BuiltParts(s)
        OBVIOUS
      <3>2. Len(results) \in Nat /\ \A k \in 1 .. Len(results) : WellBuilt(results[k])
        BY <1>1, <2>4, <3>1, PartsOfBlock
      <3>3. PICK q : Chains(q, results) /\ AllChained(results) = q[Len(results)]
        BY <3>2, ChainExists
      <3>4. WellBuilt(q[Len(results)])
        BY <3>2, <3>3, ChainsBuilt
      <3> QED
        BY <2>4, <3>1, <3>3, <3>4, BuildCases
    <2>5. CASE s.op \in {"extract", "none", "other", "error", "empty", "garbled"}
      BY <2>5, BuildCases, NothingBuilt
    <2>6. s.op \in {"extract", "extract_field", "return", "if", "block",
                    "none", "other", "error", "empty", "garbled"}
      BY <2>0, Shapes
    <2> HIDE DEF Good
    <2> QED
      BY <2>1, <2>2, <2>3, <2>4, <2>5, <2>6
  <1> HIDE DEF Good
  <1>2. Statement \subseteq Good
    BY <1>1, StatementInduction
  <1> QED
    BY <1>2 DEF Good

(* Positions behind the first k. *)
LEMMA SecondPart ==
  ASSUME NEW k \in Nat, NEW m \in Nat, NEW n \in 1 .. k + m, n \notin 1 .. k
  PROVE  n - k \in 1 .. m /\ k + (n - k) = n
  OBVIOUS

(* Positions before the last. *)
LEMMA MiddlePart ==
  ASSUME NEW k \in Nat, NEW m \in Nat, NEW n \in 1 .. k + m + 1, n # k + m + 1
  PROVE  n \in 1 .. k + m
  OBVIOUS

-----------------------------------------------------------------------------
(* What statements do, one behind the other.                               *)
Ending == {"none", "ACCEPT", "REJECT"}

(* What a statement does to elements of S, and how it ends. *)
Outcome(S) == [reads : Seq(S), verdict : Ending]

(* An outcome is a record of what is read and the verdict. *)
LEMMA OutcomeShape ==
  ASSUME NEW S, NEW r \in Outcome(S)
  PROVE  r.reads \in Seq(S) /\ r.verdict \in Ending /\ r = [reads |-> r.reads, verdict |-> r.verdict]
  BY DEF Outcome

(* Such a record is an outcome. *)
LEMMA OutcomeMade ==
  ASSUME NEW S, NEW q \in Seq(S), NEW v \in Ending
  PROVE  [reads |-> q, verdict |-> v] \in Outcome(S)
  BY DEF Outcome

(* Nothing happens behind a return. *)
LEMMA InOrderCases ==
  ASSUME NEW a, NEW b
  PROVE  /\ a.verdict # "none" => InOrder(a, b) = a
         /\ a.verdict = "none" => InOrder(a, b) = [reads |-> Then(a.reads, b.reads), verdict |-> b.verdict]
  BY DEF InOrder, Then

(* One outcome behind the other is one. *)
LEMMA InOrderTyped ==
  ASSUME NEW S, NEW a \in Outcome(S), NEW b \in Outcome(S)
  PROVE  InOrder(a, b) \in Outcome(S)
  <1>1. CASE a.verdict # "none"
    BY <1>1, InOrderCases
  <1>2. CASE a.verdict = "none"
    <2>1. a.reads \in Seq(S) /\ b.reads \in Seq(S) /\ b.verdict \in Ending
      BY OutcomeShape
    <2>2. PICK q : q = Then(a.reads, b.reads)
      OBVIOUS
    <2>3. q \in Seq(S)
      BY <2>1, <2>2, ThenFacts
    <2> QED
      BY <1>2, <2>1, <2>2, <2>3, InOrderCases, OutcomeMade
  <1> QED
    BY <1>1, <1>2

(* Doing nothing is an outcome. *)
LEMMA NothingTyped ==
  ASSUME NEW S
  PROVE  DoesNothing \in Outcome(S)
  <1>1. <<>> \in Seq(S)
    OBVIOUS
  <1>2. PICK empty \in Seq(S) : empty = <<>>
    BY <1>1
  <1>3. "none" \in Ending
    BY DEF Ending
  <1>4. [reads |-> empty, verdict |-> "none"] \in Outcome(S)
    BY <1>3, OutcomeMade
  <1> QED
    BY <1>2, <1>4 DEF DoesNothing

(* Doing nothing, before or after, changes nothing. *)
LEMMA InOrderUnits ==
  ASSUME NEW S, NEW a \in Outcome(S)
  PROVE  DoesNothing \in Outcome(S) /\ InOrder(DoesNothing, a) = a /\ InOrder(a, DoesNothing) = a
  <1>1. DoesNothing = [reads |-> <<>>, verdict |-> "none"]
    BY DEF DoesNothing
  <1>2. PICK none : none = DoesNothing
    OBVIOUS
  <1>3. none.reads = <<>> /\ none.verdict = "none"
    BY <1>1, <1>2
  <1>5. none \in Outcome(S)
    BY <1>2, NothingTyped
  <1>6. a.reads \in Seq(S) /\ a = [reads |-> a.reads, verdict |-> a.verdict]
    BY OutcomeShape
  <1>7. Then(<<>>, a.reads) = a.reads /\ Then(a.reads, <<>>) = a.reads
    BY <1>6, ThenFacts
  <1>8. InOrder(none, a) = a
    BY <1>3, <1>6, <1>7, InOrderCases
  <1>9. InOrder(a, none) = a
    <2>1. CASE a.verdict # "none"
      BY <2>1, InOrderCases
    <2>2. CASE a.verdict = "none"
      BY <1>3, <1>6, <1>7, <2>2, InOrderCases
    <2> QED
      BY <2>1, <2>2
  <1> QED
    BY <1>2, <1>5, <1>8, <1>9

(* InOrder is associative. *)
LEMMA InOrderAssociative ==
  ASSUME NEW S, NEW a \in Outcome(S), NEW b \in Outcome(S), NEW c \in Outcome(S)
  PROVE  InOrder(InOrder(a, b), c) = InOrder(a, InOrder(b, c))
  <1>1. CASE a.verdict # "none"
    BY <1>1, InOrderCases
  <1>2. CASE a.verdict = "none"
    <2>1. PICK ab : ab = InOrder(a, b)
      OBVIOUS
    <2>2. ab = [reads |-> Then(a.reads, b.reads), verdict |-> b.verdict]
      BY <1>2, <2>1, InOrderCases
    <2>3. ab.reads = Then(a.reads, b.reads) /\ ab.verdict = b.verdict
      BY <2>2
    <2>4. CASE b.verdict # "none"
      <3>1. InOrder(ab, c) = ab /\ InOrder(b, c) = b
        BY <2>3, <2>4, InOrderCases
      <3> QED
        BY <2>1, <3>1
    <2>5. CASE b.verdict = "none"
      <3>1. PICK bc : bc = InOrder(b, c)
        OBVIOUS
      <3>2. bc = [reads |-> Then(b.reads, c.reads), verdict |-> c.verdict]
        BY <2>5, <3>1, InOrderCases
      <3>3. bc.reads = Then(b.reads, c.reads) /\ bc.verdict = c.verdict
        BY <3>2
      <3>4. InOrder(ab, c) = [reads |-> Then(Then(a.reads, b.reads), c.reads), verdict |-> c.verdict]
        BY <2>3, <2>5, InOrderCases
      <3>5. InOrder(a, bc) = [reads |-> Then(a.reads, Then(b.reads, c.reads)), verdict |-> c.verdict]
        BY <1>2, <3>3, InOrderCases
      <3>6. Then(Then(a.reads, b.reads), c.reads) = Then(a.reads, Then(b.reads, c.reads))
        <4>1. a.reads \in Seq(S) /\ b.reads \in Seq(S) /\ c.reads \in Seq(S)
          BY OutcomeShape
        <4> QED
          BY <4>1, ThenAssociative
      <3> QED
        BY <2>1, <3>1, <3>4, <3>5, <3>6
    <2> QED
      BY <2>4, <2>5
  <1> QED
    BY <1>1, <1>2

(* Each result goes behind those before it. *)
LEMMA OrdersFacts ==
  ASSUME NEW results, NEW q, Orders(q, results), Len(results) \in Nat
  PROVE  q[0] = DoesNothing /\ \A k \in 1 .. Len(results) : q[k] = InOrder(q[k - 1], results[k])
  <1>1. \A k \in 0 .. Len(results) : q[k] = IF k = 0 THEN DoesNothing ELSE InOrder(q[k - 1], results[k])
    BY DEF Orders
  <1> QED
    BY <1>1

(* They are all outcomes. *)
LEMMA OrdersTyped ==
  ASSUME NEW S, NEW results \in Seq(Outcome(S)), NEW q, Orders(q, results)
  PROVE  \A k \in 0 .. Len(results) : q[k] \in Outcome(S)
  <1>0. Len(results) \in Nat /\ \A k \in 1 .. Len(results) : results[k] \in Outcome(S)
    BY Elements
  <1>1. q[0] = DoesNothing /\ \A k \in 1 .. Len(results) : q[k] = InOrder(q[k - 1], results[k])
    BY <1>0, OrdersFacts
  <1> DEFINE Good == {k \in Nat : k \in 0 .. Len(results) => q[k] \in Outcome(S)}
  <1>2. 0 \in Good
    <2>1. DoesNothing \in Outcome(S)
      BY NothingTyped
    <2> QED
      BY <1>1, <2>1
  <1>3. ASSUME NEW k \in Nat, k \in Good PROVE k + 1 \in Good
    <2> SUFFICES ASSUME k + 1 \in 0 .. Len(results) PROVE q[k + 1] \in Outcome(S)
      OBVIOUS
    <2>1. k \in 0 .. Len(results) /\ k + 1 \in 1 .. Len(results) /\ (k + 1) - 1 = k
      BY <1>0
    <2>2. q[k] \in Outcome(S) /\ results[k + 1] \in Outcome(S) /\ q[k + 1] = InOrder(q[k], results[k + 1])
      BY <1>0, <1>1, <1>3, <2>1
    <2> QED
      BY <2>2, InOrderTyped
  <1> HIDE DEF Good
  <1>4. Nat \subseteq Good
    BY <1>2, <1>3, Counting
  <1> QED
    BY <1>4 DEF Good

(* So is the last. *)
LEMMA AllInOrderTyped ==
  ASSUME NEW S, NEW results \in Seq(Outcome(S))
  PROVE  AllInOrder(results) \in Outcome(S)
  <1>1. Len(results) \in Nat
    OBVIOUS
  <1>2. PICK q : Orders(q, results) /\ AllInOrder(results) = q[Len(results)]
    BY <1>1, OrderExists
  <1>3. q[Len(results)] \in Outcome(S)
    BY <1>1, <1>2, OrdersTyped
  <1> QED
    BY <1>2, <1>3

(* c is a with b behind it. *)
IsThen(c, a, b, S) ==
  /\ Len(a) \in Nat /\ Len(b) \in Nat
  /\ c \in Seq(S) /\ Len(c) = Len(a) + Len(b)
  /\ \A k \in 1 .. Len(a) : c[k] = a[k]
  /\ \A k \in 1 .. Len(b) : c[Len(a) + k] = b[k]

(* Then is that sequence. *)
LEMMA ThenIs ==
  ASSUME NEW S, NEW a \in Seq(S), NEW b \in Seq(S)
  PROVE  IsThen(Then(a, b), a, b, S)
  <1>1. PICK n \in Nat : n = Len(a)
    OBVIOUS
  <1>2. PICK m \in Nat : m = Len(b)
    OBVIOUS
  <1> QED
    BY <1>1, <1>2, ThenAt DEF IsThen

(* The results of two sequences, one behind the other. *)
LEMMA OrderThen ==
  ASSUME NEW S, NEW x \in Seq(Outcome(S)), NEW y \in Seq(Outcome(S))
  PROVE  AllInOrder(Then(x, y)) = InOrder(AllInOrder(x), AllInOrder(y))
  <1>1. PICK n \in Nat : n = Len(x)
    OBVIOUS
  <1>2. PICK m \in Nat : m = Len(y)
    OBVIOUS
  <1>3. PICK z : z = Then(x, y)
    OBVIOUS
  <1>4. /\ z \in Seq(Outcome(S)) /\ Len(z) = n + m
        /\ \A k \in 1 .. n : z[k] = x[k]
        /\ \A k \in 1 .. m : z[n + k] = y[k]
    <2>1. PICK R : R = Outcome(S)
      OBVIOUS
    <2>2. x \in Seq(R) /\ y \in Seq(R)
      BY <2>1
    <2>3. IsThen(Then(x, y), x, y, R)
      BY <2>2, ThenIs
    <2>4. IsThen(z, x, y, Outcome(S))
      BY <1>3, <2>1, <2>3
    <2> QED
      BY <1>1, <1>2, <2>4 DEF IsThen
  <1>5. PICK p : Orders(p, x) /\ AllInOrder(x) = p[n]
    BY <1>1, OrderExists
  <1>6. PICK q : Orders(q, y) /\ AllInOrder(y) = q[m]
    BY <1>2, OrderExists
  <1>7. PICK r : Orders(r, z) /\ AllInOrder(z) = r[n + m]
    <2>1. n + m \in Nat
      OBVIOUS
    <2> QED
      BY <1>4, <2>1, OrderExists
  <1>8. p[0] = DoesNothing /\ \A k \in 1 .. n : p[k] = InOrder(p[k - 1], x[k])
    BY <1>1, <1>5, OrdersFacts
  <1>9. q[0] = DoesNothing /\ \A k \in 1 .. m : q[k] = InOrder(q[k - 1], y[k])
    BY <1>2, <1>6, OrdersFacts
  <1>10. r[0] = DoesNothing /\ \A k \in 1 .. n + m : r[k] = InOrder(r[k - 1], z[k])
    <2>1. n + m \in Nat
      OBVIOUS
    <2> QED
      BY <1>4, <1>7, <2>1, OrdersFacts
  <1>11. \A k \in 0 .. m : q[k] \in Outcome(S)
    BY <1>2, <1>6, OrdersTyped
  <1>11a. \A k \in 0 .. n : p[k] \in Outcome(S)
    BY <1>1, <1>5, OrdersTyped
  <1>11b. \A k \in 1 .. m : y[k] \in Outcome(S)
    BY <1>2, Elements
  <1> DEFINE Same == {k \in Nat : k \in 0 .. n => r[k] = p[k]}
  <1>12. 0 \in Same
    BY <1>8, <1>10
  <1>13. ASSUME NEW k \in Nat, k \in Same PROVE k + 1 \in Same
    <2> SUFFICES ASSUME k + 1 \in 0 .. n PROVE r[k + 1] = p[k + 1]
      OBVIOUS
    <2>1. k \in 0 .. n /\ k + 1 \in 1 .. n /\ k + 1 \in 1 .. n + m /\ (k + 1) - 1 = k
      OBVIOUS
    <2>2. r[k + 1] = InOrder(r[k], z[k + 1])
      BY <1>10, <2>1
    <2>3. p[k + 1] = InOrder(p[k], x[k + 1])
      BY <1>8, <2>1
    <2>4. z[k + 1] = x[k + 1] /\ r[k] = p[k]
      BY <1>4, <1>13, <2>1
    <2> QED
      BY <2>2, <2>3, <2>4
  <1>14. r[n] = p[n]
    <2> HIDE DEF Same
    <2>1. Nat \subseteq Same
      BY <1>12, <1>13, Counting
    <2>2. n \in 0 .. n
      OBVIOUS
    <2> QED
      BY <2>1, <2>2 DEF Same
  <1> DEFINE Good == {k \in Nat : k \in 0 .. m => r[n + k] = InOrder(p[n], q[k])}
  <1>15. 0 \in Good
    <2>1. n + 0 = n /\ n \in 0 .. n
      OBVIOUS
    <2>2. InOrder(p[n], DoesNothing) = p[n]
      BY <1>11a, <2>1, InOrderUnits
    <2> QED
      BY <1>9, <1>14, <2>1, <2>2
  <1>16. ASSUME NEW k \in Nat, k \in Good PROVE k + 1 \in Good
    <2> SUFFICES ASSUME k + 1 \in 0 .. m PROVE r[n + (k + 1)] = InOrder(p[n], q[k + 1])
      OBVIOUS
    <2>1. /\ k \in 0 .. m /\ k + 1 \in 1 .. m /\ (k + 1) - 1 = k /\ n \in 0 .. n
          /\ n + (k + 1) \in 1 .. n + m /\ (n + (k + 1)) - 1 = n + k
      OBVIOUS
    <2>2. r[n + (k + 1)] = InOrder(r[n + k], z[n + (k + 1)])
      BY <1>10, <2>1
    <2>3. z[n + (k + 1)] = y[k + 1] /\ r[n + k] = InOrder(p[n], q[k])
      BY <1>4, <1>16, <2>1
    <2>4. q[k + 1] = InOrder(q[k], y[k + 1])
      BY <1>9, <2>1
    <2>5. p[n] \in Outcome(S) /\ q[k] \in Outcome(S) /\ y[k + 1] \in Outcome(S)
      BY <1>11, <1>11a, <1>11b, <2>1
    <2>6. InOrder(InOrder(p[n], q[k]), y[k + 1]) = InOrder(p[n], InOrder(q[k], y[k + 1]))
      BY <2>5, InOrderAssociative
    <2> QED
      BY <2>2, <2>3, <2>4, <2>6
  <1>17. r[n + m] = InOrder(p[n], q[m])
    <2> HIDE DEF Good
    <2>1. Nat \subseteq Good
      BY <1>15, <1>16, Counting
    <2>2. m \in 0 .. m
      OBVIOUS
    <2> QED
      BY <2>1, <2>2 DEF Good
  <1> QED
    BY <1>3, <1>5, <1>6, <1>7, <1>17

(* The result of one. *)
LEMMA OrderOne ==
  ASSUME NEW S, NEW r \in Outcome(S), NEW one, one = <<r>>
  PROVE  AllInOrder(one) = r
  <1>1. Len(one) = 1 /\ one[1] = r
    OBVIOUS
  <1>2. PICK q : Orders(q, one) /\ AllInOrder(one) = q[1]
    BY <1>1, OrderExists
  <1>3. q[0] = DoesNothing /\ q[1] = InOrder(q[0], one[1])
    <2>1. q[0] = DoesNothing /\ \A k \in 1 .. 1 : q[k] = InOrder(q[k - 1], one[k])
      BY <1>1, <1>2, OrdersFacts
    <2>2. 1 \in 1 .. 1 /\ 1 - 1 = 0
      OBVIOUS
    <2> QED
      BY <2>1, <2>2
  <1> QED
    BY <1>1, <1>2, <1>3, InOrderUnits

(* Flattening one sequence behind the other. *)
LEMMA FlattenThen ==
  ASSUME NEW S, NEW x \in Seq(Seq(S)), NEW y \in Seq(Seq(S))
  PROVE  FlattenSeq(Then(x, y)) = Then(FlattenSeq(x), FlattenSeq(y))
  <1>0. IsThen(Then(x, y), x, y, Seq(S))
    BY ThenIs
  <1>1. PICK n \in Nat : n = Len(x)
    BY <1>0 DEF IsThen
  <1>2. PICK m \in Nat : m = Len(y)
    BY <1>0 DEF IsThen
  <1>3. PICK z : z = Then(x, y)
    OBVIOUS
  <1>4. /\ z \in Seq(Seq(S)) /\ Len(z) = n + m
        /\ \A k \in 1 .. n : z[k] = x[k]
        /\ \A k \in 1 .. m : z[n + k] = y[k]
    BY <1>0, <1>1, <1>2, <1>3 DEF IsThen
  <1>5. PICK p : Flattens(p, x) /\ FlattenSeq(x) = p[n]
    BY <1>1, FlattenExists
  <1>6. PICK q : Flattens(q, y) /\ FlattenSeq(y) = q[m]
    BY <1>2, FlattenExists
  <1>7. PICK r : Flattens(r, z) /\ FlattenSeq(z) = r[n + m]
    BY <1>4, FlattenExists
  <1>8. p[0] = <<>> /\ \A k \in 1 .. n : p[k] = Then(p[k - 1], x[k])
    BY <1>1, <1>5 DEF Flattens
  <1>9. q[0] = <<>> /\ \A k \in 1 .. m : q[k] = Then(q[k - 1], y[k])
    BY <1>2, <1>6 DEF Flattens
  <1>10. r[0] = <<>> /\ \A k \in 1 .. n + m : r[k] = Then(r[k - 1], z[k])
    BY <1>4, <1>7 DEF Flattens
  <1>11. \A k \in 0 .. m : q[k] \in Seq(S)
    <2>1. q \in [0 .. m -> Seq(S)]
      BY <1>2, <1>6, FlattensTyped
    <2> QED
      BY <2>1
  <1>11a. \A k \in 0 .. n : p[k] \in Seq(S)
    <2>1. p \in [0 .. n -> Seq(S)]
      BY <1>1, <1>5, FlattensTyped
    <2> QED
      BY <2>1
  <1>11b. \A k \in 1 .. m : y[k] \in Seq(S)
    BY <1>2, Elements
  <1> DEFINE Same == {k \in Nat : k \in 0 .. n => r[k] = p[k]}
  <1>12. 0 \in Same
    BY <1>8, <1>10
  <1>13. ASSUME NEW k \in Nat, k \in Same PROVE k + 1 \in Same
    <2> SUFFICES ASSUME k + 1 \in 0 .. n PROVE r[k + 1] = p[k + 1]
      OBVIOUS
    <2>1. k \in 0 .. n /\ k + 1 \in 1 .. n /\ k + 1 \in 1 .. n + m /\ (k + 1) - 1 = k
      OBVIOUS
    <2>2. r[k + 1] = Then(r[k], z[k + 1])
      BY <1>10, <2>1
    <2>3. p[k + 1] = Then(p[k], x[k + 1])
      BY <1>8, <2>1
    <2>4. z[k + 1] = x[k + 1] /\ r[k] = p[k]
      BY <1>4, <1>13, <2>1
    <2> QED
      BY <2>2, <2>3, <2>4
  <1>14. r[n] = p[n]
    <2> HIDE DEF Same
    <2>1. Nat \subseteq Same
      BY <1>12, <1>13, Counting
    <2>2. n \in 0 .. n
      OBVIOUS
    <2> QED
      BY <2>1, <2>2 DEF Same
  <1> DEFINE Good == {k \in Nat : k \in 0 .. m => r[n + k] = Then(p[n], q[k])}
  <1>15. 0 \in Good
    <2>1. n + 0 = n /\ n \in 0 .. n
      OBVIOUS
    <2>2. Then(p[n], <<>>) = p[n]
      BY <1>11a, <2>1, ThenFacts
    <2> QED
      BY <1>9, <1>14, <2>1, <2>2
  <1>16. ASSUME NEW k \in Nat, k \in Good PROVE k + 1 \in Good
    <2> SUFFICES ASSUME k + 1 \in 0 .. m PROVE r[n + (k + 1)] = Then(p[n], q[k + 1])
      OBVIOUS
    <2>1. /\ k \in 0 .. m /\ k + 1 \in 1 .. m /\ (k + 1) - 1 = k /\ n \in 0 .. n
          /\ n + (k + 1) \in 1 .. n + m /\ (n + (k + 1)) - 1 = n + k
      OBVIOUS
    <2>2. r[n + (k + 1)] = Then(r[n + k], z[n + (k + 1)])
      BY <1>10, <2>1
    <2>3. z[n + (k + 1)] = y[k + 1] /\ r[n + k] = Then(p[n], q[k])
      BY <1>4, <1>16, <2>1
    <2>4. q[k + 1] = Then(q[k], y[k + 1])
      BY <1>9, <2>1
    <2>5. p[n] \in Seq(S) /\ q[k] \in Seq(S) /\ y[k + 1] \in Seq(S)
      BY <1>11, <1>11a, <1>11b, <2>1
    <2>6. Then(Then(p[n], q[k]), y[k + 1]) = Then(p[n], Then(q[k], y[k + 1]))
      BY <2>5, ThenAssociative
    <2> QED
      BY <2>2, <2>3, <2>4, <2>6
  <1>17. r[n + m] = Then(p[n], q[m])
    <2> HIDE DEF Good
    <2>1. Nat \subseteq Good
      BY <1>15, <1>16, Counting
    <2>2. m \in 0 .. m
      OBVIOUS
    <2> QED
      BY <2>1, <2>2 DEF Good
  <1> QED
    BY <1>3, <1>5, <1>6, <1>7, <1>17

(* Flattening one. *)
LEMMA FlattenOne ==
  ASSUME NEW S, NEW s \in Seq(S), NEW one, one = <<s>>
  PROVE  FlattenSeq(one) = s
  <1>1. Len(one) = 1 /\ one[1] = s /\ one \in Seq(Seq(S))
    OBVIOUS
  <1>2. PICK q : Flattens(q, one) /\ FlattenSeq(one) = q[1]
    BY <1>1, FlattenExists
  <1>3. q[0] = <<>> /\ q[1] = Then(q[0], one[1])
    <2>1. q[0] = <<>> /\ \A k \in 1 .. 1 : q[k] = Then(q[k - 1], one[k])
      BY <1>1, <1>2 DEF Flattens
    <2>2. 1 \in 1 .. 1 /\ 1 - 1 = 0
      OBVIOUS
    <2> QED
      BY <2>1, <2>2
  <1> QED
    BY <1>1, <1>2, <1>3, ThenFacts

-----------------------------------------------------------------------------
(* What the statements of a program do.                                    *)
DoesOf(es, val) == [k \in DOMAIN es |-> Does(es[k], val)]

(* What each kind of statement does. *)
LEMMA DoesCases ==
  ASSUME NEW s \in Statement, NEW val
  PROVE  /\ s.op = "extract" => Does(s, val) = Reads(s.member)
         /\ s.op = "extract_field" => Does(s, val) = Reads(s.attr)
         /\ s.op = "return" => Does(s, val) = Returns(s.verdict)
         /\ s.op = "if" => Does(s, val) = Does(IF Holds(s.test, val[s.test.attr]) THEN s.then ELSE s.else, val)
         /\ s.op = "block" => Does(s, val) = AllInOrder(DoesOf(s.body, val))
         /\ s.op \in {"none", "other", "error", "empty", "garbled"} => Does(s, val) = DoesNothing
  <1>1. Does(s, val) = DoesStep(Meaning(val), s, val)
    BY DoesSolves
  <1>2. s.op = "block" => DoesOf(s.body, val) = [k \in DOMAIN s.body |-> Meaning(val)[s.body[k]]]
    BY DEF DoesOf, Does
  <1>3. CASE s.op = "if"
    BY <1>1, <1>3 DEF DoesStep, Does
  <1>4. CASE s.op = "block"
    BY <1>1, <1>2, <1>4 DEF DoesStep
  <1>5. CASE s.op \notin {"if", "block"}
    BY <1>1, <1>5 DEF DoesStep
  <1> QED
    BY <1>3, <1>4, <1>5

(* What a sequence of statements does, one by one. *)
LEMMA DoesOfFacts ==
  ASSUME NEW S, NEW R, NEW val, NEW es \in Seq(S), \A k \in 1 .. Len(es) : Does(es[k], val) \in R
  PROVE  /\ DoesOf(es, val) \in Seq(R) /\ Len(DoesOf(es, val)) = Len(es)
         /\ \A k \in 1 .. Len(es) : DoesOf(es, val)[k] = Does(es[k], val)
  <1>1. Len(es) \in Nat /\ DOMAIN es = 1 .. Len(es)
    OBVIOUS
  <1>2. PICK d : d = DoesOf(es, val)
    OBVIOUS
  <1>3. d = [k \in 1 .. Len(es) |-> Does(es[k], val)]
    BY <1>1, <1>2 DEF DoesOf
  <1>4. d = [k \in 1 .. Len(es) |-> d[k]] /\ \A k \in 1 .. Len(es) : d[k] \in R /\ d[k] = Does(es[k], val)
    BY <1>3
  <1>5. d \in Seq(R) /\ Len(d) = Len(es)
    BY <1>1, <1>4, MapIsSeq
  <1> QED
    BY <1>2, <1>4, <1>5

(* An extraction reads one element and goes on. *)
LEMMA ReadsTyped ==
  ASSUME NEW S, NEW x \in S
  PROVE  Reads(x) \in Outcome(S) /\ Reads(x).reads = <<x>> /\ Reads(x).verdict = "none"
  <1>0. <<x>> \in Seq(S)
    OBVIOUS
  <1>1. PICK q \in Seq(S) : q = <<x>>
    BY <1>0
  <1>2. Reads(x) = [reads |-> q, verdict |-> "none"]
    BY <1>1 DEF Reads
  <1> QED
    BY <1>1, <1>2 DEF Outcome, Ending

(* A return reads nothing and ends. *)
LEMMA ReturnsTyped ==
  ASSUME NEW S, NEW v \in Verdicts
  PROVE  Returns(v) \in Outcome(S) /\ Returns(v).reads = <<>> /\ Returns(v).verdict = v
  <1>0. <<>> \in Seq(S)
    OBVIOUS
  <1>1. PICK q \in Seq(S) : q = <<>>
    BY <1>0
  <1>2. Returns(v) = [reads |-> q, verdict |-> v]
    BY <1>1 DEF Returns
  <1> QED
    BY <1>1, <1>2 DEF Outcome, Ending, Verdicts

(* What a part of the source does: it extracts members.                    *)
LEMMA SourceDoesTyped ==
  ASSUME NEW prog \in ParserPrograms, Collectable(prog), NEW val
  PROVE  \A s \in Statement : OfProgram(prog, s) => Does(s, val) \in Outcome(Names(Members(prog)))
  <1> DEFINE Good == {s \in Statement : OfProgram(prog, s) => Does(s, val) \in Outcome(Names(Members(prog)))}
  <1>1. ASSUME NEW s \in Statement, Children(s) \subseteq Statement, Children(s) \subseteq Good
        PROVE  s \in Good
    <2> SUFFICES ASSUME OfProgram(prog, s) PROVE Does(s, val) \in Outcome(Names(Members(prog)))
      OBVIOUS
    <2>1. \A x \in Children(s) : Does(x, val) \in Outcome(Names(Members(prog)))
      BY <1>1, OfProgramFacts
    <2>2. PICK R : R = Names(Members(prog))
      OBVIOUS
    <2>3. CASE s.op = "extract"
      <3>1. s.member \in R
        BY <2>2, <2>3, OfProgramFacts
      <3> QED
        BY <2>2, <2>3, <3>1, DoesCases, ReadsTyped
    <2>4. CASE s.op = "return"
      <3>1. s.verdict \in Verdicts
        BY <2>4, OfProgramFacts
      <3> QED
        BY <2>4, <3>1, DoesCases, ReturnsTyped
    <2>5. CASE s.op = "if"
      <3>1. s.then \in Children(s) /\ s.else \in Children(s)
        BY <2>5, OfProgramFacts
      <3> QED
        BY <2>1, <2>5, <3>1, DoesCases
    <2>6. CASE s.op = "block"
      <3>1. s.body \in Seq(Statement) /\ \A k \in 1 .. Len(s.body) : s.body[k] \in Children(s)
        BY <2>6, OfProgramFacts
      <3>2. \A k \in 1 .. Len(s.body) : Does(s.body[k], val) \in Outcome(R)
        BY <2>1, <2>2, <3>1
      <3>3. PICK O : O = Outcome(R)
        OBVIOUS
      <3>4. DoesOf(s.body, val) \in Seq(O)
        BY <3>1, <3>2, <3>3, DoesOfFacts
      <3>5. AllInOrder(DoesOf(s.body, val)) \in Outcome(R)
        BY <3>3, <3>4, AllInOrderTyped
      <3> QED
        BY <2>2, <2>6, <3>5, DoesCases
    <2>7. CASE s.op = "none"
      BY <2>7, DoesCases, NothingTyped
    <2> QED
      BY <2>3, <2>4, <2>5, <2>6, <2>7, OfProgramFacts
  <1> HIDE DEF Good
  <1>2. Statement \subseteq Good
    BY <1>1, StatementInduction
  <1> QED
    BY <1>2 DEF Good

(* What an emitted statement does: it extracts fields.                     *)
LEMMA EmittedDoesTyped ==
  ASSUME NEW i, NEW val
  PROVE  \A s \in Statement : AllFine(i, s) => Does(s, val) \in Outcome(Attribute)
  <1> DEFINE Good == {s \in Statement : AllFine(i, s) => Does(s, val) \in Outcome(Attribute)}
  <1>1. ASSUME NEW s \in Statement, Children(s) \subseteq Statement, Children(s) \subseteq Good
        PROVE  s \in Good
    <2> SUFFICES ASSUME AllFine(i, s) PROVE Does(s, val) \in Outcome(Attribute)
      OBVIOUS
    <2>0. Fine(i, s) /\ \A x \in Children(s) : AllFine(i, x)
      BY PartsUnion DEF AllFine
    <2>00. s \in Nest(Statement)
      BY StatementShape
    <2>1. \A x \in Children(s) : Does(x, val) \in Outcome(Attribute)
      BY <1>1, <2>0
    <2>2. PICK R : R = Attribute
      OBVIOUS
    <2>3. CASE s.op = "extract_field"
      <3>1. s.attr \in R
        BY <2>00, <2>2, <2>3, Shapes
      <3> QED
        BY <2>2, <2>3, <3>1, DoesCases, ReadsTyped
    <2>4. CASE s.op = "return"
      <3>1. s.verdict \in Verdicts
        BY <2>0, <2>4 DEF Fine
      <3> QED
        BY <2>4, <3>1, DoesCases, ReturnsTyped
    <2>5. CASE s.op = "if"
      <3>1. s.then \in Children(s) /\ s.else \in Children(s)
        BY <2>5 DEF Children
      <3> QED
        BY <2>1, <2>5, <3>1, DoesCases
    <2>6. CASE s.op = "block"
      <3>1. s.body \in Seq(Statement) /\ \A k \in 1 .. Len(s.body) : s.body[k] \in Children(s)
        BY <2>6, PartsOfBlock
      <3>2. \A k \in 1 .. Len(s.body) : Does(s.body[k], val) \in Outcome(R)
        BY <2>1, <2>2, <3>1
      <3>3. PICK O : O = Outcome(R)
        OBVIOUS
      <3>4. DoesOf(s.body, val) \in Seq(O)
        BY <3>1, <3>2, <3>3, DoesOfFacts
      <3>5. AllInOrder(DoesOf(s.body, val)) \in Outcome(R)
        BY <3>3, <3>4, AllInOrderTyped
      <3> QED
        BY <2>2, <2>6, <3>5, DoesCases
    <2>7. CASE s.op \in {"none", "error"}
      BY <2>7, DoesCases, NothingTyped
    <2>8. s.op \in {"extract_field", "return", "block", "if", "none", "error"}
      BY <2>0 DEF Fine
    <2> HIDE DEF Good
    <2> QED
      BY <2>3, <2>4, <2>5, <2>6, <2>7, <2>8
  <1> HIDE DEF Good
  <1>2. Statement \subseteq Good
    BY <1>1, StatementInduction
  <1> QED
    BY <1>2 DEF Good
===============================================================================
