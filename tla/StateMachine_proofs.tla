------------------------- MODULE StateMachine_proofs -------------------------
(***************************************************************************)
(* Facts about the machines the Generator may propose, their transitions   *)
(* and their runs, for every shape, field width and packet size; before    *)
(* them, what proofs about recursive functions need.                       *)
(***************************************************************************)
EXTENDS StateMachine, WellFoundedInduction, TLAPS

(* A non-empty set of numbers below a bound has a greatest element. *)
LEMMA HasGreatest ==
  ASSUME NEW n \in Nat, NEW S, S \subseteq 1 .. n, S # {}
  PROVE  \E i \in S : \A j \in S : i >= j
  <1> DEFINE Below == {n - i : i \in S}
             Less  == {ss \in Nat \X Nat : ss[1] < ss[2]}
  <1>1. Below \subseteq Nat /\ Below # {}
    <2>1. \A i \in S : n - i \in Nat
      OBVIOUS
    <2>2. PICK i \in S : TRUE
      OBVIOUS
    <2>3. n - i \in Below
      OBVIOUS
    <2> QED
      BY <2>1, <2>3
  <1>2. IsWellFoundedOn(Less, Nat)
    BY NatLessThanWellFounded DEF OpToRel
  <1>3. PICK x \in Below : \A y \in Below : ~ (<<y, x>> \in Less)
    <2> HIDE DEF Below, Less
    <2> QED
      BY <1>1, <1>2, WFMin
  <1>4. ASSUME NEW y \in Below PROVE x <= y
    <2>1. x \in Nat /\ y \in Nat
      BY <1>1
    <2>2. ~(y < x)
      BY <1>3, <2>1
    <2> QED
      BY <2>1, <2>2
  <1>5. PICK i \in S : x = n - i
    OBVIOUS
  <1>6. \A j \in S : i >= j
    BY <1>4, <1>5
  <1> QED
    BY <1>6

LEMMA MaxIsMember ==
  ASSUME NEW n \in Nat, NEW S, S \subseteq 1 .. n, S # {}
  PROVE  Max(S) \in S
  BY HasGreatest DEF Max

(* Induction from the last number to the first. *)
LEMMA NodeInduction ==
  ASSUME NEW N \in Nat, NEW Good,
         \A n \in 1 .. N : n + 1 .. N \subseteq Good => n \in Good
  PROVE  1 .. N \subseteq Good
  <1> DEFINE Bad == (1 .. N) \ Good
  <1> SUFFICES ASSUME Bad # {} PROVE FALSE
    OBVIOUS
  <1>1. PICK m \in Bad : \A j \in Bad : m >= j
    <2>1. Bad \subseteq 1 .. N
      OBVIOUS
    <2> HIDE DEF Bad
    <2> QED
      BY <2>1, HasGreatest
  <1>2. \A j \in m + 1 .. N : j \in Good
    BY <1>1
  <1> QED
    BY <1>1, <1>2

LEMMA NextNat ==
  ASSUME NEW x \in Nat, NEW y \in Nat, x >= y, x # y
  PROVE  x >= y + 1
  OBVIOUS

(* A function on arguments that each belong to a node is defined by a step *)
(* that applies it to arguments of later nodes only.                       *)
LooksAhead(N, D, V, node, step) ==
  /\ N \in Nat \ {0}
  /\ V # {}
  /\ node \in [D -> 1 .. N]
  /\ step \in [D \X [D -> V] -> V]
  /\ \A a \in D : \A f, h \in [D -> V] :
        (\A b \in D : node[b] > node[a] => f[b] = h[b]) => step[<<a, f>>] = step[<<a, h>>]

LEMMA RecursionExists ==
  ASSUME NEW N, NEW D, NEW V, NEW node, NEW step, LooksAhead(N, D, V, node, step)
  PROVE  \E f \in [D -> V] : \A a \in D : f[a] = step[<<a, f>>]
  <1> USE DEF LooksAhead
  <1> DEFINE Solves(f, k) == \A a \in D : node[a] >= k => f[a] = step[<<a, f>>]
             Good == {k \in 1 .. N : \E f \in [D -> V] : Solves(f, k)}
  <1>1. ASSUME NEW n \in 1 .. N, n + 1 .. N \subseteq Good
        PROVE  n \in Good
    <2>1. PICK f \in [D -> V] : Solves(f, n + 1)
      <3>1. CASE n < N
        <4>1. n + 1 \in Good
          <5>1. n + 1 \in n + 1 .. N
            BY <3>1
          <5> HIDE DEF Good
          <5> QED
            BY <1>1, <5>1
        <4> HIDE DEF Solves
        <4> QED
          BY <4>1
      <3>2. CASE n = N
        <4>1. PICK v \in V : TRUE
          OBVIOUS
        <4>2. [a \in D |-> v] \in [D -> V]
          OBVIOUS
        <4>3. \A a \in D : ~(node[a] >= n + 1)
          BY <3>2
        <4> QED
          BY <4>2, <4>3
      <3> QED
        BY <3>1, <3>2
    <2> DEFINE h == [a \in D |-> IF node[a] = n THEN step[<<a, f>>] ELSE f[a]]
    <2>2. h \in [D -> V]
      <3>1. \A a \in D : step[<<a, f>>] \in V /\ f[a] \in V
        OBVIOUS
      <3> QED
        BY <3>1
    <2>3. \A b \in D : node[b] > n => h[b] = f[b]
      OBVIOUS
    <2>4. \A a \in D : node[a] >= n => step[<<a, h>>] = step[<<a, f>>]
      <3> SUFFICES ASSUME NEW a \in D, node[a] >= n
                   PROVE  step[<<a, h>>] = step[<<a, f>>]
        OBVIOUS
      <3>1. \A b \in D : node[b] > node[a] => h[b] = f[b]
        <4>1. node[a] \in Nat /\ \A b \in D : node[b] \in Nat
          OBVIOUS
        <4> HIDE DEF h
        <4> QED
          BY <2>3, <4>1
      <3> HIDE DEF h
      <3> QED
        BY <2>2, <3>1
    <2>5. Solves(h, n)
      <3> SUFFICES ASSUME NEW a \in D, node[a] >= n
                   PROVE  h[a] = step[<<a, h>>]
        OBVIOUS
      <3>1. CASE node[a] = n
        <4>1. h[a] = step[<<a, f>>]
          BY <3>1
        <4> QED
          BY <2>4, <4>1
      <3>2. CASE node[a] # n
        <4>1. node[a] >= n + 1
          <5>1. node[a] \in Nat /\ node[a] >= n /\ node[a] # n
            BY <3>2
          <5> HIDE DEF h
          <5> QED
            BY <5>1, NextNat
        <4>2. h[a] = f[a]
          BY <3>2
        <4>3. f[a] = step[<<a, f>>]
          BY <2>1, <4>1
        <4>4. step[<<a, h>>] = step[<<a, f>>]
          BY <2>4
        <4> HIDE DEF h
        <4> QED
          BY <4>2, <4>3, <4>4
      <3> QED
        BY <3>1, <3>2
    <2> HIDE DEF h, Solves
    <2> QED
      BY <2>2, <2>5
  <1>2. 1 .. N \subseteq Good
    <2> HIDE DEF Good
    <2> QED
      BY <1>1, NodeInduction
  <1>3. PICK f \in [D -> V] : Solves(f, 1)
    <2>1. 1 \in Good
      <3> HIDE DEF Good
      <3> QED
        BY <1>2
    <2> HIDE DEF Solves
    <2> QED
      BY <2>1
  <1>4. \A a \in D : node[a] >= 1
    OBVIOUS
  <1> QED
    BY <1>3, <1>4

(* What holds of an argument's value once it holds of the later ones' ...  *)
LEMMA RecursionTyped ==
  ASSUME NEW N \in Nat, NEW D, NEW V, NEW node \in [D -> 1 .. N], NEW w,
         \A a \in D : (\A b \in D : node[b] > node[a] => w[b] \in V) => w[a] \in V
  PROVE  \A a \in D : w[a] \in V
  <1> DEFINE Good == {n \in 1 .. N : \A a \in D : node[a] = n => w[a] \in V}
  <1>1. ASSUME NEW n \in 1 .. N, n + 1 .. N \subseteq Good
        PROVE  n \in Good
    <2> SUFFICES ASSUME NEW a \in D, node[a] = n
                 PROVE  w[a] \in V
      OBVIOUS
    <2>1. ASSUME NEW b \in D, node[b] > node[a]
          PROVE  w[b] \in V
      <3>1. node[b] \in n + 1 .. N
        BY <2>1
      <3> QED
        BY <1>1, <3>1
    <2> HIDE DEF Good
    <2> QED
      BY <2>1
  <1>2. 1 .. N \subseteq Good
    <2> HIDE DEF Good
    <2> QED
      BY <1>1, NodeInduction
  <1> QED
    BY <1>2

(* Induction from one number up to another. *)
LEMMA UpwardInduction ==
  ASSUME NEW n \in Nat, NEW k \in 0 .. n, NEW Good,
         k \in Good, \A i \in k .. n - 1 : i \in Good => i + 1 \in Good
  PROVE  k .. n \subseteq Good
  <1> DEFINE Bad == {j \in 1 .. n + 1 : n + 1 - j \in k .. n /\ n + 1 - j \notin Good}
  <1> SUFFICES ASSUME NEW x \in k .. n, x \notin Good PROVE FALSE
    OBVIOUS
  <1>1. n + 1 - x \in Bad
    OBVIOUS
  <1>2. PICK m \in Bad : \A j \in Bad : m >= j
    <2>1. Bad \subseteq 1 .. n + 1 /\ n + 1 \in Nat
      OBVIOUS
    <2> HIDE DEF Bad
    <2> QED
      BY <1>1, <2>1, HasGreatest
  <1> DEFINE i == n + 1 - m
  <1>3. i \in k .. n /\ i \notin Good /\ m = n + 1 - i
    BY <1>2
  <1>4. i # k
    BY <1>3
  <1>5. i - 1 \in k .. n - 1 /\ (i - 1) + 1 = i
    BY <1>3, <1>4
  <1>6. i - 1 \notin Good
    BY <1>3, <1>5
  <1>7. m + 1 \in Bad
    <2>1. m + 1 = n + 1 - (i - 1) /\ m + 1 \in 1 .. n + 1
      BY <1>3, <1>5
    <2> HIDE DEF i
    <2> QED
      BY <1>5, <1>6, <2>1
  <1> HIDE DEF Bad
  <1>8. m >= m + 1
    BY <1>2, <1>7
  <1>9. m \in Nat
    BY <1>3
  <1> QED
    BY <1>8, <1>9

(* A non-empty set of numbers has a first one. *)
LEMMA HasFirst ==
  ASSUME NEW n \in Nat, NEW i \in 0 .. n, NEW S, S \subseteq i .. n - 1, S # {}
  PROVE  \E j \in S : \A x \in i .. j - 1 : x \notin S
  <1> DEFINE Good == {x \in i .. n : \A y \in i .. x - 1 : y \notin S}
  <1> SUFFICES ASSUME \A j \in S : j \notin Good PROVE FALSE
    BY DEF Good
  <1>1. i \in Good
    OBVIOUS
  <1>2. ASSUME NEW x \in i .. n - 1, x \in Good PROVE x + 1 \in Good
    <2>1. x \notin S
      BY <1>2
    <2>2. \A y \in i .. x : y \in i .. x - 1 \/ y = x
      OBVIOUS
    <2>3. x + 1 \in i .. n /\ (x + 1) - 1 = x
      OBVIOUS
    <2> QED
      BY <1>2, <2>1, <2>2, <2>3
  <1>3. i .. n \subseteq Good
    <2> HIDE DEF Good
    <2> QED
      BY <1>1, <1>2, UpwardInduction
  <1>4. PICK j \in S : TRUE
    OBVIOUS
  <1>5. j \in i .. n
    OBVIOUS
  <1> QED
    BY <1>3, <1>4, <1>5

(* A step can be iterated. *)
IteratesTo(f, k, n, V, first, step) ==
  /\ f \in [0 .. n -> V] /\ f[0] = first
  /\ \A i \in 0 .. k - 1 : f[i + 1] = step[<<i, f[i]>>]

LEMMA IterationExists ==
  ASSUME NEW n \in Nat, NEW V, NEW first \in V, NEW step \in [(0 .. n - 1) \X V -> V]
  PROVE  \E f : IteratesTo(f, n, n, V, first, step)
  <1> DEFINE Iterates(f, k) == IteratesTo(f, k, n, V, first, step)
             Good == {k \in 0 .. n : \E f : Iterates(f, k)}
  <1>1. 0 \in Good
    <2>1. Iterates([i \in 0 .. n |-> first], 0)
      BY DEF IteratesTo
    <2> HIDE DEF Iterates
    <2> QED
      BY <2>1
  <1>2. ASSUME NEW k \in 0 .. n - 1, k \in Good PROVE k + 1 \in Good
    <2>1. PICK f : Iterates(f, k)
      BY <1>2
    <2> DEFINE h == [i \in 0 .. n |-> IF i = k + 1 THEN step[<<k, f[k]>>] ELSE f[i]]
    <2>2. f[k] \in V /\ step[<<k, f[k]>>] \in V
      BY <2>1 DEF IteratesTo
    <2>3. h \in [0 .. n -> V] /\ h[0] = first
      BY <2>1, <2>2 DEF IteratesTo
    <2>4. ASSUME NEW i \in 0 .. k
          PROVE  h[i + 1] = step[<<i, h[i]>>]
      <3>1. h[i] = f[i]
        OBVIOUS
      <3>2. CASE i = k
        <4>1. k + 1 \in 0 .. n /\ h[k + 1] = step[<<k, f[k]>>]
          OBVIOUS
        <4> HIDE DEF h
        <4> QED
          BY <3>1, <3>2, <4>1
      <3>3. CASE i # k
        <4>1. i \in 0 .. k - 1 /\ i + 1 # k + 1 /\ i + 1 \in 0 .. n
          BY <3>3
        <4>2. f[i + 1] = step[<<i, f[i]>>]
          BY <2>1, <4>1 DEF IteratesTo
        <4> QED
          BY <3>1, <4>1, <4>2
      <3> QED
        BY <3>2, <3>3
    <2>5. Iterates(h, k + 1)
      <3> HIDE DEF h
      <3> QED
        BY <2>3, <2>4 DEF IteratesTo
    <2> HIDE DEF h, Iterates
    <2> QED
      BY <2>5
  <1>3. n \in Good
    <2>1. 0 \in 0 .. n /\ n \in 0 .. n
      OBVIOUS
    <2> HIDE DEF Good
    <2> QED
      BY <1>1, <1>2, <2>1, UpwardInduction
  <1> QED
    BY <1>3

-----------------------------------------------------------------------------
(* What the Generator's constraints say of a machine. *)
LEMMA MachineFacts ==
  ASSUME NEW n \in Nat, NEW k \in Nat, NEW m \in Machines(n, k)
  PROVE  /\ m.no_states = n
         /\ DOMAIN m.entries = 1 .. k
         /\ \A i \in 1 .. k : /\ m.entries[i].state \in 0 .. n - 1
                              /\ m.entries[i].next \in 0 .. n + 1
                              /\ m.entries[i].next > m.entries[i].state
         /\ \A s \in 0 .. n - 1 : /\ m.default_field[s] \in Fields
                                  /\ m.default_next[s] \in 0 .. n + 1
                                  /\ m.default_next[s] > s
  <1>1. /\ m.no_states = n
        /\ m.entries \in Tables(n, k)
        /\ m.default_field \in [0 .. n - 1 -> Fields]
        /\ m.default_next \in DefaultNexts(n)
    BY DEF Machines
  <1>2. m.entries \in [1 .. k -> Entries(n)]
    BY <1>1 DEF Tables
  <1>3. \A i \in 1 .. k : m.entries[i] \in Entries(n)
    BY <1>2
  <1> QED
    BY <1>1, <1>2, <1>3 DEF Entries, DefaultNexts

(* A transition moves a running machine to a higher state and leaves a     *)
(* halted one where it is.                                                 *)
LEMMA NextStateRises ==
  ASSUME NEW n \in Nat, NEW k \in Nat, NEW m \in Machines(n, k),
         NEW c, c.state \in 0 .. n + 1, NEW p
  PROVE  /\ NextState(m, c, p) \in 0 .. n + 1
         /\ c.state < n => NextState(m, c, p) > c.state
         /\ c.state >= n => NextState(m, c, p) = c.state
  <1> DEFINE hits == Hits(m, c, p)
  <1>1. hits \subseteq 1 .. k /\ \A i \in hits : m.entries[i].state = c.state
    BY MachineFacts DEF Hits
  <1>2. CASE ~Active(m, c)
    BY <1>2, MachineFacts DEF NextState, Active
  <1>3. CASE Active(m, c) /\ OutOfBounds(m, c)
    BY <1>3, MachineFacts DEF NextState, Active, Reject
  <1>4. CASE Active(m, c) /\ ~OutOfBounds(m, c) /\ hits # {}
    <2>1. NextState(m, c, p) = m.entries[Max(hits)].next
      BY <1>4 DEF NextState, LookUp
    <2>2. Max(hits) \in hits
      BY <1>1, <1>4, MaxIsMember
    <2>3. /\ m.entries[Max(hits)].next \in 0 .. n + 1
          /\ m.entries[Max(hits)].next > c.state
      BY <1>1, <2>2, MachineFacts
    <2>4. c.state < n
      BY <1>4, MachineFacts DEF Active
    <2> QED
      BY <2>1, <2>3, <2>4
  <1>5. CASE Active(m, c) /\ ~OutOfBounds(m, c) /\ hits = {}
    <2>1. NextState(m, c, p) = m.default_next[c.state]
      BY <1>5 DEF NextState, LookUp
    <2> QED
      BY <1>5, <2>1, MachineFacts DEF Active
  <1> QED
    BY <1>2, <1>3, <1>4, <1>5

(* What is extracted is a word. *)
LEMMA SliceIsWord ==
  ASSUME NEW p, NEW ptr, NEW sz
  PROVE  Slice(p, ptr, sz) \in Word
  BY DEF Slice, Word, Bit

Configs(n) == [state : 0 .. n + 1, pos : 0 .. MaxPacketSize, phv : [Fields -> Word]]

(* A transition leads from a configuration to a configuration. *)
LEMMA TransitionType ==
  ASSUME NEW n \in Nat, NEW k \in Nat, NEW m \in Machines(n, k),
         NEW p \in Packet, NEW c \in Configs(n)
  PROVE  Transition(m, c, p) \in Configs(n)
  <1>1. NextState(m, c, p) \in 0 .. n + 1
    BY NextStateRises DEF Configs
  <1>2. CASE Extracts(m, c)
    <2> DEFINE f == Field(m, c)
    <2>1. c.state \in 0 .. n - 1
      BY <1>2, MachineFacts DEF Extracts, Attempts, Active, Configs
    <2>2. f \in Fields
      BY <2>1, MachineFacts DEF Field
    <2>3. FieldSize[f] \in Nat /\ c.pos + FieldSize[f] \in 0 .. MaxPacketSize /\ c.pos \in Nat
      BY <1>2, <2>2, StateMachineAssumption DEF Extracts, Fits, Configs
    <2>4. Slice(p, c.pos, FieldSize[f]) \in Word
      BY <2>3, SliceIsWord
    <2>5. NextPhv(m, c, p) \in [Fields -> Word]
      BY <1>2, <2>2, <2>4 DEF NextPhv, Configs
    <2>6. NextPos(m, c) \in 0 .. MaxPacketSize
      BY <1>2, <2>3 DEF NextPos
    <2> QED
      BY <1>1, <2>5, <2>6 DEF Transition, Configs
  <1>3. CASE ~Extracts(m, c)
    BY <1>1, <1>3 DEF Transition, NextPhv, NextPos, Configs
  <1> QED
    BY <1>2, <1>3

-----------------------------------------------------------------------------
(* The sentinel is a word, ... *)
LEMMA SentinelIsWord == Sentinel \in Word
  BY DEF Sentinel, Word, Bit

(* ... but no extracted one: those have no padding bit. *)
LEMMA SliceIsNotSentinel ==
  ASSUME NEW f \in Fields, NEW p, NEW ptr
  PROVE  Slice(p, ptr, FieldSize[f]) # Sentinel
  <1> DEFINE top == MaxFieldSize - 1
  <1>1. top \in 0 .. MaxFieldSize - 1 /\ ~(top < FieldSize[f])
    BY StateMachineAssumption
  <1>2. Slice(p, ptr, FieldSize[f])[top] = 0 /\ Sentinel[top] = 1
    BY <1>1 DEF Slice, Sentinel
  <1> QED
    BY <1>2
-----------------------------------------------------------------------------
(* A run: the configurations a machine goes through on a packet.           *)

IsRun(m, p, conf) ==
  /\ conf \in [0 .. m.no_states -> Configs(m.no_states)]
  /\ conf[0] = Start
  /\ \A i \in 0 .. m.no_states - 1 : conf[i + 1] = Transition(m, conf[i], p)

LEMMA StartIsConfig == \A n \in Nat : Start \in Configs(n)
  BY SentinelIsWord, StateMachineAssumption DEF Start, Configs, InitialPhv

LEMMA RunExists ==
  ASSUME NEW n \in Nat, NEW k \in Nat, NEW m \in Machines(n, k), NEW p \in Packet
  PROVE  IsRun(m, p, Configurations(m, p)) /\ Run(m, p) = Configurations(m, p)[n]
  <1>1. m.no_states = n
    BY MachineFacts
  <1> DEFINE V == Configs(n)
             step == [x \in (0 .. n - 1) \X V |-> Transition(m, x[2], p)]
  <1>2. step \in [(0 .. n - 1) \X V -> V]
    BY TransitionType
  <1> DEFINE first == Start
  <1>3. PICK f : IteratesTo(f, n, n, V, first, step)
    <2>1. first \in V
      BY StartIsConfig
    <2> HIDE DEF V, step, first
    <2> QED
      BY <1>2, <2>1, IterationExists
  <1>4. \A i \in 0 .. n - 1 : f[i + 1] = Transition(m, f[i], p)
    <2>1. \A i \in 0 .. n - 1 : f[i] \in V /\ f[i + 1] = step[<<i, f[i]>>]
      <3> HIDE DEF V, step
      <3> QED
        BY <1>3 DEF IteratesTo
    <2> HIDE DEF V
    <2> QED
      BY <2>1
  <1> DEFINE Solves(w) ==
               w = [i \in 0 .. n |-> IF i = 0 THEN Start ELSE Transition(m, w[i - 1], p)]
  <1>5. Solves(f)
    <2>1. \A i \in 0 .. n : f[i] = IF i = 0 THEN Start ELSE Transition(m, f[i - 1], p)
      <3>1. ASSUME NEW i \in 0 .. n, i # 0
            PROVE  f[i] = Transition(m, f[i - 1], p)
        <4>1. i - 1 \in 0 .. n - 1 /\ (i - 1) + 1 = i
          BY <3>1
        <4> QED
          BY <1>4, <4>1
      <3> QED
        BY <1>3, <3>1 DEF IteratesTo
    <2> HIDE DEF V, step
    <2> QED
      BY <1>3, <2>1 DEF IteratesTo
  <1> DEFINE conf == Configurations(m, p)
  <1>6. Solves(conf)
    <2>1. conf = CHOOSE w : Solves(w)
      BY <1>1 DEF Configurations
    <2> HIDE DEF Solves, conf
    <2> QED
      BY <1>5, <2>1
  <1>7. conf[0] = Start /\ \A i \in 0 .. n - 1 : conf[i + 1] = Transition(m, conf[i], p)
    <2>1. \A i \in 0 .. n : conf[i] = IF i = 0 THEN Start ELSE Transition(m, conf[i - 1], p)
      <3> HIDE DEF conf
      <3> QED
        BY <1>6
    <2>2. ASSUME NEW i \in 0 .. n - 1 PROVE conf[i + 1] = Transition(m, conf[i], p)
      <3>1. i + 1 \in 0 .. n /\ i + 1 # 0 /\ (i + 1) - 1 = i
        OBVIOUS
      <3> HIDE DEF conf
      <3> QED
        BY <2>1, <3>1
    <2> QED
      BY <2>1, <2>2
  <1> HIDE DEF conf
  <1>8. \A i \in 0 .. n : conf[i] \in Configs(n)
    <2> DEFINE Good == {i \in 0 .. n : conf[i] \in Configs(n)}
    <2>1. 0 \in Good
      BY <1>7, StartIsConfig
    <2>2. ASSUME NEW i \in 0 .. n - 1, i \in Good PROVE i + 1 \in Good
      BY <1>7, <2>2, TransitionType
    <2>3. 0 .. n \subseteq Good
      <3>1. 0 \in 0 .. n
        OBVIOUS
      <3> HIDE DEF Good
      <3> QED
        BY <2>1, <2>2, <3>1, UpwardInduction
    <2> QED
      BY <2>3
  <1>9. conf \in [0 .. n -> Configs(n)]
    <2> HIDE DEF V
    <2> QED
      BY <1>6, <1>8
  <1> QED
    BY <1>1, <1>7, <1>9 DEF IsRun, Run, conf

(* What a transition does to position and fields, and that it depends on   *)
(* the packet only up to the position it leads to.                         *)
SamePrefix(p, q, b) == \A i \in 0 .. b - 1 : p[i] = q[i]

LEMMA FieldRead ==
  ASSUME NEW n \in Nat, NEW k \in Nat, NEW m \in Machines(n, k), NEW c \in Configs(n),
         Extracts(m, c)
  PROVE  /\ Field(m, c) \in Fields /\ FieldSize[Field(m, c)] \in Nat \ {0}
         /\ c.pos \in Nat /\ c.pos + FieldSize[Field(m, c)] <= MaxPacketSize
  <1>1. c.state \in 0 .. n - 1
    BY MachineFacts DEF Extracts, Attempts, Active, Configs
  <1> QED
    BY <1>1, MachineFacts, StateMachineAssumption DEF Field, Configs, Extracts, Fits

LEMMA TransitionMoves ==
  ASSUME NEW m, NEW p, NEW c, Extracts(m, c)
  PROVE  Transition(m, c, p).pos = c.pos + FieldSize[Field(m, c)]
  BY DEF Transition, NextPos

LEMMA TransitionStores ==
  ASSUME NEW m, NEW p, NEW c, Extracts(m, c)
  PROVE  Transition(m, c, p).phv =
           [c.phv EXCEPT ![Field(m, c)] = Slice(p, c.pos, FieldSize[Field(m, c)])]
  BY DEF Transition, NextPhv

LEMMA TransitionStays ==
  ASSUME NEW m, NEW p, NEW c, ~Extracts(m, c)
  PROVE  Transition(m, c, p).pos = c.pos /\ Transition(m, c, p).phv = c.phv
  BY DEF Transition, NextPos, NextPhv

(* Configuration c is one in which m is about to extract field f. *)
ReadsField(m, c, f) == Extracts(m, c) /\ Field(m, c) = f

LEMMA TransitionField ==
  ASSUME NEW n \in Nat, NEW k \in Nat, NEW m \in Machines(n, k), NEW p,
         NEW c \in Configs(n), NEW f \in Fields
  PROVE  Transition(m, c, p).phv[f] =
           IF ReadsField(m, c, f) THEN Slice(p, c.pos, FieldSize[f]) ELSE c.phv[f]
  <1> DEFINE g == Field(m, c)
             w == Slice(p, c.pos, FieldSize[g])
             v == c.phv
  <1>1. v \in [Fields -> Word]
    BY DEF Configs
  <1>2. CASE Extracts(m, c)
    <2>1. Transition(m, c, p).phv = [v EXCEPT ![g] = w]
      BY <1>2, TransitionStores
    <2>2. g \in Fields
      BY <1>2, FieldRead
    <2>3. ReadsField(m, c, f) <=> g = f
      BY <1>2 DEF ReadsField
    <2>4. Transition(m, c, p).phv[f] = IF g = f THEN w ELSE v[f]
      <3> HIDE DEF g, w, v
      <3> QED
        BY <1>1, <2>1, <2>2
    <2> QED
      BY <2>3, <2>4
  <1>3. CASE ~Extracts(m, c)
    BY <1>3, TransitionStays DEF ReadsField
  <1> QED
    BY <1>2, <1>3

LEMMA TransitionPrefix ==
  ASSUME NEW n \in Nat, NEW k \in Nat, NEW m \in Machines(n, k),
         NEW p \in Packet, NEW q \in Packet, NEW c \in Configs(n),
         SamePrefix(p, q, Transition(m, c, p).pos)
  PROVE  Transition(m, c, q) = Transition(m, c, p)
  <1>1. NextPhv(m, c, q) = NextPhv(m, c, p)
    <2>1. CASE ~Extracts(m, c)
      BY <2>1 DEF NextPhv
    <2>2. CASE Extracts(m, c)
      <3> DEFINE f  == Field(m, c)
                 sz == FieldSize[f]
      <3>1. sz \in Nat
        BY <2>2, FieldRead
      <3>2. Transition(m, c, p).pos = c.pos + sz /\ c.pos \in Nat
        BY <2>2, FieldRead, TransitionMoves
      <3> HIDE DEF sz, f
      <3>3. \A b \in 0 .. MaxFieldSize - 1 : b < sz => p[c.pos + b] = q[c.pos + b]
        BY <3>1, <3>2 DEF SamePrefix
      <3>4. Slice(q, c.pos, sz) = Slice(p, c.pos, sz)
        BY <3>3 DEF Slice
      <3> QED
        BY <2>2, <3>4 DEF NextPhv, sz, f
    <2> QED
      BY <2>1, <2>2
  <1>2. Hits(m, c, q) = Hits(m, c, p)
    BY <1>1 DEF Hits
  <1>3. NextState(m, c, q) = NextState(m, c, p)
    BY <1>2 DEF NextState, LookUp
  <1> QED
    BY <1>1, <1>3 DEF Transition

(* A run, step by step. *)
LEMMA RunFacts ==
  ASSUME NEW n \in Nat, NEW k \in Nat, NEW m \in Machines(n, k), NEW p \in Packet,
         NEW conf, IsRun(m, p, conf)
  PROVE  /\ conf[0] = Start
         /\ \A i \in 0 .. n : conf[i] \in Configs(n) /\ conf[i].pos \in 0 .. MaxPacketSize
         /\ \A i \in 0 .. n - 1 : conf[i + 1] = Transition(m, conf[i], p)
  <1>1. m.no_states = n
    BY MachineFacts
  <1> QED
    BY <1>1 DEF IsRun, Configs

LEMMA StepRises ==
  ASSUME NEW n \in Nat, NEW k \in Nat, NEW m \in Machines(n, k), NEW p \in Packet,
         NEW conf, IsRun(m, p, conf), NEW i \in 0 .. n - 1
  PROVE  conf[i].pos <= conf[i + 1].pos
  <1>1. conf[i] \in Configs(n) /\ conf[i].pos \in Nat /\ conf[i + 1] = Transition(m, conf[i], p)
    BY RunFacts, StateMachineAssumption
  <1>2. CASE Extracts(m, conf[i])
    BY <1>1, <1>2, FieldRead, TransitionMoves
  <1>3. CASE ~Extracts(m, conf[i])
    BY <1>1, <1>3, TransitionStays
  <1> QED
    BY <1>2, <1>3

LEMMA PositionRises ==
  ASSUME NEW n \in Nat, NEW k \in Nat, NEW m \in Machines(n, k), NEW p \in Packet,
         NEW conf, IsRun(m, p, conf), NEW i \in 0 .. n
  PROVE  \A j \in i .. n : conf[i].pos <= conf[j].pos
  <1> DEFINE Good == {j \in i .. n : conf[i].pos <= conf[j].pos}
  <1>1. \A j \in 0 .. n : conf[j].pos \in Nat
    BY RunFacts, StateMachineAssumption
  <1>2. i \in Good
    BY <1>1
  <1>3. ASSUME NEW j \in i .. n - 1, j \in Good PROVE j + 1 \in Good
    <2>1. j \in 0 .. n - 1 /\ j \in 0 .. n /\ j + 1 \in i .. n /\ j + 1 \in 0 .. n
      OBVIOUS
    <2>2. conf[j].pos <= conf[j + 1].pos
      BY <2>1, StepRises
    <2>3. conf[i].pos <= conf[j].pos
      BY <1>3
    <2>4. conf[i].pos \in Nat /\ conf[j].pos \in Nat /\ conf[j + 1].pos \in Nat
      BY <1>1, <2>1
    <2>5. conf[i].pos <= conf[j + 1].pos
      BY <2>2, <2>3, <2>4
    <2> QED
      BY <2>1, <2>5
  <1>4. i .. n \subseteq Good
    <2> HIDE DEF Good
    <2> QED
      BY <1>2, <1>3, UpwardInduction
  <1> QED
    BY <1>4

(* Packets with the same first bits take a machine to the same             *)
(* configurations as long as it reads no further.                          *)
LEMMA RunPrefix ==
  ASSUME NEW n \in Nat, NEW k \in Nat, NEW m \in Machines(n, k),
         NEW p \in Packet, NEW q \in Packet, NEW cp, NEW cq,
         IsRun(m, p, cp), IsRun(m, q, cq), NEW b \in Nat, SamePrefix(p, q, b)
  PROVE  \A i \in 0 .. n : cp[i].pos <= b => cq[i] = cp[i]
  <1> DEFINE Good == {i \in 0 .. n : cp[i].pos <= b => cq[i] = cp[i]}
  <1>1. 0 \in Good
    BY RunFacts
  <1>2. ASSUME NEW i \in 0 .. n - 1, i \in Good PROVE i + 1 \in Good
    <2> SUFFICES ASSUME cp[i + 1].pos <= b PROVE cq[i + 1] = cp[i + 1]
      OBVIOUS
    <2>1. /\ cp[i + 1] = Transition(m, cp[i], p) /\ cq[i + 1] = Transition(m, cq[i], q)
          /\ cp[i] \in Configs(n)
      BY RunFacts
    <2>2. cp[i].pos \in Nat /\ cp[i + 1].pos \in Nat
      BY RunFacts, StateMachineAssumption
    <2>3. cp[i].pos <= cp[i + 1].pos
      BY StepRises
    <2>4. cp[i].pos <= b
      BY <2>2, <2>3
    <2>5. cq[i] = cp[i]
      BY <1>2, <2>4
    <2>6. SamePrefix(p, q, cp[i + 1].pos)
      BY <2>2 DEF SamePrefix
    <2>7. Transition(m, cp[i], q) = Transition(m, cp[i], p)
      BY <2>1, <2>6, TransitionPrefix
    <2> QED
      BY <2>1, <2>5, <2>7
  <1>3. 0 .. n \subseteq Good
    <2>1. 0 \in 0 .. n
      OBVIOUS
    <2> HIDE DEF Good
    <2> QED
      BY <1>1, <1>2, <2>1, UpwardInduction
  <1> QED
    BY <1>3

(* A field keeps its value while it is not extracted. *)
LEMMA Unread ==
  ASSUME NEW n \in Nat, NEW k \in Nat, NEW m \in Machines(n, k), NEW p \in Packet,
         NEW conf, IsRun(m, p, conf), NEW i \in 0 .. n, NEW f \in Fields,
         \A j \in i .. n - 1 : ~ReadsField(m, conf[j], f)
  PROVE  conf[n].phv[f] = conf[i].phv[f]
  <1> DEFINE Good == {j \in i .. n : conf[j].phv[f] = conf[i].phv[f]}
  <1>1. i \in Good
    OBVIOUS
  <1>2. ASSUME NEW j \in i .. n - 1, j \in Good PROVE j + 1 \in Good
    <2>1. conf[j + 1] = Transition(m, conf[j], p) /\ conf[j] \in Configs(n)
      <3>1. j \in 0 .. n - 1 /\ j \in 0 .. n
        OBVIOUS
      <3> QED
        BY <3>1, RunFacts
    <2>2. conf[j + 1].phv[f] = conf[j].phv[f]
      BY <2>1, TransitionField
    <2> QED
      BY <1>2, <2>2
  <1>3. i .. n \subseteq Good
    <2> HIDE DEF Good
    <2> QED
      BY <1>1, <1>2, UpwardInduction
  <1>4. n \in i .. n
    OBVIOUS
  <1> QED
    BY <1>3, <1>4

(* The value a field ends with is that of its last extraction. *)
LEMMA LastRead ==
  ASSUME NEW n \in Nat, NEW k \in Nat, NEW m \in Machines(n, k), NEW p \in Packet,
         NEW conf, IsRun(m, p, conf), NEW i \in 0 .. n - 1, NEW f \in Fields,
         ReadsField(m, conf[i], f), \A j \in i + 1 .. n - 1 : ~ReadsField(m, conf[j], f)
  PROVE  conf[n].phv[f] = Slice(p, conf[i].pos, FieldSize[f])
  <1>1. conf[i + 1] = Transition(m, conf[i], p) /\ conf[i] \in Configs(n)
    BY RunFacts
  <1>2. conf[i + 1].phv[f] = Slice(p, conf[i].pos, FieldSize[f])
    BY <1>1, TransitionField
  <1>3. conf[n].phv[f] = conf[i + 1].phv[f]
    <2>1. i + 1 \in 0 .. n
      OBVIOUS
    <2> QED
      BY <2>1, Unread
  <1> QED
    BY <1>2, <1>3

(* Without extractions nothing but the state changes. *)
LEMMA Quiet ==
  ASSUME NEW n \in Nat, NEW k \in Nat, NEW m \in Machines(n, k), NEW p \in Packet,
         NEW conf, IsRun(m, p, conf), NEW i \in 0 .. n, NEW j \in i .. n,
         \A x \in i .. j - 1 : ~Extracts(m, conf[x])
  PROVE  conf[j].pos = conf[i].pos /\ conf[j].phv = conf[i].phv
  <1> DEFINE Good == {x \in i .. j : conf[x].pos = conf[i].pos /\ conf[x].phv = conf[i].phv}
  <1>1. i \in Good
    OBVIOUS
  <1>2. ASSUME NEW x \in i .. j - 1, x \in Good PROVE x + 1 \in Good
    <2>1. conf[x + 1] = Transition(m, conf[x], p)
      <3>1. x \in 0 .. n - 1
        OBVIOUS
      <3> QED
        BY <3>1, RunFacts
    <2>2. conf[x + 1].pos = conf[x].pos /\ conf[x + 1].phv = conf[x].phv
      BY <2>1, TransitionStays
    <2> QED
      BY <1>2, <2>2
  <1>3. i .. j \subseteq Good
    <2>1. j \in Nat /\ i \in 0 .. j
      OBVIOUS
    <2> HIDE DEF Good
    <2> QED
      BY <1>1, <1>2, <2>1, UpwardInduction
  <1>4. j \in i .. j
    OBVIOUS
  <1> QED
    BY <1>3, <1>4

-----------------------------------------------------------------------------
(* An extraction that ends behind bit b shows in the end: if f is read     *)
(* there on every packet that begins like p, then not all of these packets *)
(* leave the same value in f.                                              *)
LateRead(m, p, i, f, b) ==
  /\ ReadsField(m, Configurations(m, p)[i], f)
  /\ Configurations(m, p)[i].pos + FieldSize[f] > b

LastBit(ptr, f) == ptr + FieldSize[f] - 1
Flip(p, bit)    == [p EXCEPT ![bit] = 1 - p[bit]]

LEMMA SlicesDiffer ==
  ASSUME NEW f \in Fields, NEW ptr \in Nat, NEW p \in Packet,
         ptr + FieldSize[f] <= MaxPacketSize
  PROVE  /\ Flip(p, LastBit(ptr, f)) \in Packet
         /\ LastBit(ptr, f) \in Nat /\ ptr <= LastBit(ptr, f)
         /\ \A b \in Nat : b <= LastBit(ptr, f) => SamePrefix(p, Flip(p, LastBit(ptr, f)), b)
         /\ Slice(p, ptr, FieldSize[f]) # Slice(Flip(p, LastBit(ptr, f)), ptr, FieldSize[f])
  <1> DEFINE sz == FieldSize[f]
             top == sz - 1
             bit == LastBit(ptr, f)
             q == Flip(p, bit)
  <1>1. sz \in 1 .. MaxFieldSize - 1 /\ MaxFieldSize \in Nat /\ MaxPacketSize \in Nat
    BY StateMachineAssumption
  <1> HIDE DEF sz
  <1>2. bit \in 0 .. MaxPacketSize - 1 /\ bit = ptr + top /\ ptr <= bit
    BY <1>1 DEF sz, LastBit
  <1> HIDE DEF bit
  <1>3. p[bit] \in Bit /\ q[bit] = 1 - p[bit] /\ \A i \in 0 .. MaxPacketSize - 1 : i # bit => q[i] = p[i]
    BY <1>2 DEF Packet, Flip
  <1>4. q \in Packet
    BY <1>2, <1>3 DEF Packet, Bit, Flip
  <1> HIDE DEF q
  <1>5. \A i \in Nat : i < bit => q[i] = p[i]
    BY <1>2, <1>3, <1>1
  <1>6. \A b \in Nat : b <= bit => SamePrefix(p, q, b)
    BY <1>2, <1>5 DEF SamePrefix
  <1>7. top \in 0 .. MaxFieldSize - 1 /\ top < sz
    BY <1>1
  <1>8. /\ Slice(p, ptr, sz)[top] = IF p[bit] = 1 THEN 1 ELSE 0
        /\ Slice(q, ptr, sz)[top] = IF q[bit] = 1 THEN 1 ELSE 0
    BY <1>2, <1>7 DEF Slice
  <1>9. Slice(p, ptr, sz) # Slice(q, ptr, sz)
    BY <1>3, <1>8 DEF Bit
  <1> QED
    BY <1>2, <1>4, <1>6, <1>9 DEF sz, q, bit

LEMMA LateReadShows ==
  ASSUME NEW n \in Nat, NEW k \in Nat, NEW m \in Machines(n, k), NEW p \in Packet,
         NEW f \in Fields, NEW b \in Nat,
         \A q \in Packet : SamePrefix(p, q, b) => \E i \in 0 .. n - 1 : LateRead(m, q, i, f, b)
  PROVE  \E q1, q2 \in Packet :
           /\ SamePrefix(p, q1, b) /\ SamePrefix(p, q2, b)
           /\ Run(m, q1).phv[f] # Run(m, q2).phv[f]
  <1> DEFINE Late == {x \in 1 .. n : \E q \in Packet :
                        SamePrefix(p, q, b) /\ LateRead(m, q, x - 1, f, b)}
             conf(q) == Configurations(m, q)
             sz == FieldSize[f]
  <1>1. PICK x \in Late : \A y \in Late : x >= y
    <2>1. SamePrefix(p, p, b)
      BY DEF SamePrefix
    <2>2. PICK i \in 0 .. n - 1 : LateRead(m, p, i, f, b)
      BY <2>1
    <2>3. i + 1 \in Late
      <3>1. i + 1 \in 1 .. n /\ (i + 1) - 1 = i
        OBVIOUS
      <3> QED
        BY <2>1, <2>2, <3>1
    <2>4. Late \subseteq 1 .. n
      OBVIOUS
    <2> HIDE DEF Late
    <2> QED
      BY <2>3, <2>4, HasGreatest
  <1>2. PICK i \in 0 .. n - 1 : i = x - 1
    OBVIOUS
  <1>3. PICK q1 \in Packet : SamePrefix(p, q1, b) /\ LateRead(m, q1, i, f, b)
    BY <1>1, <1>2
  <1>4. \A q \in Packet : SamePrefix(p, q, b) => \A j \in i + 1 .. n - 1 : ~LateRead(m, q, j, f, b)
    <2> SUFFICES ASSUME NEW q \in Packet, SamePrefix(p, q, b),
                        NEW j \in i + 1 .. n - 1, LateRead(m, q, j, f, b)
                 PROVE  FALSE
      OBVIOUS
    <2>1. j + 1 \in 1 .. n /\ (j + 1) - 1 = j /\ ~(x >= j + 1)
      BY <1>2
    <2>2. j + 1 \in Late
      BY <2>1
    <2> HIDE DEF Late
    <2> QED
      BY <1>1, <2>1, <2>2
  <1> HIDE DEF Late
  <1> DEFINE ptr == conf(q1)[i].pos
             bit == LastBit(ptr, f)
             q2  == Flip(q1, bit)
  <1>5. /\ ptr \in Nat /\ ptr + sz <= MaxPacketSize /\ ptr + sz > b /\ sz \in Nat \ {0}
        /\ ReadsField(m, conf(q1)[i], f)
    <2>1. ReadsField(m, conf(q1)[i], f) /\ ptr + sz > b
      BY <1>3 DEF LateRead
    <2>2. conf(q1)[i] \in Configs(n)
      BY RunExists, RunFacts
    <2> QED
      BY <2>1, <2>2, FieldRead DEF ReadsField
  <1> HIDE DEF ptr
  <1>6. /\ q2 \in Packet /\ bit \in Nat /\ ptr <= bit
        /\ \A c \in Nat : c <= bit => SamePrefix(q1, q2, c)
        /\ Slice(q1, ptr, sz) # Slice(q2, ptr, sz)
    BY <1>5, SlicesDiffer
  <1>7. b <= bit
    BY <1>5 DEF LastBit
  <1> HIDE DEF bit, q2
  <1>8. SamePrefix(q1, q2, b) /\ SamePrefix(q1, q2, ptr) /\ SamePrefix(q1, q1, ptr)
    BY <1>5, <1>6, <1>7 DEF SamePrefix
  <1>9. SamePrefix(p, q2, b)
    BY <1>3, <1>8 DEF SamePrefix
  <1>10. ASSUME NEW q \in Packet, SamePrefix(p, q, b), SamePrefix(q1, q, ptr)
         PROVE  Run(m, q).phv[f] = Slice(q, ptr, sz)
    <2>1. IsRun(m, q, conf(q)) /\ IsRun(m, q1, conf(q1)) /\ Run(m, q) = conf(q)[n]
      BY RunExists
    <2> HIDE DEF conf
    <2>2. conf(q)[i] = conf(q1)[i]
      <3>1. i \in 0 .. n /\ conf(q1)[i].pos <= ptr
        BY <1>5 DEF ptr
      <3> QED
        BY <1>5, <1>10, <2>1, <3>1, RunPrefix
    <2>3. ASSUME NEW j \in i + 1 .. n - 1 PROVE ~ReadsField(m, conf(q)[j], f)
      <3>1. ~LateRead(m, q, j, f, b)
        BY <1>4, <1>10
      <3>2. conf(q)[i].pos <= conf(q)[j].pos /\ conf(q)[j].pos \in Nat
        <4>1. i \in 0 .. n /\ j \in i .. n /\ j \in 0 .. n
          OBVIOUS
        <4> QED
          BY <2>1, <4>1, PositionRises, RunFacts, StateMachineAssumption
      <3>3. conf(q)[j].pos + sz > b
        BY <1>5, <2>2, <3>2 DEF ptr
      <3> QED
        BY <3>1, <3>3 DEF LateRead, conf
    <2>4. ReadsField(m, conf(q)[i], f) /\ conf(q)[i].pos = ptr
      BY <1>5, <2>2 DEF ptr
    <2> QED
      BY <2>1, <2>3, <2>4, LastRead
  <1>11. Run(m, q1).phv[f] = Slice(q1, ptr, sz) /\ Run(m, q2).phv[f] = Slice(q2, ptr, sz)
    BY <1>3, <1>6, <1>8, <1>9, <1>10
  <1> QED
    BY <1>3, <1>6, <1>9, <1>11
=============================================================================
