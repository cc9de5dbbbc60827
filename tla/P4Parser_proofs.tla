--------------------------- MODULE P4Parser_proofs ---------------------------
(***************************************************************************)
(* What assign_extractions has decided when the parser is written, and how *)
(* far the parser is the restored machine, for every machine, shape, field *)
(* width and packet size, both designs, exact and ternary matching.        *)
(* Nothing is assumed of the machines beyond the constraints of the        *)
(* Generator.                                                              *)
(*                                                                         *)
(* The invariant relates the sets of headers that the breadth-first walk   *)
(* stores to the paths of the parser (WalkInv), the states it visits to    *)
(* those a packet reaches (ReachedInv), and, where paths agree, the sets   *)
(* to the headers that the packet at hand has valid (PhvInv).              *)
(***************************************************************************)
EXTENDS P4Parser, StateMachine_proofs, FiniteSetTheorems, SequenceTheorems

P4State(v) ==
  [field_used    : {machine.default_field[v]},
   is_extraction : BOOLEAN,
   transitions   : {P4States(machine)[v].transitions},
   default       : {machine.default_next[v]}]

TypeInv ==
  /\ machine \in InputMachines
  /\ stage \in {"table", "assign", "written"}
  /\ packet \in Packet
  /\ config \in Configs(NoStates)
  /\ steps \in Nat
  /\ reads \in Seq([header : Headers, pos : 0 .. MaxPacketSize])

(* A state has been looked at: its flag is right and its successors have   *)
(* been visited.                                                           *)
Done(v) ==
  /\ states[v].is_extraction = (HeaderOf[machine.default_field[v]] \notin extracted[v])
  /\ Successors(v) \cap States \subseteq DOMAIN extracted

Queued(v) == \E i \in 1 .. Len(queue) : queue[i] = v

WalkInv ==
  stage # "table" =>
    /\ DOMAIN states = States /\ \A v \in States : states[v] \in P4State(v)
    /\ 0 \in DOMAIN extracted /\ DOMAIN extracted \subseteq States
    /\ \A v \in DOMAIN extracted : StoredByPath(v) /\ (Queued(v) \/ Done(v))
    /\ queue \in Seq(States) /\ \A i \in 1 .. Len(queue) : queue[i] \in DOMAIN extracted
    /\ stage = "written" => queue = <<>>

ReachedInv ==
  /\ stage # "written" => config.state = 0
  /\ Parsing => config.state \in DOMAIN extracted
  /\ steps <= config.state

PhvInv ==
  /\ stage # "written" => config.phv = InitialPhv
  /\ Parsing /\ PathsAgree =>
       \A f \in Fields : config.phv[f] = Sentinel <=> HeaderOf[f] \notin extracted[config.state]

IInv == TypeInv /\ WalkInv /\ ReachedInv /\ PhvInv

-----------------------------------------------------------------------------
(* What find_stm returns is a machine of the given shape. *)
LEMMA InputFacts ==
  ASSUME machine \in InputMachines
  PROVE  /\ machine \in Machines(NoStates, TableSize) /\ NoStates \in Nat /\ TableSize \in Nat
         /\ machine.no_states = NoStates
         /\ \A i \in DOMAIN machine.entries :
              /\ i \in Nat
              /\ machine.entries[i].state \in States
              /\ machine.entries[i].next \in 0 .. NoStates + 1
              /\ machine.entries[i].next > machine.entries[i].state
         /\ \A v \in States : /\ machine.default_field[v] \in Fields
                               /\ machine.default_next[v] \in 0 .. NoStates + 1
                               /\ machine.default_next[v] > v
  <1>1. machine \in Machines(NoStates, TableSize) /\ NoStates \in Nat /\ TableSize \in Nat
    BY RestorerAssumption
  <1>2. 1 .. TableSize \subseteq Nat
    OBVIOUS
  <1> QED
    BY <1>1, <1>2, MachineFacts DEF States

(* What table_to_states made of a state. *)
LEMMA StateFacts ==
  ASSUME TypeInv, WalkInv, stage # "table", NEW v \in States
  PROVE  /\ states[v].field_used = machine.default_field[v]
         /\ states[v].field_used \in Fields
         /\ states[v].is_extraction \in BOOLEAN
         /\ states[v].default = machine.default_next[v]
         /\ DOMAIN states[v].transitions = Restorable(machine, v)
         /\ \A i \in Restorable(machine, v) :
              states[v].transitions[i] = Restored(machine.default_field[v], machine.entries[i])
  <1>1. states[v] \in P4State(v)
    BY DEF WalkInv
  <1>2. /\ states[v].field_used = machine.default_field[v]
        /\ states[v].is_extraction \in BOOLEAN
        /\ states[v].default = machine.default_next[v]
        /\ states[v].transitions = P4States(machine)[v].transitions
    BY <1>1 DEF P4State
  <1>3. P4States(machine)[v].transitions
          = [i \in Restorable(machine, v) |->
               Restored(machine.default_field[v], machine.entries[i])]
    BY DEF P4States
  <1>4. machine.default_field[v] \in Fields
    BY InputFacts DEF TypeInv
  <1> QED
    BY <1>2, <1>3, <1>4

(* Every transition of a P4 state leads to a higher one. *)
LEMMA SuccessorFacts ==
  ASSUME TypeInv, WalkInv, stage # "table", NEW v \in States
  PROVE  \A u \in Successors(v) : u \in 0 .. NoStates + 1 /\ u > v
  <1>1. \A i \in Restorable(machine, v) :
          i \in DOMAIN machine.entries /\ machine.entries[i].state = v
    BY DEF Restorable
  <1>2. \A f, e : Restored(f, e).next = e.next
    BY DEF Restored
  <1>3. \A i \in Restorable(machine, v) :
          states[v].transitions[i].next = machine.entries[i].next
    BY <1>2, StateFacts
  <1>4. \A i \in Restorable(machine, v) :
          machine.entries[i].next \in 0 .. NoStates + 1 /\ machine.entries[i].next > v
    BY <1>1, InputFacts DEF TypeInv
  <1>5. machine.default_next[v] \in 0 .. NoStates + 1 /\ machine.default_next[v] > v
    BY InputFacts DEF TypeInv
  <1> QED
    BY <1>3, <1>4, <1>5, StateFacts DEF Successors

-----------------------------------------------------------------------------
(* It holds at the start: nothing has been restored. *)
LEMMA InitIInv ==
  ASSUME Init
  PROVE  IInv
  <1> USE DEF Init, RestorerInit
  <1>1. InitialPhv \in [Fields -> Word]
    BY SentinelIsWord DEF InitialPhv
  <1>2. config.state = 0 /\ config.phv = InitialPhv /\ config.pos = 0
    BY DEF Start
  <1>3. config \in Configs(NoStates)
    BY <1>1, RestorerAssumption, StateMachineAssumption DEF Start, Configs
  <1> QED
    BY <1>2, <1>3 DEF IInv, TypeInv, WalkInv, ReachedInv, PhvInv, Parsing

(* table_to_states establishes the invariant of the walk. *)
LEMMA TableStep ==
  ASSUME IInv, TableToStates
  PROVE  WalkInv'
  <1>1. machine' = machine /\ states' = P4States(machine) /\ stage' = "assign"
        /\ extracted' = [v \in {0} |-> {}] /\ queue' = <<0>>
    BY DEF TableToStates
  <1>2. 0 \in States
    BY RestorerAssumption DEF States
  <1>3. \A v \in States : states'[v] \in P4State(v)'
    BY <1>1 DEF P4States, P4State
  <1>4. DOMAIN states' = States
    BY <1>1 DEF P4States
  <1>5. DOMAIN extracted' = {0} /\ StoredByPath(0)' /\ Queued(0)'
    BY <1>1 DEF Queued, StoredByPath
  <1> QED
    BY <1>1, <1>2, <1>3, <1>4, <1>5 DEF WalkInv

(* The queue of a breadth-first search: one is taken, some are added. *)
LEMMA QueueFacts ==
  ASSUME NEW S, NEW q \in Seq(S), q # <<>>, NEW r \in Seq(S)
  PROVE  LET new == Tail(q) \o r
         IN  /\ new \in Seq(S) /\ Len(new) = Len(q) - 1 + Len(r)
             /\ \A i \in 1 .. Len(q) - 1 : new[i] = q[i + 1]
             /\ \A i \in 1 .. Len(r) : new[Len(q) - 1 + i] = r[i]
             /\ Len(q) \in Nat /\ Len(q) >= 1 /\ Len(r) \in Nat
  <1>1. /\ Tail(q) \in Seq(S) /\ Len(Tail(q)) = Len(q) - 1
        /\ Len(q) \in Nat /\ Len(q) >= 1 /\ Len(r) \in Nat
        /\ \A i \in 1 .. Len(q) - 1 : Tail(q)[i] = q[i + 1]
    OBVIOUS
  <1> QED
    BY <1>1

(* A visit keeps the invariant of the walk. *)
LEMMA VisitStep ==
  ASSUME IInv, Visit
  PROVE  WalkInv'
  <1> DEFINE v == Head(queue)
             flag == HeaderOf[states[v].field_used] \notin extracted[v]
  <1> USE DEF IInv
  <1>1. /\ stage = "assign" /\ queue # <<>> /\ stage' = stage /\ machine' = machine
        /\ states' = [states EXCEPT ![v].is_extraction = flag]
        /\ extracted' = [u \in DOMAIN extracted \cup New(v) |->
                           IF u \in New(v) THEN OutSet(v) ELSE extracted[u]]
    BY DEF Visit
  <1>2. PICK order \in [1 .. Cardinality(New(v)) -> New(v)] :
          /\ New(v) = {order[i] : i \in DOMAIN order}
          /\ queue' = Tail(queue) \o order
    BY DEF Visit
  <1>3. /\ DOMAIN states = States /\ \A u \in States : states[u] \in P4State(u)
        /\ 0 \in DOMAIN extracted /\ DOMAIN extracted \subseteq States
        /\ \A u \in DOMAIN extracted : StoredByPath(u) /\ (Queued(u) \/ Done(u))
        /\ queue \in Seq(States) /\ \A i \in 1 .. Len(queue) : queue[i] \in DOMAIN extracted
    BY <1>1 DEF WalkInv
  <1>4. v = queue[1] /\ 1 \in 1 .. Len(queue) /\ v \in DOMAIN extracted /\ v \in States
    BY <1>1, <1>3
  <1>5. /\ New(v) \subseteq States /\ New(v) \subseteq Successors(v)
        /\ \A u \in New(v) : u \notin DOMAIN extracted
    BY DEF New
  <1>6. order \in Seq(New(v)) /\ Len(order) = Cardinality(New(v)) /\ Len(order) \in Nat
    <2>1. IsFiniteSet(New(v))
      <3>1. IsFiniteSet(States)
        BY FS_Interval, RestorerAssumption DEF States
      <3> HIDE DEF v
      <3> QED
        BY <1>5, <3>1, FS_Subset
    <2>2. Cardinality(New(v)) \in Nat
      BY <2>1, FS_CardinalityType
    <2> QED
      BY <1>2, <2>2
  <1>7. /\ states[v].field_used = machine.default_field[v]
        /\ \A u \in Successors(v) : u > v
    BY <1>1, <1>4, StateFacts, SuccessorFacts
  <1> HIDE DEF v
  <1>8. /\ DOMAIN states' = States
        /\ \A u \in States : u # v => states'[u] = states[u]
        /\ states'[v] = [states[v] EXCEPT !.is_extraction = flag]
    BY <1>1, <1>3, <1>4
  <1>9. /\ flag \in BOOLEAN
        /\ flag = (HeaderOf[machine.default_field[v]] \notin extracted[v])
    BY <1>7
  <1> HIDE DEF flag
  <1>10. /\ states'[v].is_extraction = flag
         /\ states'[v].field_used = states[v].field_used
         /\ states'[v].transitions = states[v].transitions
         /\ states'[v].default = states[v].default
         /\ states'[v] \in P4State(v)
    BY <1>3, <1>4, <1>8, <1>9 DEF P4State
  <1>11. \A u \in States : states'[u] \in P4State(u)'
    <2>1. \A u \in States : P4State(u)' = P4State(u)
      BY <1>1 DEF P4State, P4States
    <2> QED
      BY <1>3, <1>8, <1>10, <2>1
  <1>12. \A u \in States : /\ Successors(u)' = Successors(u)
                           /\ states'[u].field_used = states[u].field_used
    <2>1. \A u \in States : /\ states'[u].transitions = states[u].transitions
                            /\ states'[u].default = states[u].default
                            /\ states'[u].field_used = states[u].field_used
      BY <1>8, <1>10
    <2> QED
      BY <2>1 DEF Successors
  <1>13. /\ DOMAIN extracted' = DOMAIN extracted \cup New(v)
         /\ \A u \in DOMAIN extracted : extracted'[u] = extracted[u]
         /\ \A u \in New(v) : extracted'[u] = extracted[v] \cup {HeaderOf[states[v].field_used]}
    BY <1>1, <1>5 DEF OutSet
  <1>14. ASSUME NEW u \in DOMAIN extracted' PROVE StoredByPath(u)'
    <2>1. CASE u \in New(v)
      <3>1. u # 0 /\ u \in Successors(v)
        BY <1>3, <1>5, <2>1
      <3>2. PICK w \in States : w = v
        BY <1>4
      <3>3. w < u /\ u \in Successors(w)
        <4>1. u > w /\ u \in States
          BY <1>5, <1>7, <2>1, <3>1, <3>2
        <4> QED
          BY <3>1, <3>2, <4>1 DEF States
      <3>4. w \in DOMAIN extracted' /\ u \in Successors(w)'
        BY <1>4, <1>12, <1>13, <3>2, <3>3
      <3>5. extracted'[u] = extracted'[w] \cup {HeaderOf[states'[w].field_used]}
        BY <1>4, <1>12, <1>13, <2>1, <3>2
      <3> QED
        BY <3>1, <3>3, <3>4, <3>5 DEF StoredByPath
    <2>2. CASE u \in DOMAIN extracted /\ u = 0
      BY <1>3, <1>13, <2>2 DEF StoredByPath
    <2>3. CASE u \in DOMAIN extracted /\ u # 0
      <3>1. PICK w \in DOMAIN extracted :
              /\ w < u /\ u \in Successors(w)
              /\ extracted[u] = extracted[w] \cup {HeaderOf[states[w].field_used]}
        BY <1>3, <2>3 DEF StoredByPath
      <3>2. w \in DOMAIN extracted' /\ w < u /\ u \in Successors(w)'
        BY <1>3, <1>12, <1>13, <3>1
      <3>3. extracted'[u] = extracted'[w] \cup {HeaderOf[states'[w].field_used]}
        BY <1>3, <1>12, <1>13, <2>3, <3>1
      <3> QED
        BY <2>3, <3>2, <3>3 DEF StoredByPath
    <2> QED
      BY <1>13, <2>1, <2>2, <2>3
  <1>15. /\ queue' \in Seq(States)
         /\ Len(queue') = Len(queue) - 1 + Len(order)
         /\ \A i \in 1 .. Len(queue) - 1 : queue'[i] = queue[i + 1]
         /\ \A i \in 1 .. Len(order) : queue'[Len(queue) - 1 + i] = order[i]
         /\ Len(queue) \in Nat
    <2>1. order \in Seq(States)
      BY <1>5, <1>6
    <2> QED
      BY <1>1, <1>2, <1>3, <2>1, QueueFacts
  <1>16. \A i \in 1 .. Len(queue') : queue'[i] \in DOMAIN extracted'
    <2> SUFFICES ASSUME NEW i \in 1 .. Len(queue') PROVE queue'[i] \in DOMAIN extracted'
      OBVIOUS
    <2>1. CASE i <= Len(queue) - 1
      BY <1>3, <1>13, <1>15, <2>1
    <2>2. CASE i > Len(queue) - 1
      <3>1. i - (Len(queue) - 1) \in 1 .. Len(order)
        BY <1>6, <1>15, <2>2
      <3>2. queue'[i] = order[i - (Len(queue) - 1)]
        BY <1>15, <3>1
      <3> QED
        BY <1>2, <1>6, <1>13, <3>1, <3>2
    <2> QED
      BY <1>15, <2>1, <2>2
  <1>17. ASSUME NEW u \in DOMAIN extracted' PROVE Queued(u)' \/ Done(u)'
    <2>1. CASE u \in New(v)
      <3>1. PICK i \in 1 .. Len(order) : order[i] = u
        BY <1>2, <1>6, <2>1
      <3>2. Len(queue) - 1 + i \in 1 .. Len(queue')
        BY <1>6, <1>15, <1>4
      <3> QED
        BY <1>15, <3>1, <3>2 DEF Queued
    <2>2. CASE u = v
      <3>1. states'[v].is_extraction = (HeaderOf[machine'.default_field[v]] \notin extracted'[v])
        BY <1>1, <1>4, <1>9, <1>10, <1>13
      <3>2. Successors(u)' \cap States \subseteq DOMAIN extracted'
        <4>1. Successors(u)' = Successors(v)
          BY <1>4, <1>12, <2>2
        <4> QED
          BY <1>13, <4>1 DEF New
      <3> QED
        BY <2>2, <3>1, <3>2 DEF Done
    <2>3. CASE u \in DOMAIN extracted /\ u # v /\ Queued(u)
      <3>1. PICK i \in 1 .. Len(queue) : queue[i] = u
        BY <2>3 DEF Queued
      <3>2. i - 1 \in 1 .. Len(queue) - 1 /\ i - 1 \in 1 .. Len(queue')
        BY <1>4, <1>6, <1>15, <2>3, <3>1
      <3>3. queue'[i - 1] = u
        BY <1>15, <3>1, <3>2
      <3> QED
        BY <3>2, <3>3 DEF Queued
    <2>4. CASE u \in DOMAIN extracted /\ u # v /\ Done(u)
      <3>1. u \in States /\ states'[u] = states[u] /\ extracted'[u] = extracted[u]
        BY <1>3, <1>8, <1>13, <2>4
      <3>2. Successors(u)' \cap States \subseteq DOMAIN extracted'
        BY <1>12, <1>13, <2>4, <3>1 DEF Done
      <3> QED
        BY <1>1, <2>4, <3>1, <3>2 DEF Done
    <2> QED
      BY <1>3, <1>13, <2>1, <2>2, <2>3, <2>4
  <1> QED
    BY <1>1, <1>3, <1>5, <1>8, <1>11, <1>13, <1>14, <1>15, <1>16, <1>17 DEF WalkInv

-----------------------------------------------------------------------------
(* The first matching case is one of the cases. *)
LEMMA SomeCase ==
  ASSUME IInv, Parsing, NEW w, Cases(w) # {}
  PROVE  Min(Cases(w)) \in DOMAIN State.transitions
  <1> DEFINE cases == Cases(w)
  <1>1. cases \subseteq Nat /\ cases # {}
    <2>1. DOMAIN State.transitions = Restorable(machine, config.state)
      BY StateFacts DEF State, IInv, Parsing
    <2>2. DOMAIN machine.entries \subseteq Nat
      BY InputFacts, MachineFacts DEF IInv, TypeInv
    <2> QED
      BY <2>1, <2>2 DEF Cases, Restorable
  <1>2. cases \subseteq DOMAIN State.transitions
    BY DEF Cases
  <1> DEFINE Less == {ss \in Nat \X Nat : ss[1] < ss[2]}
  <1>3. IsWellFoundedOn(Less, Nat)
    BY NatLessThanWellFounded DEF OpToRel
  <1>4. PICK x \in cases : \A y \in cases : ~ (<<y, x>> \in Less)
    <2> HIDE DEF cases, Less
    <2> QED
      BY <1>1, <1>3, WFMin
  <1> HIDE DEF cases
  <1>5. ASSUME NEW y \in cases PROVE x <= y
    <2>1. x \in Nat /\ y \in Nat
      BY <1>1
    <2>2. ~(y < x)
      BY <1>4, <2>1
    <2> QED
      BY <2>1, <2>2
  <1>6. Min(cases) \in cases
    BY <1>5 DEF Min
  <1> QED
    BY <1>2, <1>6 DEF cases

-----------------------------------------------------------------------------
(* The state that the parser is in has been looked at. *)
LEMMA StateIsDone ==
  ASSUME IInv, Parsing
  PROVE  /\ config.state \in DOMAIN extracted
         /\ Successors(config.state) \cap States \subseteq DOMAIN extracted
         /\ State.field_used = Field(machine, config)
         /\ Field(machine, config) \in Fields
         /\ Header = HeaderOf[Field(machine, config)]
         /\ State.is_extraction <=> Header \notin extracted[config.state]
  <1> DEFINE s == config.state
  <1> USE DEF IInv, Parsing
  <1>1. s \in DOMAIN extracted /\ queue = <<>>
    BY DEF ReachedInv, WalkInv
  <1>2. Done(s)
    BY <1>1 DEF WalkInv, Queued
  <1>3. states[s].field_used = Field(machine, config) /\ Field(machine, config) \in Fields
    BY StateFacts DEF Field
  <1> QED
    BY <1>1, <1>2, <1>3 DEF Done, State, Header, Field

(* Where paths agree, the headers stored with a state are those that the   *)
(* packet arrives with.                                                    *)
LEMMA HeadersOfPath ==
  ASSUME IInv, Parsing, PathsAgree, ~TooShort
  PROVE  \A f \in Fields :
           HeadersAfter[f] = Sentinel <=> HeaderOf[f] \notin extracted[config.state] \cup {Header}
  <1> SUFFICES ASSUME NEW f \in Fields
               PROVE  HeadersAfter[f] = Sentinel
                        <=> HeaderOf[f] \notin extracted[config.state] \cup {Header}
    OBVIOUS
  <1>1. config.phv[f] = Sentinel <=> HeaderOf[f] \notin extracted[config.state]
    BY DEF IInv, PhvInv
  <1>2. State.is_extraction <=> Header \notin extracted[config.state]
    BY StateIsDone
  <1>3. CASE Reading
    <2>1. HeadersAfter[f] = IF HeaderOf[f] = Header
                            THEN Slice(packet, config.pos + Offset[f], FieldSize[f])
                            ELSE config.phv[f]
      BY <1>3 DEF HeadersAfter
    <2> QED
      BY <1>1, <2>1, SliceIsNotSentinel
  <1>4. CASE ~Reading
    <2>1. HeadersAfter[f] = config.phv[f]
      BY <1>4 DEF HeadersAfter
    <2>2. Header \in extracted[config.state]
      BY <1>2, <1>4 DEF Reading
    <2> QED
      BY <1>1, <2>1, <2>2
  <1> QED
    BY <1>3, <1>4

(* If the paths agree, so do the walk and the packet. *)
LEMMA AgreeingPaths ==
  ASSUME IInv, Parsing, PathsAgree
  PROVE  WalkAgrees
  <1> DEFINE f == Field(machine, config)
  <1>1. /\ config.state \in DOMAIN extracted /\ f \in Fields /\ Header = HeaderOf[f]
        /\ State.field_used = f
    BY StateIsDone
  <1>2. Active(machine, config)
    BY InputFacts DEF Active, States, IInv, TypeInv, Parsing
  <1>3. config.phv[f] = Sentinel <=> Header \notin extracted[config.state]
    BY <1>1 DEF IInv, PhvInv
  <1>4. ~NotAlwaysExtract => Header \notin extracted[config.state]
    BY <1>1 DEF PathsAgree, Header, State
  <1> QED
    BY <1>2, <1>3, <1>4 DEF WalkAgrees, Attempts

-----------------------------------------------------------------------------
(* Steps that leave the states and what the walk stored alone keep its     *)
(* invariant.                                                              *)
LEMMA WalkKept ==
  ASSUME IInv, stage # "table", UNCHANGED <<machine, states, extracted, queue>>,
         stage' \in {stage, "written"}, stage' = "written" => queue = <<>>
  PROVE  WalkInv'
  <1>1. \A v \in States : P4State(v)' = P4State(v)
    BY DEF P4State, P4States
  <1>2. \A v \in DOMAIN extracted : StoredByPath(v)' = StoredByPath(v) /\ Done(v)' = Done(v)
    BY DEF StoredByPath, Done, Successors
  <1>3. \A v : Queued(v)' = Queued(v)
    BY DEF Queued
  <1> QED
    BY <1>1, <1>2, <1>3 DEF IInv, WalkInv

(* Every step of the restoration keeps the invariant, ... *)
LEMMA RestorerStep ==
  ASSUME IInv, RestorerNext, UNCHANGED pvars
  PROVE  IInv'
  <1> USE DEF IInv, pvars
  <1>1. machine' = machine /\ stage # "written" /\ stage' \in {"assign", "written"}
    BY DEF RestorerNext, TableToStates, Visit, WriteP4, TypeInv
  <1>2. TypeInv'
    BY <1>1 DEF TypeInv
  <1>3. WalkInv'
    <2>1. CASE TableToStates
      BY <2>1, TableStep
    <2>2. CASE Visit
      BY <2>2, VisitStep
    <2>3. CASE WriteP4
      BY <2>3, WalkKept DEF WriteP4
    <2> QED
      BY <2>1, <2>2, <2>3 DEF RestorerNext
  <1>4. config.state = 0 /\ config.phv = InitialPhv
    BY <1>1 DEF ReachedInv, PhvInv
  <1>5. 0 \in DOMAIN extracted' /\ extracted'[0] = {}
    BY <1>1, <1>3 DEF WalkInv, StoredByPath
  <1>6. ReachedInv'
    BY <1>1, <1>4, <1>5 DEF ReachedInv, Parsing
  <1>7. PhvInv'
    <2>1. \A f \in Fields : InitialPhv[f] = Sentinel
      BY DEF InitialPhv
    <2> QED
      BY <1>4, <1>5, <2>1 DEF PhvInv
  <1> QED
    BY <1>2, <1>3, <1>6, <1>7

(* ... and so does every step of the parser: it goes where the walk has    *)
(* been.                                                                   *)
LEMMA ParsingStep ==
  ASSUME IInv, ParseStep
  PROVE  IInv'
  <1> DEFINE s == config.state
  <1> USE DEF IInv
  <1>1. /\ Parsing /\ packet' = packet /\ machine' = machine /\ stage' = stage
        /\ steps' = steps + 1 /\ states' = states /\ extracted' = extracted /\ queue' = queue
    BY DEF ParseStep, Parsing, rvars
  <1>2. PICK next \in IF TooShort THEN {Reject(NoStates)}
                      ELSE Selected(HeadersAfter[State.field_used]) :
          config' = [state |-> next,
                     pos   |-> IF Reading THEN config.pos + HeaderSize[Header] ELSE config.pos,
                     phv   |-> HeadersAfter]
    BY DEF ParseStep
  <1>3. next = Reject(NoStates) \/ next \in Successors(s)
    <2>1. \A w : Cases(w) # {} => Min(Cases(w)) \in DOMAIN State.transitions
      BY <1>1, SomeCase
    <2>2. \A w : Selected(w) \subseteq Successors(s)
      BY <2>1 DEF Selected, Successors, State
    <2> QED
      BY <1>2, <2>2
  <1>4. next \in 0 .. NoStates + 1
    <2>1. Reject(NoStates) \in 0 .. NoStates + 1
      BY RestorerAssumption DEF Reject
    <2> QED
      BY <1>1, <1>3, <2>1, SuccessorFacts DEF Parsing
  <1>5. config.pos \in 0 .. MaxPacketSize /\ config.phv \in [Fields -> Word]
    BY DEF TypeInv, Configs
  <1>6. HeadersAfter \in [Fields -> Word]
    <2>1. \A f \in Fields : Slice(packet, config.pos + Offset[f], FieldSize[f]) \in Word
      BY SliceIsWord
    <2> QED
      BY <1>5, <2>1 DEF HeadersAfter
  <1>7. (IF Reading THEN config.pos + HeaderSize[Header] ELSE config.pos) \in 0 .. MaxPacketSize
    <2>1. CASE Reading
      <3>1. State.field_used \in Fields
        BY <1>1, StateFacts DEF State, Parsing
      <3>2. HeaderSize[Header] \in Nat
        BY <3>1, RestorerAssumption DEF Header, Headers
      <3>3. ~(config.pos + HeaderSize[Header] > MaxPacketSize)
        BY <2>1 DEF Reading, TooShort
      <3> QED
        BY <1>5, <2>1, <3>2, <3>3, StateMachineAssumption
    <2> QED
      BY <1>5, <2>1
  <1>8. reads' \in Seq([header : Headers, pos : 0 .. MaxPacketSize])
    <2> DEFINE R == [header : Headers, pos : 0 .. MaxPacketSize]
               r == [header |-> Header, pos |-> config.pos]
    <2>1. reads \in Seq(R) /\ reads' = IF Reading THEN Append(reads, r) ELSE reads
      BY DEF ParseStep, TypeInv
    <2>2. r \in R
      BY <1>1, <1>5, StateIsDone DEF Headers
    <2> HIDE DEF R, r
    <2>3. reads' \in Seq(R)
      BY <2>1, <2>2
    <2> QED
      BY <2>3 DEF R
  <1>9. TypeInv'
    <2>1. config' \in Configs(NoStates)
      BY <1>2, <1>4, <1>6, <1>7 DEF Configs
    <2> QED
      BY <1>1, <1>8, <2>1 DEF TypeInv
  <1>10. WalkInv'
    BY <1>1, WalkKept DEF Parsing, WalkInv
  <1>11. config'.state = next /\ config'.phv = HeadersAfter
    BY <1>2
  <1>12. next \in States => next \in Successors(s) /\ ~TooShort
    BY <1>2, <1>3, RestorerAssumption DEF Reject, States
  <1>13. ReachedInv'
    <2>1. next \in States => next \in DOMAIN extracted
      BY <1>1, <1>12, StateIsDone
    <2>2. next > s /\ next \in Int /\ s \in Int
      BY <1>1, <1>3, <1>4, SuccessorFacts, RestorerAssumption DEF Parsing, States, Reject
    <2>3. steps' <= next
      BY <1>1, <2>2 DEF ReachedInv, TypeInv
    <2> QED
      BY <1>1, <1>11, <2>1, <2>3 DEF ReachedInv, Parsing
  <1>14. PhvInv'
    <2> SUFFICES ASSUME next \in States, PathsAgree', NEW f \in Fields
                 PROVE  HeadersAfter[f] = Sentinel <=> HeaderOf[f] \notin extracted[next]
      BY <1>1, <1>11 DEF PhvInv, Parsing
    <2>1. PathsAgree
      BY <1>1 DEF PathsAgree, Successors
    <2>2. extracted[next] = extracted[s] \cup {Header}
      BY <1>1, <1>12, <2>1, StateIsDone DEF PathsAgree, Header, State
    <2> QED
      BY <1>1, <1>12, <2>1, <2>2, HeadersOfPath
  <1> QED
    BY <1>9, <1>10, <1>13, <1>14

LEMMA InvarianceOfIInv == Spec => []IInv
  <1>1. Init => IInv
    BY InitIInv
  <1>2. IInv /\ [Next]_vars => IInv'
    <2> SUFFICES ASSUME IInv, [Next]_vars PROVE IInv'
      OBVIOUS
    <2>1. CASE RestorerNext /\ UNCHANGED pvars
      BY <2>1, RestorerStep
    <2>2. CASE ParseStep
      BY <2>2, ParsingStep
    <2>3. CASE UNCHANGED vars
      <3>1. UNCHANGED <<machine, stage, states, extracted, queue, packet, config, steps, reads>>
        BY <2>3 DEF vars, rvars, pvars
      <3>2. WalkInv'
        <4>1. CASE stage = "table"
          BY <3>1, <4>1 DEF WalkInv
        <4>2. CASE stage # "table"
          BY <3>1, <4>2, WalkKept DEF IInv, WalkInv
        <4> QED
          BY <4>1, <4>2
      <3> QED
        BY <3>1, <3>2 DEF IInv, TypeInv, ReachedInv, PhvInv, Parsing, PathsAgree, Successors
    <2> QED
      BY <2>1, <2>2, <2>3 DEF Next
  <1> QED
    BY <1>1, <1>2, PTL DEF Spec

(* The walk misses no state that a packet can reach, and decides from the  *)
(* headers of a path that the parser has: the breadth-first walk of        *)
(* assign_extractions over the restored transitions, for every machine.    *)
THEOREM WalkDecides == Spec => []EveryReachedStateDecided
  <1>1. IInv => EveryReachedStateDecided
    <2> SUFFICES ASSUME IInv, stage = "written"
                 PROVE  /\ \A v \in DOMAIN extracted :
                             /\ StoredByPath(v)
                             /\ states[v].is_extraction
                                  = (HeaderOf[states[v].field_used] \notin extracted[v])
                        /\ config.state \in States => config.state \in DOMAIN extracted
      BY DEF EveryReachedStateDecided
    <2>1. /\ queue = <<>> /\ DOMAIN extracted \subseteq States
          /\ \A v \in DOMAIN extracted : StoredByPath(v) /\ (Queued(v) \/ Done(v))
      BY DEF IInv, WalkInv
    <2>2. \A v \in DOMAIN extracted : Done(v)
      BY <2>1 DEF Queued
    <2>3. \A v \in DOMAIN extracted : states[v].field_used = machine.default_field[v]
      BY <2>1, StateFacts DEF IInv
    <2> QED
      BY <2>1, <2>2, <2>3 DEF IInv, ReachedInv, Done, Parsing
  <1> QED
    BY <1>1, InvarianceOfIInv, PTL

-----------------------------------------------------------------------------
(* The restored machine is the machine but for its table. *)
LEMMA RestoredFacts ==
  ASSUME machine \in InputMachines
  PROVE  /\ RestoredMachine.no_states = NoStates
         /\ RestoredMachine.default_field = machine.default_field
         /\ RestoredMachine.default_next = machine.default_next
         /\ \A v \in States : \A i :
              /\ i \in DOMAIN RestoredMachine.entries /\ RestoredMachine.entries[i].state = v
                   <=> i \in Restorable(machine, v)
              /\ i \in Restorable(machine, v) =>
                   LET r == Restored(machine.default_field[v], machine.entries[i])
                   IN  /\ RestoredMachine.entries[i].value = r.value
                       /\ RestoredMachine.entries[i].mask = r.mask
                       /\ RestoredMachine.entries[i].next = r.next
  <1> DEFINE kept == {j \in DOMAIN machine.entries :
                        j \in Restorable(machine, machine.entries[j].state)}
             table == [i \in kept |->
                         LET e == machine.entries[i]
                             r == Restored(machine.default_field[e.state], e)
                         IN  [state |-> e.state, next |-> r.next,
                              value |-> r.value, mask |-> r.mask]]
  <1>1. RestoredMachine = [machine EXCEPT !.entries = table]
    BY DEF RestoredMachine
  <1>2. machine \in Machines(NoStates, TableSize) /\ machine.no_states = NoStates
    BY InputFacts
  <1> HIDE DEF table
  <1>3. /\ RestoredMachine.no_states = NoStates
        /\ RestoredMachine.default_field = machine.default_field
        /\ RestoredMachine.default_next = machine.default_next
        /\ RestoredMachine.entries = table
    BY <1>1, <1>2 DEF Machines
  <1>4. /\ DOMAIN table = kept
        /\ \A i \in kept :
             LET r == Restored(machine.default_field[machine.entries[i].state],
                               machine.entries[i])
             IN  /\ table[i].state = machine.entries[i].state
                 /\ table[i].value = r.value /\ table[i].mask = r.mask /\ table[i].next = r.next
    BY DEF table
  <1>5. \A v, i : i \in Restorable(machine, v) <=> i \in kept /\ machine.entries[i].state = v
    BY DEF Restorable
  <1> QED
    BY <1>3, <1>4, <1>5

(* Where the walk agrees with the path of the packet, the state extracts   *)
(* exactly if the machine would.                                           *)
LEMMA SameExtraction ==
  ASSUME IInv, Parsing, WalkAgrees, SoleField(State.field_used)
  PROVE  /\ State.field_used = Field(machine, config)
         /\ Field(machine, config) \in Fields
         /\ Header = HeaderOf[Field(machine, config)]
         /\ HeaderSize[Header] = FieldSize[Field(machine, config)]
         /\ State.is_extraction <=> Attempts(machine, config)
         /\ Active(machine, config)
         /\ TooShort <=> OutOfBounds(machine, config)
         /\ Reading <=> Extracts(machine, config)
  <1> DEFINE f == Field(machine, config)
  <1>1. /\ State.field_used = f /\ f \in Fields /\ Header = HeaderOf[f]
        /\ State.is_extraction <=> Header \notin extracted[config.state]
    BY StateIsDone
  <1>2. Active(machine, config)
    BY InputFacts DEF Active, States, IInv, TypeInv, Parsing
  <1>3. HeaderSize[Header] = FieldSize[f]
    BY <1>1 DEF SoleField
  <1>4. State.is_extraction <=> Attempts(machine, config)
    BY <1>1 DEF WalkAgrees
  <1>5. TooShort <=> OutOfBounds(machine, config)
    <2>1. config.pos \in Int /\ FieldSize[f] \in Int /\ MaxPacketSize \in Int
      BY <1>1, StateMachineAssumption DEF IInv, TypeInv, Configs
    <2> QED
      BY <1>3, <1>4, <2>1 DEF TooShort, OutOfBounds, Fits
  <1>6. Reading <=> Extracts(machine, config)
    BY <1>4, <1>5 DEF Reading, OutOfBounds, Extracts
  <1> QED
    BY <1>1, <1>2, <1>3, <1>4, <1>5, <1>6

(* It leaves the same headers, ... *)
LEMMA SameHeaders ==
  ASSUME IInv, Parsing, WalkAgrees, SoleField(State.field_used)
  PROVE  HeadersAfter = NextPhv(machine, config, packet)
  <1> DEFINE f == Field(machine, config)
             word == Slice(packet, config.pos, FieldSize[f])
  <1>1. /\ f \in Fields /\ f = State.field_used
        /\ Header = HeaderOf[f] /\ (Reading <=> Extracts(machine, config))
    BY SameExtraction
  <1>2. CASE ~Reading
    BY <1>1, <1>2 DEF HeadersAfter, NextPhv
  <1>3. CASE Reading
    <2>1. /\ \A g \in Fields : HeaderOf[g] = HeaderOf[f] => g = f
          /\ Offset[f] = 0
      BY <1>1 DEF SoleField
    <2>2. config.phv \in [Fields -> Word] /\ config.pos \in Int
      BY DEF IInv, TypeInv, Configs
    <2>3. HeadersAfter = [g \in Fields |-> IF HeaderOf[g] = HeaderOf[f]
                                           THEN Slice(packet, config.pos + Offset[g], FieldSize[g])
                                           ELSE config.phv[g]]
      BY <1>1, <1>3 DEF HeadersAfter
    <2>4. config.pos + Offset[f] = config.pos
      BY <2>1, <2>2
    <2>5. NextPhv(machine, config, packet) = [config.phv EXCEPT ![f] = word]
      BY <1>1, <1>3 DEF NextPhv
    <2> HIDE DEF f, word
    <2>6. \A g \in Fields : HeadersAfter[g] = [config.phv EXCEPT ![f] = word][g]
      <3> SUFFICES ASSUME NEW g \in Fields
                   PROVE  HeadersAfter[g] = [config.phv EXCEPT ![f] = word][g]
        OBVIOUS
      <3>1. CASE g = f
        BY <1>1, <2>2, <2>3, <2>4, <3>1 DEF word
      <3>2. CASE g # f
        BY <1>1, <2>1, <2>2, <2>3, <3>2
      <3> QED
        BY <3>1, <3>2
    <2>7. HeadersAfter = [g \in Fields |-> HeadersAfter[g]]
      BY <2>3
    <2>8. [config.phv EXCEPT ![f] = word] = [g \in Fields |-> [config.phv EXCEPT ![f] = word][g]]
      BY <2>2
    <2> QED
      BY <2>5, <2>6, <2>7, <2>8
  <1> QED
    BY <1>2, <1>3

(* ... in which the field it selects on has been extracted. *)
LEMMA SelectedIsExtracted ==
  ASSUME IInv, Parsing, WalkAgrees, SoleField(State.field_used), ~TooShort
  PROVE  LET word == NextPhv(machine, config, packet)[Field(machine, config)]
         IN  word # Sentinel /\ word \in Word
  <1> DEFINE f == Field(machine, config)
             word == NextPhv(machine, config, packet)[f]
  <1>1. /\ f \in Fields /\ Active(machine, config)
        /\ State.is_extraction <=> Attempts(machine, config)
        /\ Reading <=> Extracts(machine, config)
    BY SameExtraction
  <1>2. config.phv \in [Fields -> Word]
    BY DEF IInv, TypeInv, Configs
  <1>3. CASE Reading
    <2>1. word = Slice(packet, config.pos, FieldSize[f])
      BY <1>1, <1>2, <1>3 DEF NextPhv
    <2> QED
      BY <1>1, <2>1, SliceIsWord, SliceIsNotSentinel
  <1>4. CASE ~Reading
    <2>1. word = config.phv[f]
      BY <1>1, <1>4 DEF NextPhv
    <2>2. ~Attempts(machine, config)
      BY <1>1, <1>4 DEF Reading
    <2> QED
      BY <1>1, <1>2, <2>1, <2>2 DEF Attempts
  <1> QED
    BY <1>3, <1>4

(* An exact match determines the bits of the value. *)
LEMMA ExactMatch ==
  ASSUME NEW word \in Word, NEW e, e.mask = FullMask, Matches(word, e)
  PROVE  \A b \in 0 .. MaxFieldSize - 1 : e.value[b] = word[b]
  <1> SUFFICES ASSUME NEW b \in 0 .. MaxFieldSize - 1 PROVE e.value[b] = word[b]
    OBVIOUS
  <1>1. FullMask[b] = 1
    BY DEF FullMask
  <1>2. word[b] * 1 = e.value[b]
    BY <1>1 DEF Matches
  <1>3. word[b] \in {0, 1}
    BY DEF Word, Bit
  <1> QED
    BY <1>2, <1>3

(* At most one case of the select matches: in an exact table entries of    *)
(* one state have different values, and so have those that are restored.   *)
LEMMA OneCase ==
  ASSUME IInv, Parsing, ~Overlap, NEW word \in Word, word = HeadersAfter[State.field_used],
         NEW i \in Cases(word), NEW j \in Cases(word)
  PROVE  i = j
  <1>1. CASE TernaryMatch
    BY <1>1 DEF Overlap
  <1>2. CASE ~TernaryMatch
    <2> DEFINE s == config.state
               f == machine.default_field[s]
               v == machine.entries[i].value
               w == machine.entries[j].value
    <2>1. /\ DOMAIN State.transitions = Restorable(machine, s)
          /\ \A k \in Restorable(machine, s) :
               State.transitions[k] = Restored(f, machine.entries[k])
      BY StateFacts DEF State, IInv, Parsing
    <2>2. /\ i \in Restorable(machine, s) /\ Matches(word, State.transitions[i])
          /\ j \in Restorable(machine, s) /\ Matches(word, State.transitions[j])
      BY <2>1 DEF Cases
    <2>3. /\ State.transitions[i].mask = FullMask
          /\ State.transitions[i].value = OldConstant[f][v]
          /\ State.transitions[j].mask = FullMask
          /\ State.transitions[j].value = OldConstant[f][w]
      <3>1. \A e : /\ Restored(f, e).mask = FullMask
                   /\ Restored(f, e).value = OldConstant[f][e.value]
        BY <1>2 DEF Restored
      <3> HIDE DEF f
      <3> QED
        BY <2>1, <2>2, <3>1
    <2>4. \A b \in 0 .. MaxFieldSize - 1 : OldConstant[f][v][b] = OldConstant[f][w][b]
      <3>1. \A b \in 0 .. MaxFieldSize - 1 : State.transitions[i].value[b] = word[b]
        BY <2>2, <2>3, ExactMatch
      <3>2. \A b \in 0 .. MaxFieldSize - 1 : State.transitions[j].value[b] = word[b]
        BY <2>2, <2>3, ExactMatch
      <3> HIDE DEF f, v, w
      <3> QED
        BY <2>3, <3>1, <3>2
    <2>5. /\ i \in DOMAIN machine.entries /\ machine.entries[i].state = s
          /\ j \in DOMAIN machine.entries /\ machine.entries[j].state = s
          /\ v \in DOMAIN OldConstant[f] /\ w \in DOMAIN OldConstant[f]
      BY <1>2, <2>2 DEF Restorable
    <2>6. f \in Fields
      BY InputFacts DEF IInv, TypeInv, Parsing
    <2>7. v = w
      BY <2>4, <2>5, <2>6, RestoredTableAssumption
    <2>8. Deterministic(machine.entries)
      BY <1>2, InputFacts DEF IInv, TypeInv, Machines, Tables
    <2> QED
      BY <2>5, <2>7, <2>8 DEF Deterministic
  <1> QED
    BY <1>1, <1>2

(* The select goes where the look-up in the restored table goes. *)
LEMMA SameNext ==
  ASSUME IInv, Parsing, WalkAgrees, SoleField(State.field_used), ~Overlap, ~TooShort
  PROVE  Selected(HeadersAfter[State.field_used])
           = {NextState(RestoredMachine, config, packet)}
  <1> DEFINE R == RestoredMachine
             s == config.state
             f == Field(machine, config)
             word == NextPhv(machine, config, packet)[f]
             hits == Hits(R, config, packet)
  <1>1. /\ HeadersAfter[State.field_used] = word
        /\ Active(machine, config) /\ ~OutOfBounds(machine, config)
        /\ f = machine.default_field[s]
    BY SameExtraction, SameHeaders DEF Field
  <1>2. word # Sentinel /\ word \in Word
    BY SelectedIsExtracted
  <1>3. /\ DOMAIN State.transitions = Restorable(machine, s)
        /\ \A i \in Restorable(machine, s) :
             State.transitions[i] = Restored(f, machine.entries[i])
        /\ State.default = machine.default_next[s]
    BY <1>1, StateFacts DEF State, IInv, Parsing
  <1>4. /\ R.no_states = NoStates /\ machine.no_states = NoStates
        /\ R.default_field = machine.default_field /\ R.default_next = machine.default_next
        /\ \A i : /\ i \in DOMAIN R.entries /\ R.entries[i].state = s
                       <=> i \in Restorable(machine, s)
                  /\ i \in Restorable(machine, s) =>
                       /\ R.entries[i].value = State.transitions[i].value
                       /\ R.entries[i].mask = State.transitions[i].mask
                       /\ R.entries[i].next = State.transitions[i].next
    BY <1>1, <1>3, RestoredFacts, InputFacts DEF IInv, TypeInv, Parsing
  <1> HIDE DEF R
  <1>5. /\ Field(R, config) = f /\ Active(R, config) /\ ~OutOfBounds(R, config)
        /\ NextPhv(R, config, packet)[Field(R, config)] = word
    BY <1>1, <1>4 DEF Field, Active, OutOfBounds, Attempts, Fits, NextPhv, Extracts
  <1>6. hits = Cases(word)
    <2>1. hits = {i \in DOMAIN R.entries : R.entries[i].state = s /\ Matches(word, R.entries[i])}
      BY <1>2, <1>5 DEF Hits
    <2>2. \A i \in Restorable(machine, s) :
            Matches(word, R.entries[i]) <=> Matches(word, State.transitions[i])
      BY <1>4 DEF Matches
    <2>3. Cases(word) = {i \in Restorable(machine, s) : Matches(word, State.transitions[i])}
      BY <1>3 DEF Cases
    <2> HIDE DEF hits, word
    <2> QED
      BY <1>4, <2>1, <2>2, <2>3
  <1>7. NextState(R, config, packet) = LookUp(R, config, packet)
    BY <1>5 DEF NextState
  <1>8. \A i, j \in hits : i = j
    BY <1>1, <1>2, <1>6, OneCase
  <1>9. \A i \in hits : i \in Nat /\ R.entries[i].next = State.transitions[i].next
    <2>1. \A i \in hits : i \in Restorable(machine, s)
      BY <1>3, <1>6 DEF Cases
    <2>2. DOMAIN machine.entries \subseteq Nat
      BY InputFacts DEF IInv, TypeInv
    <2> QED
      BY <1>4, <2>1, <2>2 DEF Restorable
  <1> HIDE DEF word, hits
  <1>10. CASE hits = {}
    BY <1>1, <1>2, <1>3, <1>4, <1>6, <1>7, <1>10 DEF Selected, LookUp, hits, R
  <1>11. CASE hits # {}
    <2>1. PICK i \in hits : hits = {i}
      BY <1>8, <1>11
    <2>2. Min(hits) = i /\ Max(hits) = i
      BY <1>9, <2>1 DEF Min, Max
    <2>3. Selected(word) = {State.transitions[i].next}
      BY <1>2, <1>6, <1>11, <2>2 DEF Selected
    <2>4. LookUp(R, config, packet) = R.entries[i].next
      BY <1>11, <2>2 DEF LookUp, hits
    <2> QED
      BY <1>1, <1>7, <1>9, <2>1, <2>3, <2>4 DEF R
  <1> QED
    BY <1>10, <1>11

(* A step of the parser is a transition of the restored machine. *)
LEMMA SameTransition ==
  ASSUME IInv, ParseStep, WalkAgrees, SoleField(State.field_used), ~Overlap
  PROVE  config' = Transition(RestoredMachine, config, packet)
  <1> DEFINE R == RestoredMachine
  <1>1. Parsing
    BY DEF ParseStep, Parsing
  <1>2. PICK next \in IF TooShort THEN {Reject(NoStates)}
                      ELSE Selected(HeadersAfter[State.field_used]) :
          config' = [state |-> next,
                     pos   |-> IF Reading THEN config.pos + HeaderSize[Header] ELSE config.pos,
                     phv   |-> HeadersAfter]
    BY DEF ParseStep
  <1>3. /\ R.no_states = NoStates /\ machine.no_states = NoStates
        /\ R.default_field = machine.default_field
    BY RestoredFacts, InputFacts DEF IInv, TypeInv
  <1> HIDE DEF R
  <1>4. /\ Active(R, config) <=> Active(machine, config)
        /\ OutOfBounds(R, config) <=> OutOfBounds(machine, config)
        /\ NextPos(R, config) = NextPos(machine, config)
        /\ NextPhv(R, config, packet) = NextPhv(machine, config, packet)
    BY <1>3 DEF Field, Active, OutOfBounds, Attempts, Fits, NextPhv, Extracts, NextPos
  <1>5. next = NextState(R, config, packet)
    <2>1. CASE TooShort
      BY <1>1, <1>2, <1>3, <1>4, <2>1, SameExtraction DEF NextState
    <2>2. CASE ~TooShort
      BY <1>1, <1>2, <2>2, SameNext DEF R
    <2> QED
      BY <2>1, <2>2
  <1>6. (IF Reading THEN config.pos + HeaderSize[Header] ELSE config.pos) = NextPos(R, config)
    BY <1>1, <1>4, SameExtraction DEF NextPos
  <1> QED
    BY <1>1, <1>2, <1>4, <1>5, <1>6, SameHeaders DEF Transition, R

-----------------------------------------------------------------------------
(* Module Simulation runs the machines of this module. *)
LEMMA SameInstance ==
  /\ Restoration!Machines(NoStates, TableSize) = Machines(NoStates, TableSize)
  /\ Restoration!Packet = Packet
  /\ Restoration!Start = Start
  /\ \A m, c : Restoration!Extracts(m, c) = Extracts(m, c)
  /\ \A m, c : Restoration!Field(m, c) = Field(m, c)
  /\ \A m, c, p : Restoration!Transition(m, c, p) = Transition(m, c, p)
  <1>1. Restoration!Fields = Fields /\ Restoration!Bit = Bit
    BY DEF Restoration!Fields, Fields, Restoration!Bit, Bit
  <1>2. Restoration!Packet = Packet
    BY <1>1 DEF Restoration!Packet, Packet
  <1>3. Restoration!Sentinel = Sentinel
    BY DEF Restoration!Sentinel, Sentinel
  <1>4. Restoration!InitialPhv = InitialPhv
    BY <1>1, <1>3 DEF Restoration!InitialPhv, InitialPhv
  <1>5. Restoration!Start = Start
    BY <1>4 DEF Restoration!Start, Start
  <1>6. Restoration!Machines(NoStates, TableSize) = Machines(NoStates, TableSize)
    BY <1>1 DEF Restoration!Machines, Machines, Restoration!Tables, Tables, Restoration!Entries, Entries,
                Restoration!Deterministic, Deterministic, Restoration!DefaultNexts, DefaultNexts
  <1>7. \A m, c : Restoration!Active(m, c) = Active(m, c) /\ Restoration!Field(m, c) = Field(m, c)
    BY DEF Restoration!Active, Active, Restoration!Field, Field
  <1>8. \A m, c : Restoration!Attempts(m, c) = Attempts(m, c)
    BY <1>3, <1>7 DEF Restoration!Attempts, Attempts
  <1>9. \A m, c : Restoration!Fits(m, c) = Fits(m, c)
    BY <1>7 DEF Restoration!Fits, Fits
  <1>10. \A m, c : /\ Restoration!Extracts(m, c) = Extracts(m, c)
                   /\ Restoration!OutOfBounds(m, c) = OutOfBounds(m, c)
    BY <1>8, <1>9 DEF Restoration!Extracts, Extracts, Restoration!OutOfBounds, OutOfBounds
  <1>11. \A p, q, z : Restoration!Slice(p, q, z) = Slice(p, q, z)
    BY DEF Restoration!Slice, Slice
  <1>12. \A m, c, p : Restoration!NextPhv(m, c, p) = NextPhv(m, c, p)
    BY <1>7, <1>10, <1>11 DEF Restoration!NextPhv, NextPhv
  <1>13. \A m, c : Restoration!NextPos(m, c) = NextPos(m, c)
    BY <1>7, <1>10 DEF Restoration!NextPos, NextPos
  <1>14. \A w, e : Restoration!Matches(w, e) = Matches(w, e)
    BY DEF Restoration!Matches, Matches
  <1>15. \A m, c, p : Restoration!Hits(m, c, p) = Hits(m, c, p)
    BY <1>3, <1>7, <1>12, <1>14 DEF Restoration!Hits, Hits
  <1>16. \A S : Restoration!Max(S) = Max(S)
    BY DEF Restoration!Max, Max
  <1>17. \A m, c, p : Restoration!LookUp(m, c, p) = LookUp(m, c, p)
    BY <1>15, <1>16 DEF Restoration!LookUp, LookUp
  <1>18. \A m, c, p : Restoration!NextState(m, c, p) = NextState(m, c, p)
    BY <1>7, <1>10, <1>17 DEF Restoration!NextState, NextState, Restoration!Reject, Reject
  <1>19. \A m, c, p : Restoration!Transition(m, c, p) = Transition(m, c, p)
    BY <1>12, <1>13, <1>18 DEF Restoration!Transition, Transition
  <1> QED
    BY <1>2, <1>5, <1>6, <1>7, <1>10, <1>19

(* The history of the parser is that of the machine. *)
LEMMA SameReads ==
  ASSUME IInv, ParseStep, WalkAgrees, SoleField(State.field_used)
  PROVE  ReadsByField' = IF Extracts(machine, config)
                         THEN Append(ReadsByField,
                                     [field |-> Field(machine, config), pos |-> config.pos])
                         ELSE ReadsByField
  <1> DEFINE f == Field(machine, config)
             r == [header |-> Header, pos |-> config.pos]
             a == [field |-> f, pos |-> config.pos]
  <1>1. /\ f \in Fields /\ Header = HeaderOf[f] /\ (Reading <=> Extracts(machine, config))
        /\ \A g \in Fields : HeaderOf[g] = HeaderOf[f] => g = f
    BY SameExtraction DEF ParseStep, SoleField
  <1>2. FieldOf(Header) = f
    BY <1>1 DEF FieldOf
  <1>3. CASE ~Reading
    <2>1. reads' = reads
      BY <1>3 DEF ParseStep
    <2> QED
      BY <1>1, <1>3, <2>1 DEF ReadsByField
  <1>4. CASE Reading
    <2>1. reads' = Append(reads, r)
      BY <1>4 DEF ParseStep
    <2>2. reads \in Seq([header : Headers, pos : 0 .. MaxPacketSize])
      BY DEF IInv, TypeInv
    <2> DEFINE n == Len(reads)
    <2>3. /\ n \in Nat /\ DOMAIN reads = 1 .. n
          /\ DOMAIN reads' = 1 .. n + 1
          /\ \A i \in 1 .. n : reads'[i] = reads[i]
          /\ reads'[n + 1] = r
      <3> HIDE DEF r
      <3> QED
        BY <2>1, <2>2
    <2>4. /\ ReadsByField = [i \in 1 .. n |-> [field |-> FieldOf(reads[i].header),
                                              pos |-> reads[i].pos]]
          /\ ReadsByField' = [i \in 1 .. n + 1 |-> [field |-> FieldOf(reads'[i].header),
                                                   pos |-> reads'[i].pos]]
      BY <2>3 DEF ReadsByField
    <2> HIDE DEF n
    <2>5. Append(ReadsByField, a) = [i \in 1 .. n + 1 |-> IF i = n + 1 THEN a ELSE ReadsByField[i]]
      <3> DEFINE S == [field : {FieldOf(reads[i].header) : i \in 1 .. n},
                       pos : {reads[i].pos : i \in 1 .. n}] \cup {a}
      <3>1. ReadsByField \in [1 .. n -> S]
        BY <2>4
      <3> HIDE DEF S, a
      <3>2. ReadsByField \in Seq(S) /\ Len(ReadsByField) = n
        BY <2>3, <3>1
      <3>3. a \in S
        BY DEF S
      <3> DEFINE longer == Append(ReadsByField, a)
      <3>4. /\ longer \in Seq(S) /\ Len(longer) = n + 1
            /\ \A i \in 1 .. n : longer[i] = ReadsByField[i]
            /\ longer[n + 1] = a
        BY <3>2, <3>3, AppendProperties
      <3> HIDE DEF longer
      <3>5. longer \in [1 .. n + 1 -> S]
        BY <3>4, LenProperties
      <3>6. \A i \in 1 .. n + 1 : longer[i] = IF i = n + 1 THEN a ELSE ReadsByField[i]
        <4>1. \A i \in 1 .. n + 1 : i # n + 1 => i \in 1 .. n
          BY <2>3
        <4> QED
          BY <3>4, <4>1
      <3>7. longer = [i \in 1 .. n + 1 |-> IF i = n + 1 THEN a ELSE ReadsByField[i]]
        BY <3>5, <3>6
      <3> QED
        BY <3>7 DEF longer
    <2>6. \A i \in 1 .. n + 1 :
            [field |-> FieldOf(reads'[i].header), pos |-> reads'[i].pos]
              = IF i = n + 1 THEN a ELSE ReadsByField[i]
      <3> SUFFICES ASSUME NEW i \in 1 .. n + 1
                   PROVE  [field |-> FieldOf(reads'[i].header), pos |-> reads'[i].pos]
                            = IF i = n + 1 THEN a ELSE ReadsByField[i]
        OBVIOUS
      <3>1. CASE i = n + 1
        BY <1>2, <2>3, <3>1
      <3>2. CASE i # n + 1
        <4>1. i \in 1 .. n
          BY <2>3, <3>2
        <4> QED
          BY <2>3, <2>4, <3>2, <4>1
      <3> QED
        BY <3>1, <3>2
    <2>7. ReadsByField' = [i \in 1 .. n + 1 |-> IF i = n + 1 THEN a ELSE ReadsByField[i]]
      <3> HIDE DEF a
      <3> QED
        BY <2>4, <2>6
    <2> QED
      BY <1>1, <1>4, <2>5, <2>7
  <1> QED
    BY <1>3, <1>4

(* For every machine: the parser that table_to_states, assign_extractions  *)
(* and emit_p4 produce does what simulate_stm does with the machine that   *)
(* has the constants of the source, same states, positions, fields and     *)
(* extractions, if the header has one field, no ternary entries overlap    *)
(* and the walk knows the headers of the packet's path, as it does when    *)
(* paths agree.                                                            *)
THEOREM Implementation == Spec => ImplementsMachine
  <1>1. IInv /\ [Next]_vars =>
          [Parsing /\ SoleField(State.field_used) /\ ~Overlap /\ (PathsAgree \/ WalkAgrees)
             => Restoration!Simulate]_(Restoration!vars)
    <2> SUFFICES ASSUME IInv, [Next]_vars, ~UNCHANGED (Restoration!vars),
                        Parsing, SoleField(State.field_used), ~Overlap,
                        PathsAgree \/ WalkAgrees
                 PROVE  Restoration!Simulate
      OBVIOUS
    <2>1. ParseStep
      <3>1. ASSUME machine' = machine, UNCHANGED pvars PROVE UNCHANGED (Restoration!vars)
        BY <3>1 DEF pvars, Restoration!vars, ReadsByField, RestoredMachine
      <3>2. RestorerNext => machine' = machine
        BY DEF RestorerNext, TableToStates, Visit, WriteP4
      <3>3. UNCHANGED vars => machine' = machine /\ UNCHANGED pvars
        BY DEF vars, rvars
      <3> QED
        BY <3>1, <3>2, <3>3 DEF Next
    <2>2. WalkAgrees
      BY AgreeingPaths
    <2>3. config' = Transition(RestoredMachine, config, packet)
      BY <2>1, <2>2, SameTransition
    <2>4. steps < NoStates /\ steps' = steps + 1 /\ packet' = packet /\ machine' = machine
      BY <2>1, RestorerAssumption DEF ParseStep, rvars, IInv, TypeInv, ReachedInv, Parsing, States
    <2>5. RestoredMachine' = RestoredMachine
      BY <2>4 DEF RestoredMachine
    <2>6. /\ Field(RestoredMachine, config) = Field(machine, config)
          /\ Extracts(RestoredMachine, config) <=> Extracts(machine, config)
      BY RestoredFacts, InputFacts
         DEF Field, Extracts, Attempts, Active, Fits, IInv, TypeInv
    <2> QED
      BY <2>1, <2>2, <2>3, <2>4, <2>5, <2>6, SameReads, SameInstance DEF Restoration!Simulate
  <1> QED
    BY <1>1, InvarianceOfIInv, PTL DEF Spec, ImplementsMachine

(* Where paths agree, no packet makes the parser select on a field of a    *)
(* header that was not extracted from it.                                  *)
THEOREM ValidSelects == Spec => []SelectsOnValidHeader
  <1>1. IInv => SelectsOnValidHeader
    <2> SUFFICES ASSUME IInv, Parsing, ~TooShort, PathsAgree
                 PROVE  HeadersAfter[State.field_used] # Sentinel
      BY DEF SelectsOnValidHeader
    <2>1. State.field_used \in Fields /\ Header = HeaderOf[State.field_used]
      BY StateIsDone
    <2> QED
      BY <2>1, HeadersOfPath
  <1> QED
    BY <1>1, InvarianceOfIInv, PTL
=============================================================================
