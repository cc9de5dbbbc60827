-------------------------- MODULE Simulation_proofs --------------------------
(***************************************************************************)
(* The simulation of a machine, for every number of states, entries,       *)
(* fields and bits: it is type correct and it has halted after NoStates    *)
(* transitions, whatever the packet.                                       *)
(***************************************************************************)
EXTENDS Simulation, StateMachine_proofs

(* Typing of the simulation. *)
THEOREM TypeCorrect == Spec => []TypeOK
  <1> USE SimulationAssumption, StateMachineAssumption
  <1>1. Init => TypeOK
    <2> SUFFICES ASSUME Init PROVE TypeOK
      OBVIOUS
    <2>1. InitialPhv \in [Fields -> Word]
      BY SentinelIsWord DEF InitialPhv
    <2>2. config \in [state : 0 .. NoStates + 1, pos : 0 .. MaxPacketSize,
                      phv : [Fields -> Word]]
      BY <2>1 DEF Init, Start
    <2> QED
      BY <2>2 DEF Init, TypeOK
  <1>2. TypeOK /\ [Simulate]_vars => TypeOK'
    <2> SUFFICES ASSUME TypeOK, [Simulate]_vars PROVE TypeOK'
      OBVIOUS
    <2>1. CASE Simulate
      <3>1. config' \in [state : 0 .. NoStates + 1, pos : 0 .. MaxPacketSize,
                         phv : [Fields -> Word]]
        BY <2>1, TransitionType DEF Simulate, TypeOK, Configs
      <3>2. reads' \in Seq([field : Fields, pos : 0 .. MaxPacketSize])
        <4>1. CASE Extracts(machine, config)
          <5>1. config.state \in 0 .. NoStates - 1
            BY <4>1, MachineFacts DEF Extracts, Attempts, Active, TypeOK
          <5>2. Field(machine, config) \in Fields
            BY <5>1, MachineFacts DEF Field, TypeOK
          <5> QED
            BY <2>1, <4>1, <5>2 DEF Simulate, TypeOK
        <4> QED
          BY <2>1, <4>1 DEF Simulate, TypeOK
      <3> QED
        BY <2>1, <3>1, <3>2 DEF Simulate, TypeOK
    <2>2. CASE UNCHANGED vars
      BY <2>2 DEF vars, TypeOK
    <2> QED
      BY <2>1, <2>2
  <1> QED
    BY <1>1, <1>2, PTL DEF Spec

(* The state number is at least the number of transitions made. *)
StateRises == config.state >= step

(* Every machine the Generator may propose has halted when the comparison  *)
(* with the specification is made.                                         *)
THEOREM Halting == Spec => []HaltsWithinNoStates
  <1> USE SimulationAssumption
  <1>1. Init => StateRises
    BY DEF Init, Start, StateRises
  <1>2. TypeOK /\ StateRises /\ [Simulate]_vars => StateRises'
    <2> SUFFICES ASSUME TypeOK, StateRises, [Simulate]_vars PROVE StateRises'
      OBVIOUS
    <2>1. CASE Simulate
      <3>1. config'.state = NextState(machine, config, packet)
        BY <2>1 DEF Simulate, Transition
      <3>2. config.state \in 0 .. NoStates + 1 /\ step \in 0 .. NoStates - 1
        BY <2>1 DEF Simulate, TypeOK
      <3>3. /\ config'.state \in 0 .. NoStates + 1
            /\ config.state < NoStates => config'.state > config.state
            /\ config.state >= NoStates => config'.state = config.state
        BY <3>1, <3>2, NextStateRises DEF TypeOK
      <3>4. step' = step + 1
        BY <2>1 DEF Simulate
      <3> QED
        BY <3>2, <3>3, <3>4 DEF StateRises
    <2>2. CASE UNCHANGED vars
      BY <2>2 DEF vars, StateRises
    <2> QED
      BY <2>1, <2>2
  <1>3. TypeOK /\ StateRises => HaltsWithinNoStates
    <2>1. TypeOK => config.state \in 0 .. NoStates + 1
      BY DEF TypeOK
    <2> QED
      BY <2>1, SimulationAssumption
         DEF StateRises, HaltsWithinNoStates, Accept, Reject
  <1> QED
    BY <1>1, <1>2, <1>3, TypeCorrect, PTL DEF Spec

-----------------------------------------------------------------------------
(* What an extracting step does. *)
LEMMA ExtractingStep ==
  ASSUME TypeOK, Simulate, Extracts(machine, config),
         NEW f, f = Field(machine, config)
  PROVE  /\ f \in Fields
         /\ config'.phv = [config.phv EXCEPT ![f] = Slice(packet, config.pos, FieldSize[f])]
         /\ config'.pos = config.pos + FieldSize[f]
         /\ Len(reads') = Len(reads) + 1
         /\ \A i \in 1 .. Len(reads) : reads'[i] = reads[i]
         /\ reads'[Len(reads) + 1] = [field |-> f, pos |-> config.pos]
         /\ DOMAIN reads = 1 .. Len(reads) /\ DOMAIN reads' = 1 .. Len(reads) + 1
         /\ Len(reads) \in Nat
  <1>1. f \in Fields
    <2>1. config.state \in 0 .. NoStates - 1
      BY MachineFacts, SimulationAssumption DEF Extracts, Attempts, Active, TypeOK
    <2> QED
      BY <2>1, MachineFacts, SimulationAssumption DEF Field, TypeOK
  <1>2. /\ config'.phv = [config.phv EXCEPT ![f] = Slice(packet, config.pos, FieldSize[f])]
        /\ config'.pos = config.pos + FieldSize[f]
    BY DEF Simulate, Transition, NextPhv, NextPos
  <1> DEFINE r == [field |-> f, pos |-> config.pos]
  <1>3. reads \in Seq([field : Fields, pos : 0 .. MaxPacketSize])
        /\ r \in [field : Fields, pos : 0 .. MaxPacketSize]
    BY <1>1 DEF TypeOK
  <1>4. reads' = Append(reads, r)
    BY DEF Simulate
  <1> HIDE DEF r
  <1>5. /\ Len(reads') = Len(reads) + 1
        /\ \A i \in 1 .. Len(reads) : reads'[i] = reads[i]
        /\ reads'[Len(reads) + 1] = r
        /\ DOMAIN reads = 1 .. Len(reads) /\ DOMAIN reads' = 1 .. Len(reads) + 1
        /\ Len(reads) \in Nat
    BY <1>3, <1>4
  <1> QED
    BY <1>1, <1>2, <1>5 DEF r

(* What the other steps leave alone. *)
LEMMA QuietStep ==
  ASSUME (Simulate /\ ~Extracts(machine, config)) \/ UNCHANGED vars
  PROVE  /\ config'.phv = config.phv /\ config'.pos = config.pos
         /\ reads' = reads /\ packet' = packet
  BY DEF Simulate, Transition, NextPhv, NextPos, vars

(* A field holds the sentinel exactly until it is extracted. *)
THEOREM SentinelSound == Spec => []SentinelMeansAbsent
  <1>1. Init => SentinelMeansAbsent
    BY DEF Init, Start, InitialPhv, SentinelMeansAbsent
  <1>2. TypeOK /\ SentinelMeansAbsent /\ [Simulate]_vars => SentinelMeansAbsent'
    <2> SUFFICES ASSUME TypeOK, SentinelMeansAbsent, [Simulate]_vars,
                        NEW g \in Fields
                 PROVE  config'.phv[g] = Sentinel
                          <=> \A i \in DOMAIN reads' : reads'[i].field # g
      BY DEF SentinelMeansAbsent
    <2>1. CASE Simulate /\ Extracts(machine, config)
      <3> DEFINE f == Field(machine, config)
      <3>0. f = Field(machine, config)
        OBVIOUS
      <3> HIDE DEF f
      <3>1. /\ f \in Fields
            /\ config'.phv = [config.phv EXCEPT ![f] = Slice(packet, config.pos, FieldSize[f])]
            /\ \A i \in 1 .. Len(reads) : reads'[i] = reads[i]
            /\ reads'[Len(reads) + 1] = [field |-> f, pos |-> config.pos]
            /\ DOMAIN reads = 1 .. Len(reads) /\ DOMAIN reads' = 1 .. Len(reads) + 1
            /\ Len(reads) \in Nat
        BY <2>1, <3>0, ExtractingStep
      <3>2. CASE g = f
        <4>1. Slice(packet, config.pos, FieldSize[f]) # Sentinel
          BY <3>1, SliceIsNotSentinel
        <4>2. config.phv \in [Fields -> Word]
          BY DEF TypeOK
        <4>3. config'.phv[f] = Slice(packet, config.pos, FieldSize[f])
          BY <3>1, <4>2
        <4> QED
          BY <3>1, <3>2, <4>1, <4>3
      <3>3. CASE g # f
        <4>1. config'.phv[g] = config.phv[g]
          BY <3>1, <3>3 DEF TypeOK
        <4>2. (\A i \in DOMAIN reads' : reads'[i].field # g)
                <=> (\A i \in DOMAIN reads : reads[i].field # g)
          BY <3>1, <3>3
        <4> QED
          BY <4>1, <4>2 DEF SentinelMeansAbsent
      <3> QED
        BY <3>2, <3>3
    <2>2. CASE (Simulate /\ ~Extracts(machine, config)) \/ UNCHANGED vars
      BY <2>2, QuietStep DEF SentinelMeansAbsent
    <2> QED
      BY <2>1, <2>2
  <1> QED
    BY <1>1, <1>2, TypeCorrect, PTL DEF Spec

(* The second design extracts no field twice. *)
THEOREM ExtractsOnce == Spec => []ReadOnce
  <1>1. Init => ReadOnce
    BY DEF Init, ReadOnce
  <1>2. TypeOK /\ SentinelMeansAbsent /\ ReadOnce /\ [Simulate]_vars => ReadOnce'
    <2> SUFFICES ASSUME TypeOK, SentinelMeansAbsent, ReadOnce, [Simulate]_vars,
                        NotAlwaysExtract,
                        NEW i \in DOMAIN reads', NEW j \in DOMAIN reads',
                        reads'[i].field = reads'[j].field
                 PROVE  i = j
      BY DEF ReadOnce
    <2>1. CASE Simulate /\ Extracts(machine, config)
      <3> DEFINE f == Field(machine, config)
      <3>0. f = Field(machine, config)
        OBVIOUS
      <3>1. config.phv[f] = Sentinel
        BY <2>1 DEF Extracts, Attempts
      <3> HIDE DEF f
      <3>2. /\ f \in Fields
            /\ \A k \in 1 .. Len(reads) : reads'[k] = reads[k]
            /\ reads'[Len(reads) + 1] = [field |-> f, pos |-> config.pos]
            /\ DOMAIN reads = 1 .. Len(reads) /\ DOMAIN reads' = 1 .. Len(reads) + 1
            /\ Len(reads) \in Nat
        BY <2>1, <3>0, ExtractingStep
      <3>3. \A k \in 1 .. Len(reads) : reads[k].field # f
        BY <3>1, <3>2 DEF SentinelMeansAbsent
      <3>4. CASE i \in 1 .. Len(reads) /\ j \in 1 .. Len(reads)
        BY <3>2, <3>4 DEF ReadOnce
      <3>5. CASE ~(i \in 1 .. Len(reads) /\ j \in 1 .. Len(reads))
        BY <3>2, <3>3, <3>5
      <3> QED
        BY <3>4, <3>5
    <2>2. CASE (Simulate /\ ~Extracts(machine, config)) \/ UNCHANGED vars
      BY <2>2, QuietStep DEF ReadOnce
    <2> QED
      BY <2>1, <2>2
  <1> QED
    BY <1>1, <1>2, TypeCorrect, SentinelSound, PTL DEF Spec

(* No transition but the bounds check's is decided by an absent field. *)
THEOREM DecidesSoundly == Spec => DecidesOnExtractedField
  <1>1. TypeOK /\ [Simulate]_vars =>
          [Active(machine, config) /\ config'.state # Reject(NoStates)
             => config'.phv[Field(machine, config)] # Sentinel]_vars
    <2> SUFFICES ASSUME TypeOK, Simulate, Active(machine, config),
                        config'.state # Reject(NoStates)
                 PROVE  config'.phv[Field(machine, config)] # Sentinel
      OBVIOUS
    <2> DEFINE f == Field(machine, config)
    <2>1. ~OutOfBounds(machine, config)
      BY MachineFacts, SimulationAssumption DEF Simulate, Transition, NextState, TypeOK
    <2>2. CASE Extracts(machine, config)
      <3>1. /\ f \in Fields
            /\ config'.phv = [config.phv EXCEPT ![f] = Slice(packet, config.pos, FieldSize[f])]
        BY <2>2, ExtractingStep
      <3> HIDE DEF f
      <3>2. config'.phv[f] # Sentinel
        BY <3>1, SliceIsNotSentinel DEF TypeOK
      <3> QED
        BY <3>2 DEF f
    <2>3. CASE ~Extracts(machine, config)
      <3>1. ~Attempts(machine, config)
        BY <2>1, <2>3 DEF Extracts, OutOfBounds
      <3>2. config.phv[f] # Sentinel
        BY <3>1 DEF Attempts
      <3> QED
        BY <2>3, <3>2, QuietStep
    <2> QED
      BY <2>2, <2>3
  <1> QED
    BY <1>1, TypeCorrect, PTL DEF Spec, DecidesOnExtractedField

-----------------------------------------------------------------------------
(* Extractions consume the packet without gap or overlap, and fields hold  *)
(* the bits of their last extraction.                                      *)
THEOREM ReadsContiguously == Spec => []ContiguousReads
  <1>1. Init => ContiguousReads
    BY DEF Init, Start, ContiguousReads
  <1>2. TypeOK /\ ContiguousReads /\ [Simulate]_vars => ContiguousReads'
    <2> SUFFICES ASSUME TypeOK, ContiguousReads, [Simulate]_vars PROVE ContiguousReads'
      OBVIOUS
    <2>1. CASE Simulate /\ Extracts(machine, config)
      <3> DEFINE f == Field(machine, config)
                 n == Len(reads)
      <3>0. f = Field(machine, config)
        OBVIOUS
      <3> HIDE DEF f
      <3>1. /\ f \in Fields
            /\ config'.phv = [config.phv EXCEPT ![f] = Slice(packet, config.pos, FieldSize[f])]
            /\ config'.pos = config.pos + FieldSize[f]
            /\ \A i \in 1 .. n : reads'[i] = reads[i]
            /\ reads'[n + 1] = [field |-> f, pos |-> config.pos]
            /\ DOMAIN reads = 1 .. n /\ DOMAIN reads' = 1 .. n + 1
            /\ n \in Nat /\ Len(reads') = n + 1
        BY <2>1, <3>0, ExtractingStep
      <3>2. packet' = packet
        BY <2>1 DEF Simulate
      <3>3. (reads = <<>> <=> n = 0) /\ reads' # <<>>
        <4>1. reads \in Seq([field : Fields, pos : 0 .. MaxPacketSize])
          BY DEF TypeOK
        <4>2. reads = <<>> <=> n = 0
          BY <4>1
        <4>3. 1 \in DOMAIN reads' /\ 1 \notin DOMAIN <<>>
          BY <3>1
        <4> QED
          BY <4>2, <4>3
      <3> HIDE DEF n
      <3>4. ASSUME NEW i \in 1 .. n + 1
            PROVE  reads'[i].pos = IF i = 1 THEN 0 ELSE End(reads'[i - 1])
        <4>1. CASE i \in 1 .. n
          <5>1. i # 1 => i - 1 \in 1 .. n
            BY <3>1, <4>1
          <5> QED
            BY <3>1, <4>1, <5>1 DEF ContiguousReads
        <4>2. CASE i = n + 1
          <5>1. i # 1 => n \in 1 .. n /\ i - 1 = n
            BY <3>1, <4>2
          <5> QED
            BY <3>1, <3>3, <4>2, <5>1 DEF ContiguousReads, n
        <4> QED
          BY <3>1, <4>1, <4>2
      <3>5. config'.pos = End(reads'[n + 1])
        BY <3>1 DEF End
      <3>6. ASSUME NEW i \in 1 .. n + 1,
                   \A j \in 1 .. n + 1 : j > i => reads'[j].field # reads'[i].field
            PROVE  config'.phv[reads'[i].field] =
                     Slice(packet, reads'[i].pos, FieldSize[reads'[i].field])
        <4>1. config.phv \in [Fields -> Word]
          BY DEF TypeOK
        <4>2. CASE i \in 1 .. n
          <5>1. n + 1 \in 1 .. n + 1 /\ n + 1 > i
            BY <3>1, <4>2
          <5>2. reads[i].field # f
            BY <3>1, <3>6, <4>2, <5>1
          <5>3. \A j \in 1 .. n : j > i => reads[j].field # reads[i].field
            BY <3>1, <3>6, <4>2
          <5>4. config.phv[reads[i].field] =
                  Slice(packet, reads[i].pos, FieldSize[reads[i].field])
            BY <3>1, <4>2, <5>3 DEF ContiguousReads
          <5>5. reads[i].field \in Fields
            <6>1. reads \in Seq([field : Fields, pos : 0 .. MaxPacketSize])
              BY DEF TypeOK
            <6> DEFINE Read == [field : Fields, pos : 0 .. MaxPacketSize]
            <6>2. i \in 1 .. Len(reads)
              BY <4>2 DEF n
            <6>3. ASSUME NEW S, reads \in Seq(S) PROVE reads[i] \in S
              BY <6>2, <6>3
            <6>4. reads[i] \in Read
              BY <6>1, <6>3
            <6> QED
              BY <6>4
          <5> QED
            BY <3>1, <4>1, <4>2, <5>2, <5>4, <5>5
        <4>3. CASE i = n + 1
          BY <3>1, <4>1, <4>3
        <4> QED
          BY <3>1, <4>2, <4>3
      <3> QED
        BY <3>1, <3>2, <3>3, <3>4, <3>5, <3>6 DEF ContiguousReads, End
    <2>2. CASE (Simulate /\ ~Extracts(machine, config)) \/ UNCHANGED vars
      BY <2>2, QuietStep DEF ContiguousReads, End
    <2> QED
      BY <2>1, <2>2
  <1> QED
    BY <1>1, <1>2, TypeCorrect, PTL DEF Spec

-----------------------------------------------------------------------------
(* What has been read was read by a state that has been left. *)
ReadBefore ==
  \A i \in DOMAIN reads :
    \E s \in 0 .. NoStates - 1 :
      s < config.state /\ machine.default_field[s] = reads[i].field

LEMMA ReadsAreBehind == Spec => []ReadBefore
  <1> USE SimulationAssumption
  <1>1. Init => ReadBefore
    BY DEF Init, ReadBefore
  <1>2. TypeOK /\ ReadBefore /\ [Simulate]_vars => ReadBefore'
    <2> SUFFICES ASSUME TypeOK, ReadBefore, [Simulate]_vars PROVE ReadBefore'
      OBVIOUS
    <2>1. CASE Simulate
      <3>1. /\ config.state \in 0 .. NoStates + 1 /\ config'.state \in 0 .. NoStates + 1
            /\ config'.state >= config.state
            /\ config.state < NoStates => config'.state > config.state
            /\ machine' = machine
        <4>1. config'.state = NextState(machine, config, packet)
          BY <2>1 DEF Simulate, Transition
        <4>2. config.state \in 0 .. NoStates + 1 /\ machine \in Machines(NoStates, TableSize)
          BY DEF TypeOK
        <4> DEFINE next == NextState(machine, config, packet)
        <4>3. /\ next \in 0 .. NoStates + 1
              /\ config.state < NoStates => next > config.state
              /\ config.state >= NoStates => next = config.state
          BY <4>2, NextStateRises
        <4>4. machine' = machine
          BY <2>1 DEF Simulate
        <4> HIDE DEF next
        <4>5. next >= config.state
          BY <4>2, <4>3
        <4> QED
          BY <4>1, <4>2, <4>3, <4>4, <4>5 DEF next
      <3>2. CASE Extracts(machine, config)
        <4> DEFINE f == Field(machine, config)
        <4>0. f = Field(machine, config)
          OBVIOUS
        <4>1. config.state \in 0 .. NoStates - 1 /\ machine.default_field[config.state] = f
          BY <3>1, <3>2, MachineFacts DEF Extracts, Attempts, Active, Field, TypeOK
        <4> HIDE DEF f
        <4>2. /\ \A i \in 1 .. Len(reads) : reads'[i] = reads[i]
              /\ reads'[Len(reads) + 1] = [field |-> f, pos |-> config.pos]
              /\ DOMAIN reads = 1 .. Len(reads) /\ DOMAIN reads' = 1 .. Len(reads) + 1
              /\ Len(reads) \in Nat
          BY <2>1, <3>2, <4>0, ExtractingStep
        <4> SUFFICES ASSUME NEW i \in DOMAIN reads'
                     PROVE  \E s \in 0 .. NoStates - 1 :
                              s < config'.state /\ machine'.default_field[s] = reads'[i].field
          BY DEF ReadBefore
        <4>3. CASE i \in 1 .. Len(reads)
          <5>1. PICK s \in 0 .. NoStates - 1 :
                  s < config.state /\ machine.default_field[s] = reads[i].field
            BY <4>2, <4>3 DEF ReadBefore
          <5>2. s < config'.state
            BY <3>1, <5>1
          <5> QED
            BY <3>1, <4>2, <4>3, <5>1, <5>2
        <4>4. CASE i = Len(reads) + 1
          BY <3>1, <4>1, <4>2, <4>4
        <4> QED
          BY <4>2, <4>3, <4>4
      <3>3. CASE ~Extracts(machine, config)
        <4>1. reads' = reads
          BY <2>1, <3>3, QuietStep
        <4> SUFFICES ASSUME NEW i \in DOMAIN reads
                     PROVE  \E s \in 0 .. NoStates - 1 :
                              s < config'.state /\ machine'.default_field[s] = reads[i].field
          BY <4>1 DEF ReadBefore
        <4>2. PICK s \in 0 .. NoStates - 1 :
                s < config.state /\ machine.default_field[s] = reads[i].field
          BY DEF ReadBefore
        <4>3. s < config'.state
          BY <3>1, <4>2
        <4> QED
          BY <3>1, <4>2, <4>3
      <3> QED
        BY <3>2, <3>3
    <2>2. CASE UNCHANGED vars
      BY <2>2 DEF vars, ReadBefore
    <2> QED
      BY <2>1, <2>2
  <1> QED
    BY <1>1, <1>2, TypeCorrect, PTL DEF Spec

(* Machines with a state per field make the same transitions under both    *)
(* designs.                                                                *)
THEOREM DesignsAreOne == Spec => DesignsAgree
  <1> USE SimulationAssumption
  <1>1. TypeOK /\ SentinelMeansAbsent /\ ReadBefore /\ [Simulate]_vars =>
          [FieldsDiffer => config' = AlwaysExtract!Transition(machine, config, packet)]_vars
    <2> SUFFICES ASSUME TypeOK, SentinelMeansAbsent, ReadBefore, Simulate, FieldsDiffer
                 PROVE  config' = AlwaysExtract!Transition(machine, config, packet)
      OBVIOUS
    <2>1. Active(machine, config) => config.phv[Field(machine, config)] = Sentinel
      <3> SUFFICES ASSUME Active(machine, config)
                   PROVE  config.phv[Field(machine, config)] = Sentinel
        OBVIOUS
      <3>1. config.state \in 0 .. NoStates - 1
        BY MachineFacts DEF Active, TypeOK
      <3>2. Field(machine, config) \in Fields
        BY <3>1, MachineFacts DEF Field, TypeOK
      <3>3. ASSUME NEW i \in DOMAIN reads, reads[i].field = Field(machine, config)
            PROVE  FALSE
        <4>1. PICK s \in 0 .. NoStates - 1 :
                s < config.state /\ machine.default_field[s] = reads[i].field
          BY DEF ReadBefore
        <4>2. s = config.state
          BY <3>1, <3>3, <4>1 DEF FieldsDiffer, Field
        <4> QED
          BY <3>1, <4>1, <4>2
      <3> QED
        BY <3>2, <3>3 DEF SentinelMeansAbsent
    <2>2. Attempts(machine, config) <=> AlwaysExtract!Attempts(machine, config)
      BY <2>1 DEF Attempts, AlwaysExtract!Attempts, AlwaysExtract!Active, Active
    <2>3. /\ Extracts(machine, config) <=> AlwaysExtract!Extracts(machine, config)
          /\ OutOfBounds(machine, config) <=> AlwaysExtract!OutOfBounds(machine, config)
      BY <2>2 DEF Extracts, AlwaysExtract!Extracts, OutOfBounds, AlwaysExtract!OutOfBounds,
                  Fits, AlwaysExtract!Fits, Field, AlwaysExtract!Field
    <2>4. /\ NextPhv(machine, config, packet) = AlwaysExtract!NextPhv(machine, config, packet)
          /\ NextPos(machine, config) = AlwaysExtract!NextPos(machine, config)
      BY <2>3 DEF NextPhv, AlwaysExtract!NextPhv, NextPos, AlwaysExtract!NextPos,
                  Field, AlwaysExtract!Field, Slice, AlwaysExtract!Slice
    <2>5. NextState(machine, config, packet) = AlwaysExtract!NextState(machine, config, packet)
      <3>1. CASE ~Active(machine, config)
        BY <3>1 DEF NextState, AlwaysExtract!NextState, Active, AlwaysExtract!Active
      <3>2. CASE Active(machine, config) /\ OutOfBounds(machine, config)
        BY <2>3, <3>2 DEF NextState, AlwaysExtract!NextState, Active, AlwaysExtract!Active,
                          Reject, AlwaysExtract!Reject
      <3>3. CASE Active(machine, config) /\ ~OutOfBounds(machine, config)
        <4>1. NextPhv(machine, config, packet)[Field(machine, config)] # Sentinel
          <5>1. Extracts(machine, config)
            BY <2>1, <3>3 DEF OutOfBounds, Extracts, Attempts
          <5> DEFINE f == Field(machine, config)
          <5>2. /\ f \in Fields
                /\ config'.phv = [config.phv EXCEPT ![f] = Slice(packet, config.pos, FieldSize[f])]
            BY <5>1, ExtractingStep
          <5>3. config'.phv = NextPhv(machine, config, packet)
            BY DEF Simulate, Transition
          <5> HIDE DEF f
          <5>4. config'.phv[f] # Sentinel
            BY <5>2, SliceIsNotSentinel DEF TypeOK
          <5> QED
            BY <5>3, <5>4 DEF f
        <4>2. Hits(machine, config, packet) = AlwaysExtract!Hits(machine, config, packet)
          BY <2>4, <4>1 DEF Hits, AlwaysExtract!Hits, Field, AlwaysExtract!Field,
                            Matches, AlwaysExtract!Matches
        <4>3. LookUp(machine, config, packet) = AlwaysExtract!LookUp(machine, config, packet)
          BY <4>2 DEF LookUp, AlwaysExtract!LookUp, Max, AlwaysExtract!Max
        <4> QED
          BY <2>3, <3>3, <4>3 DEF NextState, AlwaysExtract!NextState, Active, AlwaysExtract!Active
      <3> QED
        BY <3>1, <3>2, <3>3
    <2> QED
      BY <2>4, <2>5 DEF Simulate, Transition, AlwaysExtract!Transition
  <1> QED
    BY <1>1, TypeCorrect, SentinelSound, ReadsAreBehind, PTL DEF Spec, DesignsAgree
=============================================================================
