------------------------- MODULE Synthesiser_proofs -------------------------
(***************************************************************************)
(* The search of find_stm, for every set of machines and packets: what it  *)
(* returns is valid and of the first shape that has a valid machine, and   *)
(* it implements Synthesis.  Over the machines of StateMachine and the     *)
(* specifications of make_spec, that is: it does what the program means,   *)
(* and extracts what the program extracts.                                 *)
(*                                                                         *)
(* The inductive invariant says what every step of the loop has established *)
(* so far: the shapes passed over have no valid machine (a valid machine   *)
(* agrees with every example, so a Generator that has one is never unsat), *)
(* and the candidate agrees with the examples, the first of which is       *)
(* ZeroPacket.                                                             *)
(***************************************************************************)
EXTENDS Synthesiser, ControlFlowGraph_proofs, SequenceTheorems

TypeOK ==
  /\ pc \in {"next_shape", "generate", "verify", "found", "not_found"}
  /\ table_size \in Nat /\ table_size >= MinEntries
  /\ no_states \in Nat /\ no_states >= MinStates
  /\ pc \in {"generate", "verify", "found"} =>
       table_size <= MaxEntries /\ no_states <= MaxStates
  /\ pc = "not_found" => table_size > MaxEntries
  /\ examples \subseteq Packets

ExamplesStart == pc \in {"generate", "verify"} => ZeroPacket \in examples

CandidateFits ==
  /\ pc \in {"verify", "found"} => candidate \in Candidates(table_size, no_states)
  /\ pc = "verify" => \A p \in examples : Correct(candidate, p)
  /\ pc = "found" => Valid(candidate)

(* The shapes passed over have no valid machine. *)
NoneSkipped == NoneBefore(table_size, no_states)

IInv == TypeOK /\ ExamplesStart /\ CandidateFits /\ NoneSkipped

-----------------------------------------------------------------------------
(* The loops start with the first shape. *)
LEMMA InitIInv == Init => IInv
  <1> SUFFICES ASSUME Init PROVE IInv
    OBVIOUS
  <1> USE SearchAssumption DEF Init
  <1>1. TypeOK
    BY DEF TypeOK
  <1>2. ExamplesStart /\ CandidateFits
    BY DEF ExamplesStart, CandidateFits
  <1>3. NoneSkipped
    <2> SUFFICES ASSUME NEW l \in MinEntries .. MaxEntries, NEW o \in MinStates .. MaxStates,
                        Before(l, o, table_size, no_states)
                 PROVE  FALSE
      BY DEF NoneSkipped, NoneBefore
    <2> QED
      BY DEF Before
  <1> QED
    BY <1>1, <1>2, <1>3 DEF IInv

(* A Generator that is unsat shows that its shape has no valid machine. *)
LEMMA UnsatMeansNoValid ==
  ASSUME TypeOK, Consistent = {}
  PROVE  HasNoValid(table_size, no_states)
  <1> SUFFICES ASSUME NEW m \in Candidates(table_size, no_states), Valid(m)
               PROVE  FALSE
    BY DEF HasNoValid
  <1>1. \A p \in examples : Correct(m, p)
    BY DEF TypeOK, Valid
  <1>2. m \in Consistent
    BY <1>1 DEF Consistent
  <1> QED
    BY <1>2

(* Moving on by one state count covers one more shape. *)
LEMMA NextStateCount ==
  ASSUME NEW k \in Nat, NEW n \in Nat, NoneBefore(k, n), HasNoValid(k, n)
  PROVE  NoneBefore(k, n + 1)
  <1> SUFFICES ASSUME NEW l \in MinEntries .. MaxEntries, NEW o \in MinStates .. MaxStates,
                      Before(l, o, k, n + 1)
               PROVE  HasNoValid(l, o)
    BY DEF NoneBefore
  <1>1. CASE Before(l, o, k, n)
    BY <1>1 DEF NoneBefore
  <1>2. CASE ~Before(l, o, k, n)
    <2>1. l = k /\ o = n
      BY <1>2, SearchAssumption DEF Before
    <2> QED
      BY <2>1
  <1> QED
    BY <1>1, <1>2

(* With all state counts done, so is the number of entries. *)
LEMMA NextEntryCount ==
  ASSUME NEW k \in Nat, NEW n \in Nat, NEW o \in Nat,
         NoneBefore(k, n), n > MaxStates, o = MinStates
  PROVE  NoneBefore(k + 1, o)
  <1> SUFFICES ASSUME NEW l \in MinEntries .. MaxEntries, NEW q \in MinStates .. MaxStates,
                      Before(l, q, k + 1, o)
               PROVE  HasNoValid(l, q)
    BY DEF NoneBefore
  <1>1. l < k \/ (l = k /\ q < n)
    BY SearchAssumption DEF Before
  <1>2. Before(l, q, k, n)
    BY <1>1 DEF Before
  <1> QED
    BY <1>2 DEF NoneBefore

-----------------------------------------------------------------------------
(* Every step of the loop preserves the invariant. *)
LEMMA NextIInv == IInv /\ [Next]_vars => IInv'
  <1> SUFFICES ASSUME IInv, [Next]_vars PROVE IInv'
    OBVIOUS
  <1> USE SearchAssumption
  <1> USE DEF IInv
  <1>1. CASE NewGenerator
    <2>1. TypeOK'
      BY <1>1 DEF NewGenerator, FirstExamples, TypeOK
    <2>2. ExamplesStart' /\ CandidateFits'
      BY <1>1 DEF NewGenerator, FirstExamples, ExamplesStart, CandidateFits
    <2>3. NoneSkipped'
      BY <1>1 DEF NewGenerator, NoneSkipped
    <2> QED
      BY <2>1, <2>2, <2>3
  <1>2. CASE NextTableSize
    <2>1. TypeOK'
      BY <1>2 DEF NextTableSize, TypeOK
    <2>2. ExamplesStart' /\ CandidateFits'
      BY <1>2 DEF NextTableSize, ExamplesStart, CandidateFits
    <2>3. NoneBefore(table_size + 1, MinStates)
      BY <1>2, NextEntryCount DEF NextTableSize, NoneSkipped, TypeOK
    <2>4. NoneSkipped'
      BY <1>2, <2>3 DEF NextTableSize, NoneSkipped
    <2> QED
      BY <2>1, <2>2, <2>4
  <1>3. CASE RaiseNotFound
    <2>1. TypeOK'
      BY <1>3 DEF RaiseNotFound, TypeOK
    <2>2. ExamplesStart' /\ CandidateFits'
      BY <1>3 DEF RaiseNotFound, ExamplesStart, CandidateFits
    <2>3. NoneSkipped'
      BY <1>3 DEF RaiseNotFound, NoneSkipped
    <2> QED
      BY <2>1, <2>2, <2>3
  <1>4. CASE GeneratorSat
    <2>1. TypeOK'
      BY <1>4 DEF GeneratorSat, TypeOK
    <2>2. ExamplesStart'
      BY <1>4 DEF GeneratorSat, ExamplesStart
    <2>3. CandidateFits'
      BY <1>4 DEF GeneratorSat, Consistent, CandidateFits
    <2>4. NoneSkipped'
      BY <1>4 DEF GeneratorSat, NoneSkipped
    <2> QED
      BY <2>1, <2>2, <2>3, <2>4
  <1>5. CASE GeneratorUnsat
    <2>1. TypeOK'
      BY <1>5 DEF GeneratorUnsat, TypeOK
    <2>2. ExamplesStart' /\ CandidateFits'
      BY <1>5 DEF GeneratorUnsat, ExamplesStart, CandidateFits
    <2>3. HasNoValid(table_size, no_states)
      BY <1>5, UnsatMeansNoValid DEF GeneratorUnsat
    <2>4. NoneBefore(table_size, no_states + 1)
      BY <2>3, NextStateCount DEF NoneSkipped, TypeOK
    <2>5. NoneSkipped'
      BY <1>5, <2>4 DEF GeneratorUnsat, NoneSkipped
    <2> QED
      BY <2>1, <2>2, <2>5
  <1>6. CASE VerifierSat
    <2>1. TypeOK'
      BY <1>6 DEF VerifierSat, TypeOK
    <2>2. ExamplesStart' /\ CandidateFits'
      BY <1>6 DEF VerifierSat, ExamplesStart, CandidateFits
    <2>3. NoneSkipped'
      BY <1>6 DEF VerifierSat, NoneSkipped
    <2> QED
      BY <2>1, <2>2, <2>3
  <1>7. CASE VerifierUnsat
    <2>1. TypeOK'
      BY <1>7 DEF VerifierUnsat, TypeOK
    <2>2. ExamplesStart'
      BY <1>7 DEF VerifierUnsat, ExamplesStart
    <2>3. Valid(candidate)'
      BY <1>7 DEF VerifierUnsat, Valid
    <2>4. CandidateFits'
      BY <1>7, <2>3 DEF VerifierUnsat, CandidateFits
    <2>5. NoneSkipped'
      BY <1>7 DEF VerifierUnsat, NoneSkipped
    <2> QED
      BY <2>1, <2>2, <2>4, <2>5
  <1>8. CASE UNCHANGED vars
    <2>1. TypeOK' /\ ExamplesStart' /\ NoneSkipped'
      BY <1>8 DEF vars, TypeOK, ExamplesStart, NoneSkipped
    <2>2. CandidateFits'
      BY <1>8 DEF vars, CandidateFits, Valid
    <2> QED
      BY <2>1, <2>2
  <1> QED
    BY <1>1, <1>2, <1>3, <1>4, <1>5, <1>6, <1>7, <1>8 DEF Next

(* The invariant holds throughout the search. *)
THEOREM Invariance == Spec => []IInv
  BY InitIInv, NextIInv, PTL DEF Spec

-----------------------------------------------------------------------------
(* What find_stm returns parses every packet as specified. *)
THEOREM Soundness == Spec => []FoundIsValid
  <1>1. IInv => FoundIsValid
    BY DEF IInv, CandidateFits, FoundIsValid
  <1> QED
    BY <1>1, Invariance, PTL

(* The Verifier's query depends on the packet, so that its model has one. *)
THEOREM CounterexampleExists == Spec => []VerifierQueryNeedsPacket
  <1>1. IInv => VerifierQueryNeedsPacket
    BY DEF IInv, ExamplesStart, CandidateFits, VerifierQueryNeedsPacket
  <1> QED
    BY <1>1, Invariance, PTL

(* Every turn of the loop brings its end closer: the counterexample is a   *)
(* packet the Generator did not know, since the candidate agrees with all  *)
(* that it knew.                                                           *)
THEOREM LoopAdvances == Spec => Advances
  <1>1. ASSUME IInv, [Next]_vars
        PROVE  [ \/ Before(table_size, no_states, table_size', no_states') /\ pc' = "next_shape"
                 \/ StartsShape \/ LearnsPacket \/ EndsTurn ]_vars
    <2> USE DEF SameShape
    <2>1. CASE NewGenerator \/ RaiseNotFound
      BY <2>1 DEF NewGenerator, RaiseNotFound, StartsShape
    <2>2. CASE NextTableSize \/ GeneratorUnsat
      <3>1. table_size \in Nat /\ no_states \in Nat
        BY <1>1 DEF IInv, TypeOK
      <3>2. Before(table_size, no_states, table_size', no_states')
        BY <2>2, <3>1 DEF NextTableSize, GeneratorUnsat, Before
      <3> QED
        BY <2>2, <3>2 DEF NextTableSize, GeneratorUnsat
    <2>3. CASE GeneratorSat \/ VerifierUnsat
      BY <2>3 DEF GeneratorSat, VerifierUnsat, EndsTurn
    <2>4. CASE VerifierSat
      <3>1. PICK p \in Packets : ~Correct(candidate, p) /\ examples' = examples \cup {p}
        BY <2>4 DEF VerifierSat
      <3>2. p \notin examples
        BY <1>1, <2>4, <3>1 DEF IInv, CandidateFits, VerifierSat
      <3> QED
        BY <2>4, <3>1, <3>2 DEF VerifierSat, LearnsPacket
    <2> QED
      BY <1>1, <2>1, <2>2, <2>3, <2>4 DEF Next
  <1> QED
    BY <1>1, Invariance, PTL DEF Spec, Advances

-----------------------------------------------------------------------------
(* A returned machine is a Return step of the promise. *)
LEMMA FoundRefines ==
  ASSUME IInv, VerifierUnsat
  PROVE  Promise!Return
  <1> USE SearchAssumption
  <1>1. Outcome = "pending" /\ Outcome' = "found" /\ Result' = candidate
    BY DEF VerifierUnsat, Outcome, Result
  <1>2. /\ table_size \in MinEntries .. MaxEntries /\ no_states \in MinStates .. MaxStates
        /\ candidate \in Candidates(table_size, no_states)
    BY DEF IInv, TypeOK, CandidateFits, VerifierUnsat
  <1>3. Promise!Valid(candidate) /\ Promise!NoneBefore(table_size, no_states)
    BY DEF IInv, VerifierUnsat, NoneSkipped, Valid, Promise!Valid, NoneBefore,
           Promise!NoneBefore, HasNoValid, Promise!HasNoValid, Before, Promise!Before
  <1>4. Promise!Valid(Result')
    BY <1>1, <1>3 DEF Promise!Valid
  <1> QED
    BY <1>1, <1>2, <1>3, <1>4 DEF Promise!Return

(* The end of both loops is a Raise step of the promise. *)
LEMMA RaiseRefines ==
  ASSUME IInv, RaiseNotFound
  PROVE  Promise!Raise
  <1> USE SearchAssumption
  <1>1. Outcome = "pending" /\ Outcome' = "not_found" /\ Result' = Result
    BY DEF RaiseNotFound, Outcome, Result
  <1>2. ASSUME NEW k \in MinEntries .. MaxEntries, NEW n \in MinStates .. MaxStates
        PROVE  HasNoValid(k, n)
    BY DEF IInv, TypeOK, RaiseNotFound, NoneSkipped, NoneBefore, Before
  <1>3. \A k \in MinEntries .. MaxEntries, n \in MinStates .. MaxStates :
           Promise!HasNoValid(k, n)
    BY <1>2 DEF HasNoValid, Promise!HasNoValid, Valid, Promise!Valid
  <1> QED
    BY <1>1, <1>3 DEF Promise!Raise

(* find_stm implements Synthesis: every step is a step of it or a stutter. *)
THEOREM Refinement == Spec => ImplementsSynthesis
  <1>1. Init => Promise!Init
    BY DEF Init, Promise!Init, Outcome, Result
  <1>2. IInv /\ [Next]_vars => [Promise!Next]_Promise!avars
    <2> SUFFICES ASSUME IInv, [Next]_vars
                 PROVE  [Promise!Next]_Promise!avars
      OBVIOUS
    <2>1. CASE VerifierUnsat
      BY <2>1, FoundRefines DEF Promise!Next
    <2>2. CASE RaiseNotFound
      BY <2>2, RaiseRefines DEF Promise!Next
    <2>3. CASE NewGenerator \/ NextTableSize \/ GeneratorSat \/ GeneratorUnsat \/ VerifierSat
      <3>1. Outcome' = Outcome /\ Result' = Result
        BY <2>3 DEF NewGenerator, NextTableSize, GeneratorSat, GeneratorUnsat, VerifierSat,
                    Outcome, Result
      <3> QED
        BY <3>1 DEF Promise!avars
    <2>4. CASE UNCHANGED vars
      BY <2>4 DEF vars, Outcome, Result, Promise!avars
    <2> QED
      BY <2>1, <2>2, <2>3, <2>4 DEF Next
  <1> QED
    BY <1>1, <1>2, Invariance, PTL DEF Spec, ImplementsSynthesis, Promise!Spec

-----------------------------------------------------------------------------
(* The constraints of the Generator and the Verifier say that a machine    *)
(* does what the program means.                                            *)
LEMMA AgreeingMeans ==
  ASSUME NEW m, NEW p
  PROVE  Agrees(m, p) <=>
           /\ Run(m, p).phv = Follow(Program, 1, InitialPhv, 0, p).phv
           /\ Run(m, p).state = IF Follow(Program, 1, InitialPhv, 0, p).accept
                                THEN Accept(m.no_states) ELSE Reject(m.no_states)
  <1> DEFINE v == MakeSpec(Program, 1, InitialPhv, 0, p)
             r == Follow(Program, 1, InitialPhv, 0, p)
  <1>1. [phv |-> v.phv, accept |-> v.accept] = r
    <2>1. WellFormed(Program) /\ ~Raises(Program, 1, 0, {})
      BY SynthesiserAssumption DEF Raises
    <2>2. InitialPhv \in [Fields -> Word]
      BY SentinelIsWord DEF InitialPhv
    <2> QED
      BY <2>1, <2>2, MakeSpecMeans
  <1>2. Agrees(m, p) <=>
          /\ Run(m, p).phv = v.phv
          /\ Run(m, p).state = IF v.accept THEN Accept(m.no_states) ELSE Reject(m.no_states)
    BY DEF Agrees
  <1> HIDE DEF v, r
  <1>3. r.phv = v.phv /\ r.accept = v.accept
    BY <1>1
  <1> QED
    BY <1>2, <1>3 DEF r

LEMMA ValidMeansParses ==
  ASSUME NEW k \in MinEntries .. MaxEntries, NEW n \in MinStates .. MaxStates,
         NEW m \in Candidates(k, n)
  PROVE  Valid(m) <=> ParsesProgram(m)
  <1>1. Valid(m) <=> \A p \in Packet : Agrees(m, p)
    BY SynthesiserAssumption DEF Valid
  <1>2. ParsesProgram(m) <=> \A p \in Packet : Agrees(m, p)
    BY AgreeingMeans DEF ParsesProgram
  <1> QED
    BY <1>1, <1>2

(* The machine find_stm returns does on every packet what the program      *)
(* means.                                                                  *)
THEOREM FoundMeansProgram == Spec => []ReturnsParser
  <1>1. IInv => ReturnsParser
    <2> SUFFICES ASSUME IInv, pc = "found" PROVE ParsesProgram(candidate)
      BY DEF ReturnsParser
    <2>1. /\ table_size \in MinEntries .. MaxEntries
          /\ no_states \in MinStates .. MaxStates
      BY SearchAssumption DEF IInv, TypeOK
    <2>2. candidate \in Candidates(table_size, no_states) /\ Valid(candidate)
      BY DEF IInv, CandidateFits
    <2> QED
      BY <2>1, <2>2, ValidMeansParses
  <1> QED
    BY <1>1, Invariance, PTL

(* No machine of a shape that find_stm has passed over does, and when it   *)
(* raises STMNotFoundError no machine within the bounds does.              *)
THEOREM FoundIsSmallest == Spec => []NoSmallerParser
  <1>1. IInv => NoSmallerParser
    <2> SUFFICES ASSUME IInv,
                        NEW k \in MinEntries .. MaxEntries, NEW n \in MinStates .. MaxStates,
                        Before(k, n, table_size, no_states), NEW m \in MachinesOfShape(k, n)
                 PROVE  ~ParsesProgram(m)
      BY DEF NoSmallerParser
    <2>1. m \in Candidates(k, n)
      BY SynthesiserAssumption
    <2>2. ~Valid(m)
      BY <2>1 DEF IInv, NoneSkipped, NoneBefore, HasNoValid
    <2> QED
      BY <2>1, <2>2, ValidMeansParses
  <1> QED
    BY <1>1, Invariance, PTL

-----------------------------------------------------------------------------
(* The extractions of the program.                                         *)

Extractions == Seq(Fields \X Nat)

Then(s, t) == s \o t

LEMMA ThenTyped ==
  ASSUME NEW s \in Extractions, NEW t \in Extractions
  PROVE  Then(s, t) \in Extractions
  BY ConcatProperties DEF Then, Extractions

LEMMA ThenNothing ==
  ASSUME NEW s \in Extractions
  PROVE  <<>> \in Extractions /\ Then(s, <<>>) = s /\ Then(<<>>, s) = s
  BY EmptySeq, ConcatEmptySeq DEF Then, Extractions

LEMMA ThenAssociative ==
  ASSUME NEW s \in Extractions, NEW t \in Extractions, NEW u \in Extractions
  PROVE  Then(Then(s, t), u) = Then(s, Then(t, u))
  <1> DEFINE S == Fields \X Nat
  <1>1. s \in Seq(S) /\ t \in Seq(S) /\ u \in Seq(S)
    BY DEF Extractions
  <1> HIDE DEF S
  <1>2. (s \o t) \o u = s \o (t \o u)
    BY <1>1, ConcatAssociative
  <1> QED
    BY <1>2 DEF Then

LEMMA ReadsStep ==
  ASSUME WellFormed(Program), NEW n \in Nodes(Program), NEW phv \in [Fields -> Word],
         NEW ptr \in Nat, NEW p, NEW f, \A a \in LaterSpecs(Program, n) : f[a] \in Extractions
  PROVE  /\ ReadsFrom(f, n, phv, ptr, p) \in Extractions
         /\ \A h : (\A a \in LaterSpecs(Program, n) : h[a] = f[a]) =>
                    ReadsFrom(h, n, phv, ptr, p) = ReadsFrom(f, n, phv, ptr, p)
  <1> DEFINE node == Program[n]
             no   == FieldNo(node.attr)
             word == Slice(p, ptr, AttrSize[node.attr])
             ptr1 == ptr + AttrSize[node.attr]
  <1>1. CASE node.kind = "exit"
    BY <1>1, EmptySeq DEF ReadsFrom, Extractions
  <1>2. CASE node.kind = "extract"
    <2>1. node.attr \in Attrs /\ node.next \in n + 1 .. Len(Program)
      BY <1>2 DEF WellFormed, Nodes
    <2>2. ptr1 \in Nat
      BY <2>1, GraphAssumption
    <2>3. \A v \in [Fields -> Word] : <<node.next, v, ptr1>> \in LaterSpecs(Program, n)
      BY <2>1, <2>2 DEF LaterSpecs, SpecArgs, WellFormed, Nodes
    <2>4. CASE ~Kept(node.attr)
      <3>1. \A h : ReadsFrom(h, n, phv, ptr, p) = h[<<node.next, phv, ptr1>>]
        BY <1>2, <2>4 DEF ReadsFrom
      <3> QED
        BY <2>3, <3>1
    <2>5. CASE Kept(node.attr)
      <3> DEFINE a == <<node.next, [phv EXCEPT ![no] = word], ptr1>>
      <3>1. \A h : ReadsFrom(h, n, phv, ptr, p) = <<<<no, ptr>>>> \o h[a]
        BY <1>2, <2>5 DEF ReadsFrom
      <3>2. a \in LaterSpecs(Program, n)
        BY <2>3, SliceIsWord
      <3>3. <<<<no, ptr>>>> \in Extractions
        <4>1. no \in Fields
          BY <2>1, <2>5, FieldNoInjective
        <4> HIDE DEF no
        <4> QED
          BY <4>1 DEF Extractions
      <3> HIDE DEF a, no
      <3>4. f[a] \in Extractions
        BY <3>2
      <3>5. <<<<no, ptr>>>> \o f[a] \in Extractions
        BY <3>3, <3>4, ConcatProperties DEF Extractions
      <3> QED
        BY <3>1, <3>2, <3>5
    <2> QED
      BY <2>4, <2>5
  <1>3. CASE node.kind = "if"
    <2> DEFINE a == <<IF Matches(phv[no], node) THEN node.next_true ELSE node.next_false, phv, ptr>>
    <2>1. a \in LaterSpecs(Program, n)
      <3>1. {node.next_true, node.next_false} \subseteq n + 1 .. Len(Program)
        BY <1>3 DEF WellFormed, Nodes
      <3> QED
        BY <3>1 DEF LaterSpecs, SpecArgs, WellFormed, Nodes
    <2>2. \A h : ReadsFrom(h, n, phv, ptr, p) = h[a]
      BY <1>3 DEF ReadsFrom
    <2> HIDE DEF a
    <2> QED
      BY <2>1, <2>2
  <1> QED
    BY <1>1, <1>2, <1>3 DEF WellFormed, Nodes

LEMMA ReadsExist ==
  ASSUME WellFormed(Program), NEW p
  PROVE  \A a \in SpecArgs(Program) :
           /\ AllReads(p)[a] \in Extractions
           /\ AllReads(p)[a] = ReadsFrom(AllReads(p), a[1], a[2], a[3], p)
  <1> DEFINE D    == SpecArgs(Program)
             V    == Extractions
             node == [a \in D |-> a[1]]
             step == [x \in D \X [D -> V] |-> ReadsFrom(x[2], x[1][1], x[1][2], x[1][3], p)]
  <1>1. node \in [D -> 1 .. Len(Program)] /\ Len(Program) \in Nat \ {0}
    BY DEF SpecArgs, WellFormed, Nodes
  <1>2. V # {}
    <2>1. <<>> \in V
      BY EmptySeq DEF Extractions
    <2> QED
      BY <2>1
  <1>3. \A a \in D : a[1] \in Nodes(Program) /\ a[2] \in [Fields -> Word] /\ a[3] \in Nat
    BY DEF SpecArgs
  <1>4. \A a \in D, f \in [D -> V] :
          /\ ReadsFrom(f, a[1], a[2], a[3], p) \in V
          /\ \A h : (\A b \in LaterSpecs(Program, a[1]) : h[b] = f[b]) =>
                    ReadsFrom(h, a[1], a[2], a[3], p) = ReadsFrom(f, a[1], a[2], a[3], p)
    <2>1. \A a \in D, f \in [D -> V] : \A b \in LaterSpecs(Program, a[1]) : f[b] \in V
      BY DEF LaterSpecs
    <2> HIDE DEF D
    <2> QED
      BY <1>3, <2>1, ReadsStep
  <1>5. step \in [D \X [D -> V] -> V]
    <2>1. \A x \in D \X [D -> V] : ReadsFrom(x[2], x[1][1], x[1][2], x[1][3], p) \in V
      BY <1>4
    <2> HIDE DEF D, V
    <2> QED
      BY <2>1
  <1>6. \A a \in D : \A f, h \in [D -> V] :
          (\A b \in D : node[b] > node[a] => f[b] = h[b]) => step[<<a, f>>] = step[<<a, h>>]
    <2> SUFFICES ASSUME NEW a \in D, NEW f \in [D -> V], NEW h \in [D -> V],
                        \A b \in D : node[b] > node[a] => f[b] = h[b]
                 PROVE  step[<<a, f>>] = step[<<a, h>>]
      OBVIOUS
    <2>1. \A b \in LaterSpecs(Program, a[1]) : h[b] = f[b]
      BY DEF LaterSpecs
    <2>2. /\ step[<<a, f>>] = ReadsFrom(f, a[1], a[2], a[3], p)
          /\ step[<<a, h>>] = ReadsFrom(h, a[1], a[2], a[3], p)
      <3> HIDE DEF D, V
      <3> QED
        OBVIOUS
    <2> QED
      BY <1>4, <2>1, <2>2
  <1>7. PICK f \in [D -> V] : \A a \in D : f[a] = step[<<a, f>>]
    <2>1. LooksAhead(Len(Program), D, V, node, step)
      <3> HIDE DEF D, V, node, step
      <3> QED
        BY <1>1, <1>2, <1>5, <1>6 DEF LooksAhead
    <2> HIDE DEF D, V, node, step
    <2> QED
      BY <2>1, RecursionExists
  <1>8. \A a \in D : f[a] = ReadsFrom(f, a[1], a[2], a[3], p)
    <2> HIDE DEF D, V
    <2> QED
      BY <1>7
  <1> DEFINE Solves(w) == w = [a \in D |-> ReadsFrom(w, a[1], a[2], a[3], p)]
  <1>9. Solves(AllReads(p))
    <2>1. Solves(f)
      <3> HIDE DEF D, V
      <3> QED
        BY <1>8
    <2>2. AllReads(p) = CHOOSE w : Solves(w)
      BY DEF AllReads, SpecArgs
    <2> HIDE DEF Solves
    <2> QED
      BY <2>1, <2>2
  <1>10. \A a \in D : AllReads(p)[a] = ReadsFrom(AllReads(p), a[1], a[2], a[3], p)
    <2> HIDE DEF D
    <2> QED
      BY <1>9
  <1>11. \A a \in D : AllReads(p)[a] \in V
    <2>1. ASSUME NEW a \in D, \A b \in D : node[b] > node[a] => AllReads(p)[b] \in V
          PROVE  AllReads(p)[a] \in V
      <3>1. \A b \in LaterSpecs(Program, a[1]) : AllReads(p)[b] \in V
        BY <2>1 DEF LaterSpecs
      <3> HIDE DEF D, V
      <3> QED
        BY <1>3, <1>10, <3>1, ReadsStep DEF V
    <2> HIDE DEF D, V, node
    <2> QED
      BY <1>1, <2>1, RecursionTyped
  <1> QED
    BY <1>10, <1>11

(* What the program extracts from node n on. *)
ReadsOn(n, phv, ptr, p) == AllReads(p)[<<n, phv, ptr>>]

LEMMA ReadsEquation ==
  ASSUME WellFormed(Program), NEW n \in Nodes(Program), NEW phv \in [Fields -> Word],
         NEW ptr \in Nat, NEW p
  PROVE  /\ ReadsOn(n, phv, ptr, p) \in Extractions
         /\ ReadsOn(n, phv, ptr, p) = ReadsFrom(AllReads(p), n, phv, ptr, p)
  <1>1. <<n, phv, ptr>> \in SpecArgs(Program)
    BY DEF SpecArgs
  <1> QED
    BY <1>1, ReadsExist DEF ReadsOn

LEMMA ReadsOnNode ==
  ASSUME WellFormed(Program), NEW n \in Nodes(Program), NEW phv \in [Fields -> Word],
         NEW ptr \in Nat, NEW p
  PROVE  /\ Program[n].kind = "exit" => ReadsOn(n, phv, ptr, p) = <<>>
         /\ Program[n].kind = "extract" /\ Kept(Program[n].attr) =>
              ReadsOn(n, phv, ptr, p) =
                Then(<<<<No(Program, n), ptr>>>>,
                     ReadsOn(Program[n].next, Noted(Program, n, phv, ptr, p), After(Program, n, ptr), p))
         /\ Program[n].kind = "if" =>
              ReadsOn(n, phv, ptr, p) =
                ReadsOn(IF Matches(phv[No(Program, n)], Program[n])
                        THEN Program[n].next_true ELSE Program[n].next_false, phv, ptr, p)
  <1>1. ReadsOn(n, phv, ptr, p) = ReadsFrom(AllReads(p), n, phv, ptr, p)
    BY ReadsEquation
  <1>2. Program[n].kind = "exit" => ReadsOn(n, phv, ptr, p) = <<>>
    BY <1>1 DEF ReadsFrom
  <1>3. Program[n].kind = "extract" /\ Kept(Program[n].attr) =>
          ReadsOn(n, phv, ptr, p) =
            Then(<<<<No(Program, n), ptr>>>>,
                 ReadsOn(Program[n].next, Noted(Program, n, phv, ptr, p), After(Program, n, ptr), p))
    BY <1>1 DEF ReadsFrom, ReadsOn, After, Noted, No, Read, Then
  <1>4. Program[n].kind = "if" =>
          ReadsOn(n, phv, ptr, p) =
            ReadsOn(IF Matches(phv[No(Program, n)], Program[n])
                    THEN Program[n].next_true ELSE Program[n].next_false, phv, ptr, p)
    BY <1>1 DEF ReadsFrom, ReadsOn, No
  <1> QED
    BY <1>2, <1>3, <1>4

-----------------------------------------------------------------------------
(* The extractions of a machine, up to every step.                         *)

IsReads(m, p, rd) ==
  /\ rd \in [0 .. m.no_states -> Extractions]
  /\ rd[0] = <<>>
  /\ \A i \in 0 .. m.no_states - 1 : rd[i + 1] = Then(rd[i], ReadsOfStep(m, Configurations(m, p)[i]))

LEMMA StepExtracts ==
  ASSUME NEW n \in Nat, NEW k \in Nat, NEW m \in Machines(n, k), NEW c \in Configs(n)
  PROVE  ReadsOfStep(m, c) \in Extractions
  <1>1. CASE Extracts(m, c)
    <2>1. Field(m, c) \in Fields /\ c.pos \in Nat
      BY <1>1, FieldRead
    <2>2. <<<<Field(m, c), c.pos>>>> \in Extractions
      BY <2>1 DEF Extractions
    <2> QED
      BY <1>1, <2>2 DEF ReadsOfStep
  <1>2. CASE ~Extracts(m, c)
    BY <1>2, EmptySeq DEF ReadsOfStep, Extractions
  <1> QED
    BY <1>1, <1>2

LEMMA MachineReadsExist ==
  ASSUME NEW n \in Nat, NEW k \in Nat, NEW m \in Machines(n, k), NEW p \in Packet
  PROVE  \E rd : IsReads(m, p, rd) /\ MachineReads(m, p) = rd[n]
  <1>1. m.no_states = n
    BY MachineFacts
  <1> DEFINE conf == Configurations(m, p)
             V    == Extractions
             step == [x \in (0 .. n - 1) \X V |-> Then(x[2], ReadsOfStep(m, conf[x[1]]))]
             first == <<>>
  <1>2. \A i \in 0 .. n - 1 : ReadsOfStep(m, conf[i]) \in V
    <2>1. \A i \in 0 .. n - 1 : conf[i] \in Configs(n)
      <3>1. IsRun(m, p, conf)
        BY RunExists
      <3> HIDE DEF conf
      <3> QED
        BY <3>1, RunFacts
    <2> HIDE DEF conf, V
    <2> QED
      BY <2>1, StepExtracts DEF V
  <1> HIDE DEF conf
  <1>3. step \in [(0 .. n - 1) \X V -> V]
    <2>1. \A x \in (0 .. n - 1) \X V : Then(x[2], ReadsOfStep(m, conf[x[1]])) \in V
      BY <1>2, ThenTyped
    <2> HIDE DEF V
    <2> QED
      BY <2>1
  <1>4. PICK f : IteratesTo(f, n, n, V, first, step)
    <2>1. first \in V
      BY EmptySeq DEF Extractions
    <2> HIDE DEF V, step, first
    <2> QED
      BY <1>3, <2>1, IterationExists
  <1>5. f \in [0 .. n -> V] /\ f[0] = <<>>
    <2> HIDE DEF V, step
    <2> QED
      BY <1>4 DEF IteratesTo
  <1>6. \A i \in 0 .. n - 1 : f[i + 1] = Then(f[i], ReadsOfStep(m, conf[i]))
    <2>1. \A i \in 0 .. n - 1 : f[i] \in V /\ f[i + 1] = step[<<i, f[i]>>]
      <3> HIDE DEF V, step
      <3> QED
        BY <1>4 DEF IteratesTo
    <2> HIDE DEF V
    <2> QED
      BY <2>1
  <1> HIDE DEF V, step
  <1> DEFINE Solves(w) ==
               w = [i \in 0 .. n |-> IF i = 0 THEN <<>> ELSE Then(w[i - 1], ReadsOfStep(m, conf[i - 1]))]
  <1>7. Solves(f)
    <2>1. ASSUME NEW i \in 0 .. n, i # 0
          PROVE  f[i] = Then(f[i - 1], ReadsOfStep(m, conf[i - 1]))
      <3>1. i - 1 \in 0 .. n - 1 /\ (i - 1) + 1 = i
        BY <2>1
      <3> QED
        BY <1>6, <3>1
    <2>2. \A i \in 0 .. n : f[i] = IF i = 0 THEN <<>> ELSE Then(f[i - 1], ReadsOfStep(m, conf[i - 1]))
      BY <1>5, <2>1
    <2> QED
      BY <1>5, <2>2
  <1> DEFINE rd == CHOOSE w : Solves(w)
  <1>8. Solves(rd)
    <2> HIDE DEF Solves
    <2> QED
      BY <1>7
  <1>9. MachineReads(m, p) = rd[n]
    BY <1>1 DEF MachineReads, conf, Then
  <1> HIDE DEF rd
  <1>10. rd[0] = <<>> /\ \A i \in 0 .. n - 1 : rd[i + 1] = Then(rd[i], ReadsOfStep(m, conf[i]))
    <2>1. \A i \in 0 .. n : rd[i] = IF i = 0 THEN <<>> ELSE Then(rd[i - 1], ReadsOfStep(m, conf[i - 1]))
      BY <1>8
    <2>2. ASSUME NEW i \in 0 .. n - 1 PROVE rd[i + 1] = Then(rd[i], ReadsOfStep(m, conf[i]))
      <3>1. i + 1 \in 0 .. n /\ i + 1 # 0 /\ (i + 1) - 1 = i
        OBVIOUS
      <3> HIDE DEF Solves
      <3> QED
        BY <2>1, <3>1
    <2>3. rd[0] = <<>>
      <3>1. 0 \in 0 .. n
        OBVIOUS
      <3> HIDE DEF Solves
      <3> QED
        BY <2>1, <3>1
    <2> HIDE DEF Solves
    <2> QED
      BY <2>2, <2>3
  <1>11. \A i \in 0 .. n : rd[i] \in Extractions
    <2> DEFINE Good == {i \in 0 .. n : rd[i] \in Extractions}
    <2>1. 0 \in Good
      <3>1. <<>> \in Extractions
        BY EmptySeq DEF Extractions
      <3>2. 0 \in 0 .. n /\ rd[0] \in Extractions
        BY <1>10, <3>1
      <3> QED
        BY <3>2
    <2>2. ASSUME NEW i \in 0 .. n - 1, i \in Good PROVE i + 1 \in Good
      <3>1. rd[i] \in Extractions /\ ReadsOfStep(m, conf[i]) \in Extractions
        BY <1>2, <2>2 DEF V
      <3>2. Then(rd[i], ReadsOfStep(m, conf[i])) \in Extractions
        BY <3>1, ThenTyped
      <3>3. i + 1 \in 0 .. n /\ rd[i + 1] \in Extractions
        BY <1>10, <3>2
      <3> QED
        BY <3>3
    <2>3. 0 .. n \subseteq Good
      <3>1. 0 \in 0 .. n
        OBVIOUS
      <3> HIDE DEF Good
      <3> QED
        BY <2>1, <2>2, <3>1, UpwardInduction
    <2> QED
      BY <2>3
  <1>12. rd \in [0 .. n -> Extractions]
    BY <1>8, <1>11
  <1> QED
    BY <1>1, <1>9, <1>10, <1>12 DEF IsReads, conf

LEMMA ReadsTyped ==
  ASSUME NEW n \in Nat, NEW k \in Nat, NEW m \in Machines(n, k), NEW p, NEW rd, IsReads(m, p, rd),
         NEW i \in 0 .. n
  PROVE  rd[0] = <<>> /\ rd[i] \in Extractions
  BY MachineFacts DEF IsReads

LEMMA ReadsGrow ==
  ASSUME NEW n \in Nat, NEW k \in Nat, NEW m \in Machines(n, k), NEW p, NEW rd, IsReads(m, p, rd),
         NEW i \in 0 .. n - 1
  PROVE  rd[i + 1] = Then(rd[i], ReadsOfStep(m, Configurations(m, p)[i]))
  BY MachineFacts DEF IsReads

LEMMA QuietReads ==
  ASSUME NEW n \in Nat, NEW k \in Nat, NEW m \in Machines(n, k), NEW p, NEW rd, IsReads(m, p, rd),
         NEW i \in 0 .. n, NEW j \in i .. n,
         \A x \in i .. j - 1 : ~Extracts(m, Configurations(m, p)[x])
  PROVE  rd[j] = rd[i]
  <1> DEFINE Good == {x \in i .. j : rd[x] = rd[i]}
             conf == Configurations(m, p)
  <1>1. i \in Good
    OBVIOUS
  <1>2. ASSUME NEW x \in i .. j - 1, x \in Good PROVE x + 1 \in Good
    <2>1. x \in 0 .. n - 1 /\ x \in 0 .. n /\ x + 1 \in i .. j
      OBVIOUS
    <2>2. rd[x] \in Extractions
      BY <2>1, ReadsTyped
    <2>5. rd[x + 1] = Then(rd[x], ReadsOfStep(m, conf[x]))
      BY <2>1, ReadsGrow
    <2>3. ReadsOfStep(m, conf[x]) = <<>>
      BY DEF ReadsOfStep
    <2>4. Then(rd[x], <<>>) = rd[x]
      BY <2>2, ThenNothing
    <2> HIDE DEF conf
    <2> QED
      BY <1>2, <2>1, <2>3, <2>4, <2>5
  <1>3. i .. j \subseteq Good
    <2>1. j \in Nat /\ i \in 0 .. j
      OBVIOUS
    <2> HIDE DEF Good
    <2> QED
      BY <1>1, <1>2, <2>1, UpwardInduction
  <1>4. j \in i .. j
    OBVIOUS
  <1> QED
    BY <1>3, <1>4

-----------------------------------------------------------------------------
(* A machine with the values and verdicts of the program has its           *)
(* extractions too, if the program's fields are all the machine's.  By     *)
(* induction from the last node to the first: were the machine to extract  *)
(* something else than the program does at a node, it would extract some   *)
(* field later than the program, from bits that the program has not come   *)
(* to or never reads, and so differ on two packets that are the same up to *)
(* there (LateReadShows).                                                  *)

Parses(m) ==
  \A q \in Packet : Run(m, q).phv = Follow(Program, 1, InitialPhv, 0, q).phv

(* On packet p, the machine in its step i is where the program is at node  *)
(* n, with marks M; the program gets there on all packets that begin so.   *)
Holds(n, phv, ptr, M) ==
  /\ ~Raises(Program, n, ptr, M)
  /\ \A f \in Fields \ Marked(M) : phv[f] = Sentinel

Comes(p, n, phv, ptr) ==
  \A q \in Packet : SamePrefix(p, q, ptr) =>
    Follow(Program, 1, InitialPhv, 0, q) = Follow(Program, n, phv, ptr, q)

Meets(m, p, i, n, phv, ptr, M) ==
  /\ Configurations(m, p)[i].pos = ptr
  /\ Configurations(m, p)[i].phv = phv
  /\ Holds(n, phv, ptr, M)
  /\ Comes(p, n, phv, ptr)

Tracks(m, n) ==
  \A p \in Packet, i \in 0 .. m.no_states, phv \in [Fields -> Word], ptr \in Nat, M \in SUBSET Attrs :
    Meets(m, p, i, n, phv, ptr, M) =>
      \A rd : IsReads(m, p, rd) => rd[m.no_states] = Then(rd[i], ReadsOn(n, phv, ptr, p))

(* A field that has been extracted keeps its value. *)
LEMMA MarkedKeeps ==
  ASSUME WellFormed(Program), NEW n \in Nodes(Program), NEW phv \in [Fields -> Word],
         NEW ptr \in Nat, NEW M \in SUBSET Attrs, Holds(n, phv, ptr, M), NEW p,
         NEW f \in Marked(M)
  PROVE  Follow(Program, n, phv, ptr, p).phv[f] = phv[f]
  <1>1. Means(Program, n, p)
    BY EveryNodeMeans
  <1>2. Shows(phv, phv, M) /\ ~Raises(Program, n, ptr, M)
    BY DEF Shows, Holds
  <1>3. SameOutcome(Follow(Program, n, phv, ptr, p), MakeSpec(Program, n, phv, ptr, p), phv, M)
    BY <1>1, <1>2 DEF Means
  <1>4. f \in Fields
    BY FieldNoInjective DEF Marked
  <1> QED
    BY <1>3, <1>4 DEF SameOutcome

(* The machine is where it was, on all packets that begin like p.          *)
LEMMA SameConfig ==
  ASSUME NEW N \in Nat, NEW K \in Nat, NEW m \in Machines(N, K), NEW p \in Packet, NEW q \in Packet,
         NEW b \in Nat, SamePrefix(p, q, b), NEW i \in 0 .. N, Configurations(m, p)[i].pos <= b
  PROVE  Configurations(m, q)[i] = Configurations(m, p)[i]
  <1> DEFINE cp == Configurations(m, p)
             cq == Configurations(m, q)
  <1>1. IsRun(m, p, cp) /\ IsRun(m, q, cq) /\ cp[i].pos <= b
    BY RunExists
  <1> HIDE DEF cp, cq
  <1>2. \A x \in 0 .. N : cp[x].pos <= b => cq[x] = cp[x]
    BY <1>1, RunPrefix
  <1>3. cq[i] = cp[i]
    BY <1>1, <1>2
  <1> QED
    BY <1>3 DEF cp, cq

LEMMA ExitTracks ==
  ASSUME WellFormed(Program), NEW N \in Nat, NEW K \in Nat, NEW m \in Machines(N, K), Parses(m),
         NEW n \in Nodes(Program), Program[n].kind = "exit"
  PROVE  Tracks(m, n)
  <1> DEFINE conf(q) == Configurations(m, q)
  <1>1. m.no_states = N
    BY MachineFacts
  <1> SUFFICES ASSUME NEW p \in Packet, NEW i \in 0 .. N, NEW phv \in [Fields -> Word],
                      NEW ptr \in Nat, NEW M \in SUBSET Attrs, Meets(m, p, i, n, phv, ptr, M),
                      NEW rd, IsReads(m, p, rd)
               PROVE  rd[N] = Then(rd[i], ReadsOn(n, phv, ptr, p))
    BY <1>1 DEF Tracks
  <1>2. \A q \in Packet : SamePrefix(p, q, ptr) => Run(m, q).phv = phv
    BY FollowExit DEF Meets, Comes, Parses
  <1> DEFINE S == {x \in i .. N - 1 : Extracts(m, conf(p)[x])}
  <1>3. S = {}
    <2> SUFFICES ASSUME S # {} PROVE FALSE
      OBVIOUS
    <2>1. PICK j \in S : \A x \in i .. j - 1 : x \notin S
      <3>1. S \subseteq i .. N - 1
        OBVIOUS
      <3> HIDE DEF S
      <3> QED
        BY <3>1, HasFirst
    <2>2. j \in i .. N - 1 /\ Extracts(m, conf(p)[j]) /\ \A x \in i .. j - 1 : ~Extracts(m, conf(p)[x])
      BY <2>1
    <2>3. j \in i .. N /\ j \in 0 .. N - 1 /\ j \in 0 .. N
      BY <2>2
    <2>4. conf(p)[j].pos = ptr /\ conf(p)[j] \in Configs(N)
      <3>1. IsRun(m, p, conf(p)) /\ conf(p)[i].pos = ptr
        BY RunExists DEF Meets
      <3> HIDE DEF conf
      <3> QED
        BY <2>2, <2>3, <3>1, Quiet, RunFacts
    <2> DEFINE f == Field(m, conf(p)[j])
    <2>5. f \in Fields /\ FieldSize[f] \in Nat \ {0}
      BY <2>2, <2>4, FieldRead
    <2>6. ASSUME NEW q \in Packet, SamePrefix(p, q, ptr)
          PROVE  LateRead(m, q, j, f, ptr)
      <3>1. conf(q)[j] = conf(p)[j]
        BY <2>3, <2>4, <2>6, SameConfig
      <3> QED
        BY <2>2, <2>4, <2>5, <3>1 DEF LateRead, ReadsField
    <2> HIDE DEF f
    <2>7. \E q1, q2 \in Packet :
            /\ SamePrefix(p, q1, ptr) /\ SamePrefix(p, q2, ptr)
            /\ Run(m, q1).phv[f] # Run(m, q2).phv[f]
      BY <2>3, <2>5, <2>6, LateReadShows
    <2> QED
      BY <1>2, <2>7
  <1>4. rd[N] = rd[i]
    <2>1. N \in i .. N /\ \A x \in i .. N - 1 : ~Extracts(m, conf(p)[x])
      BY <1>3
    <2> QED
      BY <2>1, QuietReads
  <1>5. ReadsOn(n, phv, ptr, p) = <<>>
    BY ReadsOnNode
  <1>6. rd[i] \in Extractions
    BY ReadsTyped
  <1>7. Then(rd[i], <<>>) = rd[i]
    BY <1>6, ThenNothing
  <1> QED
    BY <1>4, <1>5, <1>7

LEMMA IfTracks ==
  ASSUME WellFormed(Program), NEW m, NEW n \in Nodes(Program), Program[n].kind = "if",
         Tracks(m, Program[n].next_true), Tracks(m, Program[n].next_false)
  PROVE  Tracks(m, n)
  <1> SUFFICES ASSUME NEW p \in Packet, NEW i \in 0 .. m.no_states, NEW phv \in [Fields -> Word],
                      NEW ptr \in Nat, NEW M \in SUBSET Attrs, Meets(m, p, i, n, phv, ptr, M),
                      NEW rd, IsReads(m, p, rd)
               PROVE  rd[m.no_states] = Then(rd[i], ReadsOn(n, phv, ptr, p))
    BY DEF Tracks
  <1> DEFINE branch == IF Matches(phv[No(Program, n)], Program[n])
                       THEN Program[n].next_true ELSE Program[n].next_false
  <1>1. branch \in Nodes(Program) /\ Tracks(m, branch)
    BY DEF WellFormed, Nodes
  <1>2. ~Raises(Program, branch, ptr, M)
    <2>1. ~Raises(Program, n, ptr, M)
      BY DEF Meets, Holds
    <2> HIDE DEF branch
    <2>2. ~Raises(Program, Program[n].next_true, ptr, M) /\ ~Raises(Program, Program[n].next_false, ptr, M)
      BY <2>1, SizeWalkRaises
    <2> QED
      BY <2>2 DEF branch
  <1>3. ReadsOn(n, phv, ptr, p) = ReadsOn(branch, phv, ptr, p)
    BY ReadsOnNode
  <1>4. \A q : Follow(Program, n, phv, ptr, q) = Follow(Program, branch, phv, ptr, q)
    BY FollowIf
  <1> HIDE DEF branch
  <1>5. Meets(m, p, i, branch, phv, ptr, M)
    BY <1>2, <1>4 DEF Meets, Holds, Comes
  <1>6. rd[m.no_states] = Then(rd[i], ReadsOn(branch, phv, ptr, p))
    BY <1>1, <1>5 DEF Tracks
  <1> QED
    BY <1>3, <1>6

(* An extraction leads the program to the next node. *)
Moves(n, p, phv, ptr, f, phv1, ptr1, M1) ==
  /\ f \in Fields /\ f \in Marked(M1) /\ M1 \in SUBSET Attrs
  /\ FieldSize[f] \in Nat \ {0} /\ ptr1 = ptr + FieldSize[f] /\ ptr1 \in Nat
  /\ phv1 = [phv EXCEPT ![f] = Slice(p, ptr, FieldSize[f])] /\ phv1 \in [Fields -> Word]
  /\ phv[f] = Sentinel /\ phv1[f] # Sentinel
  /\ Holds(Program[n].next, phv1, ptr1, M1)
  /\ Comes(p, Program[n].next, phv1, ptr1)

LEMMA ExtractMoves ==
  ASSUME WellFormed(Program), NEW n \in Nodes(Program), Program[n].kind = "extract",
         Kept(Program[n].attr), NEW p \in Packet, NEW phv \in [Fields -> Word],
         NEW ptr \in Nat, NEW M \in SUBSET Attrs,
         Holds(n, phv, ptr, M), Comes(p, n, phv, ptr)
  PROVE  Moves(n, p, phv, ptr, No(Program, n), Noted(Program, n, phv, ptr, p),
               After(Program, n, ptr), M \cup {Program[n].attr})
  <1> DEFINE a == Program[n].attr
             next == Program[n].next
             f == No(Program, n)
             phv1 == Noted(Program, n, phv, ptr, p)
             ptr1 == After(Program, n, ptr)
             M1 == M \cup {a}
             sz == FieldSize[f]
  <1>1. a \in Attrs /\ next \in Nodes(Program)
    BY DEF WellFormed, Nodes
  <1>2. f = FieldNo(a) /\ f \in Fields /\ sz = AttrSize[a]
    BY <1>1, FieldNoInjective, GraphAssumption DEF No
  <1>3. sz \in Nat \ {0}
    BY <1>2, StateMachineAssumption
  <1>4. ptr1 = ptr + sz /\ ptr1 \in Nat
    BY <1>2, <1>3 DEF After
  <1> HIDE DEF sz
  <1>5. \A q : Noted(Program, n, phv, ptr, q) = [phv EXCEPT ![f] = Slice(q, ptr, sz)]
    BY <1>2 DEF Noted, Read
  <1>6. \A q : Slice(q, ptr, sz) \in Word /\ Slice(q, ptr, sz) # Sentinel
    BY <1>2, SliceIsWord, SliceIsNotSentinel DEF sz
  <1>7. phv1 = [phv EXCEPT ![f] = Slice(p, ptr, sz)] /\ phv1 \in [Fields -> Word]
    BY <1>2, <1>5, <1>6
  <1>8. phv1[f] # Sentinel
    BY <1>2, <1>6, <1>7
  <1>9. a \notin M /\ ~Raises(Program, next, ptr1, M1)
    BY SizeWalkRaises DEF Holds, After
  <1>10. /\ Marked(M1) = Marked(M) \cup {f} /\ f \notin Marked(M)
    BY <1>1, <1>2, <1>9, MarkOne
  <1>11. phv[f] = Sentinel
    BY <1>2, <1>10 DEF Holds
  <1>12. Holds(next, phv1, ptr1, M1)
    <2>1. \A g \in Fields \ Marked(M1) : phv1[g] = Sentinel
      BY <1>7, <1>10 DEF Holds
    <2> QED
      BY <1>9, <2>1 DEF Holds
  <1>13. Comes(p, next, phv1, ptr1)
    <2> SUFFICES ASSUME NEW q \in Packet, SamePrefix(p, q, ptr1)
                 PROVE  Follow(Program, 1, InitialPhv, 0, q) = Follow(Program, next, phv1, ptr1, q)
      BY DEF Comes
    <2>1. SamePrefix(p, q, ptr)
      BY <1>3, <1>4 DEF SamePrefix
    <2>2. Slice(q, ptr, sz) = Slice(p, ptr, sz)
      <3>1. \A b \in 0 .. MaxFieldSize - 1 : b < sz => p[ptr + b] = q[ptr + b]
        BY <1>3, <1>4 DEF SamePrefix
      <3> QED
        BY <3>1 DEF Slice
    <2>3. Noted(Program, n, phv, ptr, q) = phv1
      BY <1>5, <1>7, <2>2
    <2>4. Follow(Program, n, phv, ptr, q) = Follow(Program, next, phv1, ptr1, q)
      BY <2>3, FollowExtract
    <2> QED
      BY <2>1, <2>4 DEF Comes
  <1> QED
    BY <1>1, <1>2, <1>3, <1>4, <1>7, <1>8, <1>10, <1>11, <1>12, <1>13 DEF sz, Moves

(* If the field ends with a value, it is extracted in the rest of the run, *)
(* and no step of the machine before extracts another. *)
EndsWith(m, p, b, f, w) ==
  \A q \in Packet : SamePrefix(p, q, b) => Run(m, q).phv[f] = w

LEMMA NextRead ==
  ASSUME NEW N \in Nat, NEW K \in Nat, NEW m \in Machines(N, K), NEW p \in Packet,
         NEW i \in 0 .. N, NEW ptr \in Nat, Configurations(m, p)[i].pos = ptr,
         NEW f \in Fields, NEW w, w # Sentinel, Configurations(m, p)[i].phv[f] = Sentinel,
         NEW ptr1, ptr1 = ptr + FieldSize[f], EndsWith(m, p, ptr1, f, w)
  PROVE  \E j \in i .. N - 1 :
           /\ \A x \in i .. j - 1 : ~Extracts(m, Configurations(m, p)[x])
           /\ ReadsField(m, Configurations(m, p)[j], f)
  <1> DEFINE conf(q) == Configurations(m, q)
             sz == FieldSize[f]
             S == {x \in i .. N - 1 : Extracts(m, conf(p)[x])}
  <1> USE DEF EndsWith
  <1>1. sz \in Nat \ {0} /\ ptr \in Nat /\ ptr1 \in Nat /\ ptr1 = ptr + sz
    BY StateMachineAssumption
  <1>2. \A q \in Packet : IsRun(m, q, conf(q)) /\ Run(m, q) = conf(q)[N]
    BY RunExists
  <1>3. S # {}
    <2> SUFFICES ASSUME S = {} PROVE FALSE
      OBVIOUS
    <2>1. \A x \in i .. N - 1 : ~ReadsField(m, conf(p)[x], f)
      BY DEF ReadsField
    <2>2. IsRun(m, p, conf(p)) /\ conf(p)[i].phv[f] = Sentinel
      BY <1>2
    <2>3. conf(p)[N].phv[f] = Sentinel
      <3> HIDE DEF conf
      <3> QED
        BY <2>1, <2>2, Unread
    <2>4. SamePrefix(p, p, ptr1)
      BY DEF SamePrefix
    <2> QED
      BY <1>2, <2>3, <2>4
  <1>4. PICK j \in S : \A x \in i .. j - 1 : x \notin S
    <2>1. S \subseteq i .. N - 1
      OBVIOUS
    <2> HIDE DEF S
    <2> QED
      BY <1>3, <2>1, HasFirst
  <1>5. /\ j \in i .. N - 1 /\ Extracts(m, conf(p)[j])
        /\ \A x \in i .. j - 1 : ~Extracts(m, conf(p)[x])
    BY <1>4
  <1>6. j \in i .. N /\ j \in 0 .. N - 1 /\ j \in 0 .. N /\ j + 1 \in 0 .. N
    BY <1>5
  <1> HIDE DEF S
  <1>7. conf(p)[j].pos = ptr /\ conf(p)[j].phv[f] = Sentinel /\ conf(p)[j] \in Configs(N)
    <2>1. IsRun(m, p, conf(p)) /\ conf(p)[i].pos = ptr /\ conf(p)[i].phv[f] = Sentinel
      BY <1>2
    <2> HIDE DEF conf
    <2> QED
      BY <1>5, <1>6, <2>1, Quiet, RunFacts
  <1> DEFINE g == Field(m, conf(p)[j])
  <1>8. g \in Fields /\ FieldSize[g] \in Nat \ {0}
    BY <1>5, <1>7, FieldRead
  <1>9. g = f
    <2> SUFFICES ASSUME g # f PROVE FALSE
      OBVIOUS
    <2>1. ASSUME NEW q \in Packet, SamePrefix(p, q, ptr1)
          PROVE  \E x \in 0 .. N - 1 : LateRead(m, q, x, f, ptr1)
      <3>1. conf(q)[j] = conf(p)[j]
        <4>1. conf(p)[j].pos <= ptr1
          BY <1>1, <1>7
        <4> QED
          BY <1>1, <1>6, <2>1, <4>1, SameConfig
      <3>2. IsRun(m, q, conf(q)) /\ Run(m, q) = conf(q)[N] /\ Run(m, q).phv[f] = w
        BY <1>2, <2>1
      <3> HIDE DEF conf
      <3>3. conf(q)[j + 1] = Transition(m, conf(p)[j], q)
        BY <1>6, <3>1, <3>2, RunFacts
      <3>4. conf(q)[j + 1].pos = ptr + FieldSize[g]
        BY <1>5, <1>7, <3>3, TransitionMoves
      <3>5. conf(q)[j + 1].phv[f] = Sentinel
        <4>1. conf(p)[j].phv \in [Fields -> Word]
          BY <1>7 DEF Configs
        <4>2. conf(q)[j + 1].phv = [conf(p)[j].phv EXCEPT ![g] = Slice(q, ptr, FieldSize[g])]
          BY <1>5, <1>7, <3>3, TransitionStores
        <4> HIDE DEF g
        <4> QED
          BY <1>7, <2>1, <4>1, <4>2
      <3>6. PICK x \in j + 1 .. N - 1 : ReadsField(m, conf(q)[x], f)
        <4> SUFFICES ASSUME \A x \in j + 1 .. N - 1 : ~ReadsField(m, conf(q)[x], f) PROVE FALSE
          OBVIOUS
        <4>1. conf(q)[N].phv[f] = conf(q)[j + 1].phv[f]
          BY <1>6, <3>2, Unread
        <4> QED
          BY <3>2, <3>5, <4>1
      <3>7. x \in 0 .. N - 1 /\ x \in j + 1 .. N /\ x \in 0 .. N
        BY <1>6
      <3>8. conf(q)[j + 1].pos <= conf(q)[x].pos /\ conf(q)[x].pos \in Nat
        BY <1>6, <3>2, <3>7, PositionRises, RunFacts, StateMachineAssumption
      <3>9. conf(q)[x].pos + sz > ptr1
        <4> HIDE DEF g, sz
        <4> QED
          BY <1>1, <1>8, <3>4, <3>8
      <3> QED
        BY <3>6, <3>7, <3>9 DEF LateRead, conf
    <2> HIDE DEF g
    <2>2. \E q1, q2 \in Packet :
            /\ SamePrefix(p, q1, ptr1) /\ SamePrefix(p, q2, ptr1)
            /\ Run(m, q1).phv[f] # Run(m, q2).phv[f]
      BY <1>1, <2>1, LateReadShows
    <2> QED
      BY <2>2
  <1> QED
    BY <1>5, <1>9 DEF ReadsField

LEMMA ExtractTracks ==
  ASSUME WellFormed(Program), NEW N \in Nat, NEW K \in Nat, NEW m \in Machines(N, K), Parses(m),
         NEW n \in Nodes(Program), Program[n].kind = "extract", Kept(Program[n].attr),
         Tracks(m, Program[n].next)
  PROVE  Tracks(m, n)
  <1>1. m.no_states = N
    BY MachineFacts
  <1> SUFFICES ASSUME NEW p \in Packet, NEW i \in 0 .. N, NEW phv \in [Fields -> Word],
                      NEW ptr \in Nat, NEW M \in SUBSET Attrs, Meets(m, p, i, n, phv, ptr, M),
                      NEW rd, IsReads(m, p, rd)
               PROVE  rd[N] = Then(rd[i], ReadsOn(n, phv, ptr, p))
    BY <1>1 DEF Tracks
  <1> DEFINE conf == Configurations(m, p)
             next == Program[n].next
             f == No(Program, n)
             phv1 == Noted(Program, n, phv, ptr, p)
             ptr1 == After(Program, n, ptr)
             M1 == M \cup {Program[n].attr}
  <1>2. next \in Nodes(Program)
    BY DEF WellFormed, Nodes
  <1>3. /\ conf[i].pos = ptr /\ conf[i].phv = phv
        /\ Holds(n, phv, ptr, M) /\ Comes(p, n, phv, ptr)
    BY DEF Meets
  <1>4. Moves(n, p, phv, ptr, f, phv1, ptr1, M1)
    BY <1>3, ExtractMoves
  <1>5. ReadsOn(n, phv, ptr, p) = Then(<<<<f, ptr>>>>, ReadsOn(next, phv1, ptr1, p))
    BY ReadsOnNode
  <1> HIDE DEF f, phv1, ptr1, M1, next
  <1>6. /\ f \in Fields /\ f \in Marked(M1) /\ M1 \in SUBSET Attrs
        /\ FieldSize[f] \in Nat \ {0} /\ ptr1 = ptr + FieldSize[f] /\ ptr1 \in Nat
        /\ phv1 = [phv EXCEPT ![f] = Slice(p, ptr, FieldSize[f])] /\ phv1 \in [Fields -> Word]
        /\ phv[f] = Sentinel /\ phv1[f] # Sentinel
        /\ Holds(next, phv1, ptr1, M1) /\ Comes(p, next, phv1, ptr1)
    BY <1>4 DEF Moves, next
  <1>7. EndsWith(m, p, ptr1, f, phv1[f])
    <2> SUFFICES ASSUME NEW q \in Packet, SamePrefix(p, q, ptr1) PROVE Run(m, q).phv[f] = phv1[f]
      BY <1>6 DEF EndsWith
    <2>1. Run(m, q).phv = Follow(Program, next, phv1, ptr1, q).phv
      BY <1>6 DEF Parses, Comes
    <2>2. /\ next \in Nodes(Program) /\ phv1 \in [Fields -> Word] /\ ptr1 \in Nat
          /\ M1 \in SUBSET Attrs /\ f \in Marked(M1) /\ Holds(next, phv1, ptr1, M1)
      BY <1>2, <1>6
    <2>3. Follow(Program, next, phv1, ptr1, q).phv[f] = phv1[f]
      BY <2>2, MarkedKeeps
    <2> QED
      BY <2>1, <2>3
  <1>8. PICK j \in i .. N - 1 :
          /\ \A x \in i .. j - 1 : ~Extracts(m, Configurations(m, p)[x])
          /\ ReadsField(m, Configurations(m, p)[j], f)
    <2>1. Configurations(m, p)[i].pos = ptr /\ Configurations(m, p)[i].phv[f] = Sentinel
      BY <1>3, <1>6
    <2> DEFINE w == phv1[f]
    <2>2. /\ EndsWith(m, p, ptr1, f, w) /\ w # Sentinel /\ f \in Fields
          /\ ptr1 = ptr + FieldSize[f]
      BY <1>6, <1>7
    <2> HIDE DEF w
    <2> QED
      BY <2>1, <2>2, NextRead
  <1>9. /\ j \in i .. N /\ j \in 0 .. N - 1 /\ j \in 0 .. N /\ j + 1 \in 0 .. N
        /\ \A x \in i .. j - 1 : ~Extracts(m, conf[x])
        /\ ReadsField(m, conf[j], f)
    BY <1>8
  <1>10. rd[j] = rd[i] /\ rd[i] \in Extractions
    <2>1. rd[j] = rd[i]
      BY <1>8, <1>9, QuietReads
    <2>2. rd[i] \in Extractions
      BY ReadsTyped
    <2> QED
      BY <2>1, <2>2
  <1>11. rd[j + 1] = Then(rd[j], ReadsOfStep(m, conf[j]))
    BY <1>9, ReadsGrow
  <1>12. IsRun(m, p, conf)
    BY RunExists
  <1>13. Meets(m, p, j + 1, next, phv1, ptr1, M1) <=>
           /\ conf[j + 1].pos = ptr1 /\ conf[j + 1].phv = phv1
           /\ Holds(next, phv1, ptr1, M1) /\ Comes(p, next, phv1, ptr1)
    BY DEF Meets
  <1> HIDE DEF conf
  <1>14. conf[j].pos = ptr /\ conf[j].phv = phv
    <2>1. j \in i .. N /\ \A x \in i .. j - 1 : ~Extracts(m, conf[x])
      BY <1>9
    <2>2. conf[j].pos = conf[i].pos /\ conf[j].phv = conf[i].phv
      BY <1>12, <2>1, Quiet
    <2> QED
      BY <1>3, <2>2
  <1>15. conf[j + 1] = Transition(m, conf[j], p)
    BY <1>9, <1>12, RunFacts
  <1>16. Extracts(m, conf[j]) /\ Field(m, conf[j]) = f
    BY <1>9 DEF ReadsField
  <1>17. conf[j + 1].pos = ptr1
    BY <1>6, <1>14, <1>15, <1>16, TransitionMoves
  <1>18. conf[j + 1].phv = phv1
    <2>1. Transition(m, conf[j], p).phv =
            [conf[j].phv EXCEPT ![Field(m, conf[j])] =
               Slice(p, conf[j].pos, FieldSize[Field(m, conf[j])])]
      BY <1>16, TransitionStores
    <2>2. phv1 = [phv EXCEPT ![f] = Slice(p, ptr, FieldSize[f])]
      BY <1>6
    <2> QED
      BY <1>14, <1>15, <1>16, <2>1, <2>2
  <1>19. ReadsOfStep(m, conf[j]) = <<<<f, ptr>>>>
    BY <1>14, <1>16 DEF ReadsOfStep
  <1>20. rd[N] = Then(rd[j + 1], ReadsOn(next, phv1, ptr1, p))
    <2>1. Meets(m, p, j + 1, next, phv1, ptr1, M1) /\ Tracks(m, next)
      BY <1>6, <1>13, <1>17, <1>18 DEF next
    <2> DEFINE after == j + 1
    <2>2. /\ after \in 0 .. m.no_states /\ phv1 \in [Fields -> Word] /\ ptr1 \in Nat
          /\ M1 \in SUBSET Attrs /\ Meets(m, p, after, next, phv1, ptr1, M1)
      BY <1>1, <1>6, <1>9, <2>1
    <2> HIDE DEF after
    <2>3. rd[m.no_states] = Then(rd[after], ReadsOn(next, phv1, ptr1, p))
      BY <2>1, <2>2 DEF Tracks
    <2> QED
      BY <1>1, <2>3 DEF after
  <1> DEFINE this == <<<<f, ptr>>>>
             later == ReadsOn(next, phv1, ptr1, p)
  <1>21. this \in Extractions
    BY <1>6 DEF Extractions
  <1>22. later \in Extractions
    BY <1>2, <1>6, ReadsEquation
  <1>23. rd[N] = Then(Then(rd[i], this), later) /\ ReadsOn(n, phv, ptr, p) = Then(this, later)
    BY <1>5, <1>10, <1>11, <1>19, <1>20
  <1> HIDE DEF this, later
  <1> QED
    BY <1>10, <1>21, <1>22, <1>23, ThenAssociative

LEMMA EveryNodeTracks ==
  ASSUME WellFormed(Program), \A a \in Attrs : Kept(a),
         NEW N \in Nat, NEW K \in Nat, NEW m \in Machines(N, K), Parses(m)
  PROVE  \A n \in Nodes(Program) : Tracks(m, n)
  <1> DEFINE Good == {n \in 1 .. Len(Program) : Tracks(m, n)}
  <1>1. ASSUME NEW n \in 1 .. Len(Program), n + 1 .. Len(Program) \subseteq Good
        PROVE  n \in Good
    <2>1. n \in Nodes(Program) /\ \A k \in n + 1 .. Len(Program) : Tracks(m, k)
      BY <1>1 DEF WellFormed, Nodes
    <2>2. CASE Program[n].kind = "exit"
      BY <2>1, <2>2, ExitTracks
    <2>3. CASE Program[n].kind = "extract"
      <3>1. Program[n].next \in n + 1 .. Len(Program) /\ Kept(Program[n].attr)
        BY <2>3 DEF WellFormed
      <3> QED
        BY <2>1, <2>3, <3>1, ExtractTracks
    <2>4. CASE Program[n].kind = "if"
      <3>1. {Program[n].next_true, Program[n].next_false} \subseteq n + 1 .. Len(Program)
        BY <2>4 DEF WellFormed
      <3> QED
        BY <2>1, <2>4, <3>1, IfTracks
    <2> QED
      BY <2>2, <2>3, <2>4 DEF WellFormed
  <1>2. 1 .. Len(Program) \subseteq Good /\ Nodes(Program) = 1 .. Len(Program)
    <2>1. Len(Program) \in Nat /\ Nodes(Program) = 1 .. Len(Program)
      BY DEF WellFormed, Nodes
    <2> HIDE DEF Good
    <2> QED
      BY <1>1, <2>1, NodeInduction
  <1> QED
    BY <1>2

LEMMA ParsingExtracts ==
  ASSUME \A a \in Attrs : Kept(a), NEW N \in Nat, NEW K \in Nat, NEW m \in Machines(N, K),
         ParsesProgram(m), NEW p \in Packet
  PROVE  MachineReads(m, p) = ProgramReads(p)
  <1>1. WellFormed(Program) /\ ~Raises(Program, 1, 0, {})
    BY SynthesiserAssumption DEF Raises
  <1>2. 1 \in Nodes(Program) /\ InitialPhv \in [Fields -> Word] /\ m.no_states = N
    BY <1>1, SentinelIsWord, MachineFacts DEF InitialPhv, WellFormed, Nodes
  <1>3. Parses(m)
    BY DEF Parses, ParsesProgram
  <1>4. Tracks(m, 1)
    BY <1>1, <1>2, <1>3, EveryNodeTracks
  <1>5. PICK rd : IsReads(m, p, rd) /\ MachineReads(m, p) = rd[N]
    BY MachineReadsExist
  <1>6. Meets(m, p, 0, 1, InitialPhv, 0, {})
    <2>1. Configurations(m, p)[0] = Start
      BY RunExists, RunFacts
    <2>2. \A f \in Fields : InitialPhv[f] = Sentinel
      BY DEF InitialPhv
    <2> QED
      BY <1>1, <2>1, <2>2 DEF Meets, Holds, Comes, Start
  <1>7. rd[N] = Then(rd[0], ReadsOn(1, InitialPhv, 0, p))
    <2>1. 0 \in 0 .. N /\ 0 \in Nat /\ {} \in SUBSET Attrs
      OBVIOUS
    <2> QED
      BY <1>2, <1>4, <1>5, <1>6, <2>1 DEF Tracks
  <1>8. rd[0] = <<>>
    <2>1. 0 \in 0 .. N
      OBVIOUS
    <2> QED
      BY <1>5, <2>1, ReadsTyped
  <1>9. Then(<<>>, ReadsOn(1, InitialPhv, 0, p)) = ReadsOn(1, InitialPhv, 0, p)
    <2>1. ReadsOn(1, InitialPhv, 0, p) \in Extractions
      BY <1>1, <1>2, ReadsEquation
    <2> QED
      BY <2>1, ThenNothing
  <1> QED
    BY <1>5, <1>7, <1>8, <1>9 DEF ReadsOn, ProgramReads

(* The machine find_stm returns extracts the fields of the program in its  *)
(* order and from the same places of every packet, although only final     *)
(* values are compared, in both designs.  Without the hypothesis, that no  *)
(* attribute is dropped, this is false.                                    *)
THEOREM FoundExtractsLikeProgram ==
  ASSUME \A a \in Attrs : Kept(a)
  PROVE  Spec => []ExtractsLikeProgram
  <1>1. IInv => ExtractsLikeProgram
    <2> SUFFICES ASSUME IInv, pc = "found", NEW p \in Packets
                 PROVE  MachineReads(candidate, p) = ProgramReads(p)
      BY DEF ExtractsLikeProgram
    <2>1. /\ table_size \in MinEntries .. MaxEntries /\ table_size \in Nat
          /\ no_states \in MinStates .. MaxStates /\ no_states \in Nat
      BY SearchAssumption DEF IInv, TypeOK
    <2>2. candidate \in Candidates(table_size, no_states) /\ Valid(candidate)
      BY DEF IInv, CandidateFits
    <2>3. ParsesProgram(candidate)
      BY <2>1, <2>2, ValidMeansParses
    <2>4. candidate \in Machines(no_states, table_size) /\ p \in Packet
      BY <2>1, <2>2, SynthesiserAssumption DEF MachinesOfShape
    <2> QED
      BY <2>1, <2>3, <2>4, ParsingExtracts
  <1> QED
    BY <1>1, Invariance, PTL
=============================================================================
