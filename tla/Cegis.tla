-------------------------------- MODULE Cegis --------------------------------
(***************************************************************************)
(* find_stm: the counterexample-guided search.  Two loops go through the   *)
(* shapes; for each, a fresh Generator proposes machines that are right on *)
(* the packets seen so far, and a Verifier looks for a packet on which the *)
(* proposal is wrong, which the Generator is then told.                    *)
(*                                                                         *)
(* Z3 is external: each query is answered by any model it has, or by unsat *)
(* when it has none (`unknown` is not modelled).  Every step of the loop   *)
(* is deterministic code or a terminating query of Z3, hence the fairness. *)
(***************************************************************************)
EXTENDS SearchSpace

VARIABLES
  pc,           \* the loop head, the Generator's or the Verifier's query, or the end
  table_size,
  no_states,
  examples,     \* packets for which the Generator has a correctness constraint
  candidate     \* the machine under verification, then the result

vars == <<pc, table_size, no_states, examples, candidate>>

Init ==
  /\ pc = "next_shape"
  /\ table_size = MinEntries
  /\ no_states = MinStates
  /\ examples = {}
  /\ candidate = NoMachine

(* The constraints of a Generator that has not been told the first packet. *)
FirstExamples_None == {}

(* "Start with one simple counterexample 0" *)
FirstExamples == {ZeroPacket}

(* for ... in range(...): the next shape, if there is one.                 *)
NewGenerator ==
  /\ pc = "next_shape"
  /\ table_size <= MaxEntries
  /\ no_states <= MaxStates
  /\ pc' = "generate"
  /\ examples' = FirstExamples
  /\ UNCHANGED <<table_size, no_states, candidate>>

(* The number of states is not reset for the next table size. *)
NextTableSize_KeepStates ==
  /\ pc = "next_shape"
  /\ table_size <= MaxEntries
  /\ no_states > MaxStates
  /\ table_size' = table_size + 1
  /\ UNCHANGED <<pc, no_states, examples, candidate>>

NextTableSize ==
  /\ pc = "next_shape"
  /\ table_size <= MaxEntries
  /\ no_states > MaxStates
  /\ table_size' = table_size + 1
  /\ no_states' = MinStates
  /\ UNCHANGED <<pc, examples, candidate>>

RaiseNotFound ==
  /\ pc = "next_shape"
  /\ table_size > MaxEntries
  /\ pc' = "not_found"
  /\ UNCHANGED <<table_size, no_states, examples, candidate>>

(* The machines that satisfy the Generator's constraints. *)
Consistent ==
  {m \in Candidates(table_size, no_states) : \A p \in examples : Correct(m, p)}

GeneratorSat ==
  /\ pc = "generate"
  /\ pc' = "verify"
  /\ candidate' \in Consistent
  /\ UNCHANGED <<table_size, no_states, examples>>

GeneratorUnsat ==
  /\ pc = "generate"
  /\ Consistent = {}
  /\ pc' = "next_shape"
  /\ no_states' = no_states + 1
  /\ UNCHANGED <<table_size, examples, candidate>>

(* The counterexample is found and not added to the constraints. *)
VerifierSat_NotLearnt ==
  /\ pc = "verify"
  /\ \E p \in Packets : ~Correct(candidate, p)
  /\ pc' = "generate"
  /\ UNCHANGED <<table_size, no_states, examples, candidate>>

VerifierSat ==
  /\ pc = "verify"
  /\ \E p \in Packets : ~Correct(candidate, p) /\ examples' = examples \cup {p}
  /\ pc' = "generate"
  /\ UNCHANGED <<table_size, no_states, candidate>>

(* Any candidate that fits the examples is taken. *)
VerifierUnsat_Unchecked ==
  /\ pc = "verify"
  /\ pc' = "found"
  /\ UNCHANGED <<table_size, no_states, examples, candidate>>

VerifierUnsat ==
  /\ pc = "verify"
  /\ Valid(candidate)
  /\ pc' = "found"
  /\ UNCHANGED <<table_size, no_states, examples, candidate>>

Next ==
  \/ NewGenerator \/ NextTableSize \/ RaiseNotFound
  \/ GeneratorSat \/ GeneratorUnsat
  \/ VerifierSat \/ VerifierUnsat

Spec == Init /\ [][Next]_vars /\ WF_vars(Next)

-----------------------------------------------------------------------------
(* The machine that is returned parses every packet as specified, although *)
(* the Generator saw a few packets only.                                   *)
FoundIsValid ==
  pc = "found" => candidate \in Candidates(table_size, no_states) /\ Valid(candidate)

(* The Verifier's query is false on the all-zero packet, hence depends on  *)
(* the packet: its models assign it, and get_counterexample, which reads   *)
(* the assignment, never returns None.                                     *)
VerifierQueryNeedsPacket == pc = "verify" => Correct(candidate, ZeroPacket)

(* Every turn of "while True" brings its end closer: a counterexample is    *)
(* none of the packets the Generator knew, so that no candidate comes back *)
(* and a shape takes at most as many turns as there are packets; and the   *)
(* two loops around it never go back to a shape.                           *)
SameShape == table_size' = table_size /\ no_states' = no_states

LearnsPacket ==
  /\ SameShape /\ pc = "verify" /\ pc' = "generate"
  /\ \E p \in Packets \ examples : examples' = examples \cup {p}

StartsShape == SameShape /\ pc = "next_shape" /\ pc' \in {"generate", "not_found"}

EndsTurn ==
  /\ SameShape /\ examples' = examples
  /\ <<pc, pc'>> \in {<<"generate", "verify">>, <<"verify", "found">>}

Advances ==
  [][ \/ Before(table_size, no_states, table_size', no_states') /\ pc' = "next_shape"
      \/ StartsShape \/ LearnsPacket \/ EndsTurn ]_vars

(* find_stm returns or raises STMNotFoundError.                            *)
Terminates == <>(pc \in {"found", "not_found"})

(* find_stm implements its promise.                                        *)
Outcome == IF pc \in {"found", "not_found"} THEN pc ELSE "pending"
Result  == IF pc = "found" THEN candidate ELSE NoMachine

Promise == INSTANCE Synthesis WITH outcome <- Outcome, result <- Result
ImplementsSynthesis == Promise!Spec
=============================================================================
