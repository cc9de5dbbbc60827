------------------------------ MODULE Synthesis ------------------------------
(***************************************************************************)
(* What find_stm promises its caller, whatever it does to get there: it    *)
(* returns a machine that is right on every packet and of the first shape  *)
(* that has such a machine, or raises STMNotFoundError because no shape    *)
(* within the bounds has one.                                              *)
(***************************************************************************)
EXTENDS SearchSpace

VARIABLES outcome, result

avars == <<outcome, result>>

Init == outcome = "pending" /\ result = NoMachine

Return ==
  /\ outcome = "pending"
  /\ outcome' = "found"
  /\ \E k \in MinEntries .. MaxEntries, n \in MinStates .. MaxStates :
       /\ result' \in Candidates(k, n)
       /\ Valid(result')
       /\ NoneBefore(k, n)

Raise ==
  /\ outcome = "pending"
  /\ outcome' = "not_found"
  /\ \A k \in MinEntries .. MaxEntries, n \in MinStates .. MaxStates : HasNoValid(k, n)
  /\ UNCHANGED result

Next == Return \/ Raise

Spec == Init /\ [][Next]_avars
=============================================================================
