------------------------------ MODULE P4Parser ------------------------------
(***************************************************************************)
(* The P4 parser that print_state and print_parser                         *)
(* (src/backend/p4_generator.py) write for the restored states, at work on *)
(* a packet: pkt.extract of the whole header, then a select on the field,  *)
(* whose first matching case is taken.                                     *)
(*                                                                         *)
(* A header that has not been extracted is invalid: a select on one of its *)
(* fields may take any of its cases.  An extraction beyond the end of the  *)
(* packet rejects it.                                                      *)
(*                                                                         *)
(* `steps` and `reads` are history variables of the model.                 *)
(***************************************************************************)
EXTENDS FieldRestorer

VARIABLES packet, config, steps, reads

pvars == <<packet, config, steps, reads>>
vars  == <<rvars, pvars>>

-----------------------------------------------------------------------------
(* The parser is in a state of its own, neither in accept nor in reject. *)
Parsing == stage = "written" /\ config.state \in States

State  == states[config.state]
Header == HeaderOf[State.field_used]

TooShort == State.is_extraction /\ config.pos + HeaderSize[Header] > MaxPacketSize
Reading  == State.is_extraction /\ ~TooShort

HeadersAfter ==
  IF Reading
  THEN [f \in Fields |-> IF HeaderOf[f] = Header
                         THEN Slice(packet, config.pos + Offset[f], FieldSize[f])
                         ELSE config.phv[f]]
  ELSE config.phv

(* The cases of the select that match. *)
Cases(word) == {i \in DOMAIN State.transitions : Matches(word, State.transitions[i])}

Selected(word) ==
  IF word = Sentinel THEN Successors(config.state)
  ELSE IF Cases(word) = {} THEN {State.default}
  ELSE {State.transitions[Min(Cases(word))].next}

ParseStep ==
  /\ Parsing
  /\ \E next \in IF TooShort THEN {Reject(NoStates)}
                 ELSE Selected(HeadersAfter[State.field_used]) :
       config' = [state |-> next,
                  pos   |-> IF Reading THEN config.pos + HeaderSize[Header] ELSE config.pos,
                  phv   |-> HeadersAfter]
  /\ steps' = steps + 1
  /\ reads' = IF Reading THEN Append(reads, [header |-> Header, pos |-> config.pos]) ELSE reads
  /\ UNCHANGED <<rvars, packet>>

Init ==
  /\ RestorerInit
  /\ packet \in Packet
  /\ config = Start
  /\ steps = 0
  /\ reads = <<>>

Next == (RestorerNext /\ UNCHANGED pvars) \/ ParseStep

Spec == Init /\ [][Next]_vars

-----------------------------------------------------------------------------
(* What assign_extractions has decided when the parser is written, for     *)
(* every machine: each state that it visited extracts its header unless    *)
(* the headers stored with it have that header, these are the headers of   *)
(* a path the parser can take to the state, and no packet ever reaches a   *)
(* state that it did not visit.                                            *)
StoredByPath(v) ==
  IF v = 0 THEN extracted[v] = {}
  ELSE \E u \in DOMAIN extracted :
         /\ u < v /\ v \in Successors(u)
         /\ extracted[v] = extracted[u] \cup {HeaderOf[states[u].field_used]}

EveryReachedStateDecided ==
  stage = "written" =>
    /\ \A v \in DOMAIN extracted :
         /\ StoredByPath(v)
         /\ states[v].is_extraction = (HeaderOf[states[v].field_used] \notin extracted[v])
    /\ config.state \in States => config.state \in DOMAIN extracted

(* The machine with the constants of the source, and without the entries   *)
(* that have none.                                                         *)
RestoredMachine ==
  [machine EXCEPT !.entries =
     [i \in {j \in DOMAIN machine.entries : j \in Restorable(machine, machine.entries[j].state)} |->
        LET e == machine.entries[i]
            r == Restored(machine.default_field[e.state], e)
        IN  [state |-> e.state, next |-> r.next, value |-> r.value, mask |-> r.mask]]]

(* The header of the state is no more than its field. *)
SoleField(f) ==
  /\ \A g \in Fields : HeaderOf[g] = HeaderOf[f] => g = f
  /\ HeaderSize[HeaderOf[f]] = FieldSize[f] /\ Offset[f] = 0

(* The headers on the path of the walk, which has decided whether the      *)
(* state extracts, and those on the path of this packet, on which the      *)
(* machine decides, agree about the header of the state.                   *)
WalkAgrees == Attempts(machine, config) <=> Header \notin extracted[config.state]

(* The stored headers are those of every path to a state; in the first     *)
(* design, whose states always extract, the state's own is not among them. *)
PathsAgree ==
  \A v \in DOMAIN extracted :
    /\ \A u \in Successors(v) \cap States :
         extracted[u] = extracted[v] \cup {HeaderOf[states[v].field_used]}
    /\ ~NotAlwaysExtract => HeaderOf[states[v].field_used] \notin extracted[v]

(* Two entries of a ternary table match, of which the machine takes the    *)
(* last and a select the first.                                            *)
Overlap ==
  TernaryMatch /\ \E i, j \in Cases(HeadersAfter[State.field_used]) : i # j

(* Whatever machine find_stm returns, the parser written for it is, on     *)
(* packets of max_packet_size bits, the run of the restored machine by     *)
(* simulate_stm, with its extractions and its end of the packet, but in    *)
(* three places: a state whose header has further fields, one where        *)
(* ternary entries overlap, and one that this packet reaches with other    *)
(* headers than the walk did, which happens only if the parser has two     *)
(* paths that disagree.  Everywhere else the flag that is fixed once per   *)
(* state does what the machine decides packet by packet.                   *)
FieldOf(h)   == CHOOSE f \in Fields : HeaderOf[f] = h
ReadsByField == [i \in DOMAIN reads |-> [field |-> FieldOf(reads[i].header), pos |-> reads[i].pos]]

Restoration == INSTANCE Simulation
                 WITH machine <- RestoredMachine, step <- steps, reads <- ReadsByField

ImplementsMachine ==
  [][Parsing /\ SoleField(State.field_used) /\ ~Overlap /\ (PathsAgree \/ WalkAgrees)
       => Restoration!Simulate]_(Restoration!vars)

(* No select reads a header that the parser has not extracted on this      *)
(* packet, unless two paths to a state disagree about the headers.         *)
SelectsOnValidHeader ==
  Parsing /\ ~TooShort /\ PathsAgree => HeadersAfter[State.field_used] # Sentinel
=============================================================================
