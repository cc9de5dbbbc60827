---------------------------- MODULE StateMachine ----------------------------
(***************************************************************************)
(* The tabular parsing state machine that STMSynthesiser searches for      *)
(* (src/synthesis/stm_synthesiser.py) and its one-step semantics, the      *)
(* method `transition` that STMGenerator and STMVerifier both encode.      *)
(*                                                                         *)
(* A machine with n states numbers them 0 .. n-1; n is ACCEPT and n+1 is   *)
(* REJECT.  Every state has a default field, which it extracts (and        *)
(* branches on), and a default next state; the table entries override the  *)
(* default next state when the field matches.                              *)
(***************************************************************************)
EXTENDS Integers, Sequences, FiniteSetsExt

CONSTANTS
  NoFields,          \* number of fields the synthesiser sees (no_fields)
  FieldSize,         \* their widths (field_sizes)
  MaxPacketSize,     \* bits of a packet (max_packet_size)
  MaxFieldSize,      \* width every field is padded to (max_field_size)
  NotAlwaysExtract,  \* TRUE: Design 2, FALSE: Design 1
  TernaryMatch,      \* TRUE: an entry carries a mask and has no determinism constraint
  MatchValues,       \* the words an entry may carry as its match value
  MatchMasks         \* and as its mask ({FullMask} when matches are exact)

Fields == 0 .. NoFields - 1
Bit    == {0, 1}
Packet == [0 .. MaxPacketSize - 1 -> Bit]
Word   == [0 .. MaxFieldSize - 1 -> Bit]

FullMask == [b \in 0 .. MaxFieldSize - 1 |-> 1]

(* get_spec pads by one bit, so that no extracted word has its top bit set *)
ASSUME StateMachineAssumption ==
  /\ NoFields \in Nat
  /\ MaxPacketSize \in Nat
  /\ MaxFieldSize \in Nat
  /\ FieldSize \in [Fields -> 1 .. MaxFieldSize - 1]
  /\ NotAlwaysExtract \in BOOLEAN
  /\ TernaryMatch \in BOOLEAN
  /\ MatchValues \subseteq Word
  /\ MatchMasks \subseteq Word
  /\ ~TernaryMatch => MatchMasks = {FullMask}

-----------------------------------------------------------------------------
(* Words and packets.                                                      *)

(* A sentinel that an extraction can produce: the padding bit is missing. *)
Sentinel_Zero == [b \in 0 .. MaxFieldSize - 1 |-> 0]

(* The value of a field that has not been extracted: top bit set, rest 0. *)
Sentinel == [b \in 0 .. MaxFieldSize - 1 |-> IF b = MaxFieldSize - 1 THEN 1 ELSE 0]

(* ZeroExt(Extract(p+sz-1, p, packet)) *)
Slice(packet, p, sz) ==
  [b \in 0 .. MaxFieldSize - 1 |-> IF b < sz /\ packet[p + b] = 1 THEN 1 ELSE 0]

(* (word & mask) == value *)
Matches(word, e) ==
  \A b \in 0 .. MaxFieldSize - 1 : word[b] * e.mask[b] = e.value[b]

InitialPhv == [f \in Fields |-> Sentinel]

-----------------------------------------------------------------------------
(* The machines the Generator may propose: its domain, determinism,        *)
(* well-formedness, state-ordering and constant-synthesis constraints.     *)

Accept(n) == n
Reject(n) == n + 1

Entries(n) ==
  {e \in [state : 0 .. n - 1, next : 0 .. n + 1, value : MatchValues, mask : MatchMasks] :
     /\ e.next > e.state
     /\ \A b \in 0 .. MaxFieldSize - 1 : e.mask[b] = 0 => e.value[b] = 0}

Deterministic(table) ==
  \A i, j \in DOMAIN table :
     i # j /\ table[i].state = table[j].state => table[i].value # table[j].value

Tables(n, k) ==
  {t \in [1 .. k -> Entries(n)] : TernaryMatch \/ Deterministic(t)}

(* Default next states without the ordering constraint. *)
DefaultNexts_Unordered(n) == [0 .. n - 1 -> 0 .. n + 1]

DefaultNexts(n) == {d \in [0 .. n - 1 -> 0 .. n + 1] : \A s \in 0 .. n - 1 : d[s] > s}

Machines(n, k) ==
  [no_states : {n}, entries : Tables(n, k),
   default_field : [0 .. n - 1 -> Fields], default_next : DefaultNexts(n)]

-----------------------------------------------------------------------------
(* One transition of machine m from configuration c = [state, pos, phv].   *)

Start == [state |-> 0, pos |-> 0, phv |-> InitialPhv]

Active(m, c) == c.state < m.no_states
Field(m, c)  == m.default_field[c.state]

(* The second design without its guard: a field is extracted again. *)
Attempts_Always(m, c) == Active(m, c)

(* The state tries to extract: always, or in Design 2 the first time only. *)
Attempts(m, c) ==
  /\ Active(m, c)
  /\ NotAlwaysExtract => c.phv[Field(m, c)] = Sentinel

Fits(m, c) == c.pos + FieldSize[Field(m, c)] <= MaxPacketSize

Extracts(m, c)    == Attempts(m, c) /\ Fits(m, c)
OutOfBounds(m, c) == Attempts(m, c) /\ ~Fits(m, c)

NextPhv(m, c, packet) ==
  IF Extracts(m, c)
  THEN [c.phv EXCEPT ![Field(m, c)] = Slice(packet, c.pos, FieldSize[Field(m, c)])]
  ELSE c.phv

(* The pointer stays where it is. *)
NextPos_Stuck(m, c) == c.pos

(* It moves even past the end of the packet. *)
NextPos_Unchecked(m, c) ==
  IF Attempts(m, c) THEN c.pos + FieldSize[Field(m, c)] ELSE c.pos

NextPos(m, c) ==
  IF Extracts(m, c) THEN c.pos + FieldSize[Field(m, c)] ELSE c.pos

(* The look-up reads the field as it was before the extraction. *)
Hits_BeforeExtraction(m, c, packet) ==
  LET word == c.phv[Field(m, c)]
  IN  {i \in DOMAIN m.entries :
         /\ m.entries[i].state = c.state
         /\ Matches(word, m.entries[i])
         /\ NotAlwaysExtract => word # Sentinel}

(* The entries that fire, on the field as it is after the extraction. *)
Hits(m, c, packet) ==
  LET word == NextPhv(m, c, packet)[Field(m, c)]
  IN  {i \in DOMAIN m.entries :
         /\ m.entries[i].state = c.state
         /\ Matches(word, m.entries[i])
         /\ NotAlwaysExtract => word # Sentinel}

(* The matching entries override the default next state in table order, so *)
(* that the last of them prevails.                                         *)
LookUp(m, c, packet) ==
  IF Hits(m, c, packet) = {} THEN m.default_next[c.state]
  ELSE m.entries[Max(Hits(m, c, packet))].next

(* The encoding without its last step, the bounds check. *)
NextState_NoBoundsCheck(m, c, packet) ==
  IF Active(m, c) THEN LookUp(m, c, packet) ELSE c.state

(* The bounds check overrides the look-up. *)
NextState(m, c, packet) ==
  IF ~Active(m, c) THEN c.state
  ELSE IF OutOfBounds(m, c) THEN Reject(m.no_states) ELSE LookUp(m, c, packet)

Transition(m, c, packet) ==
  [state |-> NextState(m, c, packet),
   pos   |-> NextPos(m, c),
   phv   |-> NextPhv(m, c, packet)]

(* simulate_stm with num_steps = no_states, as find_stm always calls it:   *)
(* the configurations it goes through, and the last one.                   *)
Configurations(m, packet) ==
  LET conf[k \in 0 .. m.no_states] ==
        IF k = 0 THEN Start ELSE Transition(m, conf[k - 1], packet)
  IN  conf

Run(m, packet) == Configurations(m, packet)[m.no_states]
=============================================================================
