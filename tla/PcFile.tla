-------------------------------- MODULE PcFile --------------------------------
(***************************************************************************)
(* How compilations use the files _build/<stem>.pc (get_spec in            *)
(* src/spec/spec_builder.py, compile_to_pc in src/frontend/ir_generator.py), *)
(* whatever they write: a compilation opens the file of its stem, which    *)
(* truncates it, fills it when it closes it, and reads it.  It may be      *)
(* killed at any point and compile again.  Any number of compilations use  *)
(* any number of files.                                                    *)
(***************************************************************************)
CONSTANTS
  Compilations,
  Stem,        \* the stem of every compilation's input
  Empty,       \* a file opened for writing, not yet flushed
  Garbled      \* a program over another one

VARIABLES
  phase,       \* "idle", "opened" or "written"
  text,        \* what a compilation is to write
  pc_file,     \* for every stem, what the file holds
  disturbed    \* history: another one used the file since it was opened

pvars == <<phase, text, pc_file, disturbed>>

Stems == {Stem[c] : c \in Compilations}

Uses(c) == phase[c] \in {"opened", "written"}

Init ==
  /\ phase = [c \in Compilations |-> "idle"]
  /\ DOMAIN pc_file = Stems
  /\ disturbed = [c \in Compilations |-> FALSE]

(* What the other compilations do not see; their programs stay. *)
Proceeds(c, p) ==
  /\ phase' = [phase EXCEPT ![c] = p]
  /\ \A d \in Compilations \ {c} : text'[d] = text[d]

Disturbs(c) ==
  disturbed' = [d \in Compilations |->
                  IF d = c THEN disturbed[d] /\ phase[c] # "idle"
                  ELSE disturbed[d] \/ (Stem[d] = Stem[c] /\ Uses(d))]

Open(c) ==
  /\ phase[c] = "idle"
  /\ Proceeds(c, "opened")
  /\ pc_file' = [pc_file EXCEPT ![Stem[c]] = Empty]
  /\ Disturbs(c)

Write(c) ==
  /\ phase[c] = "opened"
  /\ Proceeds(c, "written")
  /\ text'[c] = text[c]
  /\ \/ pc_file' = [pc_file EXCEPT ![Stem[c]] = text[c]]
     \/ pc_file[Stem[c]] # Empty /\ pc_file' = [pc_file EXCEPT ![Stem[c]] = Garbled]
  /\ Disturbs(c)

(* It has read the file, or is killed. *)
Leave(c) ==
  /\ Proceeds(c, "idle")
  /\ UNCHANGED <<pc_file, disturbed>>

Next == \E c \in Compilations : Open(c) \/ Write(c) \/ Leave(c)

Spec == Init /\ [][Next]_pvars
-----------------------------------------------------------------------------
(* A compilation that nobody disturbed between its open and its read finds *)
(* its own program in the file, whatever was killed before and whatever    *)
(* goes on in other files.                                                 *)
ReadsOwnText ==
  \A c \in Compilations :
    phase[c] = "written" /\ ~disturbed[c] => pc_file[Stem[c]] = text[c]
=============================================================================
