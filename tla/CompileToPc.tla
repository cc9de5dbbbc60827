----------------------------- MODULE CompileToPc -----------------------------
(***************************************************************************)
(* The first half of get_spec (src/spec/spec_builder.py) and compile_to_pc *)
(* (src/frontend/ir_generator.py): the source is analysed, its fields are  *)
(* minimised, the .pc program is written to _build/<stem>.pc, read again,  *)
(* and made a control-flow graph.                                          *)
(*                                                                         *)
(* Several compilations may be at work in one directory: those of files    *)
(* with the same stem use one .pc file.  A compilation may be killed at    *)
(* any point and run again, with other flags, as the sweeps under scripts/ *)
(* do on a timeout; the file stays as it is then.                          *)
(***************************************************************************)
EXTENDS FieldMinimiser, IRGenerator, CFGGenerator

CONSTANTS
  Compilations,          \* the compilations in the directory
  Sources,               \* the programs each of them may be given
  Stem,                  \* the stem of its input's name
  FieldMinFlags,         \* the settings of --field_min it may be run with
  NoGraph

ASSUME ProgramAssumption == \A c \in Compilations : Sources[c] \subseteq ParserPrograms

VARIABLES
  source,      \* the program of a compilation
  field_min,   \* its flag
  stage,       \* how far it is
  info,        \* its Info
  pc_file,     \* for every stem, the .pc file
  graph,       \* the graph it has built
  disturbed    \* history: another one used its file between its open and read

vars == <<source, field_min, stage, info, pc_file, graph, disturbed>>

Empty   == [op |-> "empty"]     \* opened for writing, not yet flushed
Garbled == [op |-> "garbled"]   \* a program over a longer one

Reaches(c, s) == stage' = [stage EXCEPT ![c] = s]

Collect(c) ==
  /\ stage[c] = "start"
  /\ IF Collectable(source[c])
     THEN Reaches(c, "collected") /\ info' = [info EXCEPT ![c] = CollectInfo(source[c])]
     ELSE Reaches(c, "refused") /\ UNCHANGED info
  /\ UNCHANGED <<source, field_min, pc_file, graph, disturbed>>

(* best_modifier or no_size_reduction_modifier. *)
Modify(c) ==
  /\ stage[c] = "collected"
  /\ info' \in {[info EXCEPT ![c] = i] :
                  i \in IF field_min[c] THEN Minimised(info[c]) ELSE {info[c]}}
  /\ Reaches(c, "modified")
  /\ UNCHANGED <<source, field_min, pc_file, graph, disturbed>>

(* The other compilations that are between their open and their read. *)
Disturbs(c) ==
  disturbed' = [d \in Compilations |->
                  IF d = c THEN disturbed[d] /\ stage[c] # "modified"
                  ELSE disturbed[d] \/ (Stem[d] = Stem[c] /\ stage[d] \in {"opened", "written"})]

(* A file that an earlier run left is not written again. *)
OpenPc_Cached(c) ==
  /\ stage[c] = "modified"
  /\ pc_file' = IF pc_file[Stem[c]] \in {Empty, Garbled}
                THEN [pc_file EXCEPT ![Stem[c]] = Empty] ELSE pc_file
  /\ Disturbs(c)
  /\ Reaches(c, IF pc_file[Stem[c]] \in {Empty, Garbled} THEN "opened" ELSE "written")
  /\ UNCHANGED <<source, field_min, info, graph>>

(* open(out_path, 'w') truncates the file. *)
OpenPc(c) ==
  /\ stage[c] = "modified"
  /\ pc_file' = [pc_file EXCEPT ![Stem[c]] = Empty]
  /\ Disturbs(c)
  /\ Reaches(c, "opened")
  /\ UNCHANGED <<source, field_min, info, graph>>

(* The text is flushed when the file is closed. *)
WritePc(c) ==
  /\ stage[c] = "opened"
  /\ pc_file' \in {[pc_file EXCEPT ![Stem[c]] = f] :
                     f \in {PcProgram(info[c], source[c])}
                             \cup (IF pc_file[Stem[c]] = Empty THEN {} ELSE {Garbled})}
  /\ Disturbs(c)
  /\ Reaches(c, "written")
  /\ UNCHANGED <<source, field_min, info, graph>>

(* parse_file and CFGGenerator. *)
ReadPc(c) ==
  /\ stage[c] = "written"
  /\ IF Generates(info[c], pc_file[Stem[c]])
     THEN Reaches(c, "built") /\ graph' = [graph EXCEPT ![c] = Graph(pc_file[Stem[c]])]
     ELSE Reaches(c, "failed") /\ UNCHANGED graph
  /\ UNCHANGED <<source, field_min, info, pc_file, disturbed>>

(* Killed or done, and run again. *)
Again(c) ==
  /\ stage[c] # "start"
  /\ Reaches(c, "start")
  /\ field_min' \in {[field_min EXCEPT ![c] = f] : f \in FieldMinFlags[c]}
  /\ info' = [info EXCEPT ![c] = <<>>]
  /\ graph' = [graph EXCEPT ![c] = NoGraph]
  /\ UNCHANGED <<source, pc_file, disturbed>>

Init ==
  /\ source \in {s \in [Compilations -> UNION {Sources[c] : c \in Compilations}] :
                   \A c \in Compilations : s[c] \in Sources[c]}
  /\ field_min \in {f \in [Compilations -> BOOLEAN] : \A c \in Compilations : f[c] \in FieldMinFlags[c]}
  /\ stage = [c \in Compilations |-> "start"]
  /\ info = [c \in Compilations |-> <<>>]
  /\ pc_file = [s \in {Stem[c] : c \in Compilations} |-> Garbled]
  /\ graph = [c \in Compilations |-> NoGraph]
  /\ disturbed = [c \in Compilations |-> FALSE]

Next == \E c \in Compilations :
          Collect(c) \/ Modify(c) \/ OpenPc(c) \/ WritePc(c) \/ ReadPc(c) \/ Again(c)

Spec == Init /\ [][Next]_vars
-----------------------------------------------------------------------------
(* The compilations use their files by the protocol of module PcFile,      *)
(* whatever they compile and wherever they are killed: a file is truncated *)
(* before it is filled, and filled with the program of this very run.      *)
InUse == {"opened", "written"}

Pc == INSTANCE PcFile WITH
        phase <- [c \in Compilations |-> IF stage[c] \in InUse THEN stage[c] ELSE "idle"],
        text  <- [c \in Compilations |-> IF stage[c] \in InUse THEN PcProgram(info[c], source[c]) ELSE Empty]

ImplementsPcFile == Pc!Spec

(* What the frontend hands on to the rest of get_spec is a function of the *)
(* compilation's own source and flag (and of the order in which the        *)
(* constants were numbered), unless its file was disturbed: nothing of an  *)
(* earlier run, killed or done, with these flags or others, shows in it.   *)
InfosOf(c) ==
  IF field_min[c] THEN Minimised(CollectInfo(source[c])) ELSE {CollectInfo(source[c])}

OwnResult ==
  \A c \in Compilations : stage[c] \in {"built", "failed"} /\ ~disturbed[c] =>
    /\ Collectable(source[c]) /\ info[c] \in InfosOf(c)
    /\ LET own == PcProgram(info[c], source[c])
       IN  IF Generates(info[c], own)
           THEN stage[c] = "built" /\ graph[c] = Graph(own)
           ELSE stage[c] = "failed"

(* The new constants of a field stay apart and fit its new width, and more *)
(* values than constants are left over to stand for "none of them".  A     *)
(* table that spends an entry on each value left over has then more        *)
(* entries than one that spends them on the constants, so that a minimal   *)
(* machine treats some of them by default; FieldRestorer relies on it when *)
(* it leaves out entries that carry no constant.                           *)
ConstantsStayApart ==
  \A c \in Compilations : stage[c] = "modified" /\ field_min[c] =>
    \A a \in {b \in DOMAIN info[c].kind : info[c].kind[b] = "Exact"} :
      LET new == info[c].new_constant[a]
      IN  /\ \A v, w \in DOMAIN new : new[v] = new[w] => v = w
          /\ \A v \in DOMAIN new : new[v] \in 0 .. Pow2[info[c].new_size[a]] - 1
          /\ Pow2[info[c].new_size[a]] - Cardinality(DOMAIN new) > Cardinality(DOMAIN new)
=============================================================================
