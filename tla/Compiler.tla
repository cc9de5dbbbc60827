------------------------------- MODULE Compiler -------------------------------
(***************************************************************************)
(* src/runner.py from its flags to the P4 file, and the P4 parser at work: *)
(* the frontend's functions, find_stm (represented by its promise, module  *)
(* Synthesis), table_to_states, stitch_back, assign_extractions and the    *)
(* parser that is written.                                                 *)
(*                                                                         *)
(* All programs of an instance have the same declarations.  The fields of  *)
(* the P4 parser are the declared ones; those of the synthesiser are the   *)
(* ones get_spec selects, numbered afresh.  ACCEPT and REJECT are numbered *)
(* MaxP4States and MaxP4States + 1 in the P4 parser, instead of n and      *)
(* n + 1 with further states behind them.                                  *)
(***************************************************************************)
EXTENDS FieldMinimiser, IRGenerator, CFGGenerator, SourceMeaning

CONSTANTS
  Inputs,                 \* records [source, flags]: programs and the flags they get
  MinEntries, MaxEntries, \* --min_entries, --max_entries
  MinStates, MaxStates,   \* --min_states, --max_states
  MaxFieldSize,           \* width of the words of both machines: a bit more than any field
  MaxP4States,            \* bound on the states of a P4 parser
  PacketBits              \* the bits of a packet

(* The declarations, the declared fields in order, and their numbers. *)
Declarations == (CHOOSE i \in Inputs : TRUE).source
Declared     == AllFields(CollectInfo(Declarations))
AttrOf       == [f \in 0 .. Len(Declared) - 1 |-> Declared[f + 1]]
FieldId      == [a \in ToSet(Declared) |-> SelectInSeq(Declared, LAMBDA b : b = a) - 1]

BitsOf(fields) == FoldLeft(LAMBDA n, f : n + f.bits, 0, fields)

HeaderBits == [m \in Names(Members(Declarations)) |-> BitsOf(FieldsOf(Declarations, m))]
FieldBits  == [f \in DOMAIN AttrOf |-> Width(Declarations, AttrOf[f])]

BitsBefore ==
  [f \in DOMAIN AttrOf |->
     LET fields == FieldsOf(Declarations, AttrOf[f][1])
     IN  BitsOf(SubSeq(fields, 1, SelectInSeq(fields, LAMBDA x : x.name = AttrOf[f][2]) - 1))]

WordOf(v) == [b \in 0 .. MaxFieldSize - 1 |-> (v \div 2^b) % 2]
AllOnes   == [b \in 0 .. MaxFieldSize - 1 |-> 1]

VARIABLES
  source, flags,   \* the command line
  info, graph,     \* what get_spec returns, its attributes numbered as declared,
  problem,         \* and what find_stm is given
  machine, stage, states, extracted, queue,
  packet, config, steps, reads

frontend == <<source, flags, info, graph, problem>>
backend  == <<machine, states, extracted, queue>>
parser   == <<packet, config, steps, reads>>
vars     == <<frontend, stage, backend, parser>>

(* assign_extractions, write_p4 and the parser.  The constants of P4Parser *)
(* that only matter to a machine have no part in them.                     *)
P4 == INSTANCE P4Parser WITH
        NoFields <- Len(Declared), FieldSize <- FieldBits, MaxPacketSize <- PacketBits,
        HeaderOf <- [f \in DOMAIN AttrOf |-> AttrOf[f][1]],
        HeaderSize <- HeaderBits, Offset <- BitsBefore,
        NoStates <- MaxP4States, TableSize <- MaxP4States, InputMachines <- {},
        NotAlwaysExtract <- FALSE, TernaryMatch <- FALSE,
        MatchValues <- {}, MatchMasks <- {AllOnes},
        OldConstant <- [f \in DOMAIN AttrOf |-> <<>>]

(* The machines and the specification of problem x. *)
Search(x) == INSTANCE Correctness WITH
        NoFields <- Len(x.fields), FieldSize <- x.field_sizes,
        MaxPacketSize <- x.max_packet_size,
        NotAlwaysExtract <- x.not_always_extract, TernaryMatch <- x.ternary_match,
        MatchValues <- x.constants, MatchMasks <- x.mask_constants,
        AttrSize <- x.attr_size, Compared <- x.compared,
        DropUncompared <- x.drop_uncompared, Program <- x.nodes

Restorer(x, old_constant) == INSTANCE RestoredTable WITH
        NoFields <- Len(Declared), FieldSize <- FieldBits, MaxPacketSize <- PacketBits,
        NotAlwaysExtract <- x.not_always_extract, TernaryMatch <- x.ternary_match,
        MatchValues <- x.constants, MatchMasks <- x.mask_constants,
        OldConstant <- old_constant

Stitching(compared, old_constant) == INSTANCE DropAndStitch WITH
        Compared <- compared, OldConstant <- old_constant,
        FullMask <- AllOnes, Final <- MaxP4States
-----------------------------------------------------------------------------
(* get_spec and the field sizes that runner.py looks up.                   *)

(* A graph with its attributes numbered and its constants as words. *)
Numbered(nodes, number) ==
  [n \in DOMAIN nodes |->
     CASE nodes[n].kind = "exit"    -> nodes[n]
       [] nodes[n].kind = "extract" -> [nodes[n] EXCEPT !.attr = number[@]]
       [] nodes[n].kind = "if"      ->
            [nodes[n] EXCEPT !.attr = number[@], !.value = WordOf(@),
                             !.mask = IF @ = NoMask THEN AllOnes ELSE WordOf(@)]]

(* The constants of the synthesis are kept. *)
OldConstants_New(i) ==
  [f \in DOMAIN AttrOf |->
     LET new == IF AttrOf[f] \in DOMAIN i.new_constant THEN i.new_constant[AttrOf[f]] ELSE <<>>
     IN  [w \in {WordOf(new[c]) : c \in DOMAIN new} |-> w]]

(* get_old_constant, on words. *)
OldConstants(i) ==
  [f \in DOMAIN AttrOf |->
     LET new == IF AttrOf[f] \in DOMAIN i.new_constant THEN i.new_constant[AttrOf[f]] ELSE <<>>
     IN  [w \in {WordOf(new[c]) : c \in DOMAIN new} |->
            WordOf(CHOOSE c \in DOMAIN new : WordOf(new[c]) = w)]]

ComparedIds(i) == {FieldId[a] : a \in ComparedAttrs(i)}

(* constants and masks are those of the comparisons, or any at all. *)
Problem(i, nodes) ==
  LET all      == AllFields(i)
      fields   == IF flags.drop_uncompared THEN ComparedFields(i) ELSE all
      numbered == Numbered(nodes, [a \in ToSet(all) |-> SelectInSeq(all, LAMBDA b : b = a) - 1])
      ifs      == {node \in ToSet(numbered) : node.kind = "if"}
      ternary  == \E node \in ToSet(nodes) : node.kind = "if" /\ node.mask # NoMask
      Synthesised(w) == IF flags.constant_synthesis THEN w ELSE [DOMAIN AllOnes -> {0, 1}]
  IN  [fields             |-> fields,
       field_sizes        |-> [f \in 0 .. Len(fields) - 1 |-> i.new_size[fields[f + 1]]],
       attr_size          |-> [f \in 0 .. Len(all) - 1 |-> i.new_size[all[f + 1]]],
       compared           |-> {f \in 0 .. Len(all) - 1 : IsCompared(i, all[f + 1])},
       nodes              |-> numbered,
       constants          |-> Synthesised({node.value : node \in ifs}),
       mask_constants     |-> IF ternary THEN Synthesised({node.mask : node \in ifs} \cup {AllOnes})
                              ELSE {AllOnes},
       ternary_match      |-> ternary,
       drop_uncompared    |-> flags.drop_uncompared,
       not_always_extract |-> flags.not_always_extract,
       max_packet_size    |-> 0]

Modified == IF flags.field_min THEN Minimised(CollectInfo(source)) ELSE {CollectInfo(source)}

Validated(x) == Search(x)!GetMaxPacketSize(x.nodes, 1, 0, {})

Compiles(i) ==
  /\ Generates(i, PcProgram(i, source))
  /\ ~Validated(Problem(i, Graph(PcProgram(i, source)).nodes)).raised

Incompatible == flags.not_always_extract /\ flags.drop_uncompared

RaiseError ==
  /\ stage = "start"
  /\ Incompatible \/ ~Collectable(source) \/ \E i \in Modified : ~Compiles(i)
  /\ stage' = "refused"
  /\ UNCHANGED <<frontend, backend, parser>>

GetSpec ==
  /\ stage = "start"
  /\ ~Incompatible
  /\ Collectable(source)
  /\ \E i \in Modified :
       LET nodes == Graph(PcProgram(i, source)).nodes
           x     == Problem(i, nodes)
       IN  /\ Compiles(i)
           /\ info' = i
           /\ graph' = Numbered(nodes, FieldId)
           /\ problem' = [x EXCEPT !.max_packet_size = Validated(x).size]
           /\ stage' = IF x.fields = <<>> THEN "straight_line" ELSE "synthesise"
  /\ UNCHANGED <<source, flags, backend, parser>>
-----------------------------------------------------------------------------
(* find_stm: the machines that are right on every packet, of the first     *)
(* shape that has one.                                                     *)

RECURSIVE FirstRight(_, _, _)
FirstRight(x, k, n) ==
  CASE k > MaxEntries -> {}
    [] k <= MaxEntries /\ n > MaxStates -> FirstRight(x, k + 1, MinStates)
    [] OTHER ->
         LET right == {m \in Search(x)!MachinesOfShape(k, n) :
                         \A p \in Search(x)!Packet : Search(x)!Agrees(m, p)}
         IN  IF right # {} THEN right ELSE FirstRight(x, k, n + 1)

FindStm ==
  /\ stage = "synthesise"
  /\ LET right == FirstRight(problem, MinEntries, MinStates)
     IN  IF right = {} THEN stage' = "not_found" /\ UNCHANGED machine
         ELSE stage' = "table" /\ machine' \in right
  /\ UNCHANGED <<frontend, states, extracted, queue, parser>>
-----------------------------------------------------------------------------
(* The backend.                                                            *)

(* The machine with the numbers of the declared fields and of P4 states. *)
Renumbered(m) ==
  LET To(next) == IF next < m.no_states THEN next ELSE next - m.no_states + MaxP4States
  IN  [m EXCEPT !.default_field = [v \in DOMAIN @ |-> FieldId[problem.fields[@[v] + 1]]],
                !.default_next = [v \in DOMAIN @ |-> To(@[v])],
                !.entries = [i \in DOMAIN @ |-> [@[i] EXCEPT !.next = To(@)]]]

RestoredStates(m) ==
  LET old == OldConstants(info)
  IN  [v \in 0 .. m.no_states - 1 |->
         [field_used    |-> m.default_field[v],
          is_extraction |-> FALSE,
          transitions   |-> [i \in Restorer(problem, old)!Restorable(m, v) |->
             Restorer(problem, old)!Restored(m.default_field[v], m.entries[i])],
          default       |-> m.default_next[v]]]

(* assign_extractions starts at state 0. *)
Assigns == stage' = "assign" /\ extracted' = [v \in {0} |-> {}] /\ queue' = <<0>>

TableToStates ==
  /\ stage = "table"
  /\ states' = RestoredStates(Renumbered(machine))
  /\ IF problem.drop_uncompared /\ ~problem.ternary_match
     THEN stage' = "stitch" /\ UNCHANGED <<extracted, queue>>
     ELSE Assigns
  /\ UNCHANGED <<frontend, machine, parser>>

StitchBack ==
  /\ stage = "stitch"
  /\ states' = Stitching(ComparedIds(info), OldConstants(info))!StitchBack(states, graph)
  /\ Assigns
  /\ UNCHANGED <<frontend, machine, parser>>

BuildStraightLineStates ==
  /\ stage = "straight_line"
  /\ states' = Stitching({}, <<>>)!StraightLine(graph, 1, <<>>)
  /\ Assigns
  /\ UNCHANGED <<frontend, machine, parser>>

Visit   == P4!Visit /\ UNCHANGED <<frontend, parser>>
WriteP4 == P4!WriteP4 /\ UNCHANGED <<frontend, parser>>

Receive ==
  /\ stage = "written"
  /\ packet = <<>>
  /\ packet' \in P4!Packet
  /\ UNCHANGED <<frontend, stage, backend, config, steps, reads>>

ParseStep == packet # <<>> /\ P4!ParseStep /\ UNCHANGED frontend

Init ==
  /\ \E i \in Inputs : source = i.source /\ flags = i.flags
  /\ info = <<>> /\ graph = <<>> /\ problem = <<>>
  /\ machine = <<>> /\ states = <<>> /\ extracted = <<>> /\ queue = <<>>
  /\ stage = "start"
  /\ packet = <<>>
  /\ config = P4!Start
  /\ steps = 0
  /\ reads = <<>>

Next ==
  \/ RaiseError \/ GetSpec \/ FindStm \/ BuildStraightLineStates
  \/ TableToStates \/ StitchBack \/ Visit \/ WriteP4
  \/ Receive \/ ParseStep

Spec == Init /\ [][Next]_vars
-----------------------------------------------------------------------------
(* Where the k-th of a sequence of headers begins. *)
Begins(headers, k) == FoldLeft(LAMBDA n, m : n + HeaderBits[m], 0, SubSeq(headers, 1, k - 1))

(* The compared fields have the values that the packet gives them where    *)
(* the headers are extracted.                                              *)
ReadFrom(p, headers, val) ==
  \A k \in DOMAIN headers, a \in DOMAIN val :
    a[1] = headers[k] =>
      WordOf(val[a]) = P4!Slice(p, Begins(headers, k) + BitsBefore[FieldId[a]], FieldBits[FieldId[a]])

(* The P4 parser accepts the packets the source program accepts, and       *)
(* extracts the headers it extracts, in its order and from the same places *)
(* (README.md: "whose accept/reject verdict and sequence of extracted      *)
(* headers match the input program on every possible packet").             *)
ParsesLikeProgram ==
  stage = "written" /\ packet # <<>> /\ config.state \notin P4!States =>
    \E val \in Values(info) :
      LET does == Does(Body(source), val)
      IN  /\ ReadFrom(packet, does.reads, val)
          /\ (config.state = MaxP4States) = (does.verdict = "ACCEPT")
          /\ reads = [k \in DOMAIN does.reads |->
                        [header |-> does.reads[k], pos |-> Begins(does.reads, k)]]
=============================================================================
