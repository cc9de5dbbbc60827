# A TLA+ verification of the parser synthesiser

The program compiles C-like packet-parsing code (`.parser`) to a P4 parser. It
rewrites the input into a smaller internal program (`.pc`), turns that into a
control-flow graph and a specification, searches with a CEGIS loop over Z3 for
a tabular state machine that meets the specification, and prints the machine as
a P4 parser. This directory models that chain in TLA+, checks the models with
TLC and proves what it can with TLAPS. Source paths below are relative to the
repository.

## 1. Inventory

| Component | State | Operations | What makes it correct |
|---|---|---|---|
| `Collector`, `Info` (`frontend/analyser.py`) | struct declarations, PHV members, compared constants per attribute; the numbering of attributes | visits the `.parser` syntax tree; `fill_field_nos`; look-ups of new and old constants | every attribute gets one number, compared attributes are numbered densely, illegal programs are refused |
| `FieldMinimiser` (`frontend/field_minimiser.py`) | new widths and constants in `Info`, dropped members | `best_modifier`, `no_size_reduction_modifier` | distinct constants stay distinct and one value is left for "none of them" |
| `IRGenerator` (`frontend/ir_generator.py`) | the text of the `.pc` program | one visitor per statement | the `.pc` program decides like the source |
| `CFGGenerator` and the CFG nodes (`spec/cfg_builder.py`) | the graph; `fields_extracted`, one list for a whole walk | build; `get_max_packet_size` (validation); `make_spec` | exactly the illegal programs are rejected; the specification means what the program means |
| `get_spec` (`spec/spec_builder.py`) | `cur_phv`, one list for all specifications; `_build/<stem>.pc` | calls all of the above; the closure `spec(packet)` | a call of `spec` does not depend on earlier calls |
| `STMSolver`, `STMGenerator`, `STMVerifier` (`synthesis/stm_synthesiser.py`) | a machine: table, default fields, default next states; configuration (state, position, PHV) | `transition`, `simulate_stm`, constraints on machines | machines halt in `no_states` steps; an absent field is never mistaken for one that was extracted |
| `find_stm` (same file) | shape, examples, candidate | the CEGIS loop | what is returned is right on every packet and of the first possible shape; the search ends |
| `table_to_states`, `assign_extractions` (`backend/field_restorer.py`) | P4 states with `is_extraction`; the extracted set of every visited state; a queue | restore constants; breadth-first walk | every path of the P4 parser extracts what the machine extracts |
| `DropAndStitch` (`backend/drop_and_stitch.py`) | paths of the graph; spliced states | `enumerate_paths`, `stitch_back`, `build_straight_line_states` | uncompared headers come back where the program has them |
| `P4Generator` (`backend/p4_generator.py`) | none | prints P4 | the printed parser is the list of states |
| `runner.py` | flags | the pipeline | the P4 parser's verdict and header sequence are the source program's |

The components call one another in that order; there is one process and no
thread. Within one compilation they share `Info`, the graph (read again by `DropAndStitch`) and the
numbering of states, of which the backend knows only that `n` and `n+1` are
ACCEPT and REJECT. The frontend hands its program on through a file,
`_build/<stem>.pc`: compilations of inputs with the same stem share it, and a
compilation that is killed (the sweeps under `scripts/` do so on a timeout)
leaves it as it is.

What is hard here is therefore rarely concurrency, but
 * mutable lists shared along a recursion and between calls (`cur_phv`, `fields_extracted`);
 * nondeterminism of the solver: any model, in any order, of any query;
 * a machine that decides per packet what it extracts, implemented by a parser
   whose extractions are fixed per state by a walk over the graph;
 * two orders of precedence (last entry in Z3, first case in P4);
 * three vocabularies of constants (the source's, the renumbered ones, the synthesised ones) and
   tables rebuilt from paths of the graph;
 * boundaries: the end of the packet, the padding bit that makes the sentinel, constants that do not fit a narrowed field;
 * termination of a `while True`.

`PROJECT.json` lists each as a hazard at its line, with the properties aimed at it.

## 2. Plan

1. **Core** (done): machine and simulation; graph and specification; the CEGIS
   loop and its promise; restoration and the P4 parser; the loop on a program
   (`Synthesiser`).
2. **Stitching** (done): `DropAndStitch`.
3. **Frontend** (done): the syntax tree, the checks of `Collector`, `FieldMinimiser`,
   `IRGenerator`, `CFGGenerator`, the shared `.pc` file, and the meaning of the source program.
4. **Compiler** (done): `runner.py` as a whole, with its flags, against the source.
5. **Proofs** (done): the machine; the walks over the graph, up to the meaning of
   the program; the loop, and what its machine does on a program; the P4 parser;
   the frontend's protocol and its constants; the frontend from the source to the graph:
   its graph means what the source means, is numbered, and nothing legal is refused.
6. **Left**: proofs about the stitching of a fixed chain of headers; the three other
   orderings of `STMGenerator`, should `runner.py` ever select them.

Runs are few by design: a later module replaces a smaller run of this list
when it asks the same question of more of the system.

## 3. Modules

| Module | Models | Correspondence |
|---|---|---|
| `StateMachine` | the machine and one `transition` of both designs, exact and ternary; every constraint of the Generator | `Machines(n, k)` is the set of models of the constraints of `STMGenerator` (domain, determinism, ternary well-formedness, state ordering, constant synthesis through `MatchValues`/`MatchMasks`). `NextPhv`, `NextPos`, `NextState` are the three results of `transition`; `Run` is `simulate_stm` with `num_steps = no_states` |
| `Simulation` | `simulate_stm` as a state machine | one action per loop iteration; `reads` is a history variable |
| `ControlFlowGraph` | `get_max_packet_size` and `make_spec` | the walks return the shared list as they leave it; they are recursive functions, of the node and all else a call depends on |
| `SpecBuilder` | `get_spec` after parsing | `Validate`, then `CallSpec` again and again on one `cur_phv` |
| `SearchSpace`, `Synthesis` | the problem and the promise of `find_stm` | abstract: return a valid machine of the first possible shape, or raise because there is none |
| `Cegis` | `find_stm` | one action per outcome of each query and per step of the loops; a query is answered by any of its models |
| `Correctness`, `Synthesiser` | what the constraints compare, and the loop on a program | `Agrees` is both `add_correctness_constraint` and the negation of `add_verification_constraint`; it starts each `make_spec` from the initial list, which by `SpecIsMeaning` (run `specification`) gives what the list left by earlier calls does |
| `Syntax` | the syntax trees pycparser hands to the visitors | `Statement` is the set of statements nested up to `MaxDepth` deep; `Parts` is what a visitor meets. A set of trees, and not only the records in it, so that recursive functions on it are defined and can be proved about |
| `Analyser` | a source program, `Collector`'s checks, `Info` | `Collectable` is what the visitors let through; `CollectInfo` is `collect_info`: kinds, old and new constants and widths, contents of the members; `AllFields`, `ComparedFields` are the numbering |
| `FieldMinimiser` | `best_modifier` | a set of `Info`s, one for each order in which Python may enumerate a set of constants |
| `IRGenerator` | the `.pc` program | a source statement becomes the statements printed for it; `Branching` applies the C grammar to an unbraced branch of several statements |
| `CFGGenerator` | from the `.pc` tree to the graph | `Build` gives the nodes a statement creates, its first node and its open ends; `Chained` and `Joined` put results together as `visit_Compound` and `visit_If` do |
| `SourceMeaning` | what a source program means | the reference: verdict and members extracted, for given values of the compared fields |
| `Info` | the tables of `Info` | its type |
| `PcFile` | the protocol of the `.pc` files, whatever is written | abstract: `Open`, `Write`, `Leave`; implemented by `CompileToPc` |
| `CompileToPc` | `compile_to_pc` and the first half of `get_spec`, for several compilations | one action per step between which another process may run, `open`, flush and read of the file apart; `Again` is a kill, or the end, and a new run with other flags |
| `Frontend` | what a graph does | the properties that relate the graph to the source: `Walk` follows the graph as `Does` follows the source |
| `RestoredTable` | the entries `table_to_states` keeps | which entries have a source constant, and which one |
| `FieldRestorer` | `table_to_states`, `assign_extractions` | one action for the table, one per `popleft` |
| `DropAndStitch` | the whole of `drop_and_stitch.py` | `Walked` lists the paths of a graph; `Process` threads the list of states through its recursion, rebuilding the replica's transitions and leaving the originals |
| `P4Parser` | the emitted parser on a packet, and how far it is the machine (`RestoredMachine`: the table with the source's constants) | `print_state`/`print_headers` give `pkt.extract` of a header and a first-match `select`; reading a header that is not valid yields any case; a packet too short rejects. The semantics of P4 is that of the language, as far as the generated text uses it |
| `Compiler` | `runner.py`, from source to parsed packet | one action per call of the module; `FindStm` is the promise of `Synthesis` (the result of `Cegis`), on the problem that `Problem` derives from flags, `Info` and graph; `Visit` and `ParseStep` are those of `FieldRestorer` and `P4Parser` |
| `MC*` | instances for TLC | |
| `*_proofs` | theorems | |

Words are functions from bit positions to bits, position 0 the least
significant; a packet's first bit is position 0, as in
`Extract(p+sz-1, p, packet)`. A word has `max_field_size` bits, one more than the
widest field.

## 4. Runs

| Run | Question | Bounds |
|---|---|---|
| `simulation` | does every machine halt, read without gap, never re-read, never decide on an absent field? | all 3-state, 1-entry machines of Design 2 over three fields of 1, 2 and 1 bits, all packets of 3 bits: one bit short of all fields, room for any two. The entry may carry the sentinel's own pattern; fields repeat |
| `specification` | does validation reject exactly the illegal programs; is the specification the program's meaning, call after call on one list? | all graphs with 4 free inner nodes (extract or if) over 3 attributes, one uncompared and dropped; all packets, then all packets again. Enough for an if nested in an if, with joins, and a field extracted in one branch only |
| `synthesis_late_branch` | Design 2: the loop implements its promise; the machine it returns has the program's verdict and fields on every packet, extracts what the program extracts, and none smaller exists; every round of the loop makes progress | up to 1 entry and 3 states; all 2-bit packets; `Extract(a); Extract(b); if (a == 1) ...`, which needs a state without extraction. The first table size has no machine at all, so the outer loop turns |
| `synthesis_not_found` | the search ends although every shape fails | `drop_uncompared` with a leading uncompared header |
| `frontend` | the graph does what the source does; nothing legal is refused; constants stay apart; what is extracted and tested is numbered; the `.pc` files are used by the protocol, and what an undisturbed compilation ends with is the result of its own run | every program of one extraction of a two-field header, one of 97 statements (four tests, six branches, four else-branches with `else if`, missing, unbraced and dead parts) and one of three ends, seven programs that must be refused, with `field_min` on and off; beside it a compilation of a fixed program with the same stem. Both may be stopped and started again at any point. Statements nest up to `MaxDepth` = 6, more than any of these programs does |
| `parser_design2` | has the walk decided every state a packet can reach, by the headers of a path to it; does a select ever read an invalid header; where is the P4 parser the restored machine? | *all* machines of 3 states and 1 entry (Design 2), those included whose paths extract different headers; the constants of one field exchanged, of the other renumbered, and one that has no constant of the source; all packets of 2 bits, one short of three extractions |
| `compiler` | accepts and extracts like the source, from the same places of the packet | programs over a two-field header (one field compared), a one-bit compared and two one-bit uncompared headers: branches that extract different uncompared chains, two compared headers in sequence and nested, `else if`, straight lines, with `drop_uncompared`; without it exact and masked comparisons in both designs, `field_min` on and off; programs and flags that are refused or have no machine. Up to 2 entries and 3 states, all packets |
| `synthesis_two_leading`, `compiler_either_order`, `compiler_dead_entry`, `compiler_ternary_constants`, `compiler_lost_entry` | the disagreements of section 7 | |

Every property of a passing run has a mutant, a plausible bug of the code in
one definition, for which TLC finds it violated; mutated forms stand before
the definition they alter (`Unmark_Forgotten` before `Unmark`).

`ImplementsSynthesis`, `ImplementsMachine` and `ImplementsPcFile` are refinements: the abstract
module instantiated with a mapping of its variables, checked as a property. `ImplementsMachine`
maps the parser to `simulate_stm` running the restored machine; it asks for a step of that
machine under a guard that names the three places where the code gives none.
`CHECK_DEADLOCK FALSE` is set where the program ends: after the last transition,
after a result, in accept or reject. `SpecBuilder` and `Compiler` stop after rejecting a program.

**Fairness.** Only `Cegis` has liveness (`Terminates`), under `WF_vars(Next)`: the
loop is sequential code that keeps running while a step is left, and queries over
bit-vectors of fixed width end. No fairness is assumed of *which* model Z3 gives.

**Bounds and abstractions.** Fields have one or two bits and packets at most
six, which gives every relation the code tells apart (fits, just fits, does
not fit; equal to a constant, to none, to the sentinel). Packets have exactly
`max_packet_size` bits, as the specification's do; those that `Compiler` hands to
the P4 parser are long enough for every path of its programs, in the widths of
the source, and no machine in it rejects by running past its end (section 7 has the
program where one does). `Frontend` and `Compiler` have `field_min` on and off, so widths and
constants are renumbered in some programs and those of the source in others; all
programs of a `Compiler` instance share their declarations. `Compiler` numbers
ACCEPT and REJECT by a fixed number above all states instead of `n` and `n+1`,
so that stitched states need not be numbered around them. Z3's `unknown`, which `is_sat` treats as unsat, is not modelled.

## 5. Proofs

All theorems hold for any number of fields, states and entries, any widths and
packet sizes, under the named ASSUMEs, which TLC evaluates in the runs.

`StateMachine_proofs` holds facts about one transition: it goes to a higher
state (`NextStateRises`), keeps the types, and a slice is a word but never the
sentinel (`SliceIsNotSentinel`, from the padding bit). Then facts about whole
runs: `RunExists`, that `simulate_stm`'s loop has the configurations the
transitions give; `RunPrefix`, that two packets which agree up to a bit give the
same run as long as it stays before that bit; and `LateReadShows`, that a field which
is read from behind a point of the packet, on every packet with the same beginning,
ends with different values on two of them. The module also has what
proofs about recursive functions need, as the library's induction theorems take
operators: `RecursionExists`, `RecursionTyped` and `IterationExists` give a function
that applies itself to later (or earlier) nodes only, `NodeInduction` and
`UpwardInduction` prove facts about it, all from the well-foundedness of `<` on the
naturals.

`Simulation_proofs`. `TypeCorrect` is inductive as it stands. `Halting` needs
`step <= config.state` while the machine is active: the state number grows by
at least one per transition, because of the ordering constraints. `SentinelSound`
relates the PHV and the history of reads and needs only the types and
`SliceIsNotSentinel`; `ExtractsOnce` and `DecidesSoundly` follow from it.
`ReadsContiguously` is inductive with the types. `DesignsAreOne` needs
`ReadBefore`, that every read was made by a state that has been left: with a
field of its own, an active state then finds that field absent, so that the
guard of Design 2 lets it extract as Design 1 does.

`ControlFlowGraph_proofs` is about the two walks over a graph. They are recursive
functions defined by CHOOSE, so that each of them is first shown to exist and to
have its types, from the lemmas of `StateMachine_proofs`. Then, by induction from
the last node to the first: the walk of `get_max_packet_size`, on its one shared
list of marks, succeeds exactly if no path extracts a field twice or compares an
absent one (`Raises` is that, said path by path); and after a walk that succeeded,
`make_spec` returns what following the program's own path returns (`MakeSpecMeans`).
The induction has to say what a walk does to the lists it shares with its caller:
the marks are as they were, and `cur_phv` is as it was except for fields that no
path up to the node has extracted, because `If.make_spec` walks both branches on one
list before it reads the condition from it. That is where validation is needed, and
the reason why the two theorems of `SpecBuilder_proofs`, `OnlyIllegalRejected` and
`EverySpecIsMeaning`, belong together.

`Synthesiser_proofs` has the loop, for *any* shapes, packets and correctness
relation as far as it can, and for a program where it must. The invariant says that
the shapes already left have no valid machine (`NoneBefore`), that the
examples are packets and contain the all-zero one, and that the candidate is a
machine of the current shape consistent with the examples. From it:
`CounterexampleExists` (the Verifier's query is false on the all-zero
packet, so its models assign the packet and `get_counterexample` is never
`None`); `LoopAdvances`, the variant behind `Terminates`: a counterexample is a new
packet, a shape is never returned to; and `Refinement`: every step is a step of
`Synthesis` or a stutter. `NoneBefore` is what makes the last `NextTableSize` step
and `RaiseNotFound` match `Raise`. With `MakeSpecMeans`, and the validity of
the graph as hypothesis of the specification, `FoundMeansProgram` and
`FoundIsSmallest` speak of the program itself and no longer of `make_spec`.

`FoundExtractsLikeProgram` says more than the Verifier asks: the machine found extracts
the program's fields in its order and from the same places of every packet,
although only final values are compared, and although Design 2 leaves it open
which states extract. The hypothesis is that no attribute is dropped, that is
`drop_uncompared` is off or every field is compared. The proof goes from the last node of
the program to the first (`EveryNodeTracks`) and shows, from every configuration in
which the machine has read what the program has (`Meets`), that the rest agrees.
An exit node: the fields still absent stay absent, so nothing is extracted. An
`if`: the machine may change state without extracting, and the program goes on in one
of the branches. An `extract` of `f` at `ptr`: the program gives `f` a value that depends only on
the packet up to the end of the field (`EndsWith`). If the machine's next
extraction were another field, or none, `f` would have to come later, end behind
that point, and `LateReadShows` gives two packets that the program cannot tell
apart so far but on which the machine ends with different values of `f`, which contradicts
`ParsesProgram` (`NextRead`). `synthesis_two_leading` shows that the theorem
fails without its hypothesis.

`CompileToPc_proofs`. `Refinement`: the frontend implements the protocol of
`PcFile`. `OwnText`, of that protocol, for any number of compilations and stems: an
undisturbed compilation reads back what it wrote. Its invariant adds that such a compilation
finds its file empty when it flushes its program. `disturbed` is a history
variable, set when another compilation with the same stem opens or fills the
file; the theorem says that nothing else can come between, no kill and no older file.
`OwnGraph` is the theorem for which the
protocol is there: what an undisturbed compilation ends with is a function of
its own source and flag. Its invariant says of every stage what `info` and the graph
are, and uses `OwnText`, through the refinement, for what is read. `ConstantsApart`, for any number of
constants: the new ones are different, fit the narrowed field, and leave more values
than they take; it rests on arithmetic of powers of two and on what `Minimised`
says of the sets of constants.

`Frontend_proofs` has the properties that relate a graph to its source. By `OwnGraph`
each speaks of pure functions only: `CollectInfo`, `Minimised`, `IRGen`, `Build`, of a
syntax tree of any shape with at most `MaxDepth` levels, for every `MaxDepth`. The proofs are
inductions over trees, and the functions are recursive functions on the set `Statement`; the
second half of `CompileToPc_proofs` shows that each exists (it is put together depth by depth)
and what it is for each kind of statement, and what Info holds after `collect_info` and after
`best_modifier` (`Describes`, `Numbered`).
 * `FieldsNumbered`. Emitted statements agree with `Info` (`EmittedFine`: their
   fields are those left in the members, their tests are on compared fields); the results
   of `CFGGenerator` are well built (`WellBuilt`: nodes, open ends and first node
   fit together), and `Chained` and `Joined` change nothing but pointers, so the nodes
   carry what the statements said.
 * `RefusedOnlyWithoutReturn`. What is emitted is readable (`Clean` of a `Regular` source), and in
   code without dead parts a result has open ends exactly if control may reach
   the end of the statement (`EmittedEnds`). With dead code this fails, as section 7 says.
 * `GraphsMeanSource`, in two halves. From source to `.pc` program (`EmittedMeans`): what the
   emitted statements do, with the new constants, is what the source does, members
   replaced by the fields left in them. `SameTest` is where the new constants have to be different: one stands for
   each constant of the source, and a value that is no constant of the source may be represented by any number that is no new constant.
   From `.pc` program to graph (`StatementWorks`): *wherever* the nodes of a statement
   are embedded in a larger graph, moved by some distance and with their open ends set to some
   target, a walk from their first node does what the statement does and goes on at the
   target, unless it returned (`Embedded`, `Runs`, `Works`). This is the
   strengthening that chaining and joining preserve; the statement about a whole program alone is not.
   The number of steps is part of it (`Yields`): no walk is longer than there are nodes.

`MeansSource` and `FailsOnlyWithoutReturn` are about `Regular` sources; the two constructs this
leaves out are known deviations (section 7).

`P4Parser_proofs` is about every machine that meets the Generator's constraints,
whatever its constants are and however its paths come together, in both designs, exact and
ternary. The code guarantees neither that all paths to a state extract the same headers nor
that an entry keeps its constant (`field_min`, on by default, renumbers them), so neither is assumed.
 * `WalkDecides`. The set stored with a state is that of a path of the parser to it
   (`StoredByPath`), its flag follows from that set, and no packet reaches a state that
   was not visited. `WalkInv` says that a visited state is queued or `Done`: its flag is
   set and its successors are visited. When the queue is empty, everything visited is
   `Done`, so a packet goes from visited states to visited ones only (`ReachedInv`).
   States lead to higher ones only, so that `StoredByPath`, followed backwards, ends
   at the start state: each stored set belongs to a whole path. Nothing in it depends on the order of the queue.
 * `Implementation`. A step of the parser is a step of `simulate_stm` on the restored
   machine, reads and position included, except in three places that the property names: the header of the
   state has further fields, which the parser extracts along with it; two ternary
   entries overlap; or this packet came with other headers than the walk recorded for the
   state. The last needs two paths that disagree (`PathsAgree` is false, as in
   `compiler_either_order`), and the step may still be right there, if the walk's headers and
   the packet's give the same flag (`WalkAgrees`). Everywhere else the flag is the
   machine's decision, so that the end of the
   packet is met by both or by neither; a field that is selected on is not the sentinel;
   and at most one case matches, so that P4's first case is the encoding's last entry.
   For an exact table this needs `Deterministic` and that different new constants stand for different
   source constants (`RestoredTableAssumption`, a fact about `get_old_constant`).
 * `ValidSelects`. A select on an invalid header needs two paths that disagree as well. By `PhvInv`, where
   paths agree the headers valid on this packet are those stored with the state, and
   its flag then adds the state's own.

What the three do not say is as important. They compare with the *restored* machine,
which lacks the entries without a source constant (`compiler_dead_entry`), and say nothing
of a state with a header of several fields; in `P4Parser` a field has one width, and a packet the `max_packet_size` bits
that the synthesis assumes. Whole headers, narrowed fields and longer packets
are in `Compiler`, which is model-checked only.

## 6. Model-checked only, and not modelled

Model-checked only:
* `Terminates`, which is liveness. `LoopAdvances` proves its variant.
* `ExtractsLikeProgram` when headers are dropped. It is then false in general
  (`synthesis_two_leading`); when none is, it is proved.
* `ParsesLikeProgram`, the whole compiler: false in general for the reasons of
  section 7. Its parts are proved where they are true: the
  frontend, the specification, the loop, and the steps of the P4 parser. The
  stitching (`DropAndStitch`) has RECURSIVE operators over paths of the graph, about which the
  provers cannot reason.

Not modelled: the other orderings of `STMGenerator` (`runner.py` never selects
them); the regular expressions that prepare the source text for the C parser
and the spelling of names; `render_states` and `viz/`, which draw; the text of
the P4 file around the parser; `Foundations/`, `motivation/`, benchmarks and
documents, which are not part of the compiler.

## 7. Where the code disagrees with what is said of it

Five runs end in a counterexample on purpose (details in `PROJECT.json`):

* `synthesis_two_leading`: with `drop_uncompared`, a machine cannot skip the bits
  of a dropped header in front of a compared field. For two leading headers
  whose bits add up, the loop returns a "valid" machine that reads the compared
  field twice; nothing could be stitched back into that.
* `compiler_either_order`: under Design 2 a machine state may be reached with its
  header extracted and without. `assign_extractions` keeps the set of the first
  path, so the P4 parser differs from the machine on the other.
* `compiler_dead_entry`: with `constant_synthesis` and `field_min` off, an entry
  without a source constant is dropped as dead, but may be the one that decides.
* `compiler_ternary_constants`: `FieldMinimiser` renumbers the constants of exactly
  compared fields, but one ternary comparison anywhere in the program keeps
  `table_to_states` from mapping them back: the P4 parser tests the new ones.
* `compiler_lost_entry`: `process` rebuilds a state's entries from the constants of
  the paths with an uncompared header to come; a constant that only other paths
  test loses its entry.

Smaller ones, without a run of their own:

* A machine is verified on packets of `max_packet_size` bits, the longest path of the
  program, and rejects where an extraction runs past that end
  (`synthesis/stm_synthesiser.py:169-177`). It may do so on purpose: for `if (y == 1) {
  Extract(u); return REJECT; } Extract(w); return ACCEPT;` one that goes by default from the state of `u`
  to that of `w` is valid. The P4 parser has no such bound and accepts a longer packet.
* Overlapping ternary entries are last-wins in the encoding and first-wins in a
  P4 `select`; the repository lists overlaps as future work.
* A condition with a lone `&` is collected as an exact comparison, and
  `cfg_builder.py` reads it back as `==`.
* The unbraced `Extract` of a header of several fields as the branch of an `if`
  guards only its first field; with an `else` the `.pc` file is no C.
* `spec/cfg_builder.py:338` says that dead code is silently skipped, but a
  program with an extraction behind its last `return` is refused: the open end
  of the dead statement becomes that of the function.
* A path that tests the same constant twice is dropped by `enumerate_paths` as
  impossible (`drop_and_stitch.py:7`).
* A straight-line program without extraction has no start state under `drop_uncompared`.
* `scripts/run_exact.ps1:11` says that runner.py rejects `not_always_extract` with
  field minimisation, but `runner.py:29-33` rejects it with `drop_uncompared` only.
* The comment at `synthesis/stm_synthesiser.py:372` promises the fewest states,
  while the loops order by entries first (the model follows the loops).
