# C-Moon: a verification project

C-Moon is an optimizing compiler from a subset of C to x86-64 assembly. It is a
sequential program: nothing in it runs concurrently, nothing is persisted, and
its only failures are diagnostics and internal assertions. What is hard about
it is hard in the way compilers are: long chains of steps over shared tables
that must stay in agreement, work lists that feed each other, orders of
emission in which one instruction destroys what a later one still reads, and
fixed points that must be reached and must be the right ones. The models here
are about those. They follow a program from its tokens to the machine
instructions it becomes, and ask of each part one question: is the meaning of
the program the same afterwards, and does the part come to an end?

## The system

| Part | Source (below `src/src/`) | State it keeps | Operations | What makes it correct |
|---|---|---|---|---|
| Lexer, preprocessor | `frontend/lexer/` | macro table, token buffer | scan, define, expand | expansion ends; positions stay those of the source |
| Parser | `frontend/parser.rs` | token cursor, collected errors | one function per rule, `synchronize` | the tree is the one the text spells; every error recovery makes progress |
| Semantic analysis, renamer | `frontend/semantic.rs`, `renamer.rs`, `scope.rs`, `layout.rs` | scope stacks, types per expression, name-to-variable map | enter/exit scope, declare, look up, lay out a struct | the two passes agree on what every name means; what is accepted can be lowered |
| AST to three-address code | `middle/desuger.rs`, `ir.rs` | current block, loop targets, CFG under construction | one per statement and expression | the code does what the tree says, at every width; edges are the transfers |
| SSA construction | `middle/ssa/build.rs`, `promote.rs`, `mem2reg.rs` | slots, value stacks during the dominator walk | translate, split edges, place phis, rename | reads see the store that reaches them |
| Dominance | `middle/ssa/dom.rs` | immediate dominators, preorder stamps | build, `dominates`, `frontiers` | agrees with the path definition |
| SSA function | `middle/ssa/mod.rs`, `defuse.rs`, `verify.rs` | blocks, predecessor lists, phi arguments, definition sites | edge and block surgery | the three tables stay in step |
| Optimization | `middle/ssa/passes.rs`, `passes/` | a solver or a table per pass | six passes, in rounds | behaviour kept, rounds end |
| Leaving SSA | `middle/ssa/destruct.rs` | copies owed per edge | sequentialize phi copies | parallel meaning kept |
| Linearization, liveness | `backend/linear.rs`, `liveness.rs`, `vreg.rs` | visit stack, live sets, intervals | order, solve, span | every read is covered by an interval |
| Register allocation | `backend/regalloc.rs` | active list, free registers, assignments | expire, pick, evict, spill | no two live values share a home |
| Frame layout | `backend/frame.rs`, `target.rs` | offsets | plan | storage disjoint, stack aligned |
| Instruction selection | `backend/x86/` | pending arguments, output | lower each instruction, parallel moves | arguments arrive, scratch registers suffice |
| Driver, printers | `driver/`, `printer/` | files | run the stages | straight line of input and output |

The parts interact by handing over data structures. The driver calls, in
order: lexer and parser, semantic analysis, renamer, lowering to three-address
code; per function SSA construction, the pass pipeline when asked for, SSA
destruction; per function linearization, liveness, allocation, frame layout and
instruction selection. The chain of models is the same: `FrontEnd` composes the
front-end modules and hands three-address code to `CodeGeneration`, which runs
`SsaConstruction`, `RegAlloc` with `LinearScan` in it, `FrameLayout` and
`Selection` one after the other, each working on what the one before left. The
function `SsaConstruction` builds is that of the passes in `Pipeline`, and
`RegAlloc` has a run of its own, over graphs no small file compiles to. The
assumptions a part makes about what it is handed are the places where parts can
disagree: the allocator relies on sorted intervals, phi lowering on edges
without branches at both ends, the passes on everything the SSA verifier checks.
The modules state those assumptions as predicates (`IsWorkload`, `WellFormed`)
and the module of the part that hands over checks that it establishes them.

## Modules

| Module | Models | Checked by |
|---|---|---|
| `Syntax` | tokens, types, tree nodes and scope stacks: `token.rs`, `ast.rs`, `scope.rs` | through `FrontEnd` |
| `Parser` | `parser.rs`: a function per rule, recovery, and a specification of the two loops that read items | `MCParser`; through `FrontEnd` |
| `Layout`, `Widths` | `layout.rs`, `Width` of `ir.rs` | through `FrontEnd` |
| `Semantic` | `semantic.rs`: types, conversions, declarations, what is rejected | through `FrontEnd` |
| `Renamer` | `renamer.rs` | through `FrontEnd` |
| `ThreeAddress` | `ir.rs`: code and its graph, and a machine that executes it | through `FrontEnd` |
| `Lowering` | `desuger.rs` | through `FrontEnd` |
| `SourceMeaning` | a reference: how a tree is written down with all its parentheses, and what executing a tree does | |
| `FrontEnd` | the driver's path from a file to three-address code | `MCFrontEnd` |
| `Translation` | `build.rs` | through `CodeGeneration` |
| `Dominance` | `dom.rs`: iterated dominators, stamps, frontiers | through `CodeGeneration` |
| `Promotion` | `promote.rs`, `mem2reg.rs` | through `CodeGeneration` |
| `LeavingSsa` | `destruct.rs` | through `CodeGeneration` |
| `SsaConstruction` | `optimize_through_ssa` without the optional passes, one action per block and per turn of the renaming walk | through `CodeGeneration` |
| `LinearScan` | `regalloc.rs` | `MCLinearScan`, proved in `LinearScanProofs` |
| `LinearScanProofs`, `RegAllocProofs`, `PhiCopiesProofs`, `ParallelMovesProofs`, `SsaFunctionProofs`, `SccpProofs`, `PipelineProofs`, `FiniteLemmas` | theorems about the modules they are named for (`RegAllocProofs` about `FrameLayout` too), and facts on sequences, finite sets and the cycles of a map | the proof system |
| `RegAlloc` | `linear.rs`, `vreg.rs`, `liveness.rs`, then `LinearScan` as an instance, as `compile_function` calls them | `MCRegAlloc`; through `CodeGeneration`; proved in `RegAllocProofs` |
| `FrameStorage` | the tables of a `FrameLayout`, what they say of a variable, and what makes them sound: `frame.rs` | through the two below |
| `FrameLayout` | `FrameLayout::plan` of `frame.rs` | through `CodeGeneration`, proved in `RegAllocProofs` |
| `Amd64` | the instructions of `isa.rs`, the calling convention of `abi.rs`, and a processor that executes the one and a caller that knows the other | through `CodeGeneration` |
| `Selection` | `x86/lower.rs`: an operator per lowering, prologue and epilogue | through `CodeGeneration` |
| `CodeGeneration` | `optimize_through_ssa` and `compile_function`, for one function of a file | `MCCodeGeneration` |
| `SimultaneousAssignment` | abstract specification: a set of assignments that all happen at once | |
| `PhiCopies` | `lower_outgoing_phis` and `sequentialize` of `destruct.rs`, refining `SimultaneousAssignment` | `MCPhiCopies`, proved in `PhiCopiesProofs` |
| `ParallelMoves` | `emit_parallel_moves` and its two callers in `x86/lower.rs`, refining `SimultaneousAssignment` | `MCParallelMoves`, proved in `ParallelMovesProofs` |
| `SsaFunction` | the SSA function, its surgery, the verifier's rules, what executing a function means, and `reverse_postorder` of `dom.rs` with dominators by their definition | through the modules below; its lemmas in `SsaFunctionProofs` |
| `Sccp` | `passes/sccp.rs`, one action per turn of its loops | `MCSccp`, proved in `SccpProofs` |
| `Passes` | `simplify.rs`, `gvn.rs`, `copyprop.rs`, `dce.rs`, `blocks.rs` as functions on functions | through `Pipeline` |
| `Pipeline` | `optimize` of `passes.rs`, with `Sccp` as an instance | `MCPipeline`; what every pass leaves is proved in `PipelineProofs` |

How state and actions correspond to the code:

* **Parser.** A parser is the tokens and a cursor; every `parse_*` function is an
  operator from a parser to a result, a tree and the parser behind it or the
  error. Recursion follows the code's, so the grammar is written once. Reading a
  file is one action per item of the outer loop.
* **Semantic, Renamer.** A table of scopes goes in and comes out of every
  operator. Types hang on the nodes, as the analyzer's side tables do, and the
  renamer's two maps become an `id` on each name. What the code rejects is an
  error, where it would panic the phase is `broken`.
* **Lowering.** The builder is the code with its current block, its counters for
  labels and temporaries and the loops it stands in; each `lower_*` function is
  an operator on it. `FrontEnd` lowers one declaration per action.
* **SsaConstruction.** `TranslateNext` is one turn of `Builder::translate`;
  `EnterBlock` and `LeaveBlock` are the two arms of the renaming loop; `LowerBlock`
  is one turn of `to_cfg`. The order of the blocks is that of a map over label
  names in the code; the model takes the order they were made in and its
  reverse.
* **LinearScan.** One step of `linear_scan`'s loop is one action, chosen by what
  the code's branch finds after `expire_before`: `TakeFreeRegister`,
  `EvictLongerLived` or `SpillCurrent`. A virtual register is the position of
  its interval and a physical register its rank in `allocatable()`. The hash map
  of assignments is a function with `Unassigned` for absent entries.
* **RegAlloc.** `phase` says which pass runs, `turn` and `at` where its outer and
  its inner loop stand; an action is one turn of one loop. `VisitLabel` pops a
  label off the depth-first stack and `PushSuccessor` pushes one of its successors;
  `AppendUnreached` adds the blocks the entry does not reach. `LayOutBlock` hands out
  a block's positions, `FinishLayout` moves the empty blocks behind the others.
  `SolveBlock` is the body of the dataflow loop for one block and `EndRound` its
  `while changed`. `SpanBlock` enters a block with what is live out of it, `SpanNext`
  passes one instruction. `SortNext` is the sort, one interval at a time, and
  `HandOver` starts the allocator, whose steps are `PlaceInterval`. The order of
  equal intervals depends on a hash map and an unstable sort, so the model takes
  every order.
* **PhiCopies.** `CollectPhi` gathers what an edge owes; `EmitReady` and
  `Revisit` are the two inner loops, with `location` as in the code.
* **ParallelMoves.** The outgoing arguments of a call and the incoming ones of an
  entry reach the same emission loop; the pending moves, the scratch register and
  the redirection of readers are its state. `KeepLastWrite` is one turn of the
  backward walk of `keep_last_write_per_register`.
* **FrameLayout.** `ReserveObject` lays out one object of the function and
  `PinVariable` one variable whose address is taken; spill slots and saved
  registers are placed before the first of them. The code's loops run over ordered
  maps; the proof holds for every order.
* **CodeGeneration, Selection.** `pass` goes on from the passes of `RegAlloc` to
  `frame`, `select` and `assembled`; one step of `select` lowers one three-address
  instruction, with the arguments waiting for their call as state. What lowering
  an instruction emits is an operator of `Selection`, and the instructions are data
  that `Amd64` executes.
* **Sccp.** `FollowEdge` and `WakeReaders` pop the two stacks, from the end, as
  the vectors do. What a pop has to look at, the phis of the target, the block entered
  for the first time behind them (`arriving`), the readers of a value, waits in `agenda`
  and is looked at by `NextVisit`, one visit a step, in the order of the code's loops;
  `EnterBlock` is `enter`. `SwitchStack` is the step from one inner loop to the other;
  `Apply` rewrites the function. The model runs the pass twice.
* **Pipeline.** Each pass is one action whose result is an operator of `Passes`;
  constant propagation runs through the actions of `Sccp`.

Data is abstracted to what the properties tell apart. In the front end a token
is the word it spells, and a byte has two bits: an `int` has eight and a `long`
sixteen, so that values still overflow, sign-extend and are cut off, but runs
stay short. In the back end a block's label is its rank and an instruction is what it reads
and writes; arithmetic in the models of the passes is addition, multiplication,
division and equality on words of one or two bits. Memory is one cell, which is
the coarsest memory that still distinguishes an instruction that reads it from
one that does not.

## What the runs check

* `front_end` — some three hundred files: every pair of binary operators next to each
  other, every pair of integer types under four operators, and files about
  scopes, loops, `break` and `continue`, short circuits, pointers, arrays,
  structs in structs, parameters of every shape, prototypes, casts, and files
  that are to be rejected. `TreesSpellTheFile` writes each tree down again with
  all its parentheses and compares it with what the grammar of C says the tokens
  are. `NamesMeanTheSame` compares the declaration the analysis found for a name
  with the one the renamer found; `BreaksOnlyAtKnownGaps` says that the phases
  behind the analysis fail on an accepted file only where the list in
  `IsGap` says so (below). `EdgesAreTheTransfers` compares the edge lists with the
  jumps. `SameBehaviour` executes tree and code with arguments that are small, the
  largest of a `char` and in between, and compares the calls made and the value
  returned.
* `code_generation` — some thirty of such files, compiled, sent through SSA form
  and back and on to machine code, with the blocks in the order they were made in
  and in its reverse. `StaysWellFormed` is the verifier, after construction and
  after promotion; `DominanceIsExact` compares the iterative dominators, the two
  comparisons of `dominates` and the frontiers with their path definitions;
  `PhisAreWhereDefinitionsMeet` compares phi placement with the definitions that
  reach a block along paths; `SameBehaviour` executes the function before and after.
  `FrameIsSound` says that no two things in a frame share a byte and that all are
  aligned, the stack pointer at calls included. `CodeBehaves` executes the machine
  code. Its caller and every function it calls leave rubbish wherever the calling
  convention lets them, in registers, above a narrow result and below the stack
  pointer; a call with the stack pointer out of line stops the machine, and so
  does a return that finds a callee-saved register changed. The calls made, their
  arguments and the value returned have to be those of the three-address code.
  Every file has loops, branches into
  loops, parameters that change places or arrive on the stack, variables reached
  through pointers, arrays, structs, or more values than registers. Without the
  optional passes a phi argument is a copy's result, so cycles among the copies
  of an edge do not arise; those are the business of `phi_copies`.
* `recovery_ends`, `array_dimensions` — two violations, below.

* `linear_scan` — every list of up to four intervals over four positions, up to
  one call, three registers of which two are callee-saved. Three registers and
  four intervals are the least at which a value placed, evicted and passed over
  by a later eviction meets a fourth. `NoSharedHome` and `SafeAcrossCalls` are
  what allocation is for; `SpillsTheLongestLived` is the heuristic the code
  documents; `MovesOnlyToFreshSlots` says a value once moved to the frame never
  meets another there; `IInv` is the invariant the proofs use, the types among it.
* `reg_alloc` — functions of three blocks and an empty exit in five shapes
  (a side branch, a loop tested at the top, one tested at the bottom, one that
  never leaves, one laid out against label order), three virtual registers, two
  physical ones, and two choices of what the branches read. `LiveOutIsExact` compares the fixed point with liveness defined
  by paths. `NothingLiveIsDestroyed` is the end-to-end claim: no instruction and
  no call overwrites a home whose value some path still reads.
  `LayoutIsComplete` and `HandsOverAWorkload` are the interfaces to what follows: the
  ranges of two blocks do not meet and rise in the order of emission, and the
  allocator is given what it relies on. All four are also proved, for every function.
* `phi_copies` — every block of up to four phis over five values and a constant:
  swaps, rotations, trees hanging off cycles, several cycles. The moves emitted
  do at last what the phis say at once (`ImplementsParallelCopy`), no value is
  overwritten while something still needs it (`NoLostCopy`), and each cycle
  costs one extra move (`FewestMoves`).
* `parallel_moves` — the same claim for argument registers, together with the
  parameters that arrive on the stack or live there (`FrameParametersArrive`) and
  the single scratch register (`ScratchIsFreeForTheNextCycle`).
* `sccp` — loops and ladders of branches with holes filled by constants, calls,
  loads and divisions, on one-bit words. `SolutionIsSound` runs the function and
  compares every value at every block with what the analysis knows;
  `SameBehaviour` and `StaysWellFormed` are about the rewritten function;
  `SecondRunChangesNothing` is the pass's doc comment; `TerminationMeasureFalls`
  shows that the two work lists run dry.
* `pipeline` — 1296 functions, loops with two carried variables and diamonds with
  a store on one side. After every pass: same behaviour, well formed; over whole
  runs: every change makes the function smaller in blocks, definitions, cost or
  reads, in that order, and no pass claims a change it did not make, so
  `optimize` ends.
* `gvn_again`, `copies_again` — two violations, below.

The bounds of `code_generation`: three of the ten allocatable registers, one of
them callee-saved, so that a handful of values already evicts, spills and saves;
frames below 128 bytes, so that an offset fits an `int` of eight bits; every pair
of arguments out of four values, and for more parameters every two values in turn;
and a `Fuel` of 300 instructions of three-address code and 2400 of machine code. A
run that needs more is not compared. `HandsOverAGraph` says that the code given to the
back end satisfies `IsGraph`, which the theorems about `RegAlloc` assume: they apply
to what leaves SSA form.

Behaviour is compared by executing both functions for every input of the model
(`BehavesLike`): the calls with their arguments in order and the value returned.
The bound `Steps` on the number of blocks executed is chosen so that every
function of the model that returns at all does so within it; a function that
does not return must make the same calls. Where C leaves the behaviour undefined
(division by zero) the optimized function may do anything.

Every property has at least one mutant: a variant of a definition with a
plausible slip in it (a strict comparison made weak, a stack not popped, a table
not renumbered) under which the run finds the property violated. They stand next
to the definitions they vary, marked as mutants.

### Findings

`recovery_ends`: when an item cannot be parsed, `synchronize` looks for a place to
go on, and returns at once if the token before is a `;` or a `}` or the current
one begins a statement or ends a block. If the parser failed on just that token,
nothing was consumed, and the loop over items meets the token again, for ever.
`x = 1; ) ;` in a function body does this, and so does one closing brace too many
at file scope. The header of `parser.rs` promises that one run reports every
syntax error in the file.

`array_dimensions`: `parse_declarator` applies the suffixes of `int a[10][20]` from
the left, each around what it has. The type it builds is an array of 20 arrays of
10. The passing run leaves out arrays of more than one dimension for this reason.

The analysis is meant to reject what later phases cannot handle. Where it does
not, a later phase panics or gives up; `IsGap` and `IsGapAtTheTop` in `FrontEnd` list the
cases the model has: the operators `%`, `++` and `--`, variables at file scope,
values of struct type that are read but not assigned, casts of them, parameters
of a definition without a name, and prototypes with one parameter name twice. The
README of the repository names some of them as not supported yet.

The doc comments of `gvn::run` and `copyprop::run` say that running the pass
twice over the same function changes nothing the second time. Both runs show a
function for which it does. In value numbering, the key of a loop phi is taken
before the loop body has been numbered, so phis whose back-edge arguments turn
out to be one value are merged by the next run only. In copy propagation, a phi
that merges a value with a copy of it becomes trivial by the substitution
itself. Neither harms the compiler: `optimize` repeats the passes until nothing
changes, and `pipeline` shows that this ends.

### Fairness

`PhiCopies` and `ParallelMoves` assume weak fairness of their next-state
relation, since they are loops of one sequential thread, which runs on as long
as there is a step to take. The liveness is inside the refinement: the abstract
assignment is completed. `Parser` does the same of the loop that reads the
items of a file, so that its violation is a loop that runs and gets nowhere, not
one that stopped. The other modules state termination as a measure that
every step lowers, together with freedom from deadlock, and need no fairness.
`parallel_moves`, `phi_copies` and `recovery_ends` turn deadlock checking off: the
first two stop where all the moves are emitted, and what shows that they do not
stop earlier is the refinement, and the last is about a temporal property alone.
Each other specification ends in a stuttering step that is enabled exactly where
the code returns.

## What is proved

Seven components are proved for every value of their constants. The theorems and
what they say:

* `LinearScanProofs`, for any register file, any choice of callee-saved registers
  and any list of intervals sorted by start point:
  `HomesAreNeverShared`, two values live at one instruction never share a register
  or a slot; `CallsDestroyNothing`, a value live across a call is never in a
  register the callee may destroy, and every callee-saved register in use is saved
  by the prologue; `MovesAreEvictions`, a value keeps its home unless it is evicted
  to a slot nobody has had; `TheLongestLivedIsSpilled`, the heuristic of the code's
  documentation; `AllocatorInvariant`, the invariant `IInv` these rest on. These are
  all the properties of the run `linear_scan`.
* `RegAllocProofs`, for any control-flow graph and any register file:
  `RoundsEndAtLiveness` (`LiveOutIsExact`), the rounds of `compute_live_out` stop at
  liveness as paths define it; `EveryBlockIsLaidOut` (`LayoutIsComplete`);
  `AWorkloadIsHandedOver` (`HandsOverAWorkload`), what the allocator's own theorems
  assume of its intervals holds; `LiveValuesKeepTheirHomes`
  (`NothingLiveIsDestroyed`), from linearization to the last interval placed, no
  instruction and no call destroys a value that some path still reads;
  `PassesInvariant`, the invariant they rest on. These are all the properties of the
  run `reg_alloc`.
* `PhiCopiesProofs`, for any number of phis: `CopyTypes`; `NothingIsLost`, no value
  is overwritten that a copy still has to read, unless it was saved where the
  table of locations says; `CopiesAreSimultaneous`, the safety half of the
  refinement of `SimultaneousAssignment`; `CyclesCostOneMove` (`FewestMoves`), one
  move for every copy and one more for every cycle that no copy outside reads.
* `ParallelMovesProofs`, for any registers, any calling convention and any number
  of arguments or parameters: `MoveTypes`; `ParametersArrive`;
  `OneScratchRegisterIsEnough`; `MovesAreSimultaneous`, the safety half of the
  refinement; `NoMoveTooMany` (`FewestMoves`), one move for every register that
  changes and one more for every cycle.
* `RegAllocProofs` again, of the frame, for any spills, saved registers, objects and
  variables whose address is taken: `FramesAreSound` (`FrameIsSound`).
* `SccpProofs`, for any functions the verifier accepts, any inputs and runs of any
  length, and for both turns of the pass: `PropagationStaysWellFormed`
  (`StaysWellFormed`), it leaves a function the verifier accepts;
  `EverySolutionIsSound` (`SolutionIsSound`), what it concludes is true of every run;
  `PropagationKeepsBehaviour` (`SameBehaviour`), the function still makes the calls and
  returns the value it did; `TheSecondRunChangesNothing` (`SecondRunChangesNothing`), what
  `apply` returns in the second turn is that nothing changed;
  `EveryStepLowersTheMeasure` (`TerminationMeasureFalls`), every step that changes
  anything lowers the measure the run looks at.
* `PipelineProofs`, for any functions the verifier accepts and any number of rounds:
  `EveryPassLeavesAWellFormedFunction` (`StaysWellFormed`), what the verifier asks holds
  after each of the six passes, whatever the ones before it left.

The assumptions are those the modules declare (`LinearScanAssumption`,
`RegAllocAssumption`, `PhiCopiesAssumption`, `ParallelMovesAssumption`, `SsaAssumption`,
`SccpAssumption`, `PipelineAssumption`), which say of
the constants that registers, the scratch register and constants are different things,
that no argument register comes twice, that intervals are sorted, that a graph is as
the middle end leaves it (`IsGraph`: arguments stand right before their call, an empty
block has no successors), that no two phis of a block write one value, and that the functions given to
constant propagation and to the pipeline have the shape of their types (`IsFunction`) and satisfy the
verifier's rules (`WellFormed`). `SsaAssumption` says that a function has finitely many
values, as every table of the code does; that a value is not a word, which are the two
cases of `Operand`, nor the absence of a destination; that a word has at least one bit,
so that 0 and 1, which a comparison answers, are words; and that inputs are words.

**The allocator.** `NoSharedHome` is not inductive: it says nothing about who is
still on the active list. `IInv` adds that the active list is sorted by end point
and repeats what the assignments say (`WellHeld`), that a register marked free is
held by nobody on the list (`FreeIsFree`), and that a value in a register is on the
list or over (`HeldOrOver`). The order is what makes `expire_before` complete: it
removes a prefix, and only on a sorted list is everything that has ended in the
prefix. The proof has one lemma per way a step changes the tables (expiry, insertion
into the sorted list, eviction) and one step per action. The heuristic needs one
thing more, the converse of `FreeIsFree` (`BusyIsHeld`): a register that is not free
is held by somebody on the list. When no register the current value may use is
free, the permitted holders on the list are then exactly the values it could
displace, and the last of them, which exists because positions are bounded
(`LastOfPositions`), is the one that ends last.

**From a graph to registers.** `RegAllocInvariant` has a part per phase.
`Ordering` and `LayingOut` say that a label is visited and laid out once and that the
ranges handed out follow one another; with a list without repetition over as many
labels as there are blocks, `LaidOut` follows. `Solving` is the interesting half of the
dataflow: whatever the rounds have found is live, and while a round has changed
nothing, the equations hold at every block it has looked at (`Solved`). So when a
round ends unchanged they hold everywhere, and it remains to see that a solution
misses nothing. Liveness is defined by the least set of blocks closed under paths that
do not write the value, so this needs no induction over paths: were a value live
behind a block and not in the solution, the blocks at whose start the solution misses
it would be closed too, and so contain the block with the read, which has the value
in `Use` (`SolutionIsExact`). `Spanning` follows the walk that makes the intervals,
backwards over the laid-out instructions: what it has passed is `Covered`, for what is
read, what is written and what is live behind; a value the rest of the block waits for
(`Awaited`) has an interval from the block's start; and every end lies behind what is
still to come, which is why a definition can move a start without cutting anything
off. The arguments of a call are where liveness as `liveness.rs` computes it and the
machine differ: the one has an argument read where it is passed, the other where the
call is lowered, so an interval may end before its value is used. That is harmless
because only arguments stand between, which write nothing; everywhere else the two
notions agree (`ReadAfterIsReadBehind`, `ReadBehindIsReadAfter`). From `HandOver` on, `Scanning` carries the allocator's `IInv`,
taken from `LinearScanProofs` as an instance. At the end the two meet: a value live
across an instruction that writes another has its interval around that instruction,
and so has the one written; the intervals overlap, and `NoSharedHome` applies. Across
a call, it is `SafeAcrossCalls`.

**Phi copies.** `CopyInvariant` relates three tables at any moment: what each home
holds is its own value until its copy is written and its phi's argument afterwards
(`Homes`); where `location` says a value is, it is (`Located`), and where it is not
at home that place has been written already; and a destination on the stack of ready
copies is free to be written (`Stacked`). The last is the delicate one: a ready
destination stays free since only a written destination becomes the location of a
value. When both stacks are empty, nothing is pending, and `Homes` reads as the
simultaneous assignment.

**Parallel moves.** `MoveInvariant` follows the phases. While parameters are
collected, every register holds what it held, and the last of the parameters given a
register is the last move that writes it (`Collected`). The backward walk keeps
these last writes and no others (`WalkedOver`). In the loop, a pending move finds at
its source what its destination is to receive, and every other register has received
it (`Carried`). Breaking a cycle needs the scratch register: when every destination is
still read, the moves have no more sources than destinations, so the two sets are one
(a count of both, `ScratchIsFree`), and no pending move reads the scratch register.

**Frames.** `FrameInvariant` says that everything with a place is aligned and lies
between the saved registers and the last slot reserved (`Packed`), that no two things
meet (`NeverMeet`), and that what still waits for a place waits once and has none
(`Fresh`). A step reserves below all of it, so the newcomer meets nothing.

**Constant propagation.** The proof has two halves that meet in `IsSolution`: a phi
of a reached block is known to be no less than what its arguments along traversable
edges are (`PhiSettled`), an instruction no less than its operands make it
(`InstSettled`), and a reached block has the edges its terminator can take
(`ExitSettled`). The first half is about the solver. `OnItsWay` says that each of these
holds already or is still to be done: the visit waits on the agenda, the block is about
to be entered, or a value it reads waits on the `ssa` stack, an edge on the `flow`
stack (`Waits`). A visit settles what it looks at, and what it learns unsettles only
readers of the value it records, which is then on the stack (`SettledStays`,
`VisitKeepsTheWay`). With both stacks empty nothing waits, so what is left is a solution
(`WayEndsAtASolution`). The second half is about executions, and says that any solution
is sound: along a run, every block entered is reached, the edge taken is traversable,
and every value defined on all ways to the block is known rightly (`KnownBefore`,
`EnteredRightly`). The optimism is in the proof where it is in the algorithm: only values
already defined are covered, since a value of a block not reached yet is known to be
nothing. So each operand read has to be one that was defined, which the verifier promises
(`ReadIsDefined`): a definition that dominates a block was passed by every run that gets
there, since the blocks on the way are reached without it otherwise (`AvoidingFacts`).
Around a loop a block is entered again and its values are defined again; what was known
stays true because the value is the same one the block computes from operands known
rightly. The steps of a run are values of a recursive function, so `RunUnfolds` and
`BlockUnfolds` first turn them into a sequence whose neighbours are related.

**What constant propagation leaves.** `Accepted` is the invariant: the function is one
the verifier accepts, and whatever is known is nothing, anything or a word
(`KnowsWords`), which needs every fold to end in a word (`FoldIsAWord`). `apply` then
works on functions that are `Consistent`, everything the verifier wants but that every
block is reached, for folding a branch may cut blocks off that only
`retain_reachable` deletes. Both surgeries leave a part of the function (`IsPartOf`):
every block is what is left of one the function had, nothing is defined or read that
was not, in the same place, every edge was there, and a phi's argument arrives from
where it did. Dominance survives because ways only become fewer: the blocks of the old
function that are not reached around `a`, or stand for nothing in the part, are closed
under the part's edges (`AvoidingIsLeast`), so whatever dominated still does
(`PartDominates`). What cannot be had from being a part is that the two ends of each
edge agree, and each surgery has its own argument. For a branch, both targets have the
branching block as their only predecessor: the two differ, since an edge taken twice
would be critical, and `NoCriticalEdge` leaves no room for another (`BranchTargets`).
So the edge that goes is at position 1, every phi there loses its only argument, and the
matching of old edges against new in `set_terminator` comes to exactly this
(`JumpIsConsistent`). For deletion, numbers in order are one-to-one (`RenumberedFacts`,
`AscendingFacts`), so a kept predecessor is counted as often as before under its new
number (`KeptCount`), and so is a successor (`MovedCount`), all of which are kept
because what a reached block leads to is reached.

**What constant propagation does not change.** A run of the function `apply` leaves is
the run of the function it was given, state for state (`Mirrors`): the same values in
the same places, memory, calls and status, in blocks that go by new numbers. That is
more than `SameBehaviour` asks (`MirrorsBehave`), and unlike `BehavesLike` it composes,
so it goes through the three edits and over both runs of the pass (`Mirroring`). Two
runs that start alike and keep some relation in every step are related all along
(`RunsInStep`). Substitution keeps the run itself, since the values it replaces are read
only where the solution is right about them (`KnownBefore`), which is where the soundness
of the analysis is needed a second time: an instruction that reads a constant executes
as the one that reads the value (`SubstitutionKeepsRuns`). Folding a branch keeps it
because the run leaves that block along the edge that stays, and the block that loses a
predecessor is entered from no other, so that no phi of a block that is entered reads
another argument than before (`JumpKeepsRuns`, `FoldingKeepsRuns`). Deleting blocks
moves it: where a run has been is reached (`RunIsReached`), hence kept, and the
predecessor it came from is at the place among those kept which its argument has
(`MovesWith`, `RetainedIsMoved`).

**Why a second run changes nothing.** The pass iterates to a fixed point of its own and
then rewrites the function, and nothing says at first that the rewritten function would
not teach it more: its phis have fewer arguments, its blocks fewer ways in. It does
not, because the solution the pass ends at is the least one: every solution concludes at
least as much (`Sparing`, `IsWithin`). That holds of each step, for whatever a visit
concludes some solution has to conclude, as `Meet` and `Evaluate` only rise. And it
executed no block but those its edges lead to (`IsRooted`), so that something is known
of everything that is read in an executed block: a definition dominates its reader, and
the blocks that can be reached without a definition would otherwise be led to
(`NothingUnknownIsRead`). Now take any solution of the function `apply` left. It is
`Lifted` to the function before: a value that was constant is what it was, another is
what the solution says, and blocks and edges go back to their old numbers. That is again
a solution of the function before, and so concludes at least as much as the least
one, which nothing in it can be short of. Hence every block left is reached, no value read there is
a constant, since it would have been one before and would have been replaced, and no
branch has one way out, since it would have been folded (`IsLeftover` says of what such a
function is left). The invariant `Sparingly` carries this from the first turn to the
second. `SecondRunChangesNothing` is about what the pass reports, so it also takes that
what `reports` counts is read somewhere in the function (`ReadIsSomewhere`).

**What every pass leaves.** The invariant of the pipeline is what the verifier asks,
and while constants are propagated that of `SccpProofs`, which comes in as an instance
(`SolvingKeeps`, `PropagationIsWellFormed`). The other passes each have one fact to
establish, and share two about the surgery. Values that are read through
replacements may go, if what replaces a value is defined no later than the value
(`Supplies`, `ReplacingIsWellFormed`); and phis and instructions may go that nothing
reads which stays (`ThinningIsWellFormed`), though the phis behind them move up and
their sites with them. Dead-code elimination: a set that grows, by what its members
lead to, as often as it has room to is closed in the end (`GrowsToClosed`), so what is
marked reads what is marked. Copy propagation: a copy's operand is defined no later
than the copy; the one argument of a trivial phi too, because control enters a block
from somewhere not behind that block, where the argument is known; and the end of a
chain of such links supplies what the links do. Value numbering: what is available at a
value was computed earlier, in this block or in one still to be left, and those dominate it
(`NumberedUpTo`). That rests on the order of the walk over the dominator tree: between
two of its steps, the blocks still to be left are one inside the other and dominate
whatever waits above them on the stack (`WalksDown`). A replacement is then always earlier
than what it replaces (`LinksBack`), phis of one block among them, so that chains of replacements
come to an end (`ChainsLeadOut`). The proof needs no more of the numbering than that,
nor that two values with one key are equal: that is behaviour. Block merging: the
block merged into the other is left behind empty until the end of the pass, so
between two merges the function is `Tidy`, not well-formed; its definitions have moved
to where `MovedDefinition` says and its successors have a new predecessor in place of
the old, and every definition still comes before its reads because its block did
(`MergingKeepsOrder`).

**Why constant propagation ends.** The measure is lexicographic: turns left, what is
still to be learnt, the work left, the stack in hand. A visit that records something
lowers what is to be learnt, however much it pushes (`RecordLearns`). One that records
nothing leaves the agenda and pushes at most the two edges the work counted for it
(`VisitsTeach`). Taking an edge that is new teaches an edge; taking an old one only
shortens the stack. Waking readers takes one value from the stack and puts in at most
all visits of the function, which is what a value on the stack was counted for. Two
facts are needed besides `OnItsWay`: an edge on the stack is an edge of the function,
so that there are only so many of them, and a block that is about to be entered was not
reached before (`Pushed`). The measure does not rest on the order of the two stacks.

**The number of moves.** In both sequencers a sum stays the same from the first move
on: the moves emitted, what is still pending, and the cycles nothing has broken yet
(`Counted`). A pending destination that can be written lies on none of these cycles.
When none can be written, every one of them is read by another, so the pending ones
cover themselves; a finite set whose image covers it is its own image
(`CoveredIsImage`), the map is then one-to-one on it (`OntoIsOneToOne`), and the
destination picked lies on a cycle (`CycleThrough`) and on only one (`CyclesApart`),
which is the one that is broken. That needs no induction over the cycles: a cycle is a
least nonempty set the map takes onto itself.

`FiniteLemmas` holds what the proofs need about taking from, adding to and cutting
sequences, about finite sets, and about the cycles of a map; `SsaFunctionProofs` what the
verifier's rules mean for dominance and for runs, and what the surgery of `ssa/mod.rs`
keeps of them, and of the runs themselves. It also says what removing phis and
instructions keeps, since three passes do that.

Out of the prover's reach, and so only model-checked: liveness, that is that both
move sequencers come to an end, and `EveryFileIsReadToItsEnd`; what
compares the executions of two programs in other modules (`SameBehaviour` of `Pipeline`,
`FrontEnd` and `SsaConstruction`, `CodeBehaves`), which for `Pipeline` is no theorem
for every bound on the steps of a run, since a function whose blocks were merged takes
fewer; and what the recursive functions of the other modules compute,
fixed points and trees alike. Not proved either, though nothing forbids it, are the
other invariants of `FrontEnd`, `SsaConstruction` and `CodeGeneration`, and of `Pipeline`
that a second run of a pass changes nothing and that every reported change shrinks
something.

## Plan

Written, in this order: register allocation, alone and behind liveness; the two
move sequencers and what they implement; constant propagation and the pass
pipeline; the front end from tokens to three-address code; SSA construction and
back; frame layout, instruction selection and the processor, so that a function is
followed from the file to the machine. Proved: linearization, liveness and the allocator, both sequencers,
the frame, and constant propagation: what it concludes, what it leaves,
what that does, that it ends, and that once is enough; and of all the passes, that
they leave what the verifier accepts.

Left, in the order of what it would add:

1. The optional passes inside `CodeGeneration`. `Pipeline` has them on functions of
   its own and on narrower words; between construction and leaving SSA form they
   would meet cycles among phi copies and values without a variable.
2. The simplifications of bitwise operators, shifts and orderings in `simplify.rs`,
   by their algebra on words of two bits.
3. Files whose functions call each other on the way through the back end;
   `code_generation` compiles one function of a file and leaves the others to the
   caller's convention.

## What is not modelled

* The lexer and the preprocessor: text becomes a list of tokens, with no state that
  outlives a line but the macro table. The models start from tokens.
* The printers, the rendering of diagnostics and the driver's files and options:
  input and output in a straight line.
* The assembly text of `emit.rs`. Its instructions are data in `Amd64`.
* The spelling suggestions of `suggest.rs`, source positions and the wording of
  errors: no decision depends on them.
* Floating point, which the analysis rejects; the range checks of integer literals.
* In the verifier, the widths of slots; in `simplify.rs`, the identities of
  bitwise operators, shifts and orderings; in constant propagation, the operators of
  `fold` beyond addition, multiplication, division and equality.
* The names that values carry into dumps.
