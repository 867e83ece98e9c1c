----------------------------- MODULE CodeGeneration -----------------------------
(***************************************************************************)
(* One function from three-address code to machine code: compile_function  *)
(* of backend/target.rs, behind optimize_through_ssa.                      *)
(*                                                                         *)
(* SsaConstruction leaves the function in three-address code.  RegAlloc    *)
(* lays its blocks out and gives every value a home, FrameLayout lays out  *)
(* the frame, and Selection lowers one instruction after the other.        *)
(***************************************************************************)
EXTENDS SsaConstruction, Selection, FrameStorage

VARIABLES
    pass, \* what the back end does: RegAlloc's passes, "frame", "select", "assembled"
    cfg, turn, at, stack, visitOrder, length, starts, blocks, emptyBlocks, changed,
    liveIn, liveOut, spans, ranked, \* RegAlloc
    intervals, callSites, cursor, active, available, usedCalleeSaved, assignments,
    spillSlots, \* LinearScan
    toPlace, toPin, \* FrameLayout, besides those of FrameStorage
    selection   \* FunctionLowering: where it is, pending_arguments, out

Back == INSTANCE RegAlloc WITH
    VirtualRegs <- ({"var"} \X Nat) \cup ({"temp"} \X ({"t", "v", "phi"} \X Nat)),
    NoReg <- Nothing, Graphs <- {},
    NumRegisters <- Len(Allocatable),
    CalleeSaved <- {r \in DOMAIN Allocatable : Allocatable[r] \in Preserved},
    phase <- pass, order <- ranked

Plan == INSTANCE FrameLayout WITH Variables <- Nat

allocation == <<cfg, turn, at, stack, visitOrder, length, starts, blocks, emptyBlocks, changed,
                liveIn, liveOut, spans, ranked, intervals, callSites, cursor, active, available,
                usedCalleeSaved, assignments, spillSlots>>
frame      == <<saved, spilled, sizes, toPlace, toPin, slots, objects, pinned>>
code       == <<layout, selection>>

-----------------------------------------------------------------------------
(***************************************************************************)
(* backend/vreg.rs: what an instruction reads and writes of the values     *)
(* that are to have a home.                                                *)
(***************************************************************************)
IsVirtualReg(operand) == operand[1] \in {"var", "temp"}

ReadsBoth == {"+", "-", "*", "/", "&", "|", "^", "<<", ">>", "==", "!=", "<", "<=", ">", ">=",
              "array_load", "array_addr", "store"}
ReadsFirst == {"mov", "load", "convert", "branch_if", "branch_if_not", "param", "ret"}
WritesNothing == {"array_store", "store", "branch_if", "branch_if_not", "param", "ret", "jump"}

InstructionUses(i) ==
    {operand \in
        CASE i.op \in ReadsBoth      -> {i.arg1, i.arg2}
          [] i.op \in ReadsFirst     -> {i.arg1}
          [] i.op = "array_store"    -> {i.dest, i.arg1, i.arg2}
          [] OTHER                   -> {} : IsVirtualReg(operand)}

InstructionDef(i) == IF i.op \notin WritesNothing /\ IsVirtualReg(i.dest) THEN i.dest ELSE Nothing

(***************************************************************************)
(* The function as RegAlloc sees it.  The blocks are those of the SSA      *)
(* function, and behind them the exit block when no block is it.           *)
(***************************************************************************)
RankedLabels ==
    [b \in Ssa!BlockIds(ssa) |-> BlockLabel(b)] \o (IF ssa.exit = 0 THEN <<ExitLabel(ssa)>> ELSE <<>>)

CodeOf(b) == left.blocks[RankedLabels[b]].code

RankOf(label) == IF label = ExitLabel(ssa) /\ ssa.exit = 0 THEN Len(ssa.blocks) + 1 ELSE label[2]

SuccessorRanks(b) ==
    IF b > Len(ssa.blocks) THEN <<>>
    ELSE LET to == LeavesTo(ssa, b) IN [k \in DOMAIN to |-> RankOf(to[k])]

FlowOf(i) ==
    Back!Instruction(IF i.op \in {"param", "call"} THEN i.op ELSE "other",
                     InstructionUses(i), InstructionDef(i))

GraphToAllocate ==
    [entry |-> 1,
     bodies |-> [b \in DOMAIN RankedLabels |-> [k \in DOMAIN CodeOf(b) |-> FlowOf(CodeOf(b)[k])]],
     successors |-> [b \in DOMAIN RankedLabels |-> SuccessorRanks(b)]]

-----------------------------------------------------------------------------
(***************************************************************************)
(* frame_requirements: the objects the function mentions, and the          *)
(* variables it takes the address of, both in order.                       *)
(***************************************************************************)
AllInstructions == FlattenSeq([b \in DOMAIN RankedLabels |-> CodeOf(b)])

VariablesOf(i) == {operand[2] : operand \in {o \in {i.dest, i.arg1, i.arg2} : o[1] = "var"}}

ObjectsMentioned ==
    UNION {VariablesOf(AllInstructions[k]) : k \in DOMAIN AllInstructions} \cap DOMAIN program.objects

AddressTaken ==
    {AllInstructions[k].arg1[2] : k \in {k \in DOMAIN AllInstructions : AllInstructions[k].op = "addr_of"}}

Ascending(ids) == SetToSortSeq(ids, LAMBDA v, w : v < w)

Registers(ranks) == SelectSeq(Allocatable, LAMBDA r : \E rank \in ranks : Allocatable[rank] = r)

-----------------------------------------------------------------------------
Idle ==
    /\ pass = "idle"
    /\ cfg = [entry |-> 1, bodies |-> <<>>, successors |-> <<>>]
    /\ turn = 1 /\ at = 0 /\ stack = <<>> /\ visitOrder = <<>>
    /\ length = 0 /\ starts = <<>> /\ blocks = <<>> /\ emptyBlocks = <<>> /\ changed = FALSE
    /\ liveIn = <<>> /\ liveOut = <<>> /\ spans = <<>> /\ ranked = <<>>
    /\ intervals = <<>> /\ callSites = {} /\ cursor = 1 /\ active = <<>> /\ available = <<>>
    /\ usedCalleeSaved = {} /\ assignments = <<>> /\ spillSlots = 0
    /\ saved = 0 /\ spilled = 0 /\ sizes = <<>> /\ toPlace = <<>> /\ toPin = <<>>
    /\ slots = 0 /\ objects = <<>> /\ pinned = <<>>
    /\ layout = <<>> /\ selection = <<>>

GenerationInit == Init /\ Idle

Middle ==
    /\ Next
    /\ UNCHANGED <<pass, allocation, frame, code>>

BeginAllocation ==
    /\ phase = "done"
    /\ phase' = "handed over" /\ pass' = "order"
    /\ cfg' = GraphToAllocate
    /\ stack' = <<1>>
    /\ UNCHANGED <<program, order, next, ssa, walk, left, turn, at, visitOrder, length, starts,
                   blocks, emptyBlocks, changed, liveIn, liveOut, spans, ranked, intervals,
                   callSites, cursor, active, available, usedCalleeSaved, assignments,
                   spillSlots, frame, code>>

Allocate ==
    /\ ~Back!Allocated /\ Back!Next
    /\ UNCHANGED <<construction, frame, code>>

BeginFrame ==
    /\ Back!Allocated
    /\ pass' = "frame"
    /\ saved' = Cardinality(usedCalleeSaved)
    /\ spilled' = spillSlots /\ slots' = spillSlots
    /\ sizes' = [v \in ObjectsMentioned |-> program.objects[v]]
    /\ toPlace' = Ascending(ObjectsMentioned)
    /\ toPin' = Ascending(AddressTaken)
    /\ UNCHANGED <<construction, allocation, objects, pinned, code>>

PlanNext ==
    /\ pass = "frame" /\ Plan!Next
    /\ UNCHANGED <<construction, pass, allocation, code>>

BeginSelection ==
    /\ pass = "frame" /\ Plan!Planned
    /\ pass' = "select"
    /\ layout' = [assigned   |-> [v \in ToSet(ranked) |-> Back!HomeOf(v)],
                  saved      |-> Registers(usedCalleeSaved),
                  savedBytes |-> saved * Word,
                  objects    |-> objects,
                  pinned     |-> pinned]
    /\ selection' = [turn |-> 1, at |-> 0, pending |-> <<>>,
                     out |-> EmitPrologue([saved |-> Registers(usedCalleeSaved),
                                           reserved |-> StackAdjust])]
    /\ UNCHANGED <<construction, allocation, frame>>

-----------------------------------------------------------------------------
(***************************************************************************)
(* FunctionLowering::lower and lower_block.                                *)
(***************************************************************************)
CurrentCode == CodeOf(blocks[selection.turn])

Emit(emitted, taken) ==
    selection' = [selection EXCEPT !.out = @ \o emitted, !.at = @ + taken]

Selecting == pass = "select" /\ selection.turn <= Len(blocks)

BeginBlock ==
    /\ Selecting /\ selection.at = 0
    /\ Emit(<<X86("label", Word, Label(RankedLabels[blocks[selection.turn]]), NoOperand)>>, 1)
    /\ UNCHANGED <<construction, pass, allocation, frame, layout>>

ParameterRun ==
    LET rest  == SubSeq(CurrentCode, selection.at, Len(CurrentCode))
        other == SelectInSeq(rest, LAMBDA i : i.op # "get_param")
    IN  IF other = 0 THEN rest ELSE SubSeq(rest, 1, other - 1)

SelectNext ==
    /\ Selecting /\ selection.at \in DOMAIN CurrentCode
    /\ \E i \in {CurrentCode[selection.at]} :
          CASE i.op = "param" ->
                  selection' = [selection EXCEPT !.pending = Append(@, i.arg1), !.at = @ + 1]
            [] i.op = "call" ->
                  selection' = [selection EXCEPT !.out = @ \o LowerCall(i, selection.pending),
                                                 !.pending = <<>>, !.at = @ + 1]
            [] i.op = "get_param" -> Emit(LowerIncomingArguments(ParameterRun), Len(ParameterRun))
            [] OTHER -> Emit(LowerInstruction(i), 1)
    /\ UNCHANGED <<construction, pass, allocation, frame, layout>>

EndOfSelection ==
    /\ Selecting /\ selection.at > Len(CurrentCode)
    /\ selection' = [selection EXCEPT !.turn = @ + 1, !.at = 0]
    /\ UNCHANGED <<construction, pass, allocation, frame, layout>>

Finish ==
    /\ pass = "select" /\ selection.turn > Len(blocks)
    /\ pass' = "assembled"
    /\ selection' = [selection EXCEPT !.out = @ \o EmitEpilogue]
    /\ UNCHANGED <<construction, allocation, frame, layout>>

GenerationEnded ==
    /\ phase = "broken" \/ pass = "assembled"
    /\ UNCHANGED <<construction, pass, allocation, frame, code>>

GenerationNext ==
    \/ Middle \/ BeginAllocation \/ Allocate \/ BeginFrame \/ PlanNext \/ BeginSelection
    \/ BeginBlock \/ SelectNext \/ EndOfSelection \/ Finish \/ GenerationEnded

GenerationSpec ==
    GenerationInit /\ [][GenerationNext]_<<construction, pass, allocation, frame, code>>

-----------------------------------------------------------------------------
(***************************************************************************)
(* What the middle end leaves is a graph as linearization, liveness and    *)
(* the allocator take it for granted, and as the theorems about RegAlloc   *)
(* assume it: every block but an empty exit block has code, edges lead to  *)
(* blocks of the function, and the Params of a call stand right before it, *)
(* whatever copies destruct.rs put in between (to_cfg, lower_inst).        *)
(***************************************************************************)
HandsOverAGraph == pass = "order" => Back!IsGraph(cfg)

\* The stack pointer of a caller that has just called.
Bottom == 4088

CodeBehaves ==
    pass = "assembled" =>
        \A args \in ArgumentLists :
            \E before \in {Run(left, args)} :
               before.status # "out of fuel" =>
                  Seen(RunAmd64(Start(selection.out, program.name, program.signatures, args, Answers,
                                      Bottom), (8 * Fuel) \div Stretch)) = Seen(before)
=============================================================================
