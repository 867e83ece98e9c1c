---------------------------- MODULE Translation -----------------------------
(***************************************************************************)
(* From three-address code to a function in SSA form that still keeps      *)
(* everything in memory: middle/ssa/build.rs.                              *)
(*                                                                         *)
(* A function is that of SsaFunction, with the slots that were met so far  *)
(* and the number of values.  A slot is the operand it stands for, and a   *)
(* block's label is its id.  An instruction also has the slot it names,    *)
(* its width, and what a conversion and a call need.                       *)
(***************************************************************************)
EXTENDS ThreeAddress

CONSTANT MostValues \* values a function has, at most

SsaValues == {"value"} \X (1..MostValues)
NoSlot    == Nothing

Ssa == INSTANCE Dominance WITH Values <- SsaValues, NoValue <- Nothing, Width <- 1, Inputs <- {}

IsTransfer(i) == i.op \in {"jump", "branch_if", "branch_if_not", "ret"}

\* An instruction that defines nothing yet.
Op(op, width, args) ==
    [ dest |-> Nothing, op |-> op, args |-> args, slot |-> NoSlot, width |-> width,
      sign |-> "signed", from |-> width, callee |-> "" ]

Terminator(kind, to, args, width) == [kind |-> kind, to |-> to, args |-> args, width |-> width]
ReturnNothing == Terminator("return", <<>>, <<>>, Word)

NewFunction(size) ==
    [ blocks |-> [b \in 1..size |-> [preds |-> <<>>, phis |-> <<>>, insts |-> <<>>,
                                     term |-> ReturnNothing]],
      site   |-> [v \in SsaValues |-> Ssa!Removed],
      slots  |-> <<>>,
      values |-> 0,
      exit   |-> 0 ]

-----------------------------------------------------------------------------
(***************************************************************************)
(* The arenas: emit and slot_for of middle/ssa/mod.rs.                     *)
(***************************************************************************)
FreshValue(f) == <<"value", f.values + 1>>

EmitOp(f, b, inst) == [f EXCEPT !.blocks[b].insts = Append(@, inst)]

EmitValue(f, b, inst) ==
    EmitOp([f EXCEPT !.values = @ + 1], b, [inst EXCEPT !.dest = FreshValue(f)])

SlotFor(f, operand) ==
    IF Contains(f.slots, operand) THEN f ELSE [f EXCEPT !.slots = Append(@, operand)]

StoreSlot(f, b, slot, value, width) ==
    EmitOp(SlotFor(f, slot), b, [Op("slot_store", width, <<value>>) EXCEPT !.slot = slot])

-----------------------------------------------------------------------------
(***************************************************************************)
(* Operands.  A variable or a temporary is loaded at the width its reader  *)
(* is defined on.                                                          *)
(***************************************************************************)
\* What an instruction reads, in the order the loads are emitted.
Sources(i) ==
    LET At(operand, width) == [of |-> operand, width |-> width]
    IN  CASE i.op = "mov"     -> <<At(i.arg1, i.width)>>
          [] i.op = "convert" -> <<At(i.arg1, i.from)>>
          [] i.op \in {"array_load", "array_addr"} -> <<At(i.arg2, Word)>>
          [] i.op = "load"    -> <<At(i.arg1, Word)>>
          [] i.op \in {"store", "array_store"} -> <<At(i.arg1, Word), At(i.arg2, i.width)>>
          [] i.op \in {"call", "addr_of"} -> <<>>
          [] OTHER -> <<At(i.arg1, i.width), At(i.arg2, i.width)>>

\* The storage an instruction names without reading it as a value.
Base(i) == CASE i.op \in {"array_load", "array_addr", "addr_of"} -> i.arg1
             [] i.op = "array_store" -> i.dest
             [] OTHER -> NoSlot

\* The function with the load, and what is read.
ReadOperand(f, b, operand, width) ==
    IF operand[1] = "imm" THEN [f |-> f, value |-> operand]
    ELSE [f |-> EmitValue(SlotFor(f, operand), b, [Op("slot_load", width, <<>>) EXCEPT !.slot = operand]),
          value |-> FreshValue(f)]

ReadAll(f, b, sources) ==
    FoldLeft(LAMBDA so, source :
                LET read == ReadOperand(so.f, b, source.of, source.width)
                IN  [f |-> read.f, args |-> Append(so.args, read.value)],
             [f |-> f, args |-> <<>>], sources)

-----------------------------------------------------------------------------
(***************************************************************************)
(* Instructions.  A translation has the function, the arguments that no    *)
(* call took yet, and whether all of it was code the lowering produces.    *)
(***************************************************************************)
SsaOp(op) == CASE op = "mov"       -> "copy"
               [] op = "get_param" -> "param"
               [] OTHER            -> op

DefinesNothing(i) == i.op \in {"store", "array_store"}

TranslateOther(t, b, i) ==
    LET based == IF Base(i) = NoSlot THEN t.f ELSE SlotFor(t.f, Base(i))
        read  == ReadAll(based, b, Sources(i))
        value == FreshValue(read.f)
        inst  == [Op(SsaOp(i.op), i.width, IF i.op = "call" THEN t.pending ELSE read.args)
                    EXCEPT !.slot = Base(i), !.sign = i.sign, !.from = i.from,
                           !.callee = IF i.op = "call" THEN i.arg1[2] ELSE ""]
    IN  IF DefinesNothing(i) THEN EmitOp(read.f, b, inst)
        ELSE StoreSlot(EmitValue(read.f, b, inst), b, i.dest, value, ResultWidth(i))

TranslateInstruction(t, b, i) ==
    CASE i.op = "get_param" -> [t EXCEPT !.fits = FALSE]
      [] i.op = "param" ->
            LET read == ReadOperand(t.f, b, i.arg1, i.width)
            IN  [t EXCEPT !.f = read.f, !.pending = Append(@, read.value)]
      [] i.op = "call" ->
            [t EXCEPT !.f = TranslateOther(t, b, i), !.pending = <<>>,
                      !.fits = @ /\ Imm(Len(t.pending)) = i.arg2]
      [] OTHER -> [t EXCEPT !.f = TranslateOther(t, b, i)]

\* Mutant: each parameter is placed before the next is read.
TranslatePrologueInterleaved(f, b, run) ==
    FoldLeft(LAMBDA g, i :
                StoreSlot(EmitValue(g, b, Op("param", Word, <<i.arg1>>)), b, i.dest, FreshValue(g), i.width),
             f, run)

\* translate_parameter_prologue: all of the run is read before any is placed.
TranslatePrologue(f, b, run) ==
    LET read == FoldLeft(LAMBDA g, i : SlotFor(EmitValue(g, b, Op("param", Word, <<i.arg1>>)), i.dest),
                         f, run)
    IN  FoldLeftDomain(LAMBDA g, k :
                StoreSlot(g, b, run[k].dest, <<"value", f.values + k>>, run[k].width),
             read, run)

-----------------------------------------------------------------------------
(***************************************************************************)
(* How a block ends.  blocks is what each label became.                    *)
(***************************************************************************)
Arms(branch, jump) == IF branch.op = "branch_if" THEN <<branch.arg2[2], jump.arg1[2]>>
                      ELSE <<jump.arg1[2], branch.arg2[2]>>

TransferOps(tail) == [k \in DOMAIN tail |-> tail[k].op]

IsKnownTail(tail) ==
    \/ TransferOps(tail) \in {<<>>, <<"jump">>, <<"ret">>}
    \/ TransferOps(tail) \in {<<"branch_if", "jump">>, <<"branch_if_not", "jump">>}

EndBlock(f, b, tail, blocks) ==
    LET i == tail[1]
        condition == ReadOperand(f, b, i.arg1, i.width)
        arms == Arms(i, tail[2])
    IN  CASE tail = <<>>   -> [f |-> f, term |-> ReturnNothing]
          [] tail # <<>> /\ i.op = "jump" ->
                [f |-> f, term |-> Terminator("jump", <<blocks[i.arg1[2]]>>, <<>>, Word)]
          [] tail # <<>> /\ i.op = "ret" /\ i.arg1 = Nothing -> [f |-> f, term |-> ReturnNothing]
          [] tail # <<>> /\ i.op = "ret" /\ i.arg1 # Nothing ->
                [f |-> condition.f, term |-> Terminator("return", <<>>, <<condition.value>>, i.width)]
          [] OTHER ->
                [f |-> condition.f,
                 term |-> IF arms[1] = arms[2] THEN Terminator("jump", <<blocks[arms[1]]>>, <<>>, Word)
                          ELSE Terminator("branch", <<blocks[arms[1]], blocks[arms[2]]>>,
                                          <<condition.value>>, i.width)]

Count(code, Test(_)) ==
    LET other == SelectInSeq(code, LAMBDA i : ~Test(i)) IN IF other = 0 THEN Len(code) ELSE other - 1

\* A block; what follows its first transfer is how it ends.
TranslateBlock(f, b, code, blocks) ==
    LET prologue == Count(code, LAMBDA i : i.op = "get_param")
        before   == Count(code, LAMBDA i : ~IsTransfer(i))
        tail     == SubSeq(code, before + 1, Len(code))
        body == FoldLeft(LAMBDA t, i : TranslateInstruction(t, b, i),
                         [f |-> TranslatePrologue(f, b, SubSeq(code, 1, prologue)),
                          pending |-> <<>>, fits |-> TRUE],
                         SubSeq(code, prologue + 1, before))
        ended == EndBlock(body.f, b, tail, blocks)
    IN  IF ~body.fits \/ body.pending # <<>> \/ ~IsKnownTail(tail) THEN [body EXCEPT !.fits = FALSE]
        ELSE [body EXCEPT !.f = Ssa!SetTerminator(ended.f, b, ended.term)]

-----------------------------------------------------------------------------
(***************************************************************************)
(* What is left to do once all blocks are there.                           *)
(***************************************************************************)
DropUnreachable(f) ==
    LET kept == Ssa!Reachable(f)
        rest == Ssa!RetainReachable(f)
    IN  [f EXCEPT !.blocks = rest.blocks, !.site = rest.site,
                  !.exit = IF @ \in kept THEN Ssa!Renumbered(kept, @) ELSE 0]

CriticalEdges(f) ==
    FlattenSeq([b \in Ssa!BlockIds(f) |->
        LET to == Ssa!Successors(f, b)
            Into == SelectSeq(to, LAMBDA s : Len(to) > 1 /\ Len(f.blocks[s].preds) > 1)
        IN  [k \in DOMAIN Into |-> <<b, Into[k]>>]])

\* Function::split_edge: the new block takes the place of the edge at both ends.
SplitEdge(f, from, to) ==
    LET split == Len(f.blocks) + 1
        arrives == SelectInSeq(f.blocks[to].preds, LAMBDA p : p = from)
        leaves  == SelectInSeq(Ssa!Successors(f, from), LAMBDA s : s = to)
        blocks  == [f.blocks EXCEPT ![to].preds[arrives] = split, ![from].term.to[leaves] = split]
    IN  [f EXCEPT !.blocks = Append(blocks,
            [preds |-> <<from>>, phis |-> <<>>, insts |-> <<>>,
             term |-> Terminator("jump", <<to>>, <<>>, Word)])]

SplitCriticalEdges(f) ==
    FoldLeft(LAMBDA g, edge : SplitEdge(g, edge[1], edge[2]), f, CriticalEdges(f))
=============================================================================
