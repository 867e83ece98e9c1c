------------------------------ MODULE Selection ------------------------------
(***************************************************************************)
(* Instruction selection: backend/x86/lower.rs, on the instructions of     *)
(* three-address code and with the homes a frame layout gives to values.   *)
(*                                                                         *)
(* ParallelMoves has the moves that happen at once step by step; here they *)
(* are one of the things a call is made of.                                *)
(***************************************************************************)
EXTENDS Amd64

CONSTANT Allocatable \* SystemV::allocatable, in order

\* FrameLayout: the homes the allocator gave, where in the frame its slots
\* start, the registers to save, the bytes to reserve, and where the objects
\* and the variables with an address are.
VARIABLE layout

-----------------------------------------------------------------------------
(***************************************************************************)
(* FrameLayout's answers: home_of, register_of, write_back_offset.         *)
(***************************************************************************)
InFrame(offset) == Mem(FramePointer, offset)

IsPinned(operand) == operand[1] = "var" /\ operand[2] \in DOMAIN layout.pinned

HomeOf(operand) ==
    LET home == layout.assigned[operand]
    IN  CASE IsPinned(operand) -> InFrame(layout.pinned[operand[2]])
          [] ~IsPinned(operand) /\ home.at = "register" -> Reg(Allocatable[home.n])
          [] ~IsPinned(operand) /\ home.at = "spill" -> InFrame(-(layout.savedBytes + home.n * Word))

HasRegister(operand) ==
    operand \in DOMAIN layout.assigned /\ layout.assigned[operand].at = "register"

\* The register a definition is built in.
ResultOf(dest) == IF HasRegister(dest) THEN Allocatable[layout.assigned[dest].n] ELSE Scratch

LivesInFrame(dest) == IsMem(HomeOf(dest))

\* define: behind what builds the value, it is written to the frame.
WriteBack(dest, width) ==
    IF LivesInFrame(dest) THEN <<X86("mov", width, HomeOf(dest), Reg(ResultOf(dest)))>> ELSE <<>>

-----------------------------------------------------------------------------
(***************************************************************************)
(* Getting at a value: the code it takes, and the operand to use.          *)
(***************************************************************************)
Having(code, operand) == [code |-> code, operand |-> operand]

InPlace(value) == IF value[1] \in {"imm", "label"} THEN value ELSE HomeOf(value)

Loaded(operand, scratch, width) ==
    IF IsReg(operand) THEN Having(<<>>, operand)
    ELSE Having(<<X86("mov", width, Reg(scratch), operand)>>, Reg(scratch))

InRegister(value, scratch, width) == Loaded(InPlace(value), scratch, width)

EnsureRegister(operand, scratch) == Loaded(operand, scratch, Word)

MoveInto(value, register, width) ==
    IF InPlace(value) = Reg(register) THEN <<>>
    ELSE <<X86("mov", width, Reg(register), InPlace(value))>>

Copy(from, to) == IF from = to THEN <<>> ELSE <<X86("mov", Word, Reg(to), Reg(from))>>

Encodable(operand, scratch) ==
    IF IsImm(operand) /\ ~IsShort(operand[2]) THEN EnsureRegister(operand, scratch)
    ELSE Having(<<>>, operand)

Storable(value, scratch, width) ==
    IF IsImm(InPlace(value)) THEN Encodable(InPlace(value), scratch)
    ELSE InRegister(value, scratch, width)

-----------------------------------------------------------------------------
(***************************************************************************)
(* Arithmetic and comparison.                                              *)
(***************************************************************************)
Mnemonic(i) ==
    CASE i.op = "+" -> "add" [] i.op = "-" -> "sub" [] i.op = "*" -> "imul"
      [] i.op = "&" -> "and" [] i.op = "|" -> "or"  [] i.op = "^" -> "xor"
      [] i.op = "<<" -> "shl"
      [] i.op = ">>" -> IF i.sign = "signed" THEN "sar" ELSE "shr"

\* The instruction overwrites its left operand.
LowerBinary(i) ==
    LET result == ResultOf(i.dest)
        right  == Encodable(InPlace(i.arg2), Scratch2)
    IN  MoveInto(i.arg1, result, i.width) \o right.code
            \o <<X86(Mnemonic(i), i.width, Reg(result), right.operand)>> \o WriteBack(i.dest, i.width)

LowerDivision(i) ==
    LET high    == IF i.sign = "signed" THEN X86("extend", i.width, NoOperand, NoOperand)
                   ELSE X86("mov", 4, Reg(DividendHigh), Imm(0))
        divisor == IF IsImm(InPlace(i.arg2)) THEN EnsureRegister(InPlace(i.arg2), Scratch2)
                   ELSE Having(<<>>, InPlace(i.arg2))
        op      == IF i.sign = "signed" THEN "idiv" ELSE "div"
    IN  MoveInto(i.arg1, ReturnValue, i.width) \o <<high>> \o divisor.code
            \o <<X86(op, i.width, divisor.operand, NoOperand)>>
            \o Copy(ReturnValue, ResultOf(i.dest)) \o WriteBack(i.dest, i.width)

\* A count that is not a constant goes through rcx, whoever has it.
LowerShift(i) ==
    LET result == ResultOf(i.dest)
    IN  IF IsImm(i.arg2)
        THEN MoveInto(i.arg1, result, i.width)
                \o <<X86(Mnemonic(i), i.width, Reg(result), Imm(ShiftCount(i.width, i.arg2[2])))>>
                \o WriteBack(i.dest, i.width)
        ELSE MoveInto(i.arg1, Scratch, i.width) \o Copy(ShiftRegister, Scratch2)
                \o MoveInto(i.arg2, ShiftRegister, i.width)
                \o <<X86(Mnemonic(i), i.width, Reg(Scratch), Reg(ShiftRegister))>>
                \o Copy(Scratch2, ShiftRegister)
                \o Copy(Scratch, result) \o WriteBack(i.dest, i.width)

Condition(i) ==
    LET Ordering(signed, unsigned) == IF i.sign = "signed" THEN signed ELSE unsigned
    IN  CASE i.op = "==" -> "e"
          [] i.op = "!=" -> "ne"
          [] i.op = "<"  -> Ordering("l", "b")
          [] i.op = "<=" -> Ordering("le", "be")
          [] i.op = ">"  -> Ordering("g", "a")
          [] i.op = ">=" -> Ordering("ge", "ae")

LowerComparison(i) ==
    LET left  == InRegister(i.arg1, Scratch, i.width)
        right == Encodable(InPlace(i.arg2), Scratch2)
    IN  left.code \o right.code
            \o << X86("cmp", i.width, left.operand, right.operand),
                  OnFlags("set", Condition(i), Reg(ReturnValue)),
                  Extending("movzx", 4, 1, Reg(ResultOf(i.dest)), Reg(ReturnValue)) >>
            \o WriteBack(i.dest, 4)

-----------------------------------------------------------------------------
(***************************************************************************)
(* Moves, conversions and transfers.                                       *)
(***************************************************************************)
LowerMove(i) ==
    LET value == Storable(i.arg1, Scratch, i.width)
    IN  IF ~HasRegister(i.dest)
        THEN value.code \o <<X86("mov", i.width, HomeOf(i.dest), value.operand)>>
        ELSE MoveInto(i.arg1, ResultOf(i.dest), i.width) \o WriteBack(i.dest, i.width)

\* Writing an int clears what is above it.
Converted(i, source, to) ==
    CASE IsImm(source) -> X86("mov", i.width, to, Imm(Narrow(i.width, ReadAs(i.from, i.sign, source[2]))))
      [] ~IsImm(source) /\ i.width <= i.from -> X86("mov", i.width, to, source)
      [] ~IsImm(source) /\ i.width > i.from /\ i.sign = "signed" ->
            Extending("movsx", i.width, i.from, to, source)
      [] ~IsImm(source) /\ i.width > i.from /\ i.sign # "signed" /\ i.from = 4 ->
            X86("mov", 4, to, source)
      [] ~IsImm(source) /\ i.width > i.from /\ i.sign # "signed" /\ i.from # 4 ->
            Extending("movzx", i.width, i.from, to, source)

LowerConvert(i) ==
    <<Converted(i, InPlace(i.arg1), Reg(ResultOf(i.dest)))>> \o WriteBack(i.dest, i.width)

LowerBranch(i, condition) ==
    LET value == InRegister(i.arg1, Scratch, i.width)
    IN  value.code \o << X86("test", i.width, value.operand, value.operand),
                         OnFlags("j", condition, i.arg2) >>

Epilogue == Label(<<"epilogue">>)

LowerReturn(i) ==
    (IF i.arg1 = Nothing THEN <<>> ELSE MoveInto(i.arg1, ReturnValue, Word))
        \o <<X86("jmp", Word, Epilogue, NoOperand)>>

-----------------------------------------------------------------------------
(***************************************************************************)
(* Moves that happen at once: one that nothing waits for, or a register    *)
(* out of the way.                                                         *)
(***************************************************************************)
RegisterMove(dest, source) == [dest |-> dest, source |-> source]

ReadsRegister(pending, register) == \E k \in DOMAIN pending : pending[k].source = Reg(register)

RECURSIVE Emitted(_)
Emitted(pending) ==
    LET ready == SelectInSeq(pending, LAMBDA move : ~ReadsRegister(pending, move.dest))
        stashed == Reg(pending[1].dest)
        Redirected(move) == IF move.source = stashed THEN [move EXCEPT !.source = Reg(Scratch)] ELSE move
        redirected == [k \in DOMAIN pending |-> Redirected(pending[k])]
        Moving(move) == <<X86("mov", Word, Reg(move.dest), move.source)>>
    IN  CASE pending = <<>> -> <<>>
          [] pending # <<>> /\ ready # 0 -> Moving(pending[ready]) \o Emitted(RemoveAt(pending, ready))
          [] pending # <<>> /\ ready = 0 ->
                <<X86("mov", Word, Reg(Scratch), stashed)>> \o Moving(redirected[1])
                    \o Emitted(Tail(redirected))

\* Mutant: one after the other.
EmittedInOrder(moves) == [k \in DOMAIN moves |-> X86("mov", Word, Reg(moves[k].dest), moves[k].source)]

ParallelMoves(moves) == Emitted(SelectSeq(moves, LAMBDA move : move.source # Reg(move.dest)))

\* abi::incoming_argument: above the return address and the saved frame pointer.
IncomingArgument(index) ==
    IF index < Len(ArgumentRegisters) THEN Reg(ArgumentRegisters[index + 1])
    ELSE Mem(FramePointer, 2 * Word + (index - Len(ArgumentRegisters)) * Word)

KeepLastWritePerRegister(moves) ==
    LET IsLast(k) == \A later \in k + 1 .. Len(moves) : moves[later].dest # moves[k].dest
    IN  SelectSeq([k \in DOMAIN moves |-> [move |-> moves[k], last |-> IsLast(k)]], LAMBDA e : e.last)

\* A run of get_param: first what lives in the frame, then what lives in
\* registers.
LowerIncomingArguments(run) ==
    LET SourceOf(i) == IncomingArgument(i.arg1[2])
        IntoFrame(i) ==
            LET value == EnsureRegister(SourceOf(i), Scratch)
            IN  IF LivesInFrame(i.dest)
                THEN value.code \o <<X86("mov", i.width, HomeOf(i.dest), value.operand)>> ELSE <<>>
        inRegisters == SelectSeq(run, LAMBDA i : HasRegister(i.dest))
        last == KeepLastWritePerRegister(
                    [k \in DOMAIN inRegisters |->
                        RegisterMove(ResultOf(inRegisters[k].dest), SourceOf(inRegisters[k]))])
    IN  FlattenSeq([k \in DOMAIN run |-> IntoFrame(run[k])])
            \o ParallelMoves([k \in DOMAIN last |-> last[k].move])

AdjustStack(op, bytes) ==
    IF bytes = 0 THEN <<>> ELSE <<X86(op, Word, Reg(StackPointer), Imm(bytes))>>

Padding(onStack) == (Len(onStack) % 2) * Word

\* The arguments past the sixth are pushed from the right, below the padding.
LowerCall(i, arguments) ==
    LET inRegisters == SubSeq(arguments, 1, IF Len(arguments) < 6 THEN Len(arguments) ELSE 6)
        onStack == SubSeq(arguments, 7, Len(arguments))
        Push(value) ==
            LET at == InRegister(value, Scratch, Word)
            IN  at.code \o <<X86("push", Word, at.operand, NoOperand)>>
        backwards == Reverse(onStack)
        moves == [k \in DOMAIN inRegisters |-> RegisterMove(ArgumentRegisters[k], InPlace(inRegisters[k]))]
    IN  AdjustStack("sub", Padding(onStack))
            \o FlattenSeq([k \in DOMAIN backwards |-> Push(backwards[k])])
            \o ParallelMoves(moves)
            \o <<X86("call", Word, i.arg1, NoOperand)>>
            \o AdjustStack("add", Padding(onStack) + Len(onStack) * Word)
            \o (IF i.dest = Nothing THEN <<>>
                ELSE Copy(ReturnValue, ResultOf(i.dest)) \o WriteBack(i.dest, Word))

-----------------------------------------------------------------------------
(***************************************************************************)
(* Arrays and pointers.                                                    *)
(***************************************************************************)
\* object_base, and an index that is a constant or scaled by the element.
Element(base, index, width) ==
    LET first == layout.objects[base[2]]
        computed == InRegister(index, Scratch2, Word)
    IN  IF IsImm(index) THEN Having(<<>>, InFrame(first + index[2] * width))
        ELSE Having(computed.code, Indexed(FramePointer, computed.operand[2], width, first))

LowerArrayStore(i) ==
    LET element == Element(i.dest, i.arg1, i.width)
        value   == Storable(i.arg2, Scratch, i.width)
    IN  element.code \o value.code \o <<X86("mov", i.width, element.operand, value.operand)>>

LowerArrayLoad(i) ==
    LET element == Element(i.arg1, i.arg2, i.width)
    IN  element.code \o <<X86("mov", i.width, Reg(ResultOf(i.dest)), element.operand)>>
            \o WriteBack(i.dest, i.width)

LowerElementAddress(i) ==
    LET element == Element(i.arg1, i.arg2, i.width)
    IN  element.code \o <<X86("lea", Word, Reg(ResultOf(i.dest)), element.operand)>>
            \o WriteBack(i.dest, Word)

LowerAddressOf(i) ==
    <<X86("lea", Word, Reg(ResultOf(i.dest)), InFrame(layout.pinned[i.arg1[2]]))>>
        \o WriteBack(i.dest, Word)

LowerLoad(i) ==
    LET pointer == InRegister(i.arg1, Scratch2, Word)
    IN  pointer.code \o <<X86("mov", i.width, Reg(ResultOf(i.dest)), Mem(pointer.operand[2], 0))>>
            \o WriteBack(i.dest, i.width)

LowerStore(i) ==
    LET pointer == InRegister(i.arg1, Scratch2, Word)
        value   == Storable(i.arg2, Scratch, i.width)
    IN  pointer.code \o value.code \o <<X86("mov", i.width, Mem(pointer.operand[2], 0), value.operand)>>

-----------------------------------------------------------------------------
\* lower_instruction; Param and Call need the arguments that are pending.
LowerInstruction(i) ==
    CASE i.op \in {"+", "-", "*", "&", "|", "^"} -> LowerBinary(i)
      [] i.op = "/"                -> LowerDivision(i)
      [] i.op \in {"<<", ">>"}     -> LowerShift(i)
      [] IsRelational(i.op)        -> LowerComparison(i)
      [] i.op = "mov"              -> LowerMove(i)
      [] i.op = "convert"          -> LowerConvert(i)
      [] i.op = "jump"             -> <<X86("jmp", Word, i.arg1, NoOperand)>>
      [] i.op = "branch_if"        -> LowerBranch(i, "ne")
      [] i.op = "branch_if_not"    -> LowerBranch(i, "e")
      [] i.op = "ret"              -> LowerReturn(i)
      [] i.op = "array_store"      -> LowerArrayStore(i)
      [] i.op = "array_load"       -> LowerArrayLoad(i)
      [] i.op = "array_addr"       -> LowerElementAddress(i)
      [] i.op = "load"             -> LowerLoad(i)
      [] i.op = "store"            -> LowerStore(i)
      [] i.op = "addr_of"          -> LowerAddressOf(i)

OnRegisters(op, registers) == [k \in DOMAIN registers |-> X86(op, Word, Reg(registers[k]), NoOperand)]

EmitPrologue(frame) ==
    << X86("push", Word, Reg(FramePointer), NoOperand),
       X86("mov", Word, Reg(FramePointer), Reg(StackPointer)) >>
        \o OnRegisters("push", frame.saved) \o AdjustStack("sub", frame.reserved)

EmitEpilogue ==
    << X86("label", Word, Epilogue, NoOperand),
       IF layout.saved = <<>> THEN X86("mov", Word, Reg(StackPointer), Reg(FramePointer))
       ELSE X86("lea", Word, Reg(StackPointer), InFrame(-layout.savedBytes)) >>
        \o OnRegisters("pop", Reverse(layout.saved))
        \o << X86("pop", Word, Reg(FramePointer), NoOperand), X86("ret", Word, NoOperand, NoOperand) >>
=============================================================================
