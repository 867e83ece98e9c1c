------------------------------- MODULE Amd64 -------------------------------
(***************************************************************************)
(* The instructions the back end emits and what the machine does with      *)
(* them: backend/x86/isa.rs and abi.rs.                                    *)
(*                                                                         *)
(* A register holds a word.  Memory is that of ThreeAddress.  Only one     *)
(* function is in the code; every other is a call that is observed, after  *)
(* which nothing is left of what a callee may destroy.                     *)
(***************************************************************************)
EXTENDS ThreeAddress

ArgumentRegisters == <<"rdi", "rsi", "rdx", "rcx", "r8", "r9">>
Preserved         == {"rbx", "r12", "r13", "r14", "r15"} \* SystemV::is_callee_saved
ReturnValue       == "rax"
DividendHigh      == "rdx"
ShiftRegister     == "rcx"
FramePointer      == "rbp"
StackPointer      == "rsp"
Scratch           == "r10"
Scratch2          == "r11"

Callers == {"rax", "rcx", "rdx", "rsi", "rdi", "r8", "r9", "r10", "r11"}
AllRegisters == Callers \cup Preserved \cup {FramePointer, StackPointer}

-----------------------------------------------------------------------------
(***************************************************************************)
(* Operands and instructions.  An instruction has a destination and a      *)
(* source; set and j have a condition, movzx and movsx the width they read.*)
(***************************************************************************)
Reg(r)          == <<"reg", r>>
Mem(base, disp) == <<"mem", base, disp>>
Indexed(base, index, scale, disp) == <<"mem", base, disp, index, scale>>
NoOperand       == <<"none">>

X86(op, width, to, from)      == [op |-> op, width |-> width, to |-> to, from |-> from]
OnFlags(op, condition, to)    == [X86(op, Word, to, NoOperand) EXCEPT !.width = condition]
Extending(op, width, reads, to, from) ==
    [op |-> op, width |-> width, reads |-> reads, to |-> to, from |-> from]

IsMem(operand) == operand[1] = "mem"
IsReg(operand) == operand[1] = "reg"
IsImm(operand) == operand[1] = "imm"

\* An immediate has at most as many bits as an int.
IsShort(c) == -(2^(Bits(4) - 1)) <= c /\ c < 2^(Bits(4) - 1)

FitsIn(width, c) == -(2^(Bits(width) - 1)) <= c /\ c < 2^Bits(width)

Arithmetic == {"add", "sub", "imul", "and", "or", "xor"}
Shifts     == {"shl", "sar", "shr"}

\* What the processor has an encoding for.
IsEncodable(i) ==
    LET Source == ~IsMem(i.to) \/ ~IsMem(i.from)
        Short  == IsImm(i.from) => IsShort(i.from[2]) /\ FitsIn(i.width, i.from[2])
    IN  CASE i.op = "mov" ->
                /\ ~IsImm(i.to) /\ Source
                /\ IF IsReg(i.to) THEN IsImm(i.from) => FitsIn(i.width, i.from[2]) ELSE Short
          [] i.op \in Arithmetic \cup {"cmp", "test"} ->
                ~IsImm(i.to) /\ Source /\ Short /\ (i.op = "imul" => IsReg(i.to) /\ i.width # 1)
          [] i.op \in Shifts -> ~IsImm(i.to) /\ (IsImm(i.from) \/ i.from = Reg(ShiftRegister))
          [] i.op = "lea" -> IsReg(i.to) /\ IsMem(i.from)
          [] i.op \in {"movzx", "movsx"} ->
                IsReg(i.to) /\ ~IsImm(i.from) /\ i.reads < i.width /\ (i.op = "movzx" => i.reads = 1)
          [] i.op \in {"idiv", "div"} -> ~IsImm(i.to) /\ i.width # 1
          [] i.op = "extend" -> i.width # 1
          [] i.op \in {"push", "pop", "set"} -> IsReg(i.to)
          [] i.op \in {"j", "jmp", "call", "label", "ret"} -> TRUE

-----------------------------------------------------------------------------
(***************************************************************************)
(* The machine.                                                            *)
(***************************************************************************)
Junk == 2^Bits(Word) - 1

\* What a caller has in the registers that are to be preserved.
CallersValue(r) ==
    CASE r = "rbx" -> 101 [] r = "r12" -> 102 [] r = "r13" -> 103
      [] r = "r14" -> 104 [] r = "r15" -> 105 [] r = FramePointer -> 106

Widened(widths, args) == [k \in DOMAIN args |-> InWord(widths[k], args[k])]

\* The stack pointer as a function finds it: above it are the return address,
\* here that of the caller of everything, and the arguments without a register.
Start(code, name, signatures, args, answers, top) ==
    LET words == Widened(signatures[name].params, args)
        passed == [address \in UNION {top + 8 * (k - 6) .. top + 8 * (k - 6) + 7 : k \in 7 .. Len(words)} |->
                      LET k == ((address - top) \div 8) + 6
                      IN  (words[k] \div 2^Bits((address - top) % 8)) % 2^ByteBits]
    IN  [ code |-> code, name |-> name, signatures |-> signatures, top |-> top,
          regs |-> [r \in AllRegisters |->
                      CASE r \in Preserved \cup {FramePointer} -> CallersValue(r)
                        [] r = StackPointer -> top
                        [] r \in Callers ->
                              IF \E k \in 1 .. Len(words) : k <= 6 /\ ArgumentRegisters[k] = r
                              THEN words[SelectInSeq(ArgumentRegisters, LAMBDA a : a = r)] ELSE Junk],
          memory |-> StoredAt(passed, top, Word, 0),
          next |-> 1, flags |-> <<>>, answers |-> answers, calls |-> <<>>, result |-> <<>>,
          status |-> "runs" ]

AddressOf(m, mem) ==
    Unsigned(Word, m.regs[mem[2]] + mem[3] + (IF Len(mem) = 5 THEN m.regs[mem[4]] * mem[5] ELSE 0))

Fetched(m, operand, width) ==
    CASE IsReg(operand) -> Unsigned(width, m.regs[operand[2]])
      [] IsImm(operand) -> Unsigned(width, operand[2])
      [] IsMem(operand) -> FetchFrom(m.memory, AddressOf(m, operand), width)

\* A byte written leaves what is above it, an int clears it.
Put(m, operand, width, value) ==
    IF IsMem(operand) THEN [m EXCEPT !.memory = StoredAt(@, AddressOf(m, operand), width, value)]
    ELSE [m EXCEPT !.regs[operand[2]] =
            IF width = 1 THEN (@ - Unsigned(1, @)) + Unsigned(1, value) ELSE Unsigned(width, value)]

Skip(m) == [m EXCEPT !.next = @ + 1]

Find(m, label) == SelectInSeq(m.code, LAMBDA i : i.op = "label" /\ i.to = label)

Jump(m, label) == [m EXCEPT !.next = Find(m, label)]

Stop(m, status) == [m EXCEPT !.status = status]

-----------------------------------------------------------------------------
Combined(op, width, a, b) ==
    CASE op = "add"  -> a + b
      [] op = "sub"  -> a - b
      [] op = "imul" -> Narrow(width, a) * Narrow(width, b)
      [] op = "and"  -> a & b
      [] op = "or"   -> a | b
      [] op = "xor"  -> a ^^ b
      [] op = "shl"  -> (a % 2^(Bits(width) - ShiftCount(width, b))) * 2^ShiftCount(width, b)
      [] op = "shr"  -> a \div 2^ShiftCount(width, b)
      [] op = "sar"  -> Narrow(width, a) \div 2^ShiftCount(width, b)

\* The flags are those of a comparison, and arithmetic leaves them unknown.
Holds(condition, flags) ==
    LET a == flags[2]
        b == flags[3]
        x == Narrow(flags[1], a)
        y == Narrow(flags[1], b)
    IN  CASE condition = "e"  -> a = b
          [] condition = "ne" -> a # b
          [] condition = "l"  -> x < y
          [] condition = "le" -> x <= y
          [] condition = "g"  -> x > y
          [] condition = "ge" -> x >= y
          [] condition = "b"  -> a < b
          [] condition = "be" -> a <= b
          [] condition = "a"  -> a > b
          [] condition = "ae" -> a >= b

\* idiv and div: the quotient of the register pair, which has to fit.
Divided(m, i) ==
    LET signed   == i.op = "idiv"
        high     == Fetched(m, Reg(DividendHigh), i.width)
        low      == Fetched(m, Reg(ReturnValue), i.width)
        b        == Fetched(m, i.to, i.width)
        dividend == (IF signed THEN Narrow(i.width, high) ELSE high) * 2^Bits(i.width) + low
        quotient == Quotient(dividend, IF signed THEN Narrow(i.width, b) ELSE b)
        fits     == IF signed THEN quotient = Narrow(i.width, quotient) ELSE high < b
        left     == Put(Skip(m), Reg(DividendHigh), i.width, Junk)
    IN  CASE b = 0 -> Stop(m, "traps")
          [] b # 0 /\ ~fits -> Stop(m, "traps")
          [] OTHER -> [Put(left, Reg(ReturnValue), i.width, quotient) EXCEPT !.flags = <<>>]

WithPushed(m, value) ==
    LET below == Unsigned(Word, m.regs[StackPointer] - Word)
    IN  [m EXCEPT !.regs[StackPointer] = below, !.memory = StoredAt(@, below, Word, value)]

OnTop(m) == FetchFrom(m.memory, m.regs[StackPointer], Word)

WithPopped(m) == [m EXCEPT !.regs[StackPointer] = Unsigned(Word, @ + Word)]

(***************************************************************************)
(* A call.  A function that is not in the code keeps what it has to keep   *)
(* and nothing else: not the other registers, nor what is above the values *)
(* width in rax, nor what is below the stack pointer, nor its arguments.   *)
(***************************************************************************)
CallOf(m, name) ==
    LET params == m.signatures[name].params
        returns == m.signatures[name].returns
        stack  == m.regs[StackPointer]
        onStack == IF Len(params) > 6 THEN Len(params) - 6 ELSE 0
        args   == [k \in DOMAIN params |->
                      Unsigned(params[k], IF k <= 6 THEN m.regs[ArgumentRegisters[k]]
                                          ELSE FetchFrom(m.memory, stack + 8 * (k - 7), Word))]
        answer == m.answers[Len(m.calls) + 1]
        kept   == {address \in DOMAIN m.memory : address >= stack + 8 * onStack}
    IN  CASE stack % 16 # 0 -> Stop(m, "misaligned")
          [] stack % 16 = 0 /\ name = m.name -> [WithPushed(m, m.next + 1) EXCEPT !.next = 1]
          [] stack % 16 = 0 /\ name # m.name /\ Len(m.calls) = Len(m.answers) -> Stop(m, "unanswered")
          [] OTHER ->
                [Skip(m) EXCEPT !.calls = Append(@, <<name, args>>), !.flags = <<>>,
                    !.memory = [address \in kept |-> @[address]],
                    !.regs = [r \in AllRegisters |->
                                CASE r = ReturnValue -> IF returns = <<>> THEN Junk
                                                        ELSE InWord(returns[1], answer)
                                  [] r \in Callers \ {ReturnValue} -> Junk
                                  [] OTHER -> @[r]]]

\* Back where everything began, the caller has to find its registers again.
Returned(m) ==
    LET isLast == m.regs[StackPointer] = m.top
        kept   == \A r \in Preserved \cup {FramePointer} : m.regs[r] = CallersValue(r)
    IN  CASE isLast /\ kept -> [m EXCEPT !.status = "returned", !.result = <<m.regs[ReturnValue]>>]
          [] isLast /\ ~kept -> Stop(m, "destroyed")
          [] ~isLast -> [WithPopped(m) EXCEPT !.next = OnTop(m)]

Execute(m, i) ==
    LET a == Fetched(m, i.to, i.width)
        b == Fetched(m, i.from, i.width)
    IN  CASE i.op = "label" -> Skip(m)
          [] i.op = "mov"   -> Put(Skip(m), i.to, i.width, b)
          [] i.op = "lea"   -> Put(Skip(m), i.to, Word, AddressOf(m, i.from))
          [] i.op \in Arithmetic \cup Shifts ->
                [Put(Skip(m), i.to, i.width, Combined(i.op, i.width, a, b)) EXCEPT !.flags = <<>>]
          [] i.op = "cmp"   -> [Skip(m) EXCEPT !.flags = <<i.width, a, b>>]
          [] i.op = "test"  -> [Skip(m) EXCEPT !.flags = <<i.width, a & b, 0>>]
          [] i.op = "extend" ->
                Put(Skip(m), Reg(DividendHigh), i.width,
                    IF Narrow(i.width, Fetched(m, Reg(ReturnValue), i.width)) < 0 THEN Junk ELSE 0)
          [] i.op \in {"idiv", "div"} -> Divided(m, i)
          [] i.op = "movzx" -> Put(Skip(m), i.to, i.width, Fetched(m, i.from, i.reads))
          [] i.op = "movsx" -> Put(Skip(m), i.to, i.width, Narrow(i.reads, Fetched(m, i.from, i.reads)))
          [] i.op = "push"  -> WithPushed(Skip(m), Fetched(m, i.to, Word))
          [] i.op = "pop"   -> Put(WithPopped(Skip(m)), i.to, Word, OnTop(m))
          [] i.op = "jmp"   -> Jump(m, i.to)
          [] i.op = "call"  -> CallOf(m, i.to[2])
          [] i.op = "ret"   -> Returned(m)
          [] i.op \in {"j", "set"} /\ m.flags = <<>> -> Stop(m, "unknown flags")
          [] i.op = "j" /\ m.flags # <<>> ->
                IF Holds(i.width, m.flags) THEN Jump(m, i.to) ELSE Skip(m)
          [] i.op = "set" /\ m.flags # <<>> -> Put(Skip(m), i.to, 1, Flag(Holds(i.width, m.flags)))

Stepped(m) ==
    LET i == m.code[m.next] IN IF IsEncodable(i) THEN Execute(m, i) ELSE Stop(m, "no such instruction")

\* In stretches, so that a long run does not nest deeply.
Stretch == 50

RECURSIVE RunStretch(_, _)
RunStretch(m, steps) ==
    IF m.status # "runs" \/ steps = 0 THEN m ELSE RunStretch(Stepped(m), steps - 1)

RECURSIVE RunAmd64(_, _)
RunAmd64(m, stretches) ==
    CASE m.status # "runs" -> m
      [] m.status = "runs" /\ stretches = 0 -> Stop(m, "out of fuel")
      [] OTHER -> RunAmd64(RunStretch(m, Stretch), stretches - 1)
=============================================================================
