---------------------------- MODULE ThreeAddress ----------------------------
(***************************************************************************)
(* Three-address code and what it means: middle/ir.rs.                     *)
(*                                                                         *)
(* A width is a number of bytes.  An instruction is a record; an operand   *)
(* that is absent is Nothing.  A function is a control-flow graph whose    *)
(* blocks list their edges beside the transfers in their code.             *)
(*                                                                         *)
(* The meaning is a machine: variables live in memory, where an object     *)
(* takes the bytes it was given and anything else one word; a temporary    *)
(* holds a word.  What a narrow write leaves above itself, and memory that *)
(* nothing wrote, is all ones.  A call of a function that is not defined   *)
(* here is an event, and takes its answer from the ones it was given.      *)
(***************************************************************************)
EXTENDS Widths, SequencesExt, Bitwise

-----------------------------------------------------------------------------
Nothing   == <<"nothing">>
Var(v)    == <<"var", v>>
Temp(prefix, n) == <<"temp", <<prefix, n>>>>
Imm(c)    == <<"imm", c>>
Label(to) == <<"label", to>>

\* The sign is that of Div, Shr, the comparisons and Convert, and from is the
\* width that Convert reads.
Instruction(op, width, dest, arg1, arg2) ==
    [ op |-> op, width |-> width, dest |-> dest, arg1 |-> arg1, arg2 |-> arg2,
      sign |-> "signed", from |-> width ]

Transfer(op, arg1, arg2) == Instruction(op, Word, Nothing, arg1, arg2)

IsRelational(op) == op \in {"==", "!=", "<", "<=", ">", ">="}

ResultWidth(i) == CASE IsRelational(i.op)  -> 4
                    [] i.op = "array_addr" -> Word
                    [] OTHER               -> i.width

EmptyBlock == [code |-> <<>>, preds |-> {}, succs |-> {}]

\* Mutant: the other end is not told.
LinkOneWay(blocks, from, to) == [blocks EXCEPT ![from].succs = @ \cup {to}]

\* CFG::add_edge.
Link(blocks, from, to) ==
    LET linked == [blocks EXCEPT ![from].succs = @ \cup {to}]
    IN  [linked EXCEPT ![to].preds = @ \cup {from}]

-----------------------------------------------------------------------------
(***************************************************************************)
(* What an operation computes, from operands that are unsigned numbers of  *)
(* its width.  A division that traps has no result.                        *)
(***************************************************************************)
Flag(condition) == IF condition THEN 1 ELSE 0

Size(a) == IF a < 0 THEN -a ELSE a

Quotient(a, b) == LET size == Size(a) \div Size(b)
                  IN  IF (a < 0) = (b < 0) THEN size ELSE -size

Traps(i, a, b) ==
    /\ i.op = "/"
    /\ \/ b = 0
       \/ /\ i.sign = "signed"
          /\ Narrow(i.width, a) = -(2^(Bits(i.width) - 1))
          /\ Narrow(i.width, b) = -1

Compute(i, a, b) ==
    LET Read(v) == IF i.sign = "signed" THEN Narrow(i.width, v) ELSE v
        count   == ShiftCount(i.width, b)
    IN  Unsigned(ResultWidth(i),
          CASE i.op = "+" -> a + b
            [] i.op = "-" -> a - b
            [] i.op = "*" -> Narrow(i.width, a) * Narrow(i.width, b)
            [] i.op = "/" -> Quotient(Read(a), Read(b))
            [] i.op = "&" -> a & b
            [] i.op = "|" -> a | b
            [] i.op = "^" -> a ^^ b
            [] i.op = "<<" -> (a % 2^(Bits(i.width) - count)) * 2^count
            [] i.op = ">>" -> Read(a) \div 2^count
            [] i.op = "==" -> Flag(a = b)
            [] i.op = "!=" -> Flag(a # b)
            [] i.op = "<"  -> Flag(Read(a) < Read(b))
            [] i.op = "<=" -> Flag(Read(a) <= Read(b))
            [] i.op = ">"  -> Flag(Read(a) > Read(b))
            [] i.op = ">=" -> Flag(Read(a) >= Read(b))
            [] i.op = "mov" -> a
            [] i.op = "convert" -> ReadAs(i.from, i.sign, a))

Computing == {"+", "-", "*", "/", "&", "|", "^", "<<", ">>", "==", "!=", "<", "<=", ">", ">=",
              "mov", "convert"}

-----------------------------------------------------------------------------
(***************************************************************************)
(* Memory and the machine.                                                 *)
(***************************************************************************)
Ones == 2^ByteBits - 1

FetchFrom(memory, address, width) ==
    MapThenSumSet(LAMBDA k : 2^Bits(k) * (IF address + k \in DOMAIN memory
                                          THEN memory[address + k] ELSE Ones),
                  0..(width - 1))

StoredAt(memory, address, width, value) ==
    [k \in address..(address + width - 1) |-> (value \div 2^Bits(k - address)) % 2^ByteBits]
        @@ memory

\* The word a register holds after a narrow write.
InWord(width, value) ==
    Unsigned(width, value) + (2^Bits(Word) - 2^Bits(width))

Frame(name, label, args, base) ==
    [ name |-> name, block |-> label, next |-> 1, args |-> args, base |-> base,
      temps |-> [n \in {} |-> 0], passed |-> <<>> ]

\* slots gives each variable its place in a frame of size bytes.
\* An object has the bytes it was given, and anything else a word.
Room(objects, v) ==
    LET bytes == IF v \in DOMAIN objects THEN objects[v] ELSE Word
    IN  ((bytes + Word - 1) \div Word) * Word

\* Where each variable goes, and at the number of variables the end.
Offsets(objects, variables) ==
    LET offset[v \in 0..variables] == IF v = 0 THEN 0 ELSE offset[v - 1] + Room(objects, v - 1)
    IN  offset

Machine(program, slots, size, name, args, answers) ==
    [ program |-> program, slots |-> slots, size |-> size,
      frames  |-> <<Frame(name, program[name].entry, args, Word)>>,
      memory  |-> [address \in {} |-> 0],
      answers |-> answers, calls |-> <<>>, result |-> <<>>, status |-> "runs" ]

Top(m) == Last(m.frames)
Address(m, operand) == Top(m).base + m.slots[operand[2]]

Value(m, operand, width) ==
    CASE operand[1] = "imm"  -> Unsigned(width, operand[2])
      [] operand[1] = "temp" -> IF operand[2] \in DOMAIN Top(m).temps
                                THEN Unsigned(width, Top(m).temps[operand[2]])
                                ELSE 2^Bits(width) - 1
      [] operand[1] = "var"  -> FetchFrom(m.memory, Address(m, operand), width)
      [] operand[1] = "nothing" -> 0

Assigned(m, operand, width, value) ==
    CASE operand[1] = "var"  -> [m EXCEPT !.memory = StoredAt(@, Address(m, operand), width, value)]
      [] operand[1] = "temp" ->
            [m EXCEPT !.frames[Len(m.frames)].temps = (operand[2] :> InWord(width, value)) @@ @]
      [] operand[1] = "nothing" -> m

Goto(m, label) == [m EXCEPT !.frames[Len(m.frames)].block = label,
                            !.frames[Len(m.frames)].next = 1]

Advanced(m) == [m EXCEPT !.frames[Len(m.frames)].next = @ + 1]

ElementOf(m, base, index, width) == Unsigned(Word, Address(m, base) + Value(m, index, Word) * width)

CallStep(m, i) ==
    LET name == i.arg1[2]
        args == Top(m).passed
        rest == [Advanced(m) EXCEPT !.frames[Len(m.frames)].passed = <<>>]
    IN  CASE name \in DOMAIN m.program ->
                [rest EXCEPT !.frames = Append(@, Frame(name, m.program[name].entry, args,
                                                        Top(m).base + m.size))]
          [] name \notin DOMAIN m.program /\ Len(m.calls) = Len(m.answers) ->
                [m EXCEPT !.status = "unanswered"]
          [] OTHER -> [Assigned(rest, i.dest, i.width, m.answers[Len(m.calls) + 1])
                            EXCEPT !.calls = Append(@, <<name, args>>)]

\* The caller's destination is that of the call it stands behind.
ReturnStep(m, i) ==
    LET value  == IF i.arg1 = Nothing THEN <<>> ELSE <<Value(m, i.arg1, i.width)>>
        below  == [m EXCEPT !.frames = Front(@)]
        call   == m.program[Top(below).name].blocks[Top(below).block].code[Top(below).next - 1]
    IN  CASE Len(m.frames) = 1 -> [m EXCEPT !.status = "returned", !.result = value]
          [] Len(m.frames) > 1 /\ value = <<>> -> below
          [] OTHER -> Assigned(below, call.dest, call.width, value[1])

MachineStep(m) ==
    LET frame == Top(m)
        code  == m.program[frame.name].blocks[frame.block].code
        i     == code[frame.next]
        Set(value) == Assigned(Advanced(m), i.dest, ResultWidth(i), value)
        Of(operand) == Value(m, operand, i.width)
    IN  IF frame.next > Len(code) THEN ReturnStep(m, Transfer("ret", Nothing, Nothing))
        ELSE CASE i.op \in Computing ->
                    LET a == Value(m, i.arg1, i.from)
                        b == Of(i.arg2)
                    IN  IF Traps(i, a, b) THEN [m EXCEPT !.status = "traps"] ELSE Set(Compute(i, a, b))
               [] i.op = "get_param"  -> Set(frame.args[i.arg1[2] + 1])
               [] i.op = "addr_of"    -> Set(Address(m, i.arg1))
               [] i.op = "array_addr" -> Set(ElementOf(m, i.arg1, i.arg2, i.width))
               [] i.op = "array_load" ->
                    Set(FetchFrom(m.memory, ElementOf(m, i.arg1, i.arg2, i.width), i.width))
               [] i.op = "load"  -> Set(FetchFrom(m.memory, Value(m, i.arg1, Word), i.width))
               [] i.op = "store" ->
                    [Advanced(m) EXCEPT !.memory =
                        StoredAt(@, Value(m, i.arg1, Word), i.width, Of(i.arg2))]
               [] i.op = "array_store" ->
                    [Advanced(m) EXCEPT !.memory =
                        StoredAt(@, ElementOf(m, i.dest, i.arg1, i.width), i.width, Of(i.arg2))]
               [] i.op = "jump" -> Goto(m, i.arg1[2])
               [] i.op = "branch_if" ->
                    IF Of(i.arg1) # 0 THEN Goto(m, i.arg2[2]) ELSE Advanced(m)
               [] i.op = "branch_if_not" ->
                    IF Of(i.arg1) = 0 THEN Goto(m, i.arg2[2]) ELSE Advanced(m)
               [] i.op = "param" ->
                    [Advanced(m) EXCEPT !.frames[Len(m.frames)].passed = Append(@, Of(i.arg1))]
               [] i.op = "call" -> CallStep(m, i)
               [] i.op = "ret"  -> ReturnStep(m, i)

RECURSIVE RunMachine(_, _)
RunMachine(m, fuel) ==
    CASE m.status # "runs" -> m
      [] m.status = "runs" /\ fuel = 0 -> [m EXCEPT !.status = "out of fuel"]
      [] OTHER -> RunMachine(MachineStep(m), fuel - 1)

=============================================================================
