--------------------------- MODULE ParallelMoves ----------------------------
(***************************************************************************)
(* Moves between registers that take effect as if at once:                 *)
(* emit_parallel_moves of backend/x86/lower.rs with its two callers,       *)
(* lower_call (values into argument registers) and                         *)
(* lower_incoming_arguments (argument registers into allocated homes).     *)
(*                                                                         *)
(* Every `mov' is executed as it is emitted; `contents' and `frame' are    *)
(* what the generated code leaves in the registers and in the homes of the *)
(* parameters kept in the frame.  A register starts out holding a token    *)
(* named like it.                                                          *)
(***************************************************************************)
EXTENDS Integers, FiniteSets, SequencesExt

CONSTANTS Registers,         \* every register but the scratch register
          Scratch,           \* abi::SCRATCH
          ArgumentRegisters, \* abi::ARGUMENT_REGISTERS, in order
          Allocatable,       \* RegisterFile::allocatable()
          InMemory,          \* an immediate, or what is in the frame
          NoRegister,        \* register_of answers None
          MaxParameters      \* bound on the parameters of the function

Sources == Registers \cup {InMemory}

ASSUME ParallelMovesAssumption ==
    /\ Scratch \notin Sources /\ InMemory \notin Registers
    /\ NoRegister \notin Registers
    /\ Allocatable \subseteq Registers
    /\ ArgumentRegisters \in Seq(Registers)
    /\ \A i, j \in 1 .. Len(ArgumentRegisters) :
          i # j => ArgumentRegisters[i] # ArgumentRegisters[j]
    /\ MaxParameters \in Nat

VARIABLES
    parameters, \* the GetParam run: where every parameter lives
    read,       \* how many of them were looked at
    moves,      \* the moves collected so far, in order
    walked,     \* how many of them were walked over, from the last one back
    written,    \* the destinations met on that walk
    emitting,   \* the loop of emit_parallel_moves has been entered
    pending,    \* the moves still to be emitted, in order
    contents,   \* what every register holds
    frame,      \* what the parameters with a home in the frame hold
    emitted     \* how many register `mov's were emitted

vars == <<parameters, read, moves, walked, written, emitting, pending, contents, frame, emitted>>

Move(dest, source) == [dest |-> dest, source |-> source]

\* What an operand holds when it is read.
Read(source) == IF source = InMemory THEN InMemory ELSE contents[source]

-----------------------------------------------------------------------------
(***************************************************************************)
(* lower_call: the i-th argument, wherever its value lives, goes to the    *)
(* i-th argument register.  The arguments past the last argument register  *)
(* have been pushed before.                                                *)
(***************************************************************************)
OutgoingMoves ==
    UNION {{[i \in 1 .. n |-> Move(ArgumentRegisters[i], homes[i])] :
              homes \in [1 .. n -> Allocatable \cup {InMemory}]} :
             n \in 0 .. Len(ArgumentRegisters)}

\* FrameLayout: in a register, in the frame, or (when pinned) in both.
ParameterHomes ==
    {h \in [register : Allocatable \cup {NoRegister}, inFrame : BOOLEAN] :
        h.register = NoRegister => h.inFrame}

\* abi::incoming_argument
IncomingArgument(i) ==
    IF i <= Len(ArgumentRegisters) THEN ArgumentRegisters[i] ELSE InMemory

Init ==
    /\ \/ moves \in OutgoingMoves /\ parameters = <<>>
       \/ /\ \E n \in 1 .. MaxParameters : parameters \in [1 .. n -> ParameterHomes]
          /\ moves = <<>>
    /\ read = 0
    /\ walked = 0
    /\ written = {}
    /\ emitting = FALSE
    /\ pending = <<>>
    /\ contents = [r \in Registers \cup {Scratch} |-> r]
    /\ frame = <<>>
    /\ emitted = 0

(***************************************************************************)
(* One GetParam of the run.  A home in the frame is written at once, a     *)
(* stack-passed argument through the scratch register; a home in a         *)
(* register has to wait until the whole run has been seen.                 *)
(***************************************************************************)
\* Mutants: every parameter is lowered in isolation, or a move is recorded
\* for a parameter that has no register.
LowerInIsolation ==
    /\ ~emitting
    /\ read < Len(parameters)
    /\ read' = read + 1
    /\ LET home == parameters[read + 1]
           source == IncomingArgument(read + 1)
       IN  /\ frame' = IF home.inFrame THEN Append(frame, Read(source))
                       ELSE Append(frame, NoRegister)
           /\ contents' = IF home.register = NoRegister THEN contents
                          ELSE [contents EXCEPT ![home.register] = Read(source)]
    /\ UNCHANGED <<parameters, moves, walked, written, emitting, pending, emitted>>

LowerAlwaysMoving ==
    /\ ~emitting
    /\ read < Len(parameters)
    /\ read' = read + 1
    /\ LET home == parameters[read + 1]
           source == IncomingArgument(read + 1)
       IN  /\ frame' = IF home.inFrame THEN Append(frame, Read(source))
                       ELSE Append(frame, NoRegister)
           /\ moves' = Append(moves, Move(home.register, source))
    /\ UNCHANGED <<parameters, walked, written, emitting, pending, contents, emitted>>

LowerGetParam ==
    /\ ~emitting
    /\ read < Len(parameters)
    /\ read' = read + 1
    /\ LET home == parameters[read + 1]
           source == IncomingArgument(read + 1)
       IN  /\ frame' = IF home.inFrame THEN Append(frame, Read(source))
                       ELSE Append(frame, NoRegister)
           /\ contents' = IF home.inFrame /\ source = InMemory
                          THEN [contents EXCEPT ![Scratch] = InMemory] ELSE contents
           /\ moves' = IF home.register = NoRegister THEN moves
                       ELSE Append(moves, Move(home.register, source))
    /\ UNCHANGED <<parameters, walked, written, emitting, pending, emitted>>

(***************************************************************************)
(* Two parameters may have been given one register when the first is never *)
(* read.  keep_last_write_per_register walks backwards, so the first move  *)
(* it meets that writes a register is the last one that does, and drops    *)
(* the others; emit_parallel_moves drops the moves of a register to        *)
(* itself.  A turn of the walk is one step, which also decides the second  *)
(* question.  The destinations of a call differ, and nothing is dropped.   *)
(***************************************************************************)
\* Mutants: earlier writes, or moves of a register to itself, are kept.
KeepsEveryWrite(move) == TRUE

KeepsSelfMoves(move) == TRUE

IsLastWrite(move) == move.dest \notin written

IsRealMove(move) == move.source # move.dest

KeepLastWrite ==
    /\ read = Len(parameters) /\ walked < Len(moves)
    /\ LET move == moves[Len(moves) - walked]
       IN  /\ written' = written \cup {move.dest}
           /\ pending' = IF IsLastWrite(move) /\ IsRealMove(move)
                         THEN <<move>> \o pending ELSE pending
    /\ walked' = walked + 1
    /\ UNCHANGED <<parameters, read, moves, emitting, contents, frame, emitted>>

StartEmitting ==
    /\ ~emitting /\ read = Len(parameters) /\ walked = Len(moves)
    /\ emitting' = TRUE
    /\ UNCHANGED <<parameters, read, moves, walked, written, pending, contents, frame, emitted>>

\* reads_register
IsRead(register) == \E i \in 1 .. Len(pending) : pending[i].source = register

\* The first move whose destination no pending move reads.
IsFirstReady(i) ==
    /\ ~IsRead(pending[i].dest)
    /\ \A j \in 1 .. i - 1 : IsRead(pending[j].dest)

EmitReady ==
    /\ emitting
    /\ \E i \in 1 .. Len(pending) :
          /\ IsFirstReady(i)
          /\ contents' = [contents EXCEPT ![pending[i].dest] = Read(pending[i].source)]
          /\ pending' = RemoveAt(pending, i)
    /\ emitted' = emitted + 1
    /\ UNCHANGED <<parameters, read, moves, walked, written, emitting, frame>>

AllAreRead == \A i \in 1 .. Len(pending) : IsRead(pending[i].dest)

\* Mutant: the readers are left reading the overwritten register.
LeavesReader(move, stashed) == move

Redirect(move, stashed) ==
    [move EXCEPT !.source = IF @ = stashed THEN Scratch ELSE @]

(***************************************************************************)
(* Every pending destination is still read: the first one is stashed in    *)
(* the scratch register, its readers read it there, and its own move,      *)
(* which is now ready, is emitted.                                         *)
(***************************************************************************)
BreakCycle ==
    /\ emitting /\ pending # <<>> /\ AllAreRead
    /\ LET stashed == pending[1].dest
           redirected == [i \in 1 .. Len(pending) |-> Redirect(pending[i], stashed)]
       IN  /\ contents' = [contents EXCEPT
                 ![Scratch] = contents[stashed],
                 ![stashed] = Read(redirected[1].source)]
           /\ pending' = Tail(redirected)
    /\ emitted' = emitted + 2
    /\ UNCHANGED <<parameters, read, moves, walked, written, emitting, frame>>

Next == LowerGetParam \/ KeepLastWrite \/ StartEmitting \/ EmitReady \/ BreakCycle

Spec == Init /\ [][Next]_vars /\ WF_vars(Next)

Finished == emitting /\ pending = <<>>

-----------------------------------------------------------------------------
TypeOK ==
    /\ parameters \in Seq(ParameterHomes)
    /\ read \in 0 .. Len(parameters)
    /\ moves \in Seq([dest : Registers, source : Sources])
    /\ walked \in 0 .. Len(moves)
    /\ written \subseteq Registers
    /\ emitting \in BOOLEAN
    /\ pending \in Seq([dest : Registers, source : Sources \cup {Scratch}])
    /\ contents \in [Registers \cup {Scratch} -> Sources \cup {Scratch}]
    /\ frame \in Seq(Sources \cup {NoRegister})
    /\ emitted \in Nat

(***************************************************************************)
(* The moves run one after another do what the group asks for at once, in  *)
(* every register but the scratch register, and the loop ends.  What a     *)
(* group asks for: an outgoing argument register receives its argument,    *)
(* and a register given to parameters receives the last one of them.       *)
(***************************************************************************)
OutgoingRequest ==
    [r \in {moves[i].dest : i \in 1 .. Len(moves)} |->
        moves[CHOOSE i \in 1 .. Len(moves) : moves[i].dest = r].source]

LastParameterIn(r) ==
    CHOOSE i \in 1 .. Len(parameters) :
       /\ parameters[i].register = r
       /\ \A j \in i + 1 .. Len(parameters) : parameters[j].register # r

IncomingRequest ==
    [r \in {parameters[i].register : i \in 1 .. Len(parameters)} \ {NoRegister} |->
        IncomingArgument(LastParameterIn(r))]

Request == IF parameters = <<>> THEN OutgoingRequest ELSE IncomingRequest

Parallel == INSTANCE SimultaneousAssignment WITH
    Places   <- Registers,
    Requests <- UNION {[D -> Sources] : D \in SUBSET Registers},
    request  <- Request,
    contents <- [r \in Registers |-> IF Finished THEN contents[r] ELSE r],
    done     <- Finished

ImplementsParallelMove == Parallel!Spec

(***************************************************************************)
(* A parameter with a home in the frame is stored there as it arrived, not *)
(* as a register move of the same run left it (lower_incoming_arguments:   *)
(* "while every incoming argument register still holds the caller's        *)
(* value").                                                                *)
(***************************************************************************)
FrameParametersArrive ==
    \A i \in 1 .. read : parameters[i].inFrame => frame[i] = IncomingArgument(i)

(***************************************************************************)
(* The one scratch register is enough for any number of cycles: whenever   *)
(* a cycle has to be broken, no pending move still reads the scratch       *)
(* register, and what remains is a permutation of registers.               *)
(***************************************************************************)
ScratchIsFreeForTheNextCycle ==
    (emitting /\ pending # <<>> /\ AllAreRead) =>
       {pending[i].source : i \in 1 .. Len(pending)}
          = {pending[i].dest : i \in 1 .. Len(pending)}

(***************************************************************************)
(* Neither too many moves nor too few: one for every register that         *)
(* changes, plus one for every cycle.                                      *)
(***************************************************************************)
Changing == {r \in DOMAIN Request : Request[r] # r}

SourcesOf(C) == {Request[r] : r \in C}

Cycles ==
    {C \in SUBSET Changing :
        /\ C # {} /\ SourcesOf(C) = C
        /\ \A D \in SUBSET C : (D # {} /\ SourcesOf(D) = D) => D = C}

FewestMoves == Finished => emitted = Cardinality(Changing) + Cardinality(Cycles)
=============================================================================
