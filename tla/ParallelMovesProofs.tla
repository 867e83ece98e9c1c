------------------------- MODULE ParallelMovesProofs -------------------------
(***************************************************************************)
(* Moves between registers are right for any number of registers,          *)
(* arguments and parameters: every parameter arrives, one scratch register *)
(* is enough, and when the moves have all run, every register holds what   *)
(* it would if all had been made at once.                                  *)
(***************************************************************************)
EXTENDS ParallelMoves, FiniteLemmas

-----------------------------------------------------------------------------
\* The positions of the moves walked over.
Behind == Len(moves) - walked + 1 .. Len(moves)

\* The k-th move is the last that writes its register.
WritesLast(k) == \A j \in k + 1 .. Len(moves) : moves[j].dest # moves[k].dest

\* Of the parameters looked at, the i-th is the last with its register.
GivenLast(i) == \A j \in i + 1 .. read : parameters[j].register # parameters[i].register

\* The moves are the arguments of a call, or what the parameters ask for.
Collected ==
    /\ \A k \in 1 .. Len(moves) : \E i \in 1 .. read : parameters[i].register = moves[k].dest
    /\ \A i \in 1 .. read :
          parameters[i].register # NoRegister /\ GivenLast(i) =>
             \E k \in 1 .. Len(moves) :
                /\ moves[k].dest = parameters[i].register
                /\ moves[k].source = IncomingArgument(i)
                /\ WritesLast(k)

Origin ==
    \/ parameters = <<>> /\ moves \in OutgoingMoves
    \/ parameters # <<>> /\ Collected

\* Until the first move is emitted, every register holds what it held.
NothingMovedEarly == ~emitting => \A r \in Registers : contents[r] = r

\* One phase after another.
Phases ==
    /\ read < Len(parameters) => walked = 0
    /\ emitting => read = Len(parameters) /\ walked = Len(moves)

Stored == Len(frame) = read /\ FrameParametersArrive

\* What the walk keeps: the last write to every register it has met, unless
\* that is a move of the register to itself.
WalkedOver ==
    /\ written = {moves[k].dest : k \in Behind}
    /\ ~emitting =>
          /\ \A i \in 1 .. Len(pending) :
                \E k \in Behind : pending[i] = moves[k] /\ WritesLast(k)
          /\ \A k \in Behind :
                WritesLast(k) => \/ moves[k].source = moves[k].dest
                                 \/ \E i \in 1 .. Len(pending) : pending[i] = moves[k]

OneMoveEach == \A i, j \in 1 .. Len(pending) : pending[i].dest = pending[j].dest => i = j

RealMoves == \A i \in 1 .. Len(pending) : pending[i].source # pending[i].dest

Awaited(r) == \E i \in 1 .. Len(pending) : pending[i].dest = r

\* A pending move finds at its source what its destination is to receive, and
\* every other register has received it.
Carried ==
    emitting =>
       /\ \A i \in 1 .. Len(pending) :
             /\ pending[i].dest \in DOMAIN Request
             /\ Read(pending[i].source) = Request[pending[i].dest]
       /\ \A r \in Registers :
             ~Awaited(r) => contents[r] = IF r \in DOMAIN Request THEN Request[r] ELSE r

MoveInvariant ==
    /\ TypeOK
    /\ Origin /\ NothingMovedEarly /\ Phases /\ Stored /\ WalkedOver
    /\ OneMoveEach /\ RealMoves /\ Carried

Moves == [dest : Registers, source : Sources]

-----------------------------------------------------------------------------
LEMMA ArgumentFacts ==
    \A i \in Nat \ {0} :
       /\ IncomingArgument(i) \in Sources
       /\ \A r \in Registers : r # NoRegister /\ r # InMemory /\ r # Scratch
<1>1. Len(ArgumentRegisters) \in Nat
      /\ \A i \in 1 .. Len(ArgumentRegisters) : ArgumentRegisters[i] \in Registers
  BY ParallelMovesAssumption
<1> QED BY <1>1, ParallelMovesAssumption DEF IncomingArgument, Sources

(***************************************************************************)
(* The argument registers differ, so a call moves to each at most once.    *)
(***************************************************************************)
LEMMA OutgoingFacts ==
    ASSUME moves \in OutgoingMoves
    PROVE  /\ moves \in Seq(Moves)
           /\ \A i, j \in 1 .. Len(moves) : moves[i].dest = moves[j].dest => i = j
<1>0. PICK n \in 0 .. Len(ArgumentRegisters) :
         \E homes \in [1 .. n -> Allocatable \cup {InMemory}] :
            moves = [i \in 1 .. n |-> Move(ArgumentRegisters[i], homes[i])]
  BY DEF OutgoingMoves
<1>1. PICK homes \in [1 .. n -> Allocatable \cup {InMemory}] :
         moves = [i \in 1 .. n |-> Move(ArgumentRegisters[i], homes[i])]
  BY <1>0
<1>2. /\ Len(ArgumentRegisters) \in Nat /\ n \in Nat
      /\ \A i \in 1 .. n : i \in 1 .. Len(ArgumentRegisters)
  BY <1>0, ParallelMovesAssumption
<1>3. \A i \in 1 .. n : /\ ArgumentRegisters[i] \in Registers
                        /\ homes[i] \in Sources
  BY <1>1, <1>2, ParallelMovesAssumption DEF Sources
<1>4. \A i \in 1 .. n : /\ moves[i] = Move(ArgumentRegisters[i], homes[i])
                        /\ moves[i] \in Moves /\ moves[i].dest = ArgumentRegisters[i]
  BY <1>1, <1>3 DEF Move, Moves
<1>5. moves \in Seq(Moves) /\ Len(moves) = n
  BY <1>1, <1>2, <1>4
<1>6. \A i, j \in 1 .. n : moves[i].dest = moves[j].dest => i = j
  BY <1>2, <1>4, ParallelMovesAssumption
<1> QED BY <1>5, <1>6

(***************************************************************************)
(* The last of the parameters given a register.                            *)
(***************************************************************************)
LEMMA LastParameterFacts ==
    ASSUME parameters \in Seq(ParameterHomes),
           NEW r, \E i \in 1 .. Len(parameters) : parameters[i].register = r
    PROVE  /\ LastParameterIn(r) \in 1 .. Len(parameters)
           /\ parameters[LastParameterIn(r)].register = r
           /\ \A j \in LastParameterIn(r) + 1 .. Len(parameters) : parameters[j].register # r
<1> DEFINE T == {i \in 1 .. Len(parameters) : parameters[i].register = r}
<1>1. Len(parameters) \in Nat /\ T \in SUBSET (1 .. Len(parameters)) /\ T # {}
  OBVIOUS
<1>2. PICK k \in T : \A j \in T : j <= k
  <2> HIDE DEF T
  <2> QED BY <1>1, LastOfPositions
<1>3. /\ k \in 1 .. Len(parameters) /\ parameters[k].register = r
      /\ \A j \in k + 1 .. Len(parameters) : parameters[j].register # r
  <2>1. ASSUME NEW j \in k + 1 .. Len(parameters), parameters[j].register = r PROVE FALSE
    <3>1. j \in T /\ k \in 1 .. Len(parameters) /\ j > k
      BY <1>1, <2>1
    <3> QED BY <1>2, <3>1
  <2> QED BY <1>2, <2>1
<1> QED BY <1>3 DEF LastParameterIn

(***************************************************************************)
(* What a group of moves asks for: the last write to every register.       *)
(***************************************************************************)
LEMMA RequestFacts ==
    ASSUME TypeOK, Origin, read = Len(parameters)
    PROVE  /\ DOMAIN Request = {moves[k].dest : k \in 1 .. Len(moves)}
           /\ \A k \in 1 .. Len(moves) :
                 WritesLast(k) => Request[moves[k].dest] = moves[k].source
<1>0. moves \in Seq(Moves) /\ parameters \in Seq(ParameterHomes)
      /\ Len(moves) \in Nat /\ Len(parameters) \in Nat
  BY DEF TypeOK, Moves
<1>1. CASE parameters = <<>> /\ moves \in OutgoingMoves
  <2>1. Request = OutgoingRequest
    BY <1>1 DEF Request
  <2>2. ASSUME NEW k \in 1 .. Len(moves)
        PROVE  OutgoingRequest[moves[k].dest] = moves[k].source
    <3>1. (CHOOSE i \in 1 .. Len(moves) : moves[i].dest = moves[k].dest) = k
      BY <1>1, OutgoingFacts
    <3> QED BY <3>1 DEF OutgoingRequest
  <2> QED BY <2>1, <2>2 DEF OutgoingRequest
<1>2. CASE parameters # <<>> /\ Collected
  <2>1. Request = IncomingRequest
    BY <1>2 DEF Request
  <2>2. ASSUME NEW r \in {parameters[i].register : i \in 1 .. Len(parameters)} \ {NoRegister}
        PROVE  \E k \in 1 .. Len(moves) :
                  /\ moves[k].dest = r /\ WritesLast(k)
                  /\ moves[k].source = IncomingArgument(LastParameterIn(r))
    <3>1. PICK i : i = LastParameterIn(r)
      OBVIOUS
    <3>2. /\ i \in 1 .. read /\ parameters[i].register = r
          /\ \A j \in i + 1 .. read : parameters[j].register # r
      BY <1>0, <3>1, LastParameterFacts
    <3> QED BY <1>2, <3>1, <3>2, SMTT(30) DEF Collected, GivenLast
  <2>3. \A k \in 1 .. Len(moves) :
           moves[k].dest \in {parameters[i].register : i \in 1 .. Len(parameters)} \ {NoRegister}
    <3>1. ASSUME NEW k \in 1 .. Len(moves) PROVE moves[k].dest # NoRegister
      <4>1. moves[k].dest \in Registers
        <5>1. moves[k] \in Moves
          BY <1>0
        <5> QED BY <5>1 DEF Moves
      <4> QED BY <4>1, ParallelMovesAssumption
    <3>2. ASSUME NEW k \in 1 .. Len(moves)
          PROVE  moves[k].dest \in {parameters[i].register : i \in 1 .. Len(parameters)}
      BY <1>2, <3>2 DEF Collected
    <3> QED BY <3>1, <3>2
  <2>4. DOMAIN IncomingRequest = {moves[k].dest : k \in 1 .. Len(moves)}
    BY <2>2, <2>3 DEF IncomingRequest
  <2>5. ASSUME NEW k \in 1 .. Len(moves), WritesLast(k)
        PROVE  IncomingRequest[moves[k].dest] = moves[k].source
    <3>1. PICK l \in 1 .. Len(moves) :
             /\ moves[l].dest = moves[k].dest /\ WritesLast(l)
             /\ moves[l].source = IncomingArgument(LastParameterIn(moves[k].dest))
      BY <2>2, <2>3
    <3>2. l = k
      BY <1>0, <2>5, <3>1 DEF WritesLast
    <3> QED BY <2>3, <3>1, <3>2 DEF IncomingRequest
  <2> QED BY <2>1, <2>4, <2>5
<1> QED BY <1>1, <1>2 DEF Origin

LEMMA InitKeeps == Init => MoveInvariant
<1> SUFFICES ASSUME Init PROVE MoveInvariant
  OBVIOUS
<1>1. moves \in Seq(Moves) /\ parameters \in Seq(ParameterHomes)
  <2>1. CASE moves \in OutgoingMoves /\ parameters = <<>>
    BY <2>1, OutgoingFacts
  <2>2. CASE (\E n \in 1 .. MaxParameters : parameters \in [1 .. n -> ParameterHomes]) /\ moves = <<>>
    <3>1. PICK n \in 1 .. MaxParameters : parameters \in [1 .. n -> ParameterHomes]
      BY <2>2
    <3>2. n \in Nat
      BY <3>1, ParallelMovesAssumption
    <3> QED BY <2>2, <3>1, <3>2
  <2> QED BY <2>1, <2>2 DEF Init
<1>2. TypeOK
  <2>1. contents \in [Registers \cup {Scratch} -> Sources \cup {Scratch}]
    BY DEF Init, Sources
  <2>2. /\ read \in 0 .. Len(parameters) /\ walked \in 0 .. Len(moves)
        /\ written \subseteq Registers /\ emitting \in BOOLEAN /\ emitted \in Nat
    <3>1. Len(parameters) \in Nat /\ Len(moves) \in Nat
      BY <1>1
    <3>2. read = 0 /\ walked = 0 /\ written = {} /\ emitted = 0
      BY DEF Init
    <3>3. emitting \in BOOLEAN
      BY DEF Init
    <3> QED BY <3>1, <3>2, <3>3
  <2>3. /\ pending \in Seq([dest : Registers, source : Sources \cup {Scratch}])
        /\ frame \in Seq(Sources \cup {NoRegister})
    BY DEF Init
  <2> QED BY <1>1, <2>1, <2>2, <2>3 DEF TypeOK, Moves
<1>3. Origin
  <2>1. CASE moves \in OutgoingMoves /\ parameters = <<>>
    BY <2>1 DEF Origin
  <2>2. CASE (\E n \in 1 .. MaxParameters : parameters \in [1 .. n -> ParameterHomes]) /\ moves = <<>>
    <3>1. PICK n \in 1 .. MaxParameters : parameters \in [1 .. n -> ParameterHomes]
      BY <2>2
    <3>2. parameters # <<>>
      BY <3>1, ParallelMovesAssumption
    <3> QED BY <2>2, <3>2 DEF Origin, Collected, Init
  <2> QED BY <2>1, <2>2 DEF Init
<1>4. Behind = {} /\ Len(pending) = 0
  BY <1>1 DEF Init, Behind
<1>5. NothingMovedEarly /\ Phases
  BY DEF Init, NothingMovedEarly, Phases
<1>6. Stored
  BY DEF Init, Stored, FrameParametersArrive
<1>7. WalkedOver /\ OneMoveEach /\ RealMoves
  BY <1>4 DEF Init, WalkedOver, OneMoveEach, RealMoves
<1>8. Carried
  BY DEF Init, Carried
<1> QED BY <1>2, <1>3, <1>5, <1>6, <1>7, <1>8 DEF MoveInvariant

-----------------------------------------------------------------------------
(***************************************************************************)
(* A parameter is stored while every register holds what it held, and adds *)
(* the move that is now the last to write its register.                    *)
(***************************************************************************)
LEMMA GetParamKeeps ==
    ASSUME MoveInvariant, LowerGetParam
    PROVE  MoveInvariant'
<1>1. PICK home : home = parameters[read + 1]
  OBVIOUS
<1>2. PICK source : source = IncomingArgument(read + 1)
  OBVIOUS
<1>3. /\ parameters \in Seq(ParameterHomes) /\ read \in Nat /\ read < Len(parameters)
      /\ Len(parameters) \in Nat /\ read + 1 \in 1 .. Len(parameters)
      /\ moves \in Seq(Moves) /\ Len(moves) \in Nat
      /\ frame \in Seq(Sources \cup {NoRegister}) /\ Len(frame) = read
      /\ contents \in [Registers \cup {Scratch} -> Sources \cup {Scratch}]
      /\ ~emitting /\ walked = 0
  <2>1. TypeOK /\ Phases /\ Stored /\ ~emitting /\ read < Len(parameters)
    BY DEF MoveInvariant, LowerGetParam
  <2> QED BY <2>1 DEF TypeOK, Phases, Stored, Moves
<1>4. /\ home \in ParameterHomes /\ home.register \in Allocatable \cup {NoRegister}
      /\ source \in Sources
  <2>1. home \in ParameterHomes
    BY <1>1, <1>3
  <2>2. source \in Sources
    BY <1>2, <1>3, ArgumentFacts
  <2> QED BY <2>1, <2>2 DEF ParameterHomes
<1>5. \A r \in Registers : contents[r] = r
  BY <1>3 DEF MoveInvariant, NothingMovedEarly
<1>6. Read(source) = source
  BY <1>4, <1>5 DEF Read, Sources
<1>7. /\ read' = read + 1
      /\ frame' = Append(frame, IF home.inFrame THEN source ELSE NoRegister)
      /\ contents' = IF home.inFrame /\ source = InMemory
                     THEN [contents EXCEPT ![Scratch] = InMemory] ELSE contents
      /\ moves' = IF home.register = NoRegister THEN moves
                  ELSE Append(moves, Move(home.register, source))
  BY <1>1, <1>2, <1>6 DEF LowerGetParam
<1>8. UNCHANGED <<parameters, walked, written, emitting, pending, emitted>>
  BY DEF LowerGetParam
<1>9. /\ contents' \in [Registers \cup {Scratch} -> Sources \cup {Scratch}]
      /\ \A r \in Registers : contents'[r] = r
  BY <1>3, <1>5, <1>7, ParallelMovesAssumption DEF Sources
<1>10. /\ frame' \in Seq(Sources \cup {NoRegister}) /\ Len(frame') = read + 1
       /\ \A i \in 1 .. read : frame'[i] = frame[i]
       /\ frame'[read + 1] = IF home.inFrame THEN source ELSE NoRegister
  <2>1. PICK stored : stored = IF home.inFrame THEN source ELSE NoRegister
    OBVIOUS
  <2>2. stored \in Sources \cup {NoRegister}
    BY <1>4, <2>1
  <2>3. /\ Append(frame, stored) \in Seq(Sources \cup {NoRegister})
        /\ Len(Append(frame, stored)) = read + 1
        /\ \A i \in 1 .. read + 1 :
              Append(frame, stored)[i] = IF i <= read THEN frame[i] ELSE stored
    BY <1>3, <2>2, AppendFacts
  <2> QED BY <1>3, <1>7, <2>1, <2>3
<1>11. /\ moves' \in Seq(Moves) /\ Len(moves') \in Nat
       /\ \A k \in 1 .. Len(moves) : k \in 1 .. Len(moves') /\ moves'[k] = moves[k]
       /\ home.register = NoRegister => Len(moves') = Len(moves)
       /\ home.register # NoRegister =>
             /\ Len(moves') = Len(moves) + 1
             /\ moves'[Len(moves) + 1] = Move(home.register, source)
  <2>1. CASE home.register = NoRegister
    BY <1>3, <1>7, <2>1
  <2>2. CASE home.register # NoRegister
    <3>1. PICK move : move = Move(home.register, source)
      OBVIOUS
    <3>2. move \in Moves
      BY <1>4, <2>2, <3>1, ParallelMovesAssumption DEF Move, Moves
    <3>3. moves' = Append(moves, move)
      BY <1>7, <2>2, <3>1
    <3>4. /\ Append(moves, move) \in Seq(Moves) /\ Len(Append(moves, move)) = Len(moves) + 1
          /\ \A k \in 1 .. Len(moves) + 1 :
                Append(moves, move)[k] = IF k <= Len(moves) THEN moves[k] ELSE move
      BY <1>3, <3>2, AppendFacts
    <3>5. /\ moves' \in Seq(Moves) /\ Len(moves') = Len(moves) + 1
          /\ \A k \in 1 .. Len(moves) + 1 :
                moves'[k] = IF k <= Len(moves) THEN moves[k] ELSE move
      BY <3>3, <3>4
    <3>6. \A k \in 1 .. Len(moves) : k \in 1 .. Len(moves) + 1 /\ k <= Len(moves)
      BY <1>3
    <3>7. Len(moves) + 1 \in 1 .. Len(moves) + 1 /\ ~(Len(moves) + 1 <= Len(moves))
      BY <1>3
    <3> QED BY <1>3, <2>2, <3>1, <3>5, <3>6, <3>7
  <2> QED BY <2>1, <2>2
<1>12. Origin'
  <2>1. Collected /\ parameters # <<>>
    BY <1>3 DEF MoveInvariant, Origin
  <2>2. ASSUME NEW k \in 1 .. Len(moves')
        PROVE  \E i \in 1 .. read + 1 : parameters[i].register = moves'[k].dest
    <3>1. CASE k \in 1 .. Len(moves)
      <4>1. PICK i \in 1 .. read : parameters[i].register = moves[k].dest
        BY <2>1, <3>1 DEF Collected
      <4>2. i \in 1 .. read + 1
        BY <1>3
      <4> QED BY <1>11, <3>1, <4>1, <4>2
    <3>2. CASE k \notin 1 .. Len(moves)
      <4>1. k = Len(moves) + 1 /\ home.register # NoRegister
        BY <1>3, <1>11, <3>2
      <4>2. moves'[k].dest = home.register
        BY <1>11, <4>1 DEF Move
      <4>3. read + 1 \in 1 .. read + 1
        BY <1>3
      <4> QED BY <1>1, <4>2, <4>3
    <3> QED BY <3>1, <3>2
  <2>3. ASSUME NEW i \in 1 .. read + 1, parameters[i].register # NoRegister, GivenLast(i)'
        PROVE  \E k \in 1 .. Len(moves') :
                  /\ moves'[k].dest = parameters[i].register
                  /\ moves'[k].source = IncomingArgument(i)
                  /\ WritesLast(k)'
    <3>1. CASE i = read + 1
      <4>1. PICK n : n = Len(moves) + 1
        OBVIOUS
      <4>2. Len(moves') = n /\ moves'[n] = Move(home.register, source) /\ n \in 1 .. Len(moves')
        BY <1>1, <1>3, <1>11, <2>3, <3>1, <4>1
      <4>3. WritesLast(n)'
        BY <1>3, <4>1, <4>2 DEF WritesLast
      <4>4. moves'[n].dest = home.register /\ moves'[n].source = source
        BY <4>2 DEF Move
      <4>5. home.register = parameters[i].register /\ source = IncomingArgument(i)
        BY <1>1, <1>2, <3>1
      <4> QED BY <4>2, <4>3, <4>4, <4>5
    <3>2. CASE i # read + 1
      <4>1. i \in 1 .. read /\ read + 1 \in i + 1 .. read + 1
            /\ \A j \in i + 1 .. read : j \in i + 1 .. read + 1
        BY <1>3, <3>2
      <4>2. GivenLast(i) /\ home.register # parameters[i].register
        BY <1>1, <1>7, <1>8, <2>3, <4>1 DEF GivenLast
      <4>3. PICK k \in 1 .. Len(moves) :
               /\ moves[k].dest = parameters[i].register
               /\ moves[k].source = IncomingArgument(i)
               /\ WritesLast(k)
        BY <2>1, <2>3, <4>1, <4>2 DEF Collected
      <4>4. ASSUME NEW j \in k + 1 .. Len(moves') PROVE moves'[j].dest # moves'[k].dest
        <5>1. CASE j \in 1 .. Len(moves)
          <6>1. j \in k + 1 .. Len(moves)
            BY <4>4, <5>1
          <6> QED BY <1>11, <4>3, <5>1, <6>1 DEF WritesLast
        <5>2. CASE j \notin 1 .. Len(moves)
          <6>1. j = Len(moves) + 1 /\ home.register # NoRegister
            BY <1>3, <1>11, <4>4, <5>2
          <6> QED BY <1>11, <4>2, <4>3, <6>1 DEF Move
        <5> QED BY <5>1, <5>2
      <4> QED BY <1>11, <4>3, <4>4 DEF WritesLast
    <3> QED BY <3>1, <3>2
  <2> QED BY <1>7, <1>8, <2>1, <2>2, <2>3 DEF Origin, Collected
<1>13. WalkedOver' /\ OneMoveEach' /\ RealMoves'
  <2>1. Behind = {} /\ Behind' = {}
    BY <1>3, <1>8, <1>11 DEF Behind
  <2>2. written = {} /\ \A i \in 1 .. Len(pending) : i \in {}
    BY <1>3, <2>1 DEF MoveInvariant, WalkedOver
  <2> QED BY <1>8, <2>1, <2>2 DEF WalkedOver, OneMoveEach, RealMoves
<1>14. Stored'
  <2>1. ASSUME NEW i \in 1 .. read + 1, parameters[i].inFrame
        PROVE  frame'[i] = IncomingArgument(i)
    <3>1. CASE i = read + 1
      BY <1>1, <1>2, <1>10, <2>1, <3>1
    <3>2. CASE i # read + 1
      <4>1. i \in 1 .. read
        BY <1>3, <3>2
      <4> QED BY <1>10, <2>1, <4>1 DEF MoveInvariant, Stored, FrameParametersArrive
    <3> QED BY <3>1, <3>2
  <2> QED BY <1>7, <1>8, <1>10, <2>1 DEF Stored, FrameParametersArrive
<1>15. TypeOK'
  <2>1. read' \in 0 .. Len(parameters) /\ walked' \in 0 .. Len(moves')
    BY <1>3, <1>7, <1>8, <1>11
  <2>2. TypeOK
    BY DEF MoveInvariant
  <2> QED BY <1>8, <1>9, <1>10, <1>11, <2>1, <2>2 DEF TypeOK, Moves
<1>16. NothingMovedEarly' /\ Phases' /\ Carried'
  BY <1>3, <1>8, <1>9 DEF NothingMovedEarly, Phases, Carried
<1> QED BY <1>12, <1>13, <1>14, <1>15, <1>16 DEF MoveInvariant

(***************************************************************************)
(* The backward walk keeps the last write to every register.               *)
(***************************************************************************)
LEMMA PrependFacts ==
    ASSUME NEW S, NEW s \in Seq(S), NEW e \in S
    PROVE  /\ <<e>> \o s \in Seq(S) /\ Len(<<e>> \o s) = Len(s) + 1
           /\ \A i \in 1 .. Len(s) + 1 : (<<e>> \o s)[i] = IF i = 1 THEN e ELSE s[i - 1]
<1>1. PICK front : front = <<e>>
  OBVIOUS
<1>2. front \in Seq(S) /\ Len(front) = 1 /\ front[1] = e
  BY <1>1
<1>3. /\ front \o s \in Seq(S) /\ Len(front \o s) = Len(front) + Len(s)
      /\ \A i \in 1 .. Len(front) + Len(s) :
            (front \o s)[i] = IF i <= Len(front) THEN front[i] ELSE s[i - Len(front)]
  BY <1>2, ConcatFacts
<1>4. Len(s) \in Nat
  OBVIOUS
<1>5. ASSUME NEW i \in 1 .. Len(s) + 1
      PROVE  (front \o s)[i] = IF i = 1 THEN e ELSE s[i - 1]
  <2>1. i \in 1 .. 1 + Len(s) /\ (i <= 1 <=> i = 1)
    BY <1>4
  <2> QED BY <1>2, <1>3, <2>1
<1> QED BY <1>1, <1>2, <1>3, <1>4, <1>5

LEMMA WalkKeeps ==
    ASSUME MoveInvariant, KeepLastWrite
    PROVE  MoveInvariant'
<1>1. PICK k : k = Len(moves) - walked
  OBVIOUS
<1>2. PICK move : move = moves[k]
  OBVIOUS
<1>3. /\ read = Len(parameters) /\ walked \in Nat /\ walked < Len(moves)
      /\ moves \in Seq(Moves) /\ Len(moves) \in Nat /\ k \in 1 .. Len(moves) /\ ~emitting
  <2>1. TypeOK /\ Phases /\ read = Len(parameters) /\ walked < Len(moves)
    BY DEF MoveInvariant, KeepLastWrite
  <2>2. moves \in Seq(Moves) /\ Len(moves) \in Nat /\ walked \in Nat
    BY <2>1 DEF TypeOK, Moves
  <2>3. emitting => walked = Len(moves)
    BY <2>1 DEF Phases
  <2> QED BY <1>1, <2>1, <2>2, <2>3
<1>4. pending \in Seq([dest : Registers, source : Sources \cup {Scratch}]) /\ Len(pending) \in Nat
  BY DEF MoveInvariant, TypeOK
<1>5. /\ walked' = walked + 1 /\ written' = written \cup {move.dest}
      /\ pending' = IF IsLastWrite(move) /\ IsRealMove(move) THEN <<move>> \o pending ELSE pending
      /\ UNCHANGED <<parameters, read, moves, emitting, contents, frame, emitted>>
  BY <1>1, <1>2 DEF KeepLastWrite
<1>6. move \in Moves /\ move.dest \in Registers /\ move.source \in Sources
  <2>1. move \in Moves
    BY <1>2, <1>3
  <2> QED BY <2>1 DEF Moves
<1>7. /\ Behind = k + 1 .. Len(moves) /\ Behind' = k .. Len(moves)
      /\ Behind \subseteq 1 .. Len(moves) /\ \A l \in Behind' : l = k \/ l \in Behind
      /\ k \in Behind' /\ Behind \subseteq Behind'
  <2>1. Behind' = k .. Len(moves)
    BY <1>1, <1>3, <1>5 DEF Behind
  <2>2. Behind = k + 1 .. Len(moves)
    BY <1>1, <1>3 DEF Behind
  <2> QED BY <1>3, <2>1, <2>2
<1>8. \A l \in 1 .. Len(moves) : WritesLast(l)' <=> WritesLast(l)
  BY <1>5 DEF WritesLast
<1>9. IsLastWrite(move) <=> WritesLast(k)
  <2>1. written = {moves[l].dest : l \in Behind}
    BY DEF MoveInvariant, WalkedOver
  <2> QED BY <1>2, <1>7, <2>1 DEF IsLastWrite, WritesLast
<1>10. /\ \A i \in 1 .. Len(pending) : \E l \in Behind : pending[i] = moves[l] /\ WritesLast(l)
       /\ \A l \in Behind :
             WritesLast(l) => \/ moves[l].source = moves[l].dest
                              \/ \E i \in 1 .. Len(pending) : pending[i] = moves[l]
       /\ OneMoveEach
  BY <1>3 DEF MoveInvariant, WalkedOver
<1>11. written' = {moves[l].dest : l \in Behind'}
  <2>1. written = {moves[l].dest : l \in Behind}
    BY DEF MoveInvariant, WalkedOver
  <2> QED BY <1>2, <1>5, <1>7, <2>1
<1>12. ASSUME WritesLast(k), IsRealMove(move)
       PROVE  /\ pending' \in Seq([dest : Registers, source : Sources \cup {Scratch}])
              /\ OneMoveEach' /\ RealMoves' /\ WalkedOver'
  <2>1. pending' = <<move>> \o pending
    BY <1>5, <1>9, <1>12
  <2>2. /\ pending' \in Seq([dest : Registers, source : Sources \cup {Scratch}])
        /\ Len(pending') = Len(pending) + 1
        /\ \A i \in 1 .. Len(pending) + 1 : pending'[i] = IF i = 1 THEN move ELSE pending[i - 1]
    <3>1. move \in [dest : Registers, source : Sources \cup {Scratch}]
      BY <1>6 DEF Moves
    <3>2. PICK longer : longer = <<move>> \o pending
      OBVIOUS
    <3>3. /\ longer \in Seq([dest : Registers, source : Sources \cup {Scratch}])
          /\ Len(longer) = Len(pending) + 1
          /\ \A i \in 1 .. Len(pending) + 1 : longer[i] = IF i = 1 THEN move ELSE pending[i - 1]
      BY <1>4, <3>1, <3>2, PrependFacts
    <3> QED BY <2>1, <3>2, <3>3
  <2>3. ASSUME NEW i \in 1 .. Len(pending) + 1, i # 1
        PROVE  i - 1 \in 1 .. Len(pending) /\ pending'[i] = pending[i - 1]
    BY <1>4, <2>2, <2>3
  <2>4. 1 \in 1 .. Len(pending) + 1 /\ pending'[1] = move
    BY <1>4, <2>2
  <2>5. \A i \in 1 .. Len(pending) : pending[i].dest # move.dest
    <3>1. ASSUME NEW i \in 1 .. Len(pending) PROVE pending[i].dest # move.dest
      <4>1. PICK l \in Behind : pending[i] = moves[l]
        BY <1>10, <3>1
      <4> QED BY <1>2, <1>7, <1>12, <4>1 DEF WritesLast
    <3> QED BY <3>1
  <2>6. \A i \in 1 .. Len(pending) + 1 :
           \E l \in Behind' : pending'[i] = moves[l] /\ WritesLast(l)
    <3>1. ASSUME NEW i \in 1 .. Len(pending) + 1
          PROVE  \E l \in Behind' : pending'[i] = moves[l] /\ WritesLast(l)
      <4>1. CASE i = 1
        BY <1>2, <1>7, <1>12, <2>4, <4>1
      <4>2. CASE i # 1
        <5>1. PICK l \in Behind : pending[i - 1] = moves[l] /\ WritesLast(l)
          BY <1>10, <2>3, <4>2
        <5> QED BY <1>7, <2>3, <4>2, <5>1
      <4> QED BY <4>1, <4>2
    <3> QED BY <3>1
  <2>7. \A l \in Behind' :
           WritesLast(l) => \/ moves[l].source = moves[l].dest
                            \/ \E i \in 1 .. Len(pending) + 1 : pending'[i] = moves[l]
    <3>1. ASSUME NEW l \in Behind, WritesLast(l), moves[l].source # moves[l].dest
          PROVE  \E i \in 1 .. Len(pending) + 1 : pending'[i] = moves[l]
      <4>1. PICK i \in 1 .. Len(pending) : pending[i] = moves[l]
        BY <1>10, <3>1
      <4>2. i + 1 \in 1 .. Len(pending) + 1 /\ i + 1 # 1 /\ (i + 1) - 1 = i
        BY <1>4
      <4>3. pending'[i + 1] = pending[i]
        BY <2>2, <4>2
      <4> QED BY <4>1, <4>2, <4>3
    <3> QED BY <1>2, <1>7, <2>4, <3>1
  <2>8. OneMoveEach'
    <3>1. ASSUME NEW i \in 1 .. Len(pending) + 1, NEW j \in 1 .. Len(pending) + 1,
                 pending'[i].dest = pending'[j].dest
          PROVE  i = j
      <4>1. CASE i = 1
        BY <2>3, <2>4, <2>5, <3>1, <4>1
      <4>2. CASE j = 1
        BY <2>3, <2>4, <2>5, <3>1, <4>2
      <4>3. CASE i # 1 /\ j # 1
        <5>1. i - 1 = j - 1
          BY <1>10, <2>3, <3>1, <4>3 DEF OneMoveEach
        <5> QED BY <5>1
      <4> QED BY <4>1, <4>2, <4>3
    <3> QED BY <2>2, <3>1 DEF OneMoveEach
  <2>9. WalkedOver'
    <3>1. \A l \in Behind' : WritesLast(l)' <=> WritesLast(l)
      BY <1>3, <1>7, <1>8
    <3> QED BY <1>3, <1>5, <1>11, <2>2, <2>6, <2>7, <3>1 DEF WalkedOver
  <2>10. RealMoves'
    <3>1. \A i \in 1 .. Len(pending) : pending[i].source # pending[i].dest
      BY DEF MoveInvariant, RealMoves
    <3>2. ASSUME NEW i \in 1 .. Len(pending) + 1 PROVE pending'[i].source # pending'[i].dest
      BY <1>12, <2>3, <2>4, <3>1 DEF IsRealMove
    <3> QED BY <2>2, <3>2 DEF RealMoves
  <2> QED BY <2>2, <2>8, <2>9, <2>10
<1>13. ASSUME ~(WritesLast(k) /\ IsRealMove(move))
       PROVE  /\ pending' \in Seq([dest : Registers, source : Sources \cup {Scratch}])
              /\ OneMoveEach' /\ RealMoves' /\ WalkedOver'
  <2>1. pending' = pending
    BY <1>5, <1>9, <1>13
  <2>2. \A l \in Behind' :
           WritesLast(l) => \/ moves[l].source = moves[l].dest
                            \/ \E i \in 1 .. Len(pending) : pending[i] = moves[l]
    BY <1>2, <1>7, <1>10, <1>13 DEF IsRealMove
  <2>3. \A i \in 1 .. Len(pending) : \E l \in Behind' : pending[i] = moves[l] /\ WritesLast(l)
    BY <1>7, <1>10
  <2>4. WalkedOver'
    <3>1. \A l \in Behind' : WritesLast(l)' <=> WritesLast(l)
      BY <1>3, <1>7, <1>8
    <3> QED BY <1>3, <1>5, <1>11, <2>1, <2>2, <2>3, <3>1 DEF WalkedOver
  <2> QED BY <1>4, <1>10, <2>1, <2>4 DEF OneMoveEach, RealMoves, MoveInvariant
<1>14. /\ pending' \in Seq([dest : Registers, source : Sources \cup {Scratch}])
       /\ OneMoveEach' /\ RealMoves' /\ WalkedOver'
  BY <1>12, <1>13
<1>15. TypeOK'
  <2>1. TypeOK
    BY DEF MoveInvariant
  <2>2. walked' \in 0 .. Len(moves) /\ written' \subseteq Registers
    BY <1>3, <1>5, <1>6, <2>1 DEF TypeOK
  <2> QED BY <1>5, <1>14, <2>1, <2>2 DEF TypeOK
<1>16. Origin'
  <2>1. \/ parameters = <<>> /\ moves \in OutgoingMoves
        \/ parameters # <<>> /\ Collected
    BY DEF MoveInvariant, Origin
  <2>2. Collected => Collected'
    BY <1>5, <1>8 DEF Collected, GivenLast
  <2> QED BY <1>5, <2>1, <2>2 DEF Origin
<1>17. NothingMovedEarly' /\ Phases' /\ Stored' /\ Carried'
  BY <1>3, <1>5 DEF MoveInvariant, NothingMovedEarly, Phases, Stored, FrameParametersArrive, Carried
<1> QED BY <1>14, <1>15, <1>16, <1>17 DEF MoveInvariant

-----------------------------------------------------------------------------
(***************************************************************************)
(* The loop begins: what the walk kept is what the group asks for.         *)
(***************************************************************************)
LEMMA StartKeeps ==
    ASSUME MoveInvariant, StartEmitting
    PROVE  MoveInvariant'
<1>1. /\ read = Len(parameters) /\ walked = Len(moves) /\ ~emitting /\ emitting' = TRUE
      /\ UNCHANGED <<parameters, read, moves, walked, written, pending, contents, frame, emitted>>
  BY DEF StartEmitting
<1>2. /\ TypeOK /\ Origin /\ NothingMovedEarly /\ WalkedOver
      /\ moves \in Seq(Moves) /\ Len(moves) \in Nat /\ Behind = 1 .. Len(moves)
  <2>1. TypeOK /\ Origin /\ NothingMovedEarly /\ WalkedOver
    BY DEF MoveInvariant
  <2>2. moves \in Seq(Moves) /\ Len(moves) \in Nat
    BY <2>1 DEF TypeOK, Moves
  <2> QED BY <1>1, <2>1, <2>2 DEF Behind
<1>3. Request' = Request
  BY <1>1 DEF Request, OutgoingRequest, IncomingRequest, LastParameterIn
<1>4. /\ \A r \in Registers : contents[r] = r
      /\ \A i \in 1 .. Len(pending) :
            \E k \in 1 .. Len(moves) : pending[i] = moves[k] /\ WritesLast(k)
      /\ \A k \in 1 .. Len(moves) :
            WritesLast(k) => \/ moves[k].source = moves[k].dest
                             \/ \E i \in 1 .. Len(pending) : pending[i] = moves[k]
  BY <1>1, <1>2 DEF NothingMovedEarly, WalkedOver
<1>5. /\ DOMAIN Request = {moves[k].dest : k \in 1 .. Len(moves)}
      /\ \A k \in 1 .. Len(moves) : WritesLast(k) => Request[moves[k].dest] = moves[k].source
  BY <1>1, <1>2, RequestFacts
<1>6. ASSUME NEW i \in 1 .. Len(pending)
      PROVE  /\ pending[i].dest \in DOMAIN Request
             /\ Read(pending[i].source) = Request[pending[i].dest]
  <2>1. PICK k \in 1 .. Len(moves) : pending[i] = moves[k] /\ WritesLast(k)
    BY <1>4, <1>6
  <2>2. moves[k].source \in Sources
    <3>1. moves[k] \in Moves
      BY <1>2
    <3> QED BY <3>1 DEF Moves
  <2>3. Read(moves[k].source) = moves[k].source
    BY <1>4, <2>2 DEF Read, Sources
  <2> QED BY <1>5, <2>1, <2>3
<1>7. ASSUME NEW r \in Registers, ~Awaited(r)
      PROVE  contents[r] = IF r \in DOMAIN Request THEN Request[r] ELSE r
  <2>1. CASE r \in DOMAIN Request
    <3> DEFINE T == {k \in 1 .. Len(moves) : moves[k].dest = r}
    <3>1. T \in SUBSET (1 .. Len(moves)) /\ T # {}
      BY <1>5, <2>1
    <3>2. PICK k \in T : \A j \in T : j <= k
      <4> HIDE DEF T
      <4> QED BY <1>2, <3>1, LastOfPositions
    <3>3. k \in 1 .. Len(moves) /\ moves[k].dest = r /\ WritesLast(k)
      <4>1. ASSUME NEW j \in k + 1 .. Len(moves), moves[j].dest = moves[k].dest PROVE FALSE
        <5>1. k \in 1 .. Len(moves) /\ moves[k].dest = r
          OBVIOUS
        <5>2. j \in T /\ ~(j <= k)
          BY <1>2, <4>1, <5>1
        <5> QED BY <3>2, <5>2
      <4> QED BY <4>1 DEF WritesLast
    <3>4. moves[k].source = r
      BY <1>4, <1>7, <3>3 DEF Awaited
    <3> QED BY <1>4, <1>5, <2>1, <3>3, <3>4
  <2>2. CASE r \notin DOMAIN Request
    BY <1>4, <2>2
  <2> QED BY <2>1, <2>2
<1>8. Carried'
  <2>1. \A i \in 1 .. Len(pending) :
           /\ pending[i].dest \in DOMAIN Request
           /\ Read(pending[i].source)' = Request[pending[i].dest]
    BY <1>1, <1>6 DEF Read
  <2>2. \A r \in Registers : Awaited(r)' <=> Awaited(r)
    BY <1>1 DEF Awaited
  <2> QED BY <1>1, <1>3, <1>7, <2>1, <2>2 DEF Carried, Read
<1>9. Origin'
  <2>1. \/ parameters = <<>> /\ moves \in OutgoingMoves
        \/ parameters # <<>> /\ Collected
    BY <1>2 DEF Origin
  <2>2. Collected => Collected'
    BY <1>1 DEF Collected, GivenLast, WritesLast
  <2> QED BY <1>1, <2>1, <2>2 DEF Origin
<1>10. TypeOK' /\ NothingMovedEarly' /\ Phases' /\ Stored'
  BY <1>1, <1>2 DEF MoveInvariant, TypeOK, NothingMovedEarly, Phases, Stored, FrameParametersArrive
<1>11. WalkedOver' /\ OneMoveEach' /\ RealMoves'
  BY <1>1, <1>2 DEF MoveInvariant, WalkedOver, OneMoveEach, RealMoves, Behind
<1> QED BY <1>8, <1>9, <1>10, <1>11 DEF MoveInvariant

(***************************************************************************)
(* When every destination is still read, there are as many sources as      *)
(* destinations, and no room for the scratch register among them.          *)
(***************************************************************************)
LEMMA ScratchIsFree ==
    ASSUME MoveInvariant, AllAreRead
    PROVE  {pending[i].source : i \in 1 .. Len(pending)}
              = {pending[i].dest : i \in 1 .. Len(pending)}
<1> DEFINE n == Len(pending)
           Dests == {pending[i].dest : i \in 1 .. n}
           Origins == {pending[i].source : i \in 1 .. n}
           dest == [i \in 1 .. n |-> pending[i].dest]
           source == [i \in 1 .. n |-> pending[i].source]
<1>1. n \in Nat /\ OneMoveEach
  BY DEF MoveInvariant, TypeOK
<1>2. Dests \subseteq Origins
  BY DEF AllAreRead, IsRead
<1>3. ExistsBijection(1 .. n, Dests)
  <2>1. dest \in [1 .. n -> Dests]
    OBVIOUS
  <2>2. \A d \in Dests : \E i \in 1 .. n : dest[i] = d
    OBVIOUS
  <2>3. \A i, j \in 1 .. n : dest[i] = dest[j] => i = j
    BY <1>1 DEF OneMoveEach
  <2> HIDE DEF dest, Dests
  <2>4. dest \in Bijection(1 .. n, Dests)
    BY <2>1, <2>2, <2>3 DEF Bijection, Injection, Surjection, IsInjective
  <2> QED BY <2>4 DEF ExistsBijection
<1>4. ExistsSurjection(1 .. n, Origins)
  <2>1. source \in [1 .. n -> Origins]
    OBVIOUS
  <2>2. \A s \in Origins : \E i \in 1 .. n : source[i] = s
    OBVIOUS
  <2> HIDE DEF source, Origins
  <2>3. source \in Surjection(1 .. n, Origins)
    BY <2>1, <2>2 DEF Surjection
  <2> QED BY <2>3 DEF ExistsSurjection
<1> HIDE DEF Dests, Origins, dest, source
<1>5. Cardinality(Dests) = n
  BY <1>1, <1>3, FS_CountingElements
<1>6. IsFiniteSet(Origins) /\ Cardinality(Origins) <= n
  BY <1>1, <1>4, FS_NatSurjection, FS_SurjCardinalityBound
<1>7. Cardinality(Dests) <= Cardinality(Origins) /\ Cardinality(Origins) \in Nat
      /\ (Cardinality(Origins) = Cardinality(Dests) => Origins = Dests)
  <2>1. Dests \in SUBSET Origins
    BY <1>2
  <2> QED BY <1>6, <2>1, FS_Subset, FS_CardinalityType
<1>8. Origins = Dests
  BY <1>1, <1>5, <1>6, <1>7
<1> QED BY <1>8 DEF Dests, Origins

-----------------------------------------------------------------------------
PendingMoves == [dest : Registers, source : Sources \cup {Scratch}]

\* What the steps of the loop leave as it is.
LEMMA LoopKeeps ==
    ASSUME MoveInvariant, emitting,
           UNCHANGED <<parameters, read, moves, walked, written, emitting, frame>>
    PROVE  /\ emitting' /\ Request' = Request
           /\ Origin' /\ NothingMovedEarly' /\ Phases' /\ Stored' /\ WalkedOver'
<1>1. Request' = Request
  BY DEF Request, OutgoingRequest, IncomingRequest, LastParameterIn
<1>2. Origin'
  <2>1. \/ parameters = <<>> /\ moves \in OutgoingMoves
        \/ parameters # <<>> /\ Collected
    BY DEF MoveInvariant, Origin
  <2>2. Collected => Collected'
    BY DEF Collected, GivenLast, WritesLast
  <2> QED BY <2>1, <2>2 DEF Origin
<1>3. NothingMovedEarly' /\ Phases' /\ Stored'
  BY DEF MoveInvariant, NothingMovedEarly, Phases, Stored, FrameParametersArrive
<1>4. WalkedOver'
  BY DEF MoveInvariant, WalkedOver, Behind
<1> QED BY <1>1, <1>2, <1>3, <1>4

LEMMA LoopFacts ==
    ASSUME MoveInvariant, emitting
    PROVE  /\ pending \in Seq(PendingMoves) /\ Len(pending) \in Nat
           /\ contents \in [Registers \cup {Scratch} -> Sources \cup {Scratch}]
           /\ \A i \in 1 .. Len(pending) :
                 /\ pending[i].dest \in Registers /\ pending[i].source \in Sources \cup {Scratch}
                 /\ pending[i].source # pending[i].dest
                 /\ pending[i].dest \in DOMAIN Request
                 /\ Read(pending[i].source) = Request[pending[i].dest]
                 /\ Request[pending[i].dest] \in Sources \cup {Scratch}
           /\ \A r \in Registers :
                 ~Awaited(r) => contents[r] = IF r \in DOMAIN Request THEN Request[r] ELSE r
<1>1. /\ pending \in Seq(PendingMoves) /\ Len(pending) \in Nat
      /\ contents \in [Registers \cup {Scratch} -> Sources \cup {Scratch}]
  BY DEF MoveInvariant, TypeOK, PendingMoves
<1>2. ASSUME NEW i \in 1 .. Len(pending)
      PROVE  pending[i].dest \in Registers /\ pending[i].source \in Sources \cup {Scratch}
  <2>1. pending[i] \in PendingMoves
    BY <1>1
  <2> QED BY <2>1 DEF PendingMoves
<1>3. ASSUME NEW i \in 1 .. Len(pending)
      PROVE  Read(pending[i].source) \in Sources \cup {Scratch}
  BY <1>1, <1>2 DEF Read, Sources
<1> QED BY <1>1, <1>2, <1>3 DEF MoveInvariant, RealMoves, Carried

(***************************************************************************)
(* A move whose destination no pending move reads.                         *)
(***************************************************************************)
LEMMA EmitKeeps ==
    ASSUME MoveInvariant, EmitReady
    PROVE  MoveInvariant'
<1>1. PICK i \in 1 .. Len(pending) :
         /\ IsFirstReady(i)
         /\ contents' = [contents EXCEPT ![pending[i].dest] = Read(pending[i].source)]
         /\ pending' = RemoveAt(pending, i)
  BY DEF EmitReady
<1>2. /\ emitting /\ emitted' = emitted + 1
      /\ UNCHANGED <<parameters, read, moves, walked, written, emitting, frame>>
  BY DEF EmitReady
<1>3. /\ pending \in Seq(PendingMoves) /\ Len(pending) \in Nat
      /\ contents \in [Registers \cup {Scratch} -> Sources \cup {Scratch}]
      /\ \A j \in 1 .. Len(pending) :
            /\ pending[j].dest \in Registers /\ pending[j].source \in Sources \cup {Scratch}
            /\ pending[j].source # pending[j].dest
            /\ pending[j].dest \in DOMAIN Request
            /\ Read(pending[j].source) = Request[pending[j].dest]
            /\ Request[pending[j].dest] \in Sources \cup {Scratch}
      /\ \A r \in Registers :
            ~Awaited(r) => contents[r] = IF r \in DOMAIN Request THEN Request[r] ELSE r
      /\ OneMoveEach
  <2>1. OneMoveEach
    BY DEF MoveInvariant
  <2> QED BY <1>2, <2>1, LoopFacts
<1>4. \A j \in 1 .. Len(pending) : pending[j].source # pending[i].dest
  BY <1>1 DEF IsFirstReady, IsRead
<1>5. /\ pending' \in Seq(PendingMoves) /\ Len(pending') = Len(pending) - 1
      /\ \A j \in 1 .. Len(pending) - 1 :
            pending'[j] = IF j < i THEN pending[j] ELSE pending[j + 1]
  <2>1. PICK shorter : shorter = RemoveAt(pending, i)
    OBVIOUS
  <2>2. /\ shorter \in Seq(PendingMoves) /\ Len(shorter) = Len(pending) - 1
        /\ \A j \in 1 .. Len(pending) - 1 :
              shorter[j] = IF j < i THEN pending[j] ELSE pending[j + 1]
    <3>1. pending \in Seq(PendingMoves) /\ i \in 1 .. Len(pending)
      BY <1>3
    <3> QED BY <2>1, <3>1, RemoveAtFacts
  <2> QED BY <1>1, <2>1, <2>2
<1>6. ASSUME NEW j \in 1 .. Len(pending')
      PROVE  \E k \in 1 .. Len(pending) : /\ k # i /\ pending'[j] = pending[k]
                                          /\ k = IF j < i THEN j ELSE j + 1
  <2>1. CASE j < i
    BY <1>3, <1>5, <2>1
  <2>2. CASE ~(j < i)
    <3>1. j + 1 \in 1 .. Len(pending) /\ j + 1 # i /\ pending'[j] = pending[j + 1]
      BY <1>3, <1>5, <2>2
    <3> QED BY <2>2, <3>1
  <2> QED BY <2>1, <2>2
<1>7. ASSUME NEW k \in 1 .. Len(pending), k # i
      PROVE  \E j \in 1 .. Len(pending') : pending'[j] = pending[k]
  <2>1. CASE k < i
    <3>1. k \in 1 .. Len(pending) - 1 /\ pending'[k] = pending[k]
      BY <1>3, <1>5, <2>1
    <3> QED BY <1>5, <3>1
  <2>2. CASE ~(k < i)
    <3>1. k - 1 \in 1 .. Len(pending) - 1 /\ ~(k - 1 < i) /\ (k - 1) + 1 = k
      BY <1>3, <1>7, <2>2
    <3>2. pending'[k - 1] = pending[k]
      BY <1>5, <3>1
    <3> QED BY <1>5, <3>1, <3>2
  <2> QED BY <2>1, <2>2
<1>8. OneMoveEach'
  <2>1. ASSUME NEW j \in 1 .. Len(pending'), NEW l \in 1 .. Len(pending'),
               pending'[j].dest = pending'[l].dest
        PROVE  j = l
    <3>1. PICK k \in 1 .. Len(pending) :
             pending'[j] = pending[k] /\ k = IF j < i THEN j ELSE j + 1
      BY <1>6
    <3>2. PICK m \in 1 .. Len(pending) :
             pending'[l] = pending[m] /\ m = IF l < i THEN l ELSE l + 1
      BY <1>6
    <3>3. k = m
      BY <1>3, <2>1, <3>1, <3>2, SMTT(30) DEF OneMoveEach
    <3> QED BY <1>3, <1>5, <3>1, <3>2, <3>3
  <2> QED BY <2>1 DEF OneMoveEach
<1>9. RealMoves'
  <2>1. ASSUME NEW j \in 1 .. Len(pending') PROVE pending'[j].source # pending'[j].dest
    BY <1>3, <1>6
  <2> QED BY <2>1 DEF RealMoves
<1>10. /\ contents' \in [Registers \cup {Scratch} -> Sources \cup {Scratch}]
       /\ contents'[pending[i].dest] = Request[pending[i].dest]
       /\ \A r \in Registers \cup {Scratch} : r # pending[i].dest => contents'[r] = contents[r]
  BY <1>1, <1>3
<1>11. emitting' /\ Request' = Request
       /\ Origin' /\ NothingMovedEarly' /\ Phases' /\ Stored' /\ WalkedOver'
  BY <1>2, LoopKeeps
<1>12. Carried'
  <2>1. ASSUME NEW j \in 1 .. Len(pending')
        PROVE  /\ pending'[j].dest \in DOMAIN Request
               /\ Read(pending[j].source)' = Request[pending'[j].dest]
    <3>1. PICK k \in 1 .. Len(pending) : pending'[j] = pending[k]
      BY <1>6
    <3>2. PICK source : source = pending[k].source
      OBVIOUS
    <3>3. /\ source \in Sources \cup {Scratch} /\ source # pending[i].dest
          /\ Read(source) = Request[pending[k].dest]
      BY <1>3, <1>4, <3>2
    <3>4. Read(source)' = Read(source)
      BY <1>10, <3>3 DEF Read, Sources
    <3>5. pending[j].source' = source
      BY <3>1, <3>2
    <3> QED BY <1>3, <3>1, <3>3, <3>4, <3>5 DEF Read
  <2>2. ASSUME NEW r \in Registers, ~Awaited(r)'
        PROVE  contents'[r] = IF r \in DOMAIN Request THEN Request[r] ELSE r
    <3>1. CASE r = pending[i].dest
      BY <1>3, <1>10, <3>1
    <3>2. CASE r # pending[i].dest
      <4>1. ~Awaited(r)
        BY <1>7, <2>2, <3>2 DEF Awaited
      <4> QED BY <1>3, <1>10, <3>2, <4>1
    <3> QED BY <3>1, <3>2
  <2> QED BY <1>11, <2>1, <2>2 DEF Carried
<1>13. TypeOK'
  <2>1. TypeOK
    BY DEF MoveInvariant
  <2> QED BY <1>2, <1>5, <1>10, <2>1 DEF TypeOK, PendingMoves
<1> QED BY <1>8, <1>9, <1>11, <1>12, <1>13 DEF MoveInvariant

(***************************************************************************)
(* The first destination is still read: its readers find what it held in   *)
(* the scratch register, and its own move is emitted.                      *)
(***************************************************************************)
LEMMA BreakKeeps ==
    ASSUME MoveInvariant, BreakCycle
    PROVE  MoveInvariant'
<1>1. PICK stashed : stashed = pending[1].dest
  OBVIOUS
<1>2. PICK redirected : redirected = [i \in 1 .. Len(pending) |-> Redirect(pending[i], stashed)]
  OBVIOUS
<1>3. /\ emitting /\ pending # <<>> /\ AllAreRead /\ emitted' = emitted + 2
      /\ contents' = [contents EXCEPT ![Scratch] = contents[stashed],
                                      ![stashed] = Read(redirected[1].source)]
      /\ pending' = Tail(redirected)
      /\ UNCHANGED <<parameters, read, moves, walked, written, emitting, frame>>
  BY <1>1, <1>2 DEF BreakCycle
<1>4. /\ pending \in Seq(PendingMoves) /\ Len(pending) \in Nat
      /\ contents \in [Registers \cup {Scratch} -> Sources \cup {Scratch}]
      /\ \A j \in 1 .. Len(pending) :
            /\ pending[j].dest \in Registers /\ pending[j].source \in Sources \cup {Scratch}
            /\ pending[j].source # pending[j].dest
            /\ pending[j].dest \in DOMAIN Request
            /\ Read(pending[j].source) = Request[pending[j].dest]
            /\ Request[pending[j].dest] \in Sources \cup {Scratch}
      /\ \A r \in Registers :
            ~Awaited(r) => contents[r] = IF r \in DOMAIN Request THEN Request[r] ELSE r
      /\ OneMoveEach
  <2>1. OneMoveEach
    BY DEF MoveInvariant
  <2> QED BY <1>3, <2>1, LoopFacts
<1>5. 1 \in 1 .. Len(pending) /\ stashed \in Registers /\ Scratch \notin Registers
  <2>1. 1 \in 1 .. Len(pending)
    BY <1>3, <1>4
  <2>2. stashed \in Registers
    BY <1>1, <1>4, <2>1
  <2> QED BY <2>1, <2>2, ParallelMovesAssumption DEF Sources
<1>6. \A j \in 1 .. Len(pending) : pending[j].source \in Registers
  <2>1. {pending[j].source : j \in 1 .. Len(pending)} = {pending[j].dest : j \in 1 .. Len(pending)}
    BY <1>3, ScratchIsFree
  <2>2. ASSUME NEW j \in 1 .. Len(pending) PROVE pending[j].source \in Registers
    <3>1. PICK k \in 1 .. Len(pending) : pending[j].source = pending[k].dest
      BY <2>1
    <3> QED BY <1>4, <3>1
  <2> QED BY <2>2
<1>7. \A j \in 1 .. Len(pending) :
         /\ redirected[j].dest = pending[j].dest
         /\ redirected[j].source = IF pending[j].source = stashed THEN Scratch
                                   ELSE pending[j].source
         /\ redirected[j] \in PendingMoves
  <2>1. ASSUME NEW j \in 1 .. Len(pending)
        PROVE  /\ redirected[j] = Redirect(pending[j], stashed)
               /\ pending[j] \in PendingMoves
    BY <1>2, <1>4
  <2> QED BY <2>1 DEF Redirect, PendingMoves
<1>8. redirected \in Seq(PendingMoves) /\ Len(redirected) = Len(pending)
  BY <1>2, <1>4, <1>7
<1>9. /\ pending' \in Seq(PendingMoves) /\ Len(pending') = Len(pending) - 1
      /\ \A j \in 1 .. Len(pending) - 1 :
            /\ j + 1 \in 1 .. Len(pending)
            /\ pending'[j] = redirected[j + 1]
  <2>1. redirected # <<>>
    BY <1>4, <1>5, <1>8
  <2>2. PICK rest : rest = Tail(redirected)
    OBVIOUS
  <2>3. rest \in Seq(PendingMoves) /\ Len(rest) = Len(redirected) - 1
        /\ \A j \in 1 .. Len(redirected) - 1 : rest[j] = redirected[j + 1]
    BY <1>8, <2>1, <2>2
  <2>4. \A j \in 1 .. Len(pending) - 1 : j + 1 \in 1 .. Len(pending)
    BY <1>4
  <2> QED BY <1>3, <1>8, <2>2, <2>3, <2>4
<1>10. /\ contents' \in [Registers \cup {Scratch} -> Sources \cup {Scratch}]
       /\ contents'[Scratch] = contents[stashed]
       /\ contents'[stashed] = Request[stashed]
       /\ \A r \in Registers : r # stashed => contents'[r] = contents[r]
  <2>1. Read(redirected[1].source) = Request[stashed]
    BY <1>1, <1>4, <1>5, <1>7
  <2>2. Request[stashed] \in Sources \cup {Scratch}
    BY <1>1, <1>4, <1>5
  <2> QED BY <1>3, <1>4, <1>5, <2>1, <2>2
<1>11. emitting' /\ Request' = Request
       /\ Origin' /\ NothingMovedEarly' /\ Phases' /\ Stored' /\ WalkedOver'
  BY <1>3, LoopKeeps
<1>12. OneMoveEach'
  <2>1. ASSUME NEW j \in 1 .. Len(pending'), NEW l \in 1 .. Len(pending'),
               pending'[j].dest = pending'[l].dest
        PROVE  j = l
    <3>1. /\ j + 1 \in 1 .. Len(pending) /\ l + 1 \in 1 .. Len(pending)
          /\ pending[j + 1].dest = pending[l + 1].dest
      BY <1>7, <1>9, <2>1
    <3>2. j + 1 = l + 1
      BY <1>4, <3>1 DEF OneMoveEach
    <3> QED BY <3>2
  <2> QED BY <2>1 DEF OneMoveEach
<1>13. RealMoves'
  <2>1. ASSUME NEW j \in 1 .. Len(pending') PROVE pending'[j].source # pending'[j].dest
    <3>1. j + 1 \in 1 .. Len(pending) /\ pending'[j] = redirected[j + 1]
      BY <1>9
    <3> QED BY <1>4, <1>5, <1>7, <3>1
  <2> QED BY <2>1 DEF RealMoves
<1>14. Carried'
  <2>1. ASSUME NEW j \in 1 .. Len(pending')
        PROVE  /\ pending'[j].dest \in DOMAIN Request
               /\ Read(pending[j].source)' = Request[pending'[j].dest]
    <3>1. j + 1 \in 1 .. Len(pending) /\ pending'[j] = redirected[j + 1]
      BY <1>9
    <3>2. PICK k \in 1 .. Len(pending) : k = j + 1
      BY <3>1
    <3>3. PICK source : source = pending[k].source
      OBVIOUS
    <3>4. /\ source \in Registers /\ Read(source) = Request[pending[k].dest]
          /\ pending[k].dest \in DOMAIN Request
          /\ pending'[j].dest = pending[k].dest
          /\ pending'[j].source = IF source = stashed THEN Scratch ELSE source
      BY <1>4, <1>6, <1>7, <3>1, <3>2, <3>3
    <3>5. source # InMemory /\ Scratch # InMemory
      BY <3>4, ParallelMovesAssumption DEF Sources
    <3>6. contents'[pending'[j].source] = contents[source]
      BY <1>5, <1>10, <3>4
    <3>7. Read(source) = contents[source] /\ pending'[j].source # InMemory
      BY <3>4, <3>5 DEF Read
    <3>8. Read(pending[j].source)' = contents'[pending'[j].source]
      BY <3>7 DEF Read
    <3> QED BY <3>4, <3>6, <3>7, <3>8
  <2>2. ASSUME NEW r \in Registers, ~Awaited(r)'
        PROVE  contents'[r] = IF r \in DOMAIN Request THEN Request[r] ELSE r
    <3>1. CASE r = stashed
      BY <1>1, <1>4, <1>5, <1>10, <3>1
    <3>2. CASE r # stashed
      <4>1. ASSUME NEW k \in 1 .. Len(pending) PROVE pending[k].dest # r
        <5>1. CASE k = 1
          BY <1>1, <3>2, <5>1
        <5>2. CASE k # 1
          <6>1. k - 1 \in 1 .. Len(pending) - 1 /\ (k - 1) + 1 = k
            BY <1>4, <5>2
          <6>2. pending'[k - 1] = redirected[k]
            BY <1>9, <6>1
          <6>3. pending'[k - 1].dest = pending[k].dest /\ k - 1 \in 1 .. Len(pending')
            BY <1>7, <1>9, <6>1, <6>2
          <6> QED BY <2>2, <6>3 DEF Awaited
        <5> QED BY <5>1, <5>2
      <4>2. ~Awaited(r)
        BY <4>1 DEF Awaited
      <4> QED BY <1>4, <1>10, <3>2, <4>2
    <3> QED BY <3>1, <3>2
  <2> QED BY <1>11, <2>1, <2>2 DEF Carried
<1>15. TypeOK'
  <2>1. TypeOK
    BY DEF MoveInvariant
  <2>2. emitted' \in Nat
    BY <1>3, <2>1 DEF TypeOK
  <2> QED BY <1>3, <1>9, <1>10, <2>1, <2>2 DEF TypeOK, PendingMoves
<1> QED BY <1>11, <1>12, <1>13, <1>14, <1>15 DEF MoveInvariant

LEMMA StepKeeps == MoveInvariant /\ [Next]_vars => MoveInvariant'
<1> SUFFICES ASSUME MoveInvariant, [Next]_vars PROVE MoveInvariant'
  OBVIOUS
<1>1. CASE UNCHANGED vars
  <2>1. Request' = Request
    BY <1>1 DEF vars, Request, OutgoingRequest, IncomingRequest, LastParameterIn
  <2>2. TypeOK' /\ NothingMovedEarly' /\ Phases' /\ Stored'
    BY <1>1 DEF vars, MoveInvariant, TypeOK, NothingMovedEarly, Phases, Stored,
                FrameParametersArrive
  <2>3. WalkedOver' /\ OneMoveEach' /\ RealMoves'
    <3>1. Behind' = Behind
      BY <1>1 DEF vars, Behind
    <3>2. \A k : WritesLast(k)' <=> WritesLast(k)
      BY <1>1 DEF vars, WritesLast
    <3>3. WalkedOver'
      BY <1>1, <3>1, <3>2 DEF vars, MoveInvariant, WalkedOver
    <3> QED BY <1>1, <3>3 DEF vars, MoveInvariant, OneMoveEach, RealMoves
  <2>4. Carried'
    BY <1>1, <2>1 DEF vars, MoveInvariant, Carried, Awaited, Read
  <2>5. Origin'
    <3>1. \/ parameters = <<>> /\ moves \in OutgoingMoves
          \/ parameters # <<>> /\ Collected
      BY DEF MoveInvariant, Origin
    <3>2. Collected => Collected'
      BY <1>1 DEF vars, Collected, GivenLast, WritesLast
    <3> QED BY <1>1, <3>1, <3>2 DEF vars, Origin
  <2> QED BY <2>2, <2>3, <2>4, <2>5 DEF MoveInvariant
<1> QED BY <1>1, GetParamKeeps, WalkKeeps, StartKeeps, EmitKeeps, BreakKeeps DEF Next

LEMMA MovesAreSound == Spec => []MoveInvariant
  BY InitKeeps, StepKeeps, PTL DEF Spec

-----------------------------------------------------------------------------
(***************************************************************************)
(* The vectors and the generated code of emit_parallel_moves and its       *)
(* callers keep their shape.                                               *)
(***************************************************************************)
THEOREM MoveTypes == Spec => []TypeOK
<1>1. MoveInvariant => TypeOK
  BY DEF MoveInvariant
<1> QED BY <1>1, MovesAreSound, PTL

(***************************************************************************)
(* lower_incoming_arguments stores a parameter with a home in the frame as *)
(* the caller passed it.                                                   *)
(***************************************************************************)
THEOREM ParametersArrive == Spec => []FrameParametersArrive
<1>1. MoveInvariant => FrameParametersArrive
  BY DEF MoveInvariant, Stored
<1> QED BY <1>1, MovesAreSound, PTL

(***************************************************************************)
(* One scratch register is enough for any number of cycles.                *)
(***************************************************************************)
THEOREM OneScratchRegisterIsEnough == Spec => []ScratchIsFreeForTheNextCycle
<1>1. MoveInvariant => ScratchIsFreeForTheNextCycle
  BY ScratchIsFree DEF ScratchIsFreeForTheNextCycle
<1> QED BY <1>1, MovesAreSound, PTL

-----------------------------------------------------------------------------
(***************************************************************************)
(* When no move is pending, every register holds what the group asks for.  *)
(***************************************************************************)
Start == [r \in Registers |-> r]

Assigned == [r \in Registers |-> IF r \in DOMAIN Request THEN Request[r] ELSE r]

Reached == [r \in Registers |-> IF Finished THEN contents[r] ELSE r]

LEMMA ReachedFacts ==
    MoveInvariant => Reached = IF Finished THEN Assigned ELSE Start
<1> SUFFICES ASSUME MoveInvariant PROVE Reached = IF Finished THEN Assigned ELSE Start
  OBVIOUS
<1>1. CASE Finished
  <2>1. emitting /\ \A r \in Registers : ~Awaited(r)
    BY <1>1 DEF Finished, Awaited
  <2>2. \A r \in Registers : contents[r] = IF r \in DOMAIN Request THEN Request[r] ELSE r
    BY <2>1 DEF MoveInvariant, Carried
  <2> QED BY <1>1, <2>2 DEF Reached, Assigned
<1>2. CASE ~Finished
  BY <1>2 DEF Reached, Start
<1> QED BY <1>1, <1>2

LEMMA InitIsParallel == Init => Parallel!Init
<1> SUFFICES ASSUME Init PROVE Parallel!Init
  OBVIOUS
<1>1. MoveInvariant /\ Finished = FALSE /\ read = 0
  BY InitKeeps DEF Init, Finished
<1>2. [r \in Registers |-> IF Finished THEN contents[r] ELSE r] = [r \in Registers |-> r]
  BY <1>1
<1>3. Request \in UNION {[D -> Sources] : D \in SUBSET Registers}
  <2>1. TypeOK /\ Origin
    BY <1>1 DEF MoveInvariant
  <2>2. CASE parameters = <<>>
    <3>1. moves \in Seq(Moves) /\ moves \in OutgoingMoves
      BY <2>1, <2>2 DEF TypeOK, Moves, Origin
    <3>2. \A k \in 1 .. Len(moves) :
             /\ moves[k].dest \in Registers /\ moves[k].source \in Sources
             /\ (CHOOSE i \in 1 .. Len(moves) : moves[i].dest = moves[k].dest) = k
      <4>1. \A k \in 1 .. Len(moves) : moves[k] \in Moves
        BY <3>1
      <4>2. \A k \in 1 .. Len(moves) : moves[k].dest \in Registers /\ moves[k].source \in Sources
        BY <4>1 DEF Moves
      <4> QED BY <3>1, <4>2, OutgoingFacts
    <3>3. PICK D : D = {moves[k].dest : k \in 1 .. Len(moves)}
      OBVIOUS
    <3>4. D \in SUBSET Registers
      BY <3>2, <3>3
    <3>5. OutgoingRequest \in [D -> Sources]
      BY <3>2, <3>3 DEF OutgoingRequest
    <3> QED BY <2>2, <3>4, <3>5 DEF Request
  <2>3. CASE parameters # <<>>
    <3>1. parameters \in Seq(ParameterHomes)
      BY <2>1 DEF TypeOK
    <3>2. PICK D : D = {parameters[i].register : i \in 1 .. Len(parameters)} \ {NoRegister}
      OBVIOUS
    <3>3. ASSUME NEW r \in D
          PROVE  r \in Registers /\ IncomingArgument(LastParameterIn(r)) \in Sources
      <4>1. PICK i \in 1 .. Len(parameters) : parameters[i].register = r
        BY <3>2
      <4>2. parameters[i] \in ParameterHomes
        BY <3>1
      <4>3. r \in Registers
        BY <3>2, <4>1, <4>2, ParallelMovesAssumption DEF ParameterHomes
      <4>4. LastParameterIn(r) \in 1 .. Len(parameters)
        BY <3>1, <4>1, LastParameterFacts
      <4>5. LastParameterIn(r) \in Nat \ {0}
        BY <3>1, <4>4
      <4> QED BY <4>3, <4>5, ArgumentFacts
    <3>4. D \in SUBSET Registers
      BY <3>3
    <3>5. IncomingRequest \in [D -> Sources]
      BY <3>2, <3>3 DEF IncomingRequest
    <3> QED BY <2>3, <3>4, <3>5 DEF Request
  <2> QED BY <2>2, <2>3
<1> QED BY <1>1, <1>2, <1>3 DEF Parallel!Init

LEMMA StepIsParallel ==
    MoveInvariant /\ (Reached = IF Finished THEN Assigned ELSE Start)' /\ [Next]_vars
       => [Parallel!Next]_(Parallel!vars)
<1> SUFFICES ASSUME MoveInvariant, (Reached = IF Finished THEN Assigned ELSE Start)', [Next]_vars
             PROVE  [Parallel!Next]_(Parallel!vars)
  OBVIOUS
<1>1. parameters' = parameters /\ (moves' = moves \/ parameters # <<>>)
      /\ (Finished => UNCHANGED vars)
  <2>1. CASE UNCHANGED vars
    BY <2>1 DEF vars
  <2>2. parameters \in Seq(ParameterHomes) /\ read \in Nat /\ walked \in Nat
        /\ (emitting => read = Len(parameters) /\ walked = Len(moves))
    BY DEF MoveInvariant, TypeOK, Phases
  <2>3. CASE LowerGetParam
    <3>1. ~emitting /\ read < Len(parameters) /\ parameters' = parameters
      BY <2>3 DEF LowerGetParam
    <3>2. parameters # <<>>
      BY <2>2, <3>1
    <3> QED BY <3>1, <3>2 DEF Finished
  <2>4. CASE KeepLastWrite
    <3>1. walked < Len(moves) /\ parameters' = parameters /\ moves' = moves
      BY <2>4 DEF KeepLastWrite
    <3>2. ~emitting
      BY <2>2, <3>1
    <3> QED BY <3>1, <3>2 DEF Finished
  <2>5. CASE StartEmitting
    BY <2>5 DEF StartEmitting, Finished
  <2>6. CASE EmitReady
    <3>1. PICK i \in 1 .. Len(pending) : IsFirstReady(i)
      BY <2>6 DEF EmitReady
    <3>2. pending # <<>>
      BY <3>1
    <3> QED BY <2>6, <3>2 DEF EmitReady, Finished
  <2>7. CASE BreakCycle
    BY <2>7 DEF BreakCycle, Finished
  <2> QED BY <2>1, <2>3, <2>4, <2>5, <2>6, <2>7 DEF Next
<1>2. Request' = Request
  <2>1. CASE parameters # <<>>
    BY <1>1, <2>1 DEF Request, IncomingRequest, LastParameterIn
  <2>2. CASE moves' = moves
    BY <1>1, <2>2 DEF Request, OutgoingRequest, IncomingRequest, LastParameterIn
  <2> QED BY <1>1, <2>1, <2>2
<1>3. CASE ~Finished'
  <2>1. Finished = FALSE /\ Finished' = FALSE
    BY <1>1, <1>3 DEF vars, Finished
  <2>2. [r \in Registers |-> IF Finished THEN contents[r] ELSE r]'
           = [r \in Registers |-> IF Finished THEN contents[r] ELSE r]
    BY <2>1
  <2> QED BY <1>2, <2>1, <2>2 DEF Parallel!vars
<1>4. CASE Finished /\ Finished'
  <2>1. UNCHANGED vars /\ Finished = TRUE /\ Finished' = TRUE
    BY <1>1, <1>4
  <2>2. [r \in Registers |-> IF Finished THEN contents[r] ELSE r]'
           = [r \in Registers |-> IF Finished THEN contents[r] ELSE r]
    BY <2>1 DEF vars
  <2> QED BY <1>2, <2>1, <2>2 DEF Parallel!vars
<1>5. CASE ~Finished /\ Finished'
  <2>1. Finished = FALSE /\ Finished' = TRUE
    BY <1>5
  <2>2. Reached' = Assigned'
    BY <2>1
  <2>3. Reached' = [r \in Registers |-> IF r \in DOMAIN Request THEN Request[r] ELSE r]
    BY <1>2, <2>2 DEF Assigned
  <2> QED BY <1>2, <2>1, <2>3 DEF Parallel!Next, Parallel!Assign, Reached
<1> QED BY <1>3, <1>4, <1>5

(***************************************************************************)
(* The moves that were emitted, run one after another, do what the group   *)
(* asks for all at once: the step that leaves nothing pending is the       *)
(* simultaneous assignment, and every other step is none.                  *)
(***************************************************************************)
THEOREM MovesAreSimultaneous == Spec => Parallel!Init /\ [][Parallel!Next]_(Parallel!vars)
  BY InitIsParallel, ReachedFacts, StepIsParallel, MovesAreSound, PTL DEF Spec

-----------------------------------------------------------------------------
(***************************************************************************)
(* Counting the moves.  What was emitted, what is still pending and what   *)
(* the cycles that nothing has broken will cost come to one move for every *)
(* register that changes and one for every cycle.                          *)
(***************************************************************************)
Dests == {pending[i].dest : i \in 1 .. Len(pending)}

OpenCycles == {C \in Cycles : C \subseteq Dests}

\* The move of a pending register reads what the group asks for, or finds it
\* in the scratch register, whose cycle is broken.
ReadsItsSource(i) ==
    IF pending[i].source = Scratch THEN Request[pending[i].dest] \notin Dests
    ELSE pending[i].source = Request[pending[i].dest]

Counted ==
    /\ ~emitting => emitted = 0
    /\ emitting =>
          /\ Dests \subseteq Changing
          /\ \A i \in 1 .. Len(pending) : ReadsItsSource(i)
          /\ emitted + Cardinality(Dests) + Cardinality(OpenCycles)
                = Cardinality(Changing) + Cardinality(Cycles)

LEMMA CycleFacts ==
    \A C : C \in Cycles <=> C \in SUBSET Changing /\ IsCycle(Request, C)
  BY DEF Cycles, SourcesOf, IsCycle, ImageOf

LEMMA FiniteFacts ==
    ASSUME MoveInvariant, read = Len(parameters)
    PROVE  /\ IsFiniteSet(Changing) /\ IsFiniteSet(Cycles) /\ IsFiniteSet(OpenCycles)
           /\ \A C \in Cycles : IsFiniteSet(C)
<1>1. TypeOK /\ Origin /\ Len(moves) \in Nat
  BY DEF MoveInvariant, TypeOK
<1>2. DOMAIN Request = {moves[k].dest : k \in 1 .. Len(moves)}
  BY <1>1, RequestFacts
<1> DEFINE dest == [k \in 1 .. Len(moves) |-> moves[k].dest]
<1>3. DOMAIN Request = {dest[k] : k \in 1 .. Len(moves)}
  BY <1>2
<1> HIDE DEF dest
<1>4. IsFiniteSet(DOMAIN Request)
  BY <1>1, <1>3, RangeIsFinite
<1>5. IsFiniteSet(Changing)
  <2>1. Changing \in SUBSET DOMAIN Request
    BY DEF Changing
  <2> QED BY <1>4, <2>1, FS_Subset
<1>6. IsFiniteSet(Cycles)
  <2>1. Cycles \in SUBSET (SUBSET Changing)
    BY CycleFacts
  <2> QED BY <1>5, <2>1, FS_SUBSET, FS_Subset
<1>7. IsFiniteSet(OpenCycles)
  <2>1. OpenCycles \in SUBSET Cycles
    BY DEF OpenCycles
  <2> QED BY <1>6, <2>1, FS_Subset
<1>8. \A C \in Cycles : IsFiniteSet(C)
  BY <1>5, CycleFacts, FS_Subset
<1> QED BY <1>5, <1>6, <1>7, <1>8

\* A register leaves the pending ones, and with it at most one cycle.
LEMMA FewerDests ==
    ASSUME MoveInvariant, read = Len(parameters), Dests \subseteq Changing,
           NEW d \in Dests, NEW rest, rest = Dests \ {d}
    PROVE  Cardinality(Dests) \in Nat /\ Cardinality(rest) = Cardinality(Dests) - 1
<1>1. Dests \in SUBSET Changing /\ IsFiniteSet(Changing)
  BY FiniteFacts
<1>2. IsFiniteSet(Dests)
  BY <1>1, FS_Subset
<1> QED BY <1>2, FS_RemoveElement, FS_CardinalityType

LEMMA GroupKeeps ==
    ASSUME MoveInvariant, emitting,
           UNCHANGED <<parameters, read, moves, walked, written, emitting, frame>>
    PROVE  /\ Request' = Request /\ Changing' = Changing /\ Cycles' = Cycles
           /\ read = Len(parameters)
<1>1. Request' = Request
  BY LoopKeeps
<1> QED BY <1>1 DEF Changing, Cycles, SourcesOf, MoveInvariant, Phases

-----------------------------------------------------------------------------
\* The loop is entered with every register that changes pending.
LEMMA StartCounts ==
    ASSUME MoveInvariant, Counted, StartEmitting
    PROVE  Counted'
<1>1. /\ read = Len(parameters) /\ walked = Len(moves) /\ ~emitting /\ emitting' = TRUE
      /\ UNCHANGED <<parameters, read, moves, walked, written, pending, contents, frame, emitted>>
  BY DEF StartEmitting
<1>2. Request' = Request
  BY <1>1 DEF Request, OutgoingRequest, IncomingRequest, LastParameterIn
<1>3. Changing' = Changing /\ Cycles' = Cycles /\ Dests' = Dests
  BY <1>1, <1>2 DEF Changing, Cycles, SourcesOf, Dests
<1>4. MoveInvariant' /\ TypeOK /\ Origin /\ RealMoves
  BY StartKeeps DEF MoveInvariant
<1>5. /\ moves \in Seq(Moves) /\ Len(moves) \in Nat
      /\ \A i \in 1 .. Len(pending) :
            \E k \in 1 .. Len(moves) : pending[i] = moves[k] /\ WritesLast(k)
  <2>1. Behind = 1 .. Len(moves) /\ moves \in Seq(Moves) /\ Len(moves) \in Nat
    BY <1>1, <1>4 DEF Behind, TypeOK, Moves
  <2> QED BY <1>1, <2>1 DEF MoveInvariant, WalkedOver
<1>6. ASSUME NEW i \in 1 .. Len(pending)
      PROVE  /\ pending[i].source # Scratch /\ pending[i].source = Request[pending[i].dest]
             /\ pending[i].dest \in Changing
  <2>1. PICK k \in 1 .. Len(moves) : pending[i] = moves[k] /\ WritesLast(k)
    BY <1>5
  <2>2. moves[k].source \in Sources
    <3>1. moves[k] \in Moves
      BY <1>5
    <3> QED BY <3>1 DEF Moves
  <2>3. /\ moves[k].dest \in DOMAIN Request
        /\ Request[moves[k].dest] = moves[k].source
    BY <1>1, <1>4, <2>1, RequestFacts
  <2>4. pending[i].source # pending[i].dest
    BY <1>4 DEF RealMoves
  <2> QED BY <2>1, <2>2, <2>3, <2>4, ParallelMovesAssumption DEF Changing
<1>7. ASSUME NEW r \in Changing PROVE r \in Dests
  <2>1. r \in DOMAIN Request /\ Request[r] # r
    BY DEF Changing
  <2>2. r \in Registers
    <3>1. PICK k \in 1 .. Len(moves) : r = moves[k].dest
      BY <1>1, <1>4, <2>1, RequestFacts
    <3>2. moves[k] \in Moves
      BY <1>5
    <3> QED BY <3>1, <3>2 DEF Moves
  <2>3. contents[r] = r
    BY <1>1, <2>2 DEF MoveInvariant, NothingMovedEarly
  <2>4. ~Awaited(r)' => contents'[r] = IF r \in DOMAIN Request' THEN Request'[r] ELSE r
    BY <1>1, <1>4, <2>2 DEF MoveInvariant, Carried
  <2>5. Awaited(r)
    BY <1>1, <1>2, <2>1, <2>3, <2>4 DEF Awaited
  <2> QED BY <2>5 DEF Awaited, Dests
<1>8. Dests = Changing
  BY <1>6, <1>7 DEF Dests
<1>9. OpenCycles' = Cycles
  BY <1>3, <1>8, CycleFacts DEF OpenCycles
<1>10. emitted' = 0
  BY <1>1 DEF Counted
<1>11. Cardinality(Changing) \in Nat /\ Cardinality(Cycles) \in Nat
  BY <1>1, FiniteFacts, FS_CardinalityType
<1>12. \A i \in 1 .. Len(pending') : ReadsItsSource(i)'
  BY <1>1, <1>2, <1>6 DEF ReadsItsSource
<1> QED BY <1>1, <1>3, <1>8, <1>9, <1>10, <1>11, <1>12 DEF Counted

\* A register nothing reads is on no cycle.
LEMMA EmitCounts ==
    ASSUME MoveInvariant, Counted, EmitReady
    PROVE  Counted'
<1>1. PICK i \in 1 .. Len(pending) : IsFirstReady(i) /\ pending' = RemoveAt(pending, i)
  BY DEF EmitReady
<1>2. /\ emitting /\ emitted' = emitted + 1
      /\ UNCHANGED <<parameters, read, moves, walked, written, emitting, frame>>
  BY DEF EmitReady
<1>3. Request' = Request /\ Changing' = Changing /\ Cycles' = Cycles /\ read = Len(parameters)
  BY <1>2, GroupKeeps
<1>4. PICK d : d = pending[i].dest
  OBVIOUS
<1>5. pending \in Seq(PendingMoves) /\ OneMoveEach /\ emitted \in Nat
  BY DEF MoveInvariant, TypeOK, PendingMoves
<1>6. /\ \A j \in 1 .. Len(pending') : \E k \in 1 .. Len(pending) : k # i /\ pending'[j] = pending[k]
      /\ \A k \in 1 .. Len(pending) : k # i => \E j \in 1 .. Len(pending') : pending'[j] = pending[k]
  BY <1>1, <1>5, RemoveAtElements, SMTT(30)
<1>7. Dests' = Dests \ {d} /\ d \in Dests
  BY <1>4, <1>5, <1>6, SMTT(30) DEF Dests, OneMoveEach
<1>8. Dests' \subseteq Dests
  BY <1>7
<1>9. /\ Dests \subseteq Changing /\ \A k \in 1 .. Len(pending) : ReadsItsSource(k)
      /\ emitted + Cardinality(Dests) + Cardinality(OpenCycles)
            = Cardinality(Changing) + Cardinality(Cycles)
  BY <1>2 DEF Counted
<1>10. ASSUME NEW C \in OpenCycles PROVE d \notin C
  <2>1. ImageOf(Request, C) = C /\ C \subseteq Dests
    BY CycleFacts DEF OpenCycles, IsCycle
  <2>2. SUFFICES ASSUME NEW e \in C, Request[e] = d PROVE FALSE
    BY <2>1 DEF ImageOf
  <2>3. PICK k \in 1 .. Len(pending) : pending[k].dest = e
    BY <2>1, <2>2 DEF Dests
  <2>4. pending[k].source # d
    BY <1>1, <1>4 DEF IsFirstReady, IsRead
  <2> QED BY <1>7, <1>9, <2>2, <2>3, <2>4 DEF ReadsItsSource
<1>11. OpenCycles' = OpenCycles
  BY <1>3, <1>7, <1>10 DEF OpenCycles
<1>12. \A j \in 1 .. Len(pending') : ReadsItsSource(j)'
  <2>1. ASSUME NEW j \in 1 .. Len(pending')
        PROVE  IF pending'[j].source = Scratch THEN Request[pending'[j].dest] \notin Dests'
               ELSE pending'[j].source = Request[pending'[j].dest]
    <3>1. PICK k \in 1 .. Len(pending) : pending'[j] = pending[k]
      BY <1>6
    <3>2. ReadsItsSource(k)
      BY <1>9
    <3> QED BY <1>8, <3>1, <3>2 DEF ReadsItsSource
  <2> QED BY <1>3, <2>1 DEF ReadsItsSource
<1>13. Cardinality(Dests) \in Nat /\ Cardinality(Dests') = Cardinality(Dests) - 1
  BY <1>3, <1>7, <1>9, FewerDests
<1>14. Cardinality(OpenCycles) \in Nat
  BY <1>3, FiniteFacts, FS_CardinalityType
<1>15. emitted' + Cardinality(Dests') + Cardinality(OpenCycles')
          = Cardinality(Changing') + Cardinality(Cycles')
  BY <1>2, <1>3, <1>5, <1>9, <1>11, <1>13, <1>14
<1> QED BY <1>2, <1>3, <1>8, <1>9, <1>12, <1>15 DEF Counted

\* When every pending register is read they are all on cycles, and the one
\* through the register that is stashed is broken.
LEMMA BreakCounts ==
    ASSUME MoveInvariant, Counted, BreakCycle
    PROVE  Counted'
<1>1. PICK d : d = pending[1].dest
  OBVIOUS
<1>2. PICK redirected : redirected = [i \in 1 .. Len(pending) |-> Redirect(pending[i], d)]
  OBVIOUS
<1>3. /\ emitting /\ pending # <<>> /\ AllAreRead /\ emitted' = emitted + 2
      /\ pending' = Tail(redirected)
      /\ UNCHANGED <<parameters, read, moves, walked, written, emitting, frame>>
  BY <1>1, <1>2 DEF BreakCycle
<1>4. Request' = Request /\ Changing' = Changing /\ Cycles' = Cycles /\ read = Len(parameters)
  BY <1>3, GroupKeeps
<1>5. /\ pending \in Seq(PendingMoves) /\ OneMoveEach /\ emitted \in Nat /\ Len(pending) \in Nat
      /\ 1 \in 1 .. Len(pending)
  BY <1>3 DEF MoveInvariant, TypeOK, PendingMoves
<1>6. \A j \in 1 .. Len(pending) :
         /\ redirected[j].dest = pending[j].dest
         /\ redirected[j].source = IF pending[j].source = d THEN Scratch ELSE pending[j].source
  <2>1. ASSUME NEW j \in 1 .. Len(pending)
        PROVE  redirected[j] = Redirect(pending[j], d) /\ pending[j] \in PendingMoves
    BY <1>2, <1>5
  <2> QED BY <2>1 DEF Redirect, PendingMoves
<1>7. /\ Len(pending') = Len(pending) - 1
      /\ \A j \in 1 .. Len(pending) - 1 :
            j + 1 \in 1 .. Len(pending) /\ pending'[j] = redirected[j + 1]
  <2>1. redirected \in Seq({redirected[j] : j \in 1 .. Len(pending)})
        /\ Len(redirected) = Len(pending) /\ redirected # <<>>
    BY <1>2, <1>5
  <2> QED BY <1>3, <1>5, <2>1
<1>8. Dests' = Dests \ {d} /\ d \in Dests
  <2>1. d \in Dests
    BY <1>1, <1>5 DEF Dests
  <2>2. ASSUME NEW r \in Dests' PROVE r \in Dests /\ r # d
    <3>1. PICK j \in 1 .. Len(pending') : pending'[j].dest = r
      BY DEF Dests
    <3>2. PICK k \in 1 .. Len(pending) : k = j + 1 /\ pending'[j] = redirected[k]
      BY <1>7, <3>1
    <3>3. pending[k].dest = r /\ k # 1
      BY <1>5, <1>6, <3>1, <3>2
    <3> QED BY <1>1, <1>5, <3>3 DEF Dests, OneMoveEach
  <2>3. ASSUME NEW r \in Dests, r # d PROVE r \in Dests'
    <3>1. PICK k \in 1 .. Len(pending) : pending[k].dest = r
      BY DEF Dests
    <3>2. k - 1 \in 1 .. Len(pending) - 1 /\ (k - 1) + 1 = k
      BY <1>1, <1>5, <2>3, <3>1
    <3>3. pending'[k - 1] = redirected[k] /\ k - 1 \in 1 .. Len(pending')
      BY <1>7, <3>2
    <3>4. pending'[k - 1].dest = r
      BY <1>6, <3>1, <3>3
    <3> QED BY <3>3, <3>4 DEF Dests
  <2> QED BY <2>1, <2>2, <2>3
<1>9. Dests' \subseteq Dests
  BY <1>8
<1>10. /\ Dests \subseteq Changing /\ \A k \in 1 .. Len(pending) : ReadsItsSource(k)
       /\ emitted + Cardinality(Dests) + Cardinality(OpenCycles)
             = Cardinality(Changing) + Cardinality(Cycles)
  BY <1>3 DEF Counted
<1>11. {pending[j].source : j \in 1 .. Len(pending)} = Dests
  BY <1>3, ScratchIsFree DEF Dests
<1>12. \A j \in 1 .. Len(pending) : pending[j].source = Request[pending[j].dest]
  <2>1. Scratch \notin Dests
    <3>1. \A j \in 1 .. Len(pending) : pending[j].dest \in Registers
      BY <1>3, LoopFacts
    <3> QED BY <3>1, ParallelMovesAssumption DEF Dests, Sources
  <2>2. ASSUME NEW j \in 1 .. Len(pending) PROVE pending[j].source = Request[pending[j].dest]
    <3>1. ReadsItsSource(j) /\ pending[j].source \in Dests
      BY <1>10, <1>11
    <3> QED BY <2>1, <3>1 DEF ReadsItsSource
  <2> QED BY <2>2
<1>13. ImageOf(Request, Dests) = Dests
  <2>1. ASSUME NEW r \in Dests PROVE Request[r] \in Dests
    <3>1. PICK k \in 1 .. Len(pending) : pending[k].dest = r
      BY DEF Dests
    <3> QED BY <1>11, <1>12, <3>1
  <2>2. ASSUME NEW r \in Dests PROVE \E e \in Dests : Request[e] = r
    <3>1. PICK k \in 1 .. Len(pending) : pending[k].source = r
      BY <1>11
    <3> QED BY <1>12, <3>1 DEF Dests
  <2> QED BY <2>1, <2>2 DEF ImageOf
<1>14. IsFiniteSet(Dests)
  BY <1>4, <1>10, FiniteFacts, FS_Subset
<1>15. PICK broken \in SUBSET Dests : IsCycle(Request, broken) /\ d \in broken
  BY <1>8, <1>13, <1>14, CycleThrough
<1>16. broken \in OpenCycles /\ IsFiniteSet(broken)
  BY <1>10, <1>14, <1>15, CycleFacts, FS_Subset DEF OpenCycles
<1>17. OpenCycles' = OpenCycles \ {broken}
  <2>1. ASSUME NEW C \in OpenCycles, C # broken PROVE d \notin C
    BY <1>15, <1>16, <2>1, CycleFacts, CyclesApart DEF OpenCycles
  <2> QED BY <1>4, <1>8, <1>15, <2>1 DEF OpenCycles
<1>18. Cardinality(OpenCycles) \in Nat /\ Cardinality(OpenCycles') = Cardinality(OpenCycles) - 1
  BY <1>4, <1>16, <1>17, FiniteFacts, FS_RemoveElement, FS_CardinalityType
<1>19. Cardinality(Dests) \in Nat /\ Cardinality(Dests') = Cardinality(Dests) - 1
  BY <1>4, <1>8, <1>10, FewerDests
<1>20. \A j \in 1 .. Len(pending') : ReadsItsSource(j)'
  <2>1. ASSUME NEW j \in 1 .. Len(pending')
        PROVE  IF pending'[j].source = Scratch THEN Request[pending'[j].dest] \notin Dests'
               ELSE pending'[j].source = Request[pending'[j].dest]
    <3>1. PICK k \in 1 .. Len(pending) : pending'[j] = redirected[k]
      BY <1>7
    <3>2. pending'[j].dest = pending[k].dest /\ pending[k].source \in Dests
      BY <1>6, <1>11, <3>1
    <3>3. CASE pending[k].source = d
      BY <1>6, <1>8, <1>12, <3>1, <3>2, <3>3
    <3>4. CASE pending[k].source # d
      <4>1. Scratch \notin Dests
        <5>1. \A l \in 1 .. Len(pending) : pending[l].dest \in Registers
          BY <1>3, LoopFacts
        <5> QED BY <5>1, ParallelMovesAssumption DEF Dests, Sources
      <4> QED BY <1>6, <1>12, <3>1, <3>2, <3>4, <4>1
    <3> QED BY <3>3, <3>4
  <2> QED BY <1>4, <2>1 DEF ReadsItsSource
<1>21. emitted' + Cardinality(Dests') + Cardinality(OpenCycles')
          = Cardinality(Changing') + Cardinality(Cycles')
  BY <1>3, <1>4, <1>5, <1>10, <1>18, <1>19
<1> QED BY <1>3, <1>4, <1>9, <1>10, <1>20, <1>21 DEF Counted

LEMMA StepCounts == MoveInvariant /\ Counted /\ [Next]_vars => Counted'
<1> SUFFICES ASSUME MoveInvariant, Counted, [Next]_vars PROVE Counted'
  OBVIOUS
<1>1. CASE LowerGetParam
  BY <1>1 DEF LowerGetParam, Counted
<1>2. CASE KeepLastWrite
  <2>1. ~emitting
    BY <1>2 DEF KeepLastWrite, MoveInvariant, Phases, TypeOK
  <2> QED BY <1>2, <2>1 DEF KeepLastWrite, Counted
<1>3. CASE UNCHANGED vars
  <2>1. Request' = Request
    BY <1>3 DEF vars, Request, OutgoingRequest, IncomingRequest, LastParameterIn
  <2>2. Changing' = Changing /\ Cycles' = Cycles /\ Dests' = Dests
    BY <1>3, <2>1 DEF vars, Changing, Cycles, SourcesOf, Dests
  <2>3. OpenCycles' = OpenCycles /\ \A i : ReadsItsSource(i)' <=> ReadsItsSource(i)
    BY <1>3, <2>1, <2>2 DEF vars, OpenCycles, ReadsItsSource
  <2> QED BY <1>3, <2>2, <2>3 DEF vars, Counted
<1> QED BY <1>1, <1>2, <1>3, StartCounts, EmitCounts, BreakCounts DEF Next

(***************************************************************************)
(* emit_parallel_moves emits one move for every register that changes and  *)
(* one more for every cycle, whatever the group.                           *)
(***************************************************************************)
THEOREM NoMoveTooMany == Spec => []FewestMoves
<1>1. Init => Counted
  BY DEF Init, Counted
<1>2. MoveInvariant /\ Counted => FewestMoves
  <2> SUFFICES ASSUME MoveInvariant, Counted, Finished
               PROVE  emitted = Cardinality(Changing) + Cardinality(Cycles)
    BY DEF FewestMoves
  <2>1. emitting /\ pending = <<>> /\ emitted \in Nat
    BY DEF Finished, MoveInvariant, TypeOK
  <2>2. Dests = {}
    BY <2>1 DEF Dests
  <2>3. OpenCycles = {}
    BY <2>2, CycleFacts DEF OpenCycles, IsCycle
  <2>4. Cardinality({}) = 0
    BY FS_EmptySet
  <2> QED BY <2>1, <2>2, <2>3, <2>4 DEF Counted
<1> QED BY <1>1, <1>2, MovesAreSound, StepCounts, PTL DEF Spec
=============================================================================
