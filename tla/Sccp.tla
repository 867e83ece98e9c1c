-------------------------------- MODULE Sccp --------------------------------
(***************************************************************************)
(* Sparse conditional constant propagation: middle/ssa/passes/sccp.rs.     *)
(*                                                                         *)
(* The analysis keeps what is known about every value and which blocks and *)
(* edges can be executed, and two stacks of work: edges found traversable  *)
(* and not yet followed, and values whose readers have to be revisited.    *)
(* When both are empty, apply rewrites the function; the model then runs   *)
(* the pass a second time.                                                 *)
(*                                                                         *)
(* A visit is a block, whether one of its phis (0), of its instructions    *)
(* (1) or its terminator (2) is looked at, and a position.  What is left   *)
(* of a loop over visits is `agenda'; they are made in their order.  The   *)
(* block that is to be entered behind them is `arriving'.                  *)
(***************************************************************************)
EXTENDS SsaFunction

CONSTANTS Functions, \* the functions the pass is run over
          Steps      \* bound on the blocks of a run that is looked at

ASSUME SccpAssumption ==
    /\ Steps \in Nat
    /\ \A f \in Functions : IsFunction(f) /\ WellFormed(f)

VARIABLES
    original, \* the function as it was given to the first run
    function, \* the function
    solver,   \* Solver: known, executable, edges, the stacks flow and ssa;
              \* and where it is: agenda, arriving
    drains,   \* which stack the loop drains: "flow" or "ssa"
    run,      \* which run of the pass this is
    changed   \* what the runs that are over reported

vars == <<original, function, solver, drains, run, changed>>

\* Known.
Nothing     == [is |-> "nothing", value |-> 0]
Constant(c) == [is |-> "constant", value |-> c]
Anything    == [is |-> "anything", value |-> 0]

Meet(p, q) ==
    IF p = Nothing THEN q
    ELSE IF q = Nothing \/ p = q THEN p ELSE Anything

KnownOf(s, operand) == IF operand \in Values THEN s.known[operand] ELSE Constant(operand)

(***************************************************************************)
(* record: what is known only ever goes down, and the readers of a value   *)
(* are woken when it does.                                                 *)
(***************************************************************************)
\* Mutant: the readers are woken every time.
RecordAlways(s, value, known) ==
    [s EXCEPT !.known[value] = Meet(@, known), !.ssa = Append(@, value)]

Record(s, value, known) ==
    LET after == Meet(s.known[value], known)
    IN  IF after = s.known[value] THEN s
        ELSE [s EXCEPT !.known[value] = after, !.ssa = Append(@, value)]

\* visit_phi: the meet of the arguments that arrive along a traversable edge.
ArrivingAt(s, b, phi) ==
    {KnownOf(s, phi.args[k]) :
        k \in {k \in DOMAIN phi.args : <<function.blocks[b].preds[k], b>> \in s.edges}}

\* Mutant: any of them will do.
MeetOfFirst(all) ==
    LET told == all \ {Nothing}
    IN  IF told = {} THEN Nothing ELSE CHOOSE k \in told : TRUE

MeetOf(all) ==
    LET told == all \ {Nothing}
    IN  IF told = {} THEN Nothing
        ELSE IF \E k \in told : told = {k} THEN CHOOSE k \in told : TRUE ELSE Anything

VisitPhi(s, b, phi) == Record(s, phi.dest, MeetOf(ArrivingAt(s, b, phi)))

\* evaluate, with fold answering nothing for a division by zero.
Evaluate(s, inst) ==
    LET x == KnownOf(s, inst.args[1])
        y == KnownOf(s, inst.args[2])
    IN  CASE inst.op = "copy"  -> x
          [] inst.op = "undef" -> Constant(0)
          [] inst.op \in BinaryOps ->
                IF Anything \in {x, y} THEN Anything
                ELSE IF Nothing \in {x, y} THEN Nothing
                ELSE IF inst.op = "div" /\ y.value = 0 THEN Anything
                ELSE Constant(Fold(inst.op, x.value, y.value))
          [] OTHER -> Anything

VisitInst(s, inst) ==
    IF inst.dest = NoValue THEN s ELSE Record(s, inst.dest, Evaluate(s, inst))

\* visit_terminator: the edges the block can leave along.
Leaving(s, term) ==
    LET known == KnownOf(s, term.args[1])
    IN  CASE term.kind = "jump"   -> term.to
          [] term.kind = "branch" ->
                IF known = Nothing THEN <<>>
                ELSE IF known = Anything THEN term.to
                ELSE IF known.value = 0 THEN <<term.to[2]>> ELSE <<term.to[1]>>
          [] OTHER -> <<>>

VisitTerminator(s, b) ==
    LET targets == Leaving(s, function.blocks[b].term)
    IN  [s EXCEPT !.flow = @ \o [k \in DOMAIN targets |-> <<b, targets[k]>>]]

Visit(s, visit) ==
    LET block == function.blocks[visit[1]]
    IN  CASE visit[2] = 0 -> VisitPhi(s, visit[1], block.phis[visit[3]])
          [] visit[2] = 1 -> VisitInst(s, block.insts[visit[3]])
          [] OTHER -> VisitTerminator(s, visit[1])

-----------------------------------------------------------------------------
PhiVisits(b) == {b} \X {0} \X DOMAIN function.blocks[b].phis

VisitsOf(b) ==
    PhiVisits(b) \cup ({b} \X {1} \X DOMAIN function.blocks[b].insts) \cup {<<b, 2, 1>>}

ArgsAt(visit) ==
    LET block == function.blocks[visit[1]]
    IN  CASE visit[2] = 0 -> block.phis[visit[3]].args
          [] visit[2] = 1 -> block.insts[visit[3]].args
          [] OTHER -> block.term.args

Before(v, w) ==
    \/ v[1] < w[1]
    \/ v[1] = w[1] /\ v[2] < w[2]
    \/ v[1] = w[1] /\ v[2] = w[2] /\ v[3] < w[3]

\* Solver::solve: first the entry block is entered.
Fresh ==
    [known |-> [v \in Values |-> Nothing], executable |-> {}, edges |-> {},
     flow |-> <<>>, ssa |-> <<>>, agenda |-> {}, arriving |-> 1]

Begin(f) ==
    /\ function' = f
    /\ solver' = Fresh
    /\ drains' = "flow"

Init ==
    /\ original \in Functions
    /\ function = original
    /\ solver = Fresh
    /\ drains = "flow"
    /\ run = 1
    /\ changed = <<>>

\* One visit of the loop that goes on.
NextVisit ==
    /\ \E visit \in solver.agenda :
          /\ \A other \in solver.agenda : other = visit \/ Before(visit, other)
          /\ solver' = [Visit(solver, visit) EXCEPT !.agenda = @ \ {visit}]
    /\ UNCHANGED <<original, function, drains, run, changed>>

\* enter: a block is reached for the first time.
EnterBlock ==
    /\ solver.agenda = {} /\ solver.arriving # 0
    /\ solver' = [solver EXCEPT !.executable = @ \cup {solver.arriving},
                                !.agenda = VisitsOf(solver.arriving), !.arriving = 0]
    /\ UNCHANGED <<original, function, drains, run, changed>>

Idle == solver.agenda = {} /\ solver.arriving = 0

(***************************************************************************)
(* One edge off the flow stack.  An edge already followed is skipped; a    *)
(* new one gives the target's phis one argument more, and may be the first *)
(* way into it.                                                            *)
(***************************************************************************)
\* Mutant: the phis of a block that is already reached are not looked at.
FollowIntoNew(s, edge) ==
    IF edge \in s.edges THEN s
    ELSE [s EXCEPT !.edges = @ \cup {edge},
                   !.arriving = IF edge[2] \in s.executable THEN 0 ELSE edge[2]]

Follow(s, edge) ==
    IF edge \in s.edges THEN s
    ELSE [s EXCEPT !.edges = @ \cup {edge}, !.agenda = PhiVisits(edge[2]),
                   !.arriving = IF edge[2] \in s.executable THEN 0 ELSE edge[2]]

FollowEdge ==
    /\ Idle /\ drains = "flow" /\ solver.flow # <<>>
    /\ solver' = Follow([solver EXCEPT !.flow = Front(@)], Last(solver.flow))
    /\ UNCHANGED <<original, function, drains, run, changed>>

\* One value off the ssa stack: every read of it in a reached block.
ReadersOf(s, value) ==
    {visit \in UNION {VisitsOf(b) : b \in s.executable} : Contains(ArgsAt(visit), value)}

WakeReaders ==
    /\ Idle /\ drains = "ssa" /\ solver.ssa # <<>>
    /\ solver' = [solver EXCEPT !.ssa = Front(@), !.agenda = ReadersOf(solver, Last(solver.ssa))]
    /\ UNCHANGED <<original, function, drains, run, changed>>

\* Each inner loop runs until its stack is empty.
SwitchStack ==
    /\ Idle
    /\ \/ drains = "flow" /\ solver.flow = <<>> /\ drains' = "ssa"
       \/ drains = "ssa" /\ solver.ssa = <<>> /\ solver.flow # <<>> /\ drains' = "flow"
    /\ UNCHANGED <<original, function, solver, run, changed>>

Solved == Idle /\ drains = "ssa" /\ solver.ssa = <<>> /\ solver.flow = <<>>

-----------------------------------------------------------------------------
(***************************************************************************)
(* apply: constants are read in place of the values that hold them, a      *)
(* branch with one traversable edge becomes a jump along it, and blocks    *)
(* nothing reaches any more are deleted.                                   *)
(***************************************************************************)
ConstantValues(s) == {v \in Values : s.known[v].is = "constant"}

\* Whether b's branch can be left along its first or second edge.
Taken(f, b, s, k) == <<b, Successors(f, b)[k]>> \in s.edges

Foldable(f, b, s) ==
    f.blocks[b].term.kind = "branch" /\ Taken(f, b, s, 1) # Taken(f, b, s, 2)

FoldBranch(f, b, s) ==
    IF Foldable(f, b, s)
    THEN SetTerminator(f, b, Jump(Successors(f, b)[IF Taken(f, b, s, 1) THEN 1 ELSE 2]))
    ELSE f

FoldBranches(f, s) ==
    LET folded[b \in 0 .. Len(f.blocks)] ==
            IF b = 0 THEN f
            ELSE LET before == folded[b - 1] IN FoldBranch(before, b, s)
    IN  folded[Len(f.blocks)]

Applied(f, s) ==
    LET constants == ConstantValues(s)
    IN  RetainReachable(FoldBranches(
            SubstituteOperands(f, [v \in constants |-> s.known[v].value]), s))

Reports(f, s) ==
    \/ ReadsAny(f, ConstantValues(s))
    \/ \E b \in BlockIds(f) : Foldable(f, b, s)
    \/ Reachable(FoldBranches(f, s)) # BlockIds(f)

Apply ==
    /\ Solved
    /\ run <= 2
    /\ changed' = Append(changed, Reports(function, solver))
    /\ run' = run + 1
    /\ IF run = 1 THEN Begin(Applied(function, solver))
       ELSE function' = Applied(function, solver) /\ UNCHANGED <<solver, drains>>
    /\ UNCHANGED original

Finished == run > 2 /\ UNCHANGED vars

Next == NextVisit \/ EnterBlock \/ FollowEdge \/ WakeReaders \/ SwitchStack \/ Apply \/ Finished

Spec == Init /\ [][Next]_vars

-----------------------------------------------------------------------------
(***************************************************************************)
(* What the analysis concludes is true of every run of the function: the   *)
(* blocks a run reaches and the edges it follows were proved traversable,  *)
(* and a value known to be constant has that constant at the end of every  *)
(* block in which it is defined.                                           *)
(***************************************************************************)
DefinedIn(f, b) == {v \in Values : \E d \in Definitions(f, v) : d[1] = b}

SolutionIsSound ==
    (Solved /\ run <= 2) =>
       \A input \in Inputs :
          LET states == RunOf(function, input, Steps)
          IN  \A n \in DOMAIN states :
                 LET s == states[n]
                     done == BlockDone(function, input, s)
                 IN  s.status = "running" =>
                       /\ s.block \in solver.executable
                       /\ s.from = 0 \/ <<s.from, s.block>> \in solver.edges
                       /\ \A v \in DefinedIn(function, s.block) :
                             done.status # "undefined" =>
                                solver.known[v] \in {Constant(done.env[v]), Anything}

\* The function changes only where a run ends; the next one starts in block 1.
JustApplied == run > 2 \/ (run = 2 /\ solver.arriving = 1)

(***************************************************************************)
(* The pass leaves the meaning of the function alone: the same calls and   *)
(* the same value returned, for every input.                               *)
(***************************************************************************)
SameBehaviour == JustApplied => BehavesLike(function, original, Steps)

(***************************************************************************)
(* What the verifier checks after the pass (debug_assert_valid): deleting  *)
(* edges and blocks keeps predecessor lists, phi arguments, recorded       *)
(* definition sites and dominance in step.                                 *)
(***************************************************************************)
StaysWellFormed == JustApplied => IsFunction(function) /\ WellFormed(function)

(***************************************************************************)
(* run's doc comment: "Running it twice over the same function changes     *)
(* nothing the second time", and it does not claim to have; the fixed      *)
(* point of `optimize' relies on it.                                       *)
(***************************************************************************)
SecondRunChangesNothing == Len(changed) = 2 => ~changed[2]

(***************************************************************************)
(* The two stacks feed each other and still run dry (record: "which is     *)
(* what guarantees it terminates"): every step of the pass lowers a        *)
(* measure.  Either something is learnt, of which there is only so much,   *)
(* or the work left gets less, a value counting for all the visits there   *)
(* can be.  With no deadlock before the end, the pass ends.                *)
(***************************************************************************)
StillToLearn ==
    Cardinality({v \in Values : solver.known[v] = Nothing})
    + Cardinality({v \in Values : solver.known[v] # Anything})
    + Cardinality(EdgesOf(function) \ solver.edges)
    + Cardinality(BlockIds(function) \ solver.executable)

\* A visit of a terminator may push two edges.
WorkOf(visits) == Cardinality(visits) + 2 * Cardinality({visit \in visits : visit[2] = 2})

WorkLeft ==
    Len(solver.flow) + WorkOf(solver.agenda)
    + Len(solver.ssa) * (1 + WorkOf(UNION {VisitsOf(b) : b \in BlockIds(function)}))

AtEmptyStack ==
    IF \/ drains = "flow" /\ solver.flow = <<>>
       \/ drains = "ssa" /\ solver.ssa = <<>> /\ solver.flow # <<>>
    THEN 1 ELSE 0

Measure == <<2 - run, StillToLearn, WorkLeft, AtEmptyStack>>

TerminationMeasureFalls ==
    [][\E k \in DOMAIN Measure :
          /\ Measure'[k] < Measure[k]
          /\ \A j \in 1 .. k - 1 : Measure'[j] = Measure[j]]_vars
=============================================================================
