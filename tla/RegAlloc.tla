------------------------------ MODULE RegAlloc ------------------------------
(***************************************************************************)
(* From a control-flow graph to a home for every virtual register:         *)
(* backend/linear.rs, backend/vreg.rs and backend/liveness.rs, and then    *)
(* linear_scan (module LinearScan), as target.rs calls them one after      *)
(* another.                                                                *)
(*                                                                         *)
(* A block is named by the rank of its label, the order in which a         *)
(* BTreeMap holds it.  An instruction is what it reads and writes.  The    *)
(* model takes one step per turn of each loop: of the depth-first order,   *)
(* of the layout, of the rounds of the dataflow equations, of the walk     *)
(* that makes the intervals, and of the allocator.                         *)
(***************************************************************************)
EXTENDS Integers, FiniteSets, SequencesExt

CONSTANTS
    VirtualRegs,  \* VirtualReg
    NoReg,        \* an instruction that writes no virtual register
    Graphs,       \* the functions to compile
    NumRegisters, CalleeSaved

Opcodes == {"other", "param", "call"}

Instruction(op, reads, writes) == [op |-> op, reads |-> reads, writes |-> writes]

(***************************************************************************)
(* A CFG as the middle end leaves it: a block's last instruction is its    *)
(* transfer, only the exit block is empty, a call reads nothing itself,    *)
(* and its Params stand right before it.                                   *)
(***************************************************************************)
Instructions == [op : Opcodes, reads : SUBSET VirtualRegs, writes : VirtualRegs \cup {NoReg}]

ParamsMeetTheirCall(body) ==
    \A i \in DOMAIN body :
       /\ body[i].op = "call" => body[i].reads = {}
       /\ body[i].op = "param" =>
             i < Len(body) /\ body[i + 1].op \in {"param", "call"} /\ body[i].writes = NoReg

IsGraph(g) ==
    /\ g.bodies \in Seq(Seq(Instructions))
    /\ g.successors \in [DOMAIN g.bodies -> Seq(DOMAIN g.bodies)]
    /\ g.entry \in DOMAIN g.bodies /\ g.bodies[g.entry] # <<>>
    /\ \A b \in DOMAIN g.bodies :
          /\ ParamsMeetTheirCall(g.bodies[b])
          /\ g.bodies[b] = <<>> => g.successors[b] = <<>>

ASSUME RegAllocAssumption ==
    /\ NoReg \notin VirtualRegs
    /\ NumRegisters \in Nat /\ CalleeSaved \subseteq 1 .. NumRegisters
    /\ \A g \in Graphs : IsGraph(g)

VARIABLES
    cfg,         \* the function
    phase,       \* which pass runs: "order", "layout", "dataflow", "intervals", "scan"
    turn,        \* the block the loop of the pass looks at next
    at,          \* the successor or the instruction of that block, 0 between two blocks
    stack,       \* depth_first_order: labels to visit
    visitOrder,  \* depth_first_order: labels visited
    length,      \* linearize_cfg: how many instructions are laid out
    starts,      \* linearize_cfg: where the range of a block starts
    blocks,      \* linearize_cfg: the blocks laid out
    emptyBlocks, \* linearize_cfg: the blocks without instructions
    changed,     \* compute_live_out: something changed in this round
    liveIn,      \* LIVE_IN of the blocks looked at so far
    liveOut,     \* LIVE_OUT of the blocks looked at so far
    spans,       \* compute_live_intervals: start and end per virtual register
    order        \* the virtual registers in the order of their intervals

VARIABLES
    intervals, callSites, cursor, active, available, usedCalleeSaved,
    assignments, spillSlots \* of LinearScan

orderVars    == <<stack, visitOrder>>
layoutVars   == <<length, starts, blocks, emptyBlocks>>
livenessVars == <<changed, liveIn, liveOut>>
spanVars     == <<spans, order>>
passVars     == <<cfg, phase, turn, at, orderVars, layoutVars, livenessVars, spanVars>>
scanVars     == <<intervals, callSites, cursor, active, available, usedCalleeSaved,
                  assignments, spillSlots>>
vars         == <<passVars, scanVars>>

Scan == INSTANCE LinearScan WITH Workloads <- {}

Labels == DOMAIN cfg.bodies

Body(b) == cfg.bodies[b]

Put(table, key, value) ==
    [k \in DOMAIN table \cup {key} |-> IF k = key THEN value ELSE table[k]]

Init ==
    /\ cfg \in Graphs
    /\ phase = "order" /\ turn = 1 /\ at = 0
    /\ stack = <<cfg.entry>> /\ visitOrder = <<>>
    /\ length = 0 /\ starts = <<>> /\ blocks = <<>> /\ emptyBlocks = <<>>
    /\ changed = FALSE /\ liveIn = <<>> /\ liveOut = <<>>
    /\ spans = <<>> /\ order = <<>>
    /\ intervals = <<>> /\ callSites = {} /\ cursor = 1
    /\ active = <<>> /\ available = <<>> /\ usedCalleeSaved = {}
    /\ assignments = <<>> /\ spillSlots = 0

-----------------------------------------------------------------------------
(***************************************************************************)
(* depth_first_order: one label off the stack; then its successors, the    *)
(* last one first, onto it.                                                *)
(***************************************************************************)
Visited(b) == b \in ToSet(visitOrder)

VisitLabel ==
    /\ phase = "order" /\ at = 0 /\ stack # <<>>
    /\ stack' = Front(stack)
    /\ IF Visited(Last(stack)) THEN UNCHANGED <<visitOrder, at>>
       ELSE /\ visitOrder' = Append(visitOrder, Last(stack))
            /\ at' = Len(cfg.successors[Last(stack)])
    /\ UNCHANGED <<cfg, phase, turn, layoutVars, livenessVars, spanVars, scanVars>>

PushSuccessor ==
    /\ phase = "order" /\ at > 0
    /\ LET successor == cfg.successors[Last(visitOrder)][at]
       IN  stack' = IF Visited(successor) THEN stack ELSE Append(stack, successor)
    /\ at' = at - 1
    /\ UNCHANGED <<cfg, phase, turn, visitOrder, layoutVars, livenessVars, spanVars, scanVars>>

\* The blocks the entry cannot reach come after the others, by label.
AppendUnreached ==
    /\ phase = "order" /\ at = 0 /\ stack = <<>> /\ turn \in Labels
    /\ visitOrder' = IF Visited(turn) THEN visitOrder ELSE Append(visitOrder, turn)
    /\ turn' = turn + 1
    /\ UNCHANGED <<cfg, phase, at, stack, layoutVars, livenessVars, spanVars, scanVars>>

FinishOrder ==
    /\ phase = "order" /\ at = 0 /\ stack = <<>> /\ turn \notin Labels
    /\ phase' = "layout" /\ turn' = 1
    /\ UNCHANGED <<cfg, at, orderVars, layoutVars, livenessVars, spanVars, scanVars>>

-----------------------------------------------------------------------------
(***************************************************************************)
(* linearize_cfg: positions are handed out in visit order; blocks without  *)
(* instructions are laid out behind all others.                            *)
(***************************************************************************)
\* Mutant: empty blocks stay where they were visited.
NeverTrails(b) == FALSE

Trails(b) == Body(b) = <<>>

LayOutBlock ==
    /\ phase = "layout" /\ turn \in DOMAIN visitOrder
    /\ LET b == visitOrder[turn]
       IN  /\ starts' = Put(starts, b, length)
           /\ length' = length + Len(Body(b))
           /\ IF Trails(b) THEN emptyBlocks' = Append(emptyBlocks, b) /\ UNCHANGED blocks
              ELSE blocks' = Append(blocks, b) /\ UNCHANGED emptyBlocks
    /\ turn' = turn + 1
    /\ UNCHANGED <<cfg, phase, at, orderVars, livenessVars, spanVars, scanVars>>

FinishLayout ==
    /\ phase = "layout" /\ turn \notin DOMAIN visitOrder
    /\ blocks' = blocks \o emptyBlocks
    /\ phase' = "dataflow" /\ turn' = Len(cfg.bodies)
    /\ UNCHANGED <<cfg, at, orderVars, length, starts, emptyBlocks, livenessVars, spanVars, scanVars>>

-----------------------------------------------------------------------------
(***************************************************************************)
(* compute_live_out: rounds over the blocks from the last label to the     *)
(* first, until one changes nothing.                                       *)
(***************************************************************************)
Kill(b) == {Body(b)[i].writes : i \in DOMAIN Body(b)} \ {NoReg}

Use(b) ==
    UNION {Body(b)[i].reads \ {Body(b)[j].writes : j \in 1 .. i - 1} : i \in DOMAIN Body(b)}

\* Mutant: only the first successor is looked at.
FirstSuccessorIn(b) ==
    UNION {liveIn[s] : s \in {cfg.successors[b][k] : k \in DOMAIN cfg.successors[b] \cap {1}} \cap DOMAIN liveIn}

SuccessorsIn(b) == UNION {liveIn[s] : s \in ToSet(cfg.successors[b]) \cap DOMAIN liveIn}

Is(table, b, value) == b \in DOMAIN table /\ table[b] = value

SolveBlock ==
    /\ phase = "dataflow" /\ turn > 0
    /\ LET newOut == SuccessorsIn(turn)
           newIn  == Use(turn) \cup (newOut \ Kill(turn))
       IN  /\ liveOut' = Put(liveOut, turn, newOut)
           /\ liveIn' = Put(liveIn, turn, newIn)
           /\ changed' = (changed \/ ~Is(liveIn, turn, newIn) \/ ~Is(liveOut, turn, newOut))
    /\ turn' = turn - 1
    /\ UNCHANGED <<cfg, phase, at, orderVars, layoutVars, spanVars, scanVars>>

EndRound ==
    /\ phase = "dataflow" /\ turn = 0
    /\ IF changed THEN turn' = Len(cfg.bodies) /\ UNCHANGED phase
       ELSE turn' = Len(blocks) /\ phase' = "intervals"
    /\ changed' = FALSE
    /\ UNCHANGED <<cfg, at, orderVars, layoutVars, liveIn, liveOut, spanVars, scanVars>>

-----------------------------------------------------------------------------
(***************************************************************************)
(* compute_live_intervals: the laid-out blocks from the last to the first. *)
(* What is live out of a block spans it; then, from its last instruction   *)
(* to its first, a definition moves the start to itself, and a use reaches *)
(* back to the start of the block.                                         *)
(***************************************************************************)
Lower(x, y) == IF x < y THEN x ELSE y
Upper(x, y) == IF x > y THEN x ELSE y

Extend(table, vregs, from, to) ==
    [v \in DOMAIN table \cup vregs |->
        IF v \notin vregs THEN table[v]
        ELSE IF v \notin DOMAIN table THEN [start |-> from, end |-> to]
        ELSE [start |-> Lower(table[v].start, from), end |-> Upper(table[v].end, to)]]

\* Mutant: a value nothing reads gets no interval.
DefineIfRead(table, vregs, point) ==
    [v \in DOMAIN table |-> IF v \in vregs THEN [table[v] EXCEPT !.start = point] ELSE table[v]]

Define(table, vregs, point) ==
    [v \in DOMAIN table \cup vregs |->
        IF v \notin vregs THEN table[v]
        ELSE IF v \notin DOMAIN table THEN [start |-> point, end |-> point]
        ELSE [table[v] EXCEPT !.start = point]]

PositionOf(b, i) == starts[b] + i - 1

SpanInstruction(table, b, i) ==
    Extend(Define(table, {Body(b)[i].writes} \ {NoReg}, PositionOf(b, i)),
           Body(b)[i].reads, starts[b], PositionOf(b, i))

\* Mutant: what is live out of a block spans its last instruction only.
SpanLastInstruction(table, b) ==
    Extend(table, liveOut[b], PositionOf(b, Len(Body(b))), PositionOf(b, Len(Body(b))))

SpanLiveOut(table, b) ==
    Extend(table, liveOut[b], starts[b], PositionOf(b, Len(Body(b))))

SpanBlock ==
    /\ phase = "intervals" /\ at = 0 /\ turn > 0
    /\ IF Body(blocks[turn]) = <<>> THEN turn' = turn - 1 /\ UNCHANGED <<at, spans>>
       ELSE /\ spans' = SpanLiveOut(spans, blocks[turn])
            /\ at' = Len(Body(blocks[turn]))
            /\ UNCHANGED turn
    /\ UNCHANGED <<cfg, phase, orderVars, layoutVars, livenessVars, order, scanVars>>

SpanNext ==
    /\ phase = "intervals" /\ at > 0
    /\ spans' = SpanInstruction(spans, blocks[turn], at)
    /\ at' = at - 1
    /\ turn' = IF at = 1 THEN turn - 1 ELSE turn
    /\ UNCHANGED <<cfg, phase, orderVars, layoutVars, livenessVars, order, scanVars>>

(***************************************************************************)
(* The intervals are sorted by start, then end; which of two equal ones    *)
(* comes first is up to a HashMap and an unstable sort.  find_call_sites   *)
(* adds the calls, and linear_scan begins.                                 *)
(***************************************************************************)
NoLater(u, v) ==
    \/ spans[u].start < spans[v].start
    \/ spans[u].start = spans[v].start /\ spans[u].end <= spans[v].end

Unsorted == DOMAIN spans \ ToSet(order)

Spanned == phase = "intervals" /\ at = 0 /\ turn = 0

SortNext ==
    /\ Spanned
    /\ \E v \in Unsorted :
          (\A u \in Unsorted : NoLater(v, u)) /\ order' = Append(order, v)
    /\ UNCHANGED <<cfg, phase, turn, at, orderVars, layoutVars, livenessVars, spans, scanVars>>

RankOf(v) == IF Contains(order, v) THEN CHOOSE k \in DOMAIN order : order[k] = v ELSE 0

Points == UNION {{b} \X DOMAIN Body(b) : b \in Labels}

CallPoints == {c \in Points : Body(c[1])[c[2]].op = "call"}

SiteOf(c) ==
    [position |-> PositionOf(c[1], c[2]), defines |-> RankOf(Body(c[1])[c[2]].writes)]

HandOver ==
    /\ Spanned /\ Unsorted = {}
    /\ phase' = "scan"
    /\ intervals' = [k \in DOMAIN order |-> spans[order[k]]]
    /\ callSites' = {SiteOf(c) : c \in CallPoints}
    /\ assignments' = [k \in DOMAIN order |-> Scan!Unassigned]
    /\ available' = [r \in Scan!Registers |-> TRUE]
    /\ cursor' = 1 /\ active' = <<>> /\ usedCalleeSaved' = {} /\ spillSlots' = 0
    /\ UNCHANGED <<cfg, turn, at, orderVars, layoutVars, livenessVars, spanVars>>

PlaceInterval == phase = "scan" /\ Scan!PlaceNext /\ UNCHANGED passVars

Allocated == phase = "scan" /\ cursor > Len(intervals)

Finished == Allocated /\ UNCHANGED vars

Next ==
    \/ VisitLabel \/ PushSuccessor \/ AppendUnreached \/ FinishOrder
    \/ LayOutBlock \/ FinishLayout \/ SolveBlock \/ EndRound
    \/ SpanBlock \/ SpanNext \/ SortNext \/ HandOver \/ PlaceInterval \/ Finished

Spec == Init /\ [][Next]_vars

-----------------------------------------------------------------------------
(***************************************************************************)
(* Liveness by its definition: a value is live where some path leads to a  *)
(* read of it before any write.  The reads are those of the machine code:  *)
(* a Param is remembered and read when its call is lowered                 *)
(* (lower_call drains pending_arguments).                                  *)
(***************************************************************************)
PointsOf(b) == 1 .. Len(Body(b))

ArgumentsOf(b, i) ==
    UNION {Body(b)[j].reads : j \in {j \in 1 .. i - 1 : \A k \in j .. i - 1 : Body(b)[k].op = "param"}}

ReadsAt(b, i) ==
    CASE Body(b)[i].op = "param" -> {}
      [] Body(b)[i].op = "call"  -> ArgumentsOf(b, i)
      [] Body(b)[i].op = "other" -> Body(b)[i].reads

\* v is read in b after instruction i, before any write of it.
ReadAfter(v, b, i) ==
    \E j \in i + 1 .. Len(Body(b)) :
       v \in ReadsAt(b, j) /\ \A k \in i + 1 .. j - 1 : Body(b)[k].writes # v

KeptAfter(v, b, i) == \A k \in i + 1 .. Len(Body(b)) : Body(b)[k].writes # v

\* The blocks a path that does not write v leads to from the end of b: the
\* least set with b's successors and those of each member v passes through.
HoldsPaths(v, b, set) ==
    /\ ToSet(cfg.successors[b]) \subseteq set
    /\ \A c \in set : KeptAfter(v, c, 0) => ToSet(cfg.successors[c]) \subseteq set

ReachedWith(v, b) ==
    {c \in Labels : \A set \in SUBSET Labels : HoldsPaths(v, b, set) => c \in set}

LiveAtEnd(v, b) == \E c \in ReachedWith(v, b) : ReadAfter(v, c, 0)

LiveAfter(v, b, i) == ReadAfter(v, b, i) \/ (KeptAfter(v, b, i) /\ LiveAtEnd(v, b))

(***************************************************************************)
(* The rounds of compute_live_out stop at the exact answer, neither before *)
(* a loop has carried a use all the way around nor with anything dead.     *)
(***************************************************************************)
LiveOutIsExact ==
    phase = "intervals" =>
       \A b \in Labels : liveOut[b] = {v \in VirtualRegs : LiveAtEnd(v, b)}

(***************************************************************************)
(* What everything before the allocator is for: when an instruction writes *)
(* a register's home, no other value still to be read is there; and what   *)
(* is still to be read after a call is nowhere a callee may write.  A use  *)
(* that an interval does not cover, on a back edge say, breaks this.       *)
(***************************************************************************)
HomeOf(v) == assignments[RankOf(v)]

NothingLiveIsDestroyed ==
    Allocated =>
       \A b \in Labels : \A i \in PointsOf(b) :
          \A v \in VirtualRegs \ {Body(b)[i].writes} :
             LiveAfter(v, b, i) =>
                /\ Body(b)[i].writes # NoReg => HomeOf(v) # HomeOf(Body(b)[i].writes)
                /\ (Body(b)[i].op = "call" /\ HomeOf(v).at = "register") =>
                      HomeOf(v).n \in CalleeSaved

(***************************************************************************)
(* The layout: every block once, the entry first, no empty block in front  *)
(* of one with code, so that a jump to the exit label falls into the       *)
(* epilogue, and the ranges of two blocks apart and in the order in which  *)
(* the blocks are emitted (linearize_cfg).                                 *)
(***************************************************************************)
LayoutIsComplete ==
    phase \notin {"order", "layout"} =>
       /\ ToSet(blocks) = Labels /\ Len(blocks) = Len(cfg.bodies)
       /\ blocks[1] = cfg.entry
       /\ \A k \in DOMAIN blocks, l \in DOMAIN blocks :
             (k < l /\ Body(blocks[l]) # <<>>) =>
                /\ Body(blocks[k]) # <<>>
                /\ starts[blocks[k]] + Len(Body(blocks[k])) <= starts[blocks[l]]

(***************************************************************************)
(* What the allocator is handed is what it may rely on (LinearScan states  *)
(* it as an assumption), every register an instruction names has an        *)
(* interval, and LinearScan's invariant holds along the way.                *)
(***************************************************************************)
HandsOverAWorkload ==
    phase = "scan" =>
       /\ Scan!IsWorkload([intervals |-> intervals, callSites |-> callSites])
       /\ Scan!IInv
       /\ \A b \in Labels : \A i \in PointsOf(b) :
             Body(b)[i].reads \cup ({Body(b)[i].writes} \ {NoReg}) \subseteq ToSet(order)
       /\ \A call \in callSites : \A k \in DOMAIN order :
             call.defines = k => intervals[k].start <= call.position
                                 /\ call.position <= intervals[k].end
=============================================================================
