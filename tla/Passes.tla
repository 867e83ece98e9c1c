------------------------------- MODULE Passes -------------------------------
(***************************************************************************)
(* What each optimisation pass but constant propagation makes of a         *)
(* function (middle/ssa/passes/*.rs), as operators from function to        *)
(* function.                                                               *)
(***************************************************************************)
EXTENDS SsaFunction

(***************************************************************************)
(* simplify.rs: identities with one operand known, or both the same.       *)
(***************************************************************************)
Simpler(inst) ==
    LET lhs == inst.args[1]
        rhs == inst.args[2]
        Has(c)   == lhs = c \/ rhs = c
        Other(c) == IF lhs = c THEN rhs ELSE lhs
        Copy(operand) == Inst(inst.dest, "copy", <<operand>>)
        same == lhs = rhs /\ lhs \in Values
    IN  CASE inst.op = "add" /\ Has(0) -> Copy(Other(0))
          [] inst.op = "mul" /\ Has(0) -> Copy(0)
          [] inst.op = "mul" /\ ~Has(0) /\ Has(1) -> Copy(Other(1))
          [] inst.op = "mul" /\ ~Has(0) /\ ~Has(1) /\ Has(2) ->
                Inst(inst.dest, "add", <<Other(2), Other(2)>>)
          [] inst.op = "div" /\ rhs = 1 -> Copy(lhs)
          [] inst.op \in {"div", "eq"} /\ same -> Copy(1)
          [] OTHER -> inst

Simplified(f) ==
    [f EXCEPT !.blocks = [b \in BlockIds(f) |->
        [f.blocks[b] EXCEPT !.insts = [i \in DOMAIN @ |-> Simpler(@[i])]]]]

-----------------------------------------------------------------------------
\* Where following `links' from an operand ends: resolve, and canonical.  A
\* chain that closes on itself ends at one of its own links.
ChainEnd(operand, links) ==
    LET after[n \in 0 .. Cardinality(DOMAIN links)] ==
            IF n = 0 THEN operand
            ELSE LET at == after[n - 1] IN IF at \in DOMAIN links THEN links[at] ELSE at
    IN  after[Cardinality(DOMAIN links)]

(***************************************************************************)
(* gvn.rs.  The walk over the dominator tree keeps the expressions         *)
(* available where it is; entering a block numbers its phis and its        *)
(* instructions, and leaving it takes back what it added.                  *)
(***************************************************************************)
Commutative == {"add", "mul", "eq"}

\* An expression: operands of a commutative operator in either order.
Key(op, at, args) ==
    [op |-> op, at |-> at,
     args |-> IF op \in Commutative THEN {args, Reverse(args)} ELSE {args}]

\* Mutant: reading memory is numbered like arithmetic.
NumberedWithLoads == BinaryOps \cup {"addr", "load"}

\* What key answers for; the rest is never numbered.
Numbered == BinaryOps \cup {"addr"}

Canonical(walk, args) == [a \in DOMAIN args |-> ChainEnd(args[a], walk.replacement)]

\* HashMap::insert.
Inserted(map, key, value) == [k \in DOMAIN map \cup {key} |-> IF k = key THEN value ELSE map[k]]

Number(walk, b, key, dest) ==
    IF key \in DOMAIN walk.available
    THEN [walk EXCEPT !.replacement = Inserted(@, dest, walk.available[key])]
    ELSE [walk EXCEPT !.available = Inserted(@, key, dest), !.added[b] = @ \cup {key}]

NumberPhi(walk, b, phi) ==
    Number(walk, b, Key("phi", b, Canonical(walk, phi.args)), phi.dest)

NumberInst(walk, b, inst) ==
    IF inst.dest # NoValue /\ inst.op \in Numbered
    THEN Number(walk, b, Key(inst.op, 0, Canonical(walk, inst.args)), inst.dest)
    ELSE walk

NumberPhis(phis, walk, b) ==
    LET after[n \in 0 .. Len(phis)] ==
            IF n = 0 THEN walk ELSE LET w == after[n - 1] IN NumberPhi(w, b, phis[n])
    IN  after[Len(phis)]

NumberInsts(insts, walk, b) ==
    LET after[n \in 0 .. Len(insts)] ==
            IF n = 0 THEN walk ELSE LET w == after[n - 1] IN NumberInst(w, b, insts[n])
    IN  after[Len(insts)]

NumberBlock(f, walk, b) ==
    NumberInsts(f.blocks[b].insts, NumberPhis(f.blocks[b].phis, walk, b), b)

EnterBlock(f, children, walk, b) ==
    [NumberBlock(f, walk, b) EXCEPT
        !.steps = Append(Front(@), <<"leave", b>>)
                  \o Reverse([k \in DOMAIN children[b] |-> <<"enter", children[b][k]>>])]

\* Mutant: what a block computed stays available after it.
LeaveBlockOpen(walk, b) == [walk EXCEPT !.steps = Front(@)]

LeaveBlock(walk, b) ==
    [walk EXCEPT !.steps = Front(@),
                 !.available = [key \in DOMAIN @ \ walk.added[b] |-> @[key]]]

WalkStep(f, children, walk) ==
    LET step == Last(walk.steps)
    IN  CASE walk.steps = <<>> -> walk
          [] walk.steps # <<>> /\ step[1] = "enter" -> EnterBlock(f, children, walk, step[2])
          [] walk.steps # <<>> /\ step[1] = "leave" -> LeaveBlock(walk, step[2])

WalkOf(f) ==
    LET children == Children(f)
        steps == 2 * Len(f.blocks) \* every block is entered once, and left
        after[n \in 0 .. steps] ==
            IF n = 0 THEN [steps |-> <<<<"enter", 1>>>>, available |-> <<>>, replacement |-> <<>>,
                           added |-> [b \in BlockIds(f) |-> {}]]
            ELSE LET walk == after[n - 1] IN WalkStep(f, children, walk)
    IN  after[steps]

\* run and apply: redundant values are read where they were first computed.
ValueNumbered(f) ==
    LET replacement == WalkOf(f).replacement
        resolved == [v \in DOMAIN replacement |-> ChainEnd(v, replacement)]
    IN  RemoveDefinitions(SubstituteOperands(f, resolved), DOMAIN resolved)

-----------------------------------------------------------------------------
(***************************************************************************)
(* copyprop.rs.                                                            *)
(***************************************************************************)
\* phi_source: what the arguments are, apart from the phi itself.
PhiSources(phi) == ToSet(phi.args) \ {phi.dest}

DirectCopies(f) ==
    LET phis   == UNION {ToSet(f.blocks[b].phis) : b \in BlockIds(f)}
        copies == {inst \in UNION {ToSet(f.blocks[b].insts) : b \in BlockIds(f)} :
                     inst.op = "copy" /\ inst.dest # NoValue}
        trivial == {phi \in phis : Cardinality(PhiSources(phi)) = 1}
        Source(v) == (UNION {PhiSources(phi) : phi \in {phi \in trivial : phi.dest = v}})
                     \cup {inst.args[1] : inst \in {inst \in copies : inst.dest = v}}
    IN  [v \in {d.dest : d \in trivial \cup copies} |-> CHOOSE o \in Source(v) : TRUE]

\* resolve: the copies whose chain does not close on itself.
CopiesToResolve(f) ==
    LET direct == DirectCopies(f) IN {v \in DOMAIN direct : ChainEnd(v, direct) \notin DOMAIN direct}

ReadThrough(f) ==
    LET direct == DirectCopies(f)
    IN  SubstituteOperands(f, [v \in CopiesToResolve(f) |-> ChainEnd(v, direct)])

\* Mutant: the copies are left for dead-code elimination.
CopiesLeftBehind(f) == ReadThrough(f)

CopyPropagated(f) == RemoveDefinitions(ReadThrough(f), CopiesToResolve(f))

-----------------------------------------------------------------------------
(***************************************************************************)
(* dce.rs: what is observable and what that reads, by way of the recorded  *)
(* definition sites.                                                       *)
(***************************************************************************)
InstsOf(f) == UNION {ToSet(f.blocks[b].insts) : b \in BlockIds(f)}

OperandsOfDefinition(f, v) ==
    IF f.site[v] # Removed THEN ToSet(f.blocks[f.site[v][1]].phis[f.site[v][2]].args)
    ELSE UNION {ToSet(inst.args) : inst \in {inst \in InstsOf(f) : inst.dest = v}}

Roots(f) ==
    (UNION {ToSet(inst.args) : inst \in {inst \in InstsOf(f) : inst.op \in EffectOps}})
    \cup (UNION {ToSet(f.blocks[b].term.args) : b \in BlockIds(f)})

Marked(f) ==
    LET within[n \in 0 .. Cardinality(Values)] ==
            IF n = 0 THEN Roots(f) \cap Values
            ELSE LET closer == within[n - 1]
                 IN  closer \cup ((UNION {OperandsOfDefinition(f, v) : v \in closer}) \cap Values)
    IN  within[Cardinality(Values)]

\* An effect stays even when nothing reads its result.
Swept(f) ==
    LET live == Marked(f)
        Staying(b) == {i \in DOMAIN f.blocks[b].insts :
                          \/ f.blocks[b].insts[i].op \in EffectOps
                          \/ f.blocks[b].insts[i].dest \in live}
    IN  Thinned(f, Values \ live, [b \in BlockIds(f) |-> Staying(b)])

-----------------------------------------------------------------------------
(***************************************************************************)
(* blocks.rs.                                                              *)
(***************************************************************************)
Mergeable(f, b) ==
    LET term == f.blocks[b].term
    IN  /\ term.kind = "jump" /\ term.to[1] # b
        /\ f.blocks[term.to[1]].preds = <<b>>
        /\ f.blocks[term.to[1]].phis = <<>>

\* next_merge and merge_blocks, if there is such a pair.
MergeNext(f) ==
    LET b == SelectInSeq([k \in BlockIds(f) |-> k], LAMBDA k : Mergeable(f, k))
    IN  IF b = 0 THEN f ELSE MergeBlocks(f, b, Successors(f, b)[1])

\* Mutant: only one pair is merged.
MergedOnce(f) == RetainReachable(MergeNext(f))

Merged(f) ==
    LET after[n \in 0 .. Len(f.blocks)] == IF n = 0 THEN f ELSE LET g == after[n - 1] IN MergeNext(g)
        merged == after[Len(f.blocks)]
    IN  IF merged = f THEN f ELSE RetainReachable(merged)
=============================================================================
