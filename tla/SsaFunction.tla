---------------------------- MODULE SsaFunction -----------------------------
(***************************************************************************)
(* One function in SSA form (middle/ssa/mod.rs): its blocks, the edits the *)
(* passes make to it, and what the verifier (middle/ssa/verify.rs) demands *)
(* of it after each of them.                                               *)
(*                                                                         *)
(* A block's id is its position; the entry is block 1.  `site' is what the *)
(* value arena records about the values phis define: the block and the     *)
(* position in it, or Removed.  An instruction is kept in its block, so    *)
(* its own definition site cannot go stale.                                *)
(***************************************************************************)
EXTENDS Integers, FiniteSets, SequencesExt

CONSTANTS Values,  \* ValueId
          NoValue, \* the `dest' of an instruction that defines nothing
          Width,   \* bits in a word
          Inputs   \* the inputs that executions are looked at for

Word == 0 .. 2^Width - 1

Operands == Values \cup Word

Removed == <<0, 0>>

\* Op, as far as a pass tells them apart.
BinaryOps == {"add", "mul", "div", "eq"}
PureOps   == BinaryOps \cup {"copy", "undef", "param", "load", "addr"}
EffectOps == {"call", "store"}

Phi(dest, args)      == [dest |-> dest, args |-> args]
Inst(dest, op, args) == [dest |-> dest, op |-> op, args |-> args]
Jump(target)         == [kind |-> "jump", to |-> <<target>>, args |-> <<>>]
Branch(cond, then, else) ==
    [kind |-> "branch", to |-> <<then, else>>, args |-> <<cond>>]
Return(value)        == [kind |-> "return", to |-> <<>>, args |-> <<value>>]
Block(preds, phis, insts, term) ==
    [preds |-> preds, phis |-> phis, insts |-> insts, term |-> term]

BlockIds(f) == DOMAIN f.blocks

Successors(f, b) == f.blocks[b].term.to

EdgesOf(f) == {e \in BlockIds(f) \X BlockIds(f) : Contains(Successors(f, e[1]), e[2])}

\* What can be reached from the entry without entering a block of `avoided'.
ReachableAvoiding(f, avoided) ==
    LET within[n \in 0 .. Len(f.blocks)] ==
            IF n = 0 THEN {1} \ avoided
            ELSE LET closer == within[n - 1]
                 IN  closer \cup ((UNION {ToSet(Successors(f, b)) : b \in closer}) \ avoided)
    IN  within[Len(f.blocks)]

Reachable(f) == ReachableAvoiding(f, {})

-----------------------------------------------------------------------------
(***************************************************************************)
(* DefUse::compute: where every value is read, in the order of the blocks, *)
(* a phi's arguments first, the terminator last; one entry per operand.    *)
(***************************************************************************)
ReadsOf(args, block, kind, position) ==
    [a \in DOMAIN args |->
        [value |-> args[a], block |-> block, kind |-> kind, position |-> position]]

ReadsIn(f, b) ==
    LET block == f.blocks[b]
    IN  FlattenSeq([p \in DOMAIN block.phis |-> ReadsOf(block.phis[p].args, b, "phi", p)])
        \o FlattenSeq([i \in DOMAIN block.insts |-> ReadsOf(block.insts[i].args, b, "inst", i)])
        \o ReadsOf(block.term.args, b, "terminator", Len(block.insts) + 1)

AllReads(f) == FlattenSeq([b \in BlockIds(f) |-> ReadsIn(f, b)])

-----------------------------------------------------------------------------
(***************************************************************************)
(* substitute_operands: every read of a replaced value, anywhere in the    *)
(* function.  It reports whether there was one.                            *)
(***************************************************************************)
With(replacement, args) ==
    [a \in DOMAIN args |->
        IF args[a] \in DOMAIN replacement THEN replacement[args[a]] ELSE args[a]]

WithAll(replacement, list) == [k \in DOMAIN list |-> [list[k] EXCEPT !.args = With(replacement, @)]]

WithBlock(replacement, block) ==
    [block EXCEPT !.phis = WithAll(replacement, @), !.insts = WithAll(replacement, @),
                  !.term.args = With(replacement, @)]

\* Mutant: the terminators are passed over.
WithBody(replacement, block) ==
    [block EXCEPT !.phis = WithAll(replacement, @), !.insts = WithAll(replacement, @)]

SubstituteInBodies(f, replacement) ==
    [f EXCEPT !.blocks = [b \in BlockIds(f) |-> WithBody(replacement, f.blocks[b])]]

SubstituteOperands(f, replacement) ==
    [f EXCEPT !.blocks = [b \in BlockIds(f) |-> WithBlock(replacement, f.blocks[b])]]

ReadsAny(f, values) == \E r \in ToSet(AllReads(f)) : r.value \in values

DropArgument(position, phis) ==
    [p \in DOMAIN phis |-> [phis[p] EXCEPT !.args = RemoveAt(@, position)]]

\* remove_edge: the first predecessor entry, and the argument that goes with it.
RemoveEdge(f, from, to) ==
    LET position == SelectInSeq(f.blocks[to].preds, LAMBDA pred : pred = from)
    IN  [f EXCEPT !.blocks[to].preds = RemoveAt(@, position),
                  !.blocks[to].phis = DropArgument(position, @)]

(***************************************************************************)
(* set_terminator: an old edge the new terminator still has is kept, the   *)
(* others go, and what the new one has on top is new to its target.        *)
(***************************************************************************)
SetTerminator(f, b, term) ==
    LET old == Successors(f, b)
        matched[k \in 0 .. Len(old)] ==
            IF k = 0 THEN [f |-> f, added |-> term.to]
            ELSE LET before == matched[k - 1]
                 IN  IF Contains(before.added, old[k])
                     THEN [before EXCEPT !.added = RemoveFirst(@, old[k])]
                     ELSE [before EXCEPT !.f = RemoveEdge(@, b, old[k])]
        rest  == matched[Len(old)]
        added == rest.added
        entered[k \in 0 .. Len(added)] ==
            IF k = 0 THEN rest.f
            ELSE LET before == entered[k - 1]
                 IN  [before EXCEPT !.blocks[added[k]].preds = Append(@, b)]
    IN  [entered[Len(added)] EXCEPT !.blocks[b].term = term]

(***************************************************************************)
(* retain_reachable: the phi arguments of unreachable predecessors go with *)
(* them, the other blocks move together, and everything that names a block *)
(* is renumbered.                                                          *)
(***************************************************************************)
Renumbered(kept, b) == Cardinality({c \in kept : c <= b})

\* The members of a set of numbers, in order.
Ascending(kept) == [n \in 1 .. Cardinality(kept) |-> CHOOSE b \in kept : Renumbered(kept, b) = n]

\* Mutant: the recorded sites are not renumbered.
SiteStays(kept, site) == site

SiteMoves(kept, site) ==
    IF site = Removed \/ site[1] \notin kept THEN Removed
    ELSE <<Renumbered(kept, site[1]), site[2]>>

Rebuilt(kept, block) ==
    LET arriving == Ascending({k \in DOMAIN block.preds : block.preds[k] \in kept})
        Only(list) == [k \in DOMAIN arriving |-> list[arriving[k]]]
        Moved(ids) == [k \in DOMAIN ids |-> Renumbered(kept, ids[k])]
    IN  Block(Moved(Only(block.preds)),
              [p \in DOMAIN block.phis |-> Phi(block.phis[p].dest, Only(block.phis[p].args))],
              block.insts,
              [block.term EXCEPT !.to = Moved(@)])

RetainReachable(f) ==
    LET kept  == Reachable(f)
        order == Ascending(kept)
    IN  IF kept = BlockIds(f) THEN f
        ELSE [blocks |-> [n \in DOMAIN order |-> Rebuilt(kept, f.blocks[order[n]])],
              site   |-> [v \in DOMAIN f.site |-> SiteMoves(kept, f.site[v])]]

(***************************************************************************)
(* retain_phis and remove: definitions go, and the phis that stay are      *)
(* recorded at their new positions.                                        *)
(***************************************************************************)
\* Vec::retain: the entries of list at the positions in kept.
EntriesAt(list, kept) ==
    LET order == Ascending(kept) IN [n \in DOMAIN order |-> list[order[n]]]

Outside(list, dead) == {k \in DOMAIN list : list[k].dest \notin dead}

PhisOutside(f, b, dead) == EntriesAt(f.blocks[b].phis, Outside(f.blocks[b].phis, dead))

\* Mutant: the phis that stay are not recorded again.
RetainPhisInPlace(f, b, dead) ==
    LET dropped == {phi \in ToSet(f.blocks[b].phis) : phi.dest \in dead}
    IN  [f EXCEPT !.blocks[b].phis = PhisOutside(f, b, dead),
                  !.site = [v \in DOMAIN @ |->
                               IF \E phi \in dropped : phi.dest = v THEN Removed ELSE @[v]]]

RetainPhis(f, b, dead) ==
    LET kept    == PhisOutside(f, b, dead)
        dropped == {phi \in ToSet(f.blocks[b].phis) : phi.dest \in dead}
        At(v)   == {p \in DOMAIN kept : kept[p].dest = v}
        Site(v) == CASE At(v) # {} -> <<b, Max(At(v))>>
                     [] At(v) = {} /\ (\E phi \in dropped : phi.dest = v) -> Removed
                     [] OTHER -> f.site[v]
    IN  [f EXCEPT !.blocks[b].phis = kept, !.site = [v \in DOMAIN @ |-> Site(v)]]

RetainInsts(f, b, kept) == [f EXCEPT !.blocks[b].insts = EntriesAt(@, kept)]

RemoveInsts(f, b, dead) == RetainInsts(f, b, Outside(f.blocks[b].insts, dead))

\* Block after block, the phis of dead go, and the instructions not at kept.
Thinned(f, dead, kept) ==
    LET after[n \in 0 .. Len(f.blocks)] ==
            IF n = 0 THEN f
            ELSE LET before == after[n - 1]
                 IN  RetainInsts(RetainPhis(before, n, dead), n, kept[n])
    IN  after[Len(f.blocks)]

RemoveDefinitions(f, dead) ==
    Thinned(f, dead, [b \in BlockIds(f) |-> Outside(f.blocks[b].insts, dead)])

(***************************************************************************)
(* merge_blocks: first takes over the instructions and the transfer of     *)
(* second, and second's successors are entered from first instead, at the  *)
(* same place.  What is left of second is unreachable.                     *)
(***************************************************************************)
MergeBlocks(f, first, second) ==
    LET Inherited(block) ==
            [block EXCEPT !.preds = [k \in DOMAIN @ |-> IF @[k] = second THEN first ELSE @[k]]]
        merged == [b \in BlockIds(f) |->
                      IF Contains(Successors(f, second), b) THEN Inherited(f.blocks[b])
                      ELSE f.blocks[b]]
    IN  [f EXCEPT !.blocks =
            [merged EXCEPT ![first].insts = @ \o merged[second].insts,
                           ![first].term = merged[second].term,
                           ![second] = Block(<<>>, <<>>, <<>>, Return(0))]]

-----------------------------------------------------------------------------
(***************************************************************************)
(* Running a function, one block at a time.  An input fixes the parameter, *)
(* what is in memory, and what successive calls answer; a call may also    *)
(* change memory.  What the world sees is the calls with their arguments,  *)
(* in order, and the value returned.  A division by zero is undefined.     *)
(***************************************************************************)
AllInputs == [param : Word, memory : Word, answer : Word]

ASSUME SsaAssumption ==
    /\ Inputs \subseteq AllInputs
    /\ NoValue \notin Values /\ IsFiniteSet(Values) /\ Values \cap Word = {}
    /\ 2^Width \in Nat /\ 2^Width >= 2

Fold(op, x, y) ==
    CASE op = "add" -> (x + y) % 2^Width
      [] op = "mul" -> (x * y) % 2^Width
      [] op = "div" -> x \div y
      [] op = "eq"  -> IF x = y THEN 1 ELSE 0

Start(input) ==
    [block |-> 1, from |-> 0, env |-> [v \in Values |-> 0], memory |-> input.memory,
     calls |-> <<>>, status |-> "running", result |-> 0]

ValueIn(env, operand) == IF operand \in Values THEN env[operand] ELSE operand

Executed(inst, input, s) ==
    LET x == ValueIn(s.env, inst.args[1])
        y == ValueIn(s.env, inst.args[2])
        Define(value) == [s EXCEPT !.env[inst.dest] = value]
        answer == (input.answer + Len(s.calls)) % 2^Width
    IN  IF s.status = "undefined" THEN s
        ELSE IF inst.op = "div" /\ y = 0 THEN [s EXCEPT !.status = "undefined"]
        ELSE CASE inst.op \in BinaryOps -> Define(Fold(inst.op, x, y))
               [] inst.op = "copy"  -> Define(x)
               [] inst.op = "undef" -> Define(0)
               [] inst.op = "addr"  -> Define(1)
               [] inst.op = "param" -> Define(input.param)
               [] inst.op = "load"  -> Define(s.memory)
               [] inst.op = "store" -> [s EXCEPT !.memory = x]
               [] OTHER -> \* a call
                     [Define(answer) EXCEPT !.calls = Append(@, x), !.memory = answer]

PhisDone(f, s) ==
    LET block == f.blocks[s.block]
        way   == CHOOSE k \in DOMAIN block.preds : block.preds[k] = s.from
        written == {block.phis[p].dest : p \in DOMAIN block.phis}
        PhiOf(v) == CHOOSE p \in DOMAIN block.phis : block.phis[p].dest = v
    IN  [s EXCEPT !.env = [v \in Values |->
            IF v \in written THEN ValueIn(s.env, block.phis[PhiOf(v)].args[way]) ELSE s.env[v]]]

Transferred(term, s) ==
    LET value == ValueIn(s.env, term.args[1])
        GoTo(b) == [s EXCEPT !.block = b, !.from = s.block]
    IN  IF s.status = "undefined" THEN s
        ELSE CASE term.kind = "jump"   -> GoTo(term.to[1])
               [] term.kind = "branch" -> GoTo(IF value # 0 THEN term.to[1] ELSE term.to[2])
               [] OTHER -> [s EXCEPT !.status = "returned", !.result = value]

\* The state at the end of the block, before control leaves it.
BlockDone(f, input, s) ==
    LET insts == f.blocks[s.block].insts
        after[i \in 0 .. Len(insts)] ==
            IF i = 0 THEN PhisDone(f, s) ELSE Executed(insts[i], input, after[i - 1])
    IN  after[Len(insts)]

\* The states at the entry of the blocks a run goes through, up to `steps' of
\* them; the last one is where it ended, if it did.
RunOf(f, input, steps) ==
    LET upTo[n \in 0 .. steps] ==
            IF n = 0 THEN <<Start(input)>>
            ELSE LET run == upTo[n - 1]
                     s   == Last(run)
                 IN  IF s.status # "running" THEN run
                     ELSE Append(run, Transferred(f.blocks[s.block].term, BlockDone(f, input, s)))
    IN  upTo[steps]

(***************************************************************************)
(* g does what f does, as far as the given number of steps shows: where f  *)
(* returns so does g, with the same value after the same calls, and before *)
(* that g has made no call f does not make.  Where f is undefined, g may   *)
(* do anything.                                                            *)
(***************************************************************************)
BehavesLike(g, f, steps) ==
    \A input \in Inputs :
       LET original == Last(RunOf(f, input, steps))
           other    == Last(RunOf(g, input, steps))
       IN  CASE original.status = "undefined" -> TRUE
             [] original.status = "returned"  ->
                   /\ other.status = "returned"
                   /\ other.result = original.result /\ other.calls = original.calls
             [] original.status = "running"   ->
                   /\ other.status = "running"
                   /\ IsPrefix(original.calls, other.calls)

-----------------------------------------------------------------------------
(***************************************************************************)
(* What blocks, values and operations are by their types (Function, Block, *)
(* Op, Terminator), and that there is no phi where no edge leads.          *)
(***************************************************************************)
BlocksAmong(ids) ==
    [preds : Seq(ids),
     phis  : Seq([dest : Values, args : Seq(Operands)]),
     insts : Seq([dest : Values \cup {NoValue}, op : PureOps \cup EffectOps, args : Seq(Operands)]),
     term  : [kind : {"jump", "branch", "return"}, to : Seq(ids), args : Seq(Operands)]]

HasItsOperands(inst) ==
    /\ inst.op \in BinaryOps => Len(inst.args) = 2
    /\ inst.op \in {"copy", "store", "call"} => Len(inst.args) = 1
    /\ inst.op = "store" => inst.dest = NoValue

HasItsTargets(term) ==
    /\ term.kind = "jump"   => Len(term.to) = 1
    /\ term.kind = "branch" => Len(term.to) = 2 /\ Len(term.args) = 1
    /\ term.kind = "return" => Len(term.to) = 0

IsFunction(f) ==
    /\ f \in [blocks : Seq(BlocksAmong(BlockIds(f))), site : [Values -> Nat \X Nat]]
    /\ 1 \in BlockIds(f) /\ f.blocks[1].phis = <<>>
    /\ \A b \in BlockIds(f) :
          /\ \A i \in DOMAIN f.blocks[b].insts : HasItsOperands(f.blocks[b].insts[i])
          /\ HasItsTargets(f.blocks[b].term)

-----------------------------------------------------------------------------
(***************************************************************************)
(* verify_ssa: everything the passes may assume about a function.          *)
(***************************************************************************)
AllReachable(f) == Reachable(f) = BlockIds(f) /\ f.blocks[1].preds = <<>>

CountIn(s, e) == Cardinality({k \in DOMAIN s : s[k] = e})

EdgesAgree(f) ==
    \A b \in BlockIds(f) :
       /\ ToSet(f.blocks[b].preds) \subseteq BlockIds(f)
       /\ \A a \in BlockIds(f) :
             CountIn(f.blocks[b].preds, a) = CountIn(Successors(f, a), b)
       /\ \A p \in DOMAIN f.blocks[b].phis :
             Len(f.blocks[b].phis[p].args) = Len(f.blocks[b].preds)

\* Where v is defined: block and position, phis all at position 0.
PhiSites(f, v) ==
    {s \in UNION {{b} \X DOMAIN f.blocks[b].phis : b \in BlockIds(f)} :
        f.blocks[s[1]].phis[s[2]].dest = v}

InstSites(f, v) ==
    {s \in UNION {{b} \X DOMAIN f.blocks[b].insts : b \in BlockIds(f)} :
        f.blocks[s[1]].insts[s[2]].dest = v}

Definitions(f, v) == {<<s[1], 0>> : s \in PhiSites(f, v)} \cup InstSites(f, v)

ValuesRead(args) == ToSet(args) \cap Values

ValuesReadIn(block) ==
    (UNION {ValuesRead(phi.args) : phi \in ToSet(block.phis)})
    \cup (UNION {ValuesRead(inst.args) : inst \in ToSet(block.insts)})
    \cup ValuesRead(block.term.args)

DefinedOnce(f) ==
    /\ \A b \in BlockIds(f) : \A v \in ValuesReadIn(f.blocks[b]) : Definitions(f, v) # {}
    /\ \A v \in Values :
          /\ \A d, e \in Definitions(f, v) : d = e
          /\ \A s \in PhiSites(f, v) : f.site[v] = s
          /\ InstSites(f, v) # {} => f.site[v] = Removed

NoCriticalEdge(f) ==
    \A e \in EdgesOf(f) : Len(Successors(f, e[1])) < 2 \/ Len(f.blocks[e[2]].preds) < 2

ParametersFirst(f) ==
    \A b \in BlockIds(f) : \A i \in DOMAIN f.blocks[b].insts :
       f.blocks[b].insts[i].op = "param" =>
          b = 1 /\ \A j \in 1 .. i : f.blocks[b].insts[j].op = "param"

\* Every way from the entry to b passes through a.
Dominates(f, a, b) == b \notin ReachableAvoiding(f, {a})

\* What is read at a position of b was defined on every way to it.
DefinedBefore(f, v, b, position) ==
    \A d \in Definitions(f, v) :
       IF d[1] = b THEN d[2] < position ELSE Dominates(f, d[1], b)

UsesDominated(f) ==
    \A b \in BlockIds(f) :
       LET block == f.blocks[b]
       IN  /\ \A i \in DOMAIN block.insts :
                 \A v \in ValuesRead(block.insts[i].args) : DefinedBefore(f, v, b, i)
           /\ \A v \in ValuesRead(block.term.args) :
                 DefinedBefore(f, v, b, Len(block.insts) + 1)

PhiArgumentsDominated(f) ==
    \A b \in BlockIds(f) : \A p \in DOMAIN f.blocks[b].phis :
       LET phi == f.blocks[b].phis[p]
       IN  \A k \in DOMAIN phi.args :
              phi.args[k] \in Values =>
                 \A d \in Definitions(f, phi.args[k]) : Dominates(f, d[1], f.blocks[b].preds[k])

WellFormed(f) ==
    /\ AllReachable(f) /\ EdgesAgree(f) /\ DefinedOnce(f)
    /\ NoCriticalEdge(f) /\ ParametersFirst(f)
    /\ UsesDominated(f) /\ PhiArgumentsDominated(f)

-----------------------------------------------------------------------------
(***************************************************************************)
(* The dominator tree (middle/ssa/dom.rs), as the walks over it use it:    *)
(* who immediately dominates whom, and in which order children come.       *)
(***************************************************************************)
StrictDominators(f, b) == {a \in BlockIds(f) \ {b} : Dominates(f, a, b)}

\* DomTree::immediate_dominator: the last block all paths to b have in common.
ImmediateDominator(f, b) ==
    CHOOSE a \in StrictDominators(f, b) : \A c \in StrictDominators(f, b) : Dominates(f, c, a)

(***************************************************************************)
(* reverse_postorder: a depth-first search with its stack, each entry a    *)
(* block and how many of its successors have been dealt with.              *)
(***************************************************************************)
SearchStep(f, s) ==
    LET top  == Last(s.stack)
        next == top.done + 1
        rest == Append(Front(s.stack), [top EXCEPT !.done = next])
    IN  CASE s.stack = <<>> -> s
          [] s.stack # <<>> /\ next > Len(Successors(f, top.block)) ->
                [s EXCEPT !.stack = Front(@), !.order = <<top.block>> \o @]
          [] s.stack # <<>> /\ next <= Len(Successors(f, top.block)) ->
                LET successor == Successors(f, top.block)[next]
                IN  IF successor \in s.visited THEN [s EXCEPT !.stack = rest]
                    ELSE [s EXCEPT !.stack = Append(rest, [block |-> successor, done |-> 0]),
                                   !.visited = @ \cup {successor}]

ReversePostorder(f) ==
    LET steps == 3 * Len(f.blocks) \* two successors at most, and the pop
        after[n \in 0 .. steps] ==
            IF n = 0 THEN [stack |-> <<[block |-> 1, done |-> 0]>>, visited |-> {1}, order |-> <<>>]
            ELSE LET before == after[n - 1] IN SearchStep(f, before)
    IN  after[steps].order

\* DomTree::children, in reverse postorder.
Children(f) ==
    LET order == ReversePostorder(f)
        Parent == [b \in BlockIds(f) \ {1} |-> ImmediateDominator(f, b)]
        Below(b) == {k \in DOMAIN order : order[k] # 1 /\ Parent[order[k]] = b}
    IN  [b \in BlockIds(f) |-> EntriesAt(order, Below(b))]
=============================================================================
