------------------------------ MODULE Promotion ------------------------------
(***************************************************************************)
(* Slots become values: which may (middle/ssa/promote.rs), where their     *)
(* definitions meet, and the renaming walk (middle/ssa/mem2reg.rs).        *)
(***************************************************************************)
EXTENDS Translation

CONSTANT SetjmpLike \* SETJMP_LIKE

InstsOf(f)   == UNION {ToSet(f.blocks[b].insts) : b \in Ssa!BlockIds(f)}
Loads(i, slot)  == i.op = "slot_load" /\ i.slot = slot
Stores(i, slot) == i.op = "slot_store" /\ i.slot = slot

\* Mutant: an address that is taken is not looked at.
PromotableUnlessIndexed(f, objects) ==
    LET reached == {i.slot : i \in {j \in InstsOf(f) : j.op \in {"array_load", "array_addr", "array_store"}}}
    IN  IF \E i \in InstsOf(f) : i.op = "call" /\ i.callee \in SetjmpLike THEN {}
        ELSE {s \in ToSet(f.slots) \ reached : s[1] = "var" => s[2] \notin objects}

\* objects are the variables that are aggregates.
Promotable(f, objects) ==
    LET named == {i.slot : i \in {j \in InstsOf(f) : j.op \notin {"slot_load", "slot_store"}}}
    IN  IF \E i \in InstsOf(f) : i.op = "call" /\ i.callee \in SetjmpLike THEN {}
        ELSE {s \in ToSet(f.slots) \ named : s[1] = "var" => s[2] \notin objects}

-----------------------------------------------------------------------------
(***************************************************************************)
(* SlotUsage and phi_placement.                                            *)
(***************************************************************************)
DefinedIn(f, slot) == {b \in Ssa!BlockIds(f) : \E i \in ToSet(f.blocks[b].insts) : Stores(i, slot)}

ReadsBeforeWriting(insts, slot) ==
    \E k \in DOMAIN insts : Loads(insts[k], slot) /\ \A j \in 1..(k - 1) : ~Stores(insts[j], slot)

NonLocal(f, slot) == \E b \in Ssa!BlockIds(f) : ReadsBeforeWriting(f.blocks[b].insts, slot)

\* Mutant: a phi is not taken for the definition that it is.
PlacementOnce(f, slot, frontiers) ==
    IF NonLocal(f, slot) THEN UNION {frontiers[b] : b \in DefinedIn(f, slot)} ELSE {}

Placement(f, slot, frontiers) ==
    LET defined == DefinedIn(f, slot)
        placed[n \in 0..Len(f.blocks)] ==
            IF n = 0 THEN {}
            ELSE LET before == placed[n - 1] IN UNION {frontiers[b] : b \in defined \cup before}
    IN  IF NonLocal(f, slot) THEN placed[Len(f.blocks)] ELSE {}

\* Function::add_phi: until the walk comes by it takes itself on every edge.
AddPhi(f, b, slot) ==
    LET dest == FreshValue(f)
    IN  [f EXCEPT !.values = @ + 1,
                  !.site[dest] = <<b, Len(f.blocks[b].phis) + 1>>,
                  !.blocks[b].phis = Append(@, [dest |-> dest, slot |-> slot,
                                                args |-> [k \in DOMAIN f.blocks[b].preds |-> dest]])]

InOrder(f, blocks) == SelectSeq([b \in Ssa!BlockIds(f) |-> b], LAMBDA b : b \in blocks)

\* Slot by slot, and block by block for each.
WithPhis(f, slots) ==
    LET frontiers == Ssa!Frontiers(f, Ssa!Immediate(f))
        ofSlot(g, slot) == FoldLeft(LAMBDA h, b : AddPhi(h, b, slot), g,
                                    InOrder(f, Placement(f, slot, frontiers)))
    IN  FoldLeft(ofSlot, f, SelectSeq(f.slots, LAMBDA slot : slot \in slots))

\* Renaming::new: what a slot that was never written holds, behind the parameters.
WithUndefined(f) ==
    LET prologue == Count(f.blocks[1].insts, LAMBDA i : i.op = "param")
    IN  [f EXCEPT !.values = @ + 1,
                  !.blocks[1].insts = InsertAt(@, prologue + 1,
                        [Op("undef", Word, <<>>) EXCEPT !.dest = FreshValue(f)])]

-----------------------------------------------------------------------------
(***************************************************************************)
(* Renaming.                                                               *)
(***************************************************************************)
Enter(b) == [enters |-> TRUE, block |-> b]
Leave(b) == [enters |-> FALSE, block |-> b]

NewWalk(f, slots, undefined) ==
    [ steps    |-> <<Enter(1)>>,
      children |-> Ssa!TreeChildren(f, Ssa!Immediate(f)),
      slots    |-> slots,
      stacks   |-> [s \in slots |-> <<>>],   \* the definitions in scope
      replaced |-> [v \in {} |-> Nothing],   \* substitutions
      pushed   |-> [b \in Ssa!BlockIds(f) |-> <<>>],
      undefined |-> undefined, readsUndefined |-> FALSE ]

Current(walk, slot) ==
    IF walk.stacks[slot] = <<>> THEN walk.undefined ELSE Last(walk.stacks[slot])

\* Renaming::current, when it has to answer with the undefined value.
Asked(walk, slot) == [walk EXCEPT !.readsUndefined = @ \/ walk.stacks[slot] = <<>>]

Pushed(walk, b, slot, operand) ==
    [walk EXCEPT !.stacks[slot] = Append(@, operand), !.pushed[b] = Append(@, slot)]

Substituted(args, replaced) ==
    [a \in DOMAIN args |-> IF args[a] \in DOMAIN replaced THEN replaced[args[a]] ELSE args[a]]

RenameInst(so, b, inst) ==
    LET args == Substituted(inst.args, so.walk.replaced)
    IN  CASE inst.op = "slot_load" /\ inst.slot \in so.walk.slots ->
                [so EXCEPT !.walk =
                    [Asked(@, inst.slot) EXCEPT
                        !.replaced = (inst.dest :> Current(so.walk, inst.slot)) @@ @]]
          [] inst.op = "slot_store" /\ inst.slot \in so.walk.slots ->
                [so EXCEPT !.walk = Pushed(@, b, inst.slot, args[1])]
          [] OTHER -> [so EXCEPT !.kept = Append(@, [inst EXCEPT !.args = args])]

FillArguments(phi, preds, b, current) ==
    [phi EXCEPT !.args = [k \in DOMAIN @ |-> IF preds[k] = b THEN current ELSE @[k]]]

FillSuccessor(so, b, successor) ==
    LET block == so.f.blocks[successor]
        Filled(phi) == FillArguments(phi, block.preds, b, Current(so.walk, phi.slot))
    IN  [f    |-> [so.f EXCEPT !.blocks[successor].phis = [k \in DOMAIN @ |-> Filled(@[k])]],
         walk |-> FoldLeft(LAMBDA w, phi : Asked(w, phi.slot), so.walk, block.phis)]

\* rename_block and fill_successor_phis.
RenameBlock(f, walk, b) ==
    LET atEntry == FoldLeft(LAMBDA w, phi : Pushed(w, b, phi.slot, phi.dest), walk, f.blocks[b].phis)
        body == FoldLeft(LAMBDA so, inst : RenameInst(so, b, inst),
                         [walk |-> atEntry, kept |-> <<>>], f.blocks[b].insts)
        renamed == [f EXCEPT !.blocks[b].insts = body.kept,
                             !.blocks[b].term.args = Substituted(@, body.walk.replaced)]
    IN  FoldLeft(LAMBDA so, successor : FillSuccessor(so, b, successor),
                 [f |-> renamed, walk |-> body.walk], Ssa!Successors(f, b))

\* A step of the walk that enters: the children are next, and leaving after them.
Entered(f, walk) ==
    LET b == Last(walk.steps).block
        inside == [k \in DOMAIN walk.children[b] |-> Enter(walk.children[b][k])]
        renamed == RenameBlock(f, walk, b)
    IN  [renamed EXCEPT !.walk.steps = Front(@) \o <<Leave(b)>> \o Reverse(inside)]

Popped(walk, slot) == [walk EXCEPT !.stacks[slot] = Front(@)]


\* ... and one that leaves: what the block pushed goes.
Exited(walk) ==
    LET b == Last(walk.steps).block
    IN  [FoldLeft(Popped, walk, walk.pushed[b]) EXCEPT !.steps = Front(@), !.pushed[b] = <<>>]
=============================================================================
