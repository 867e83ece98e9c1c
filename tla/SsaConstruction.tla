--------------------------- MODULE SsaConstruction ---------------------------
(***************************************************************************)
(* One function through optimize_through_ssa (driver/mod.rs) without the   *)
(* optional passes: build (middle/ssa/build.rs), promotable (promote.rs),  *)
(* promote_slots (mem2reg.rs) and back to three-address code (destruct.rs).*)
(*                                                                         *)
(* A program is what the lowering hands over, with the function that goes  *)
(* through and what the declarations say of calls.  The order in which the *)
(* blocks are met is that of their labels; the model takes the order they  *)
(* were made in, and the reverse.                                          *)
(***************************************************************************)
EXTENDS LeavingSsa

CONSTANTS Programs,  \* the programs, each with the name of its function
          Arguments, \* what the function is called with
          Answers,   \* what functions that are not defined in the file answer
          Fuel       \* instructions a run may take

ASSUME SsaConstructionAssumption ==
    Arguments \subseteq Nat /\ Answers \in Seq(Nat) /\ Fuel \in Nat

VARIABLES
    program, \* what the lowering made
    order,   \* the labels of the function, in the order of the map
    phase,   \* what is done next
    next,    \* the block that is up in it
    ssa,     \* the function
    walk,    \* the walk over the dominator tree
    left     \* the function in three-address code again

construction == <<program, order, phase, next, ssa, walk, left>>

Code == program.functions[program.name]

\* Builder::new: the entry is the first block, the others follow in order.
Blocks ==
    LET others == SelectSeq(order, LAMBDA l : l # Code.entry)
    IN  [label \in DOMAIN Code.blocks |->
            IF label = Code.entry THEN 1 ELSE 1 + SelectInSeq(others, LAMBDA l : l = label)]

NoWalk == [steps |-> <<>>]

LabelOrders(function) ==
    LET labels == DOMAIN function.blocks
        Earlier(label) == {l \in labels : l[2] < label[2] \/ (l = function.entry /\ label # l)}
        made == [k \in 1..Cardinality(labels) |->
                    CHOOSE label \in labels : Cardinality(Earlier(label)) = k - 1]
    IN  {made, Reverse(made)}

-----------------------------------------------------------------------------
Init ==
    /\ program \in Programs
    /\ order \in LabelOrders(program.functions[program.name])
    /\ phase = "build" /\ next = 1
    /\ ssa = [NewFunction(Len(order)) EXCEPT !.exit = Blocks[Code.exit]]
    /\ walk = NoWalk
    /\ left = NewCode(ssa)

TranslateNext ==
    /\ phase = "build" /\ next <= Len(order)
    /\ LET label == order[next]
           block == TranslateBlock(ssa, Blocks[label], Code.blocks[label].code, Blocks)
       IN  /\ ssa' = block.f
           /\ phase' = IF block.fits THEN phase ELSE "broken"
    /\ next' = next + 1
    /\ UNCHANGED <<program, order, walk, left>>

EndOfBuild ==
    /\ phase = "build" /\ next > Len(order)
    /\ ssa' = DropUnreachable(ssa)
    /\ phase' = "split"
    /\ UNCHANGED <<program, order, next, walk, left>>

SplitEdges ==
    /\ phase = "split"
    /\ ssa' = SplitCriticalEdges(ssa)
    /\ phase' = "promote"
    /\ UNCHANGED <<program, order, next, walk, left>>

\* promote_slots up to the walk.
PlacePhis ==
    /\ phase = "promote"
    /\ LET slots == Promotable(ssa, DOMAIN program.objects)
           placed == WithPhis(ssa, slots)
           f == WithUndefined(placed)
       IN  IF slots = {} THEN phase' = "leave" /\ UNCHANGED <<ssa, walk>>
           ELSE /\ phase' = "rename"
                /\ ssa' = f
                /\ walk' = NewWalk(f, slots, FreshValue(placed))
    /\ next' = 1
    /\ UNCHANGED <<program, order, left>>

Renames(renamed) == ssa' = renamed.f /\ walk' = renamed.walk

EnterBlock ==
    /\ phase = "rename" /\ walk.steps # <<>> /\ Last(walk.steps).enters
    /\ Renames(Entered(ssa, walk))
    /\ UNCHANGED <<program, order, phase, next, left>>

LeaveBlock ==
    /\ phase = "rename" /\ walk.steps # <<>> /\ ~Last(walk.steps).enters
    /\ walk' = Exited(walk)
    /\ UNCHANGED <<program, order, phase, next, ssa, left>>

EndOfWalk ==
    /\ phase = "rename" /\ walk.steps = <<>>
    /\ ssa' = IF walk.readsUndefined THEN ssa ELSE Ssa!RemoveInsts(ssa, 1, {walk.undefined})
    /\ phase' = "leave"
    /\ UNCHANGED <<program, order, next, walk, left>>

LowerBlock ==
    /\ phase = "leave" /\ next <= Len(ssa.blocks)
    /\ left' = LowerSsaBlock(IF next = 1 THEN NewCode(ssa) ELSE left, ssa, next)
    /\ next' = next + 1
    /\ UNCHANGED <<program, order, phase, ssa, walk>>

EndOfLowering ==
    /\ phase = "leave" /\ next > Len(ssa.blocks)
    /\ phase' = "done"
    /\ UNCHANGED <<program, order, next, ssa, walk, left>>

Next ==
    \/ TranslateNext \/ EndOfBuild \/ SplitEdges \/ PlacePhis \/ EnterBlock \/ LeaveBlock \/ EndOfWalk
    \/ LowerBlock \/ EndOfLowering

Spec == Init /\ [][Next]_construction

-----------------------------------------------------------------------------
\* What comes out of build, and what promotion leaves behind, is what the
\* verifier asks for (debug_assert_valid after both); and build never meets
\* code the lowering could not have produced (its panics).
StaysWellFormed ==
    /\ phase # "broken"
    /\ phase \in {"promote", "leave"} => Ssa!WellFormed(ssa)

-----------------------------------------------------------------------------
\* The two comparisons of DomTree::dominates decide dominance, and a frontier
\* is where what a block defines first meets another definition.
DominanceIsExact ==
    phase = "promote" =>
        LET immediate == Ssa!Immediate(ssa)
            stamps    == Ssa!Stamps(ssa, immediate)
            frontiers == Ssa!Frontiers(ssa, immediate)
        IN  \A a \in Ssa!BlockIds(ssa) :
              /\ \A b \in Ssa!BlockIds(ssa) :
                    Ssa!StampsDominate(stamps, a, b) <=> Ssa!Dominates(ssa, a, b)
              /\ frontiers[a] = Ssa!MeetingPoints(ssa, a)

-----------------------------------------------------------------------------
\* A slot that is read across a block boundary has a phi exactly where two of
\* its definitions can meet, the definition that it has none on entry
\* included, and no other slot has any (phi_placement; mem2reg.rs, "Semi-pruned
\* placement").
DefinersAt(f, slot) ==
    LET Phis(b) == \E phi \in ToSet(f.blocks[b].phis) : phi.slot = slot
        Defines(b) == Phis(b) \/ b \in DefinedIn(f, slot)
        \* what is in force at the end of each block, along paths of n blocks
        after[n \in 0..Len(f.blocks)] ==
            IF n = 0 THEN [b \in Ssa!BlockIds(f) |-> {}]
            ELSE LET before == after[n - 1]
                 IN  [b \in Ssa!BlockIds(f) |->
                        CASE Defines(b)            -> {b}
                          [] ~Defines(b) /\ b = 1 -> {Ssa!NoBlock}
                          [] ~Defines(b) /\ b # 1 ->
                                UNION {before[p] : p \in ToSet(f.blocks[b].preds)}]
        atEnd == after[Len(f.blocks)]
    IN  [b \in Ssa!BlockIds(f) |-> UNION {atEnd[p] : p \in ToSet(f.blocks[b].preds)}]

PhisAreWhereDefinitionsMeet ==
    (phase = "rename" /\ walk.steps = <<Enter(1)>>) =>
        \A slot \in walk.slots :
            LET definers == DefinersAt(ssa, slot)
            IN  \A b \in Ssa!BlockIds(ssa) :
                  (\E phi \in ToSet(ssa.blocks[b].phis) : phi.slot = slot) <=>
                      (NonLocal(ssa, slot) /\ Cardinality(definers[b]) > 1)

-----------------------------------------------------------------------------
\* What the world sees of a run: a call passes as much of each argument as its
\* declaration says, and the function returns as much as its own says.
SeenCalls(calls) ==
    [k \in DOMAIN calls |->
        LET widths == program.signatures[calls[k][1]].params
        IN  <<calls[k][1], [a \in DOMAIN widths |-> Unsigned(widths[a], calls[k][2][a])]>>]

Seen(m) ==
    LET returns == program.signatures[program.name].returns
    IN  [status |-> m.status, calls |-> SeenCalls(m.calls),
         result |-> IF returns = <<>> THEN <<>> ELSE [k \in DOMAIN m.result |-> Unsigned(returns[1], m.result[k])]]

\* All lists of arguments, or of many arguments those with two values at most.
ArgumentLists ==
    LET n == Len(program.signatures[program.name].params)
    IN  IF n <= 2 THEN [1..n -> Arguments]
        ELSE {[k \in 1..n |-> IF k % 3 = turn THEN a ELSE b] : a \in Arguments, b \in Arguments, turn \in 0..2}

Run(function, args) ==
    LET functions == [program.functions EXCEPT ![program.name] = function]
        offsets   == Offsets(program.objects, program.variables)
    IN  RunMachine(Machine(functions, offsets, offsets[program.variables], program.name, args, Answers),
                   Fuel)

\* The function that comes back does what the one that went in did.
SameBehaviour ==
    phase = "done" =>
        \A args \in ArgumentLists :
            LET before == Run(Code, args)
                after  == Run(left, args)
            IN  before.status # "out of fuel" => Seen(after) = Seen(before)
=============================================================================
