----------------------------- MODULE Dominance ------------------------------
(***************************************************************************)
(* How middle/ssa/dom.rs finds the dominator tree and the frontiers: the   *)
(* algorithm of Cooper, Harvey and Kennedy.  SsaFunction says what the     *)
(* answer is.                                                              *)
(***************************************************************************)
EXTENDS SsaFunction

NoBlock == 0 \* nothing is known of the block yet

\* order_number: what stands earlier in reverse postorder has less.
OrderNumber(f) ==
    LET order == ReversePostorder(f)
    IN  [b \in BlockIds(f) |-> SelectInSeq(order, LAMBDA c : c = b)]

RECURSIVE Intersect(_, _, _, _)
Intersect(a, b, immediate, number) ==
    CASE a = b -> a
      [] number[a] > number[b] -> Intersect(immediate[a], b, immediate, number)
      [] number[a] < number[b] -> Intersect(a, immediate[b], immediate, number)

\* One predecessor after the other, those that are not known yet left out.
NewDominator(f, b, immediate, number) ==
    FoldLeft(LAMBDA new, pred :
                CASE immediate[pred] = NoBlock -> new
                  [] immediate[pred] # NoBlock /\ new = NoBlock -> pred
                  [] OTHER -> Intersect(pred, new, immediate, number),
             NoBlock, f.blocks[b].preds)

Sweep(f, immediate, number) ==
    FoldLeft(LAMBDA so, b : [so EXCEPT ![b] = NewDominator(f, b, so, number)],
             immediate, Tail(ReversePostorder(f)))

RECURSIVE UntilNothingChanges(_, _, _)
UntilNothingChanges(f, immediate, number) ==
    LET swept == Sweep(f, immediate, number)
    IN  IF swept = immediate THEN immediate ELSE UntilNothingChanges(f, swept, number)

\* DomTree::build.  The entry is its own.
Immediate(f) ==
    UntilNothingChanges(f, [b \in BlockIds(f) |-> IF b = 1 THEN 1 ELSE NoBlock], OrderNumber(f))

-----------------------------------------------------------------------------
(***************************************************************************)
(* stamp_preorder: a clock that ticks when a subtree is entered and when   *)
(* it is left.                                                             *)
(***************************************************************************)
TreeChildren(f, immediate) ==
    [b \in BlockIds(f) |-> SelectSeq(ReversePostorder(f), LAMBDA c : c # 1 /\ immediate[c] = b)]

RECURSIVE Stamp(_, _, _)
Stamp(b, children, clock) ==
    LET entered == [clock EXCEPT !.enter = (b :> clock.time) @@ @, !.time = @ + 1]
        inside  == FoldLeft(LAMBDA so, child : Stamp(child, children, so), entered, children[b])
    IN  [inside EXCEPT !.exit = (b :> inside.time) @@ @, !.time = @ + 1]

Stamps(f, immediate) ==
    Stamp(1, TreeChildren(f, immediate),
          [time |-> 0, enter |-> [b \in {} |-> 0], exit |-> [b \in {} |-> 0]])

StampsDominate(stamps, a, b) ==
    stamps.enter[a] <= stamps.enter[b] /\ stamps.exit[b] <= stamps.exit[a]

-----------------------------------------------------------------------------
\* DomTree::frontiers: from each predecessor up to the immediate dominator.
RECURSIVE Runners(_, _, _)
Runners(runner, until, immediate) ==
    IF runner = until THEN {} ELSE {runner} \cup Runners(immediate[runner], until, immediate)

\* Mutant: nothing climbs past the predecessor itself.
FrontiersOfPredecessors(f, immediate) ==
    [a \in BlockIds(f) |->
        {b \in BlockIds(f) :
            /\ Len(f.blocks[b].preds) > 1
            /\ a # immediate[b] /\ Contains(f.blocks[b].preds, a)}]

Frontiers(f, immediate) ==
    [a \in BlockIds(f) |->
        {b \in BlockIds(f) :
            /\ Len(f.blocks[b].preds) > 1
            /\ \E pred \in ToSet(f.blocks[b].preds) : a \in Runners(pred, immediate[b], immediate)}]

-----------------------------------------------------------------------------
\* What they are: where what a defines can first meet another definition.
MeetingPoints(f, a) ==
    {b \in BlockIds(f) :
        /\ \E pred \in ToSet(f.blocks[b].preds) : Dominates(f, a, pred)
        /\ ~(a # b /\ Dominates(f, a, b))}
=============================================================================
