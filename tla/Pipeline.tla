------------------------------ MODULE Pipeline ------------------------------
(***************************************************************************)
(* optimize (middle/ssa/passes.rs): the passes one after another, in       *)
(* rounds, until a whole round changes nothing.  Constant propagation runs *)
(* step by step (module Sccp), the others in one step each (module         *)
(* Passes).                                                                *)
(***************************************************************************)
EXTENDS Passes

CONSTANTS Functions, Steps

ASSUME PipelineAssumption ==
    /\ Steps \in Nat
    /\ \A f \in Functions : IsFunction(f) /\ WellFormed(f)

VARIABLES
    original, \* the function as construction made it
    function, \* the function
    pass,     \* the pass that runs next
    changed,  \* some pass of this round changed something
    solver, drains \* of Sccp

vars == <<original, function, pass, changed, solver, drains>>

ConstantPropagation == INSTANCE Sccp WITH run <- 1, changed <- <<>>

Init ==
    /\ original \in Functions
    /\ function = original
    /\ pass = "sccp" /\ changed = FALSE
    /\ solver = ConstantPropagation!Fresh /\ drains = "flow"

BeginRound ==
    /\ pass = "round" /\ changed
    /\ pass' = "sccp" /\ changed' = FALSE
    /\ solver' = ConstantPropagation!Fresh /\ drains' = "flow"
    /\ UNCHANGED <<original, function>>

SolveConstants ==
    /\ pass = "sccp"
    /\ \/ ConstantPropagation!NextVisit \/ ConstantPropagation!EnterBlock
       \/ ConstantPropagation!FollowEdge \/ ConstantPropagation!WakeReaders
       \/ ConstantPropagation!SwitchStack
    /\ UNCHANGED <<pass, changed>>

\* A pass is over: it leaves `result', and reports whether it changed anything.
RunPass(this, result, reports, next) ==
    /\ pass = this
    /\ function' = result
    /\ changed' = (changed \/ reports)
    /\ pass' = next
    /\ UNCHANGED <<original, solver, drains>>

PropagateConstants ==
    /\ ConstantPropagation!Solved
    /\ RunPass("sccp", ConstantPropagation!Applied(function, solver),
               ConstantPropagation!Reports(function, solver), "simplify")

Simplify == RunPass("simplify", Simplified(function), Simplified(function) # function, "gvn")

NumberValues ==
    RunPass("gvn", ValueNumbered(function), WalkOf(function).replacement # <<>>, "copyprop")

PropagateCopies ==
    RunPass("copyprop", CopyPropagated(function), CopiesToResolve(function) # {}, "dce")

EliminateDeadCode == RunPass("dce", Swept(function), Swept(function) # function, "blocks")

MergeBlockPairs ==
    RunPass("blocks", Merged(function), \E b \in BlockIds(function) : Mergeable(function, b), "round")

Finished == pass = "round" /\ ~changed /\ UNCHANGED vars

Next ==
    \/ BeginRound \/ SolveConstants \/ PropagateConstants \/ Simplify \/ NumberValues
    \/ PropagateCopies \/ EliminateDeadCode \/ MergeBlockPairs \/ Finished

Spec == Init /\ [][Next]_vars

-----------------------------------------------------------------------------
(***************************************************************************)
(* After every pass the function does what it did before all of them: the  *)
(* same calls, in order, with the same arguments, and the same result.     *)
(***************************************************************************)
SameBehaviour == pass # "sccp" => BehavesLike(function, original, Steps)

(***************************************************************************)
(* optimize's debug_assert_valid: every pass leaves a function the         *)
(* verifier accepts, whatever the passes before it left behind.            *)
(***************************************************************************)
StaysWellFormed == pass # "sccp" => IsFunction(function) /\ WellFormed(function)

(***************************************************************************)
(* The rounds come to an end: whatever a pass changes makes the function   *)
(* smaller, by blocks, then definitions, then the cost of its operations,  *)
(* then reads of values; and no pass claims a change it did not make,      *)
(* which would "make the compiler loop for ever" (passes.rs).              *)
(***************************************************************************)
CostOf(inst) == CASE inst.op = "mul" -> 2 [] inst.op = "copy" -> 0 [] OTHER -> 1

Size(f) ==
    LET Sum(Measure(_)) == FoldLeft(LAMBDA n, block : n + Measure(block), 0, f.blocks)
    IN  <<Len(f.blocks),
          Sum(LAMBDA block : Len(block.phis) + Len(block.insts)),
          Sum(LAMBDA block : FoldLeft(LAMBDA n, inst : n + CostOf(inst), 0, block.insts)),
          Len(SelectSeq(AllReads(f), LAMBDA read : read.value \in Values))>>

Smaller(s, t) == \E k \in DOMAIN s : s[k] < t[k] /\ \A j \in 1 .. k - 1 : s[j] = t[j]

EveryChangeShrinks ==
    [][/\ function' # function => Smaller(Size(function'), Size(function))
       /\ (changed' /\ ~changed) => function' # function]_vars

(***************************************************************************)
(* The doc comments of simplify, dce and blocks: running the pass again    *)
(* over what it left changes nothing.                                      *)
(***************************************************************************)
SecondRunChangesNothing ==
    /\ pass = "gvn" => Simplified(function) = function
    /\ pass = "blocks" => Swept(function) = function
    /\ pass = "round" => Merged(function) = function

(***************************************************************************)
(* gvn.rs says of run: "Running it twice over the same function replaces   *)
(* nothing the second time."  The back edge's argument of a phi is looked  *)
(* at before the body it comes from is numbered, so two phis whose         *)
(* arguments turn out to be one value are only found equal by another run. *)
(***************************************************************************)
NumberingAgainReplacesNothing == pass = "copyprop" => WalkOf(function).replacement = <<>>

(***************************************************************************)
(* copyprop.rs says of run: "Running it twice over the same function       *)
(* changes nothing the second time."  A phi that merges a value with a     *)
(* copy of it only becomes a copy itself by the first run's substitution.  *)
(***************************************************************************)
PropagatingAgainChangesNothing == pass = "dce" => CopiesToResolve(function) = {}
=============================================================================
