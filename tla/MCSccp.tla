------------------------------- MODULE MCSccp -------------------------------
(***************************************************************************)
(* Sccp over two families of functions with holes.                         *)
(*                                                                         *)
(* Loops: 1 -> 2 -> {3, 7}, 3 -> {4, 5} -> 6 -> 2; block 2 and block 6     *)
(* merge values, block 3 tests one, the loop calls out with one.           *)
(* Ladders: 1 -> {2, 3} -> 4 -> {5, 6} -> 7; what the second test finds    *)
(* may depend on what the first one leaves possible.                       *)
(***************************************************************************)
EXTENDS Sccp

CONSTANTS vp, vx, vy, vz, vt, vu

MCValues == {vp, vx, vy, vz, vt, vu}

Site(entries) ==
    [v \in MCValues |-> IF v \in DOMAIN entries THEN entries[v] ELSE Removed]

At(v, site) == [w \in {v} |-> site]

Loop(initial, carried, test, exit, changed_, back) ==
    [blocks |-> <<
        Block(<<>>, <<>>, <<Inst(vp, "param", <<>>)>>, Jump(2)),
        Block(<<1, 6>>, <<Phi(vx, <<initial, back>>)>>, <<Inst(vt, exit.op, exit.args)>>,
              Branch(vt, 3, 7)),
        Block(<<2>>, <<>>, <<>>, Branch(test, 4, 5)),
        Block(<<3>>, <<>>, <<Inst(vy, changed_.op, changed_.args)>>, Jump(6)),
        Block(<<3>>, <<>>, <<>>, Jump(6)),
        Block(<<4, 5>>, <<Phi(vz, <<vy, carried>>)>>, <<Inst(vu, "call", <<vz>>)>>, Jump(2)),
        Block(<<2>>, <<>>, <<>>, Return(vx))>>,
     site |-> Site(At(vx, <<2, 1>>) @@ At(vz, <<6, 1>>))]

Ops(left, right) ==
    {[op |-> o, args |-> <<a, b>>] : o \in {"add", "eq", "div"}, a \in left, b \in right}

Loops ==
    {Loop(initial, carried, test, exit, changed_, back) :
        initial \in {0, 1}, carried \in {1, vx}, test \in {vx, vt},
        exit \in Ops({vx}, {1}) \cup {[op |-> "copy", args |-> <<vp>>]},
        changed_ \in Ops({vx}, {vx}) \cup {[op |-> "load", args |-> <<>>]},
        back \in {vx, vz, vu}}

Ladder(first, left, right, second, test) ==
    [blocks |-> <<
        Block(<<>>, <<>>, <<Inst(vp, "param", <<>>), Inst(vt, first.op, first.args)>>,
              Branch(vt, 2, 3)),
        Block(<<1>>, <<>>, <<Inst(vx, left.op, left.args)>>, Jump(4)),
        Block(<<1>>, <<>>, <<>>, Jump(4)),
        Block(<<2, 3>>, <<Phi(vy, <<vx, right>>)>>, <<Inst(vu, second.op, second.args)>>,
              Branch(test, 5, 6)),
        Block(<<4>>, <<>>, <<>>, Jump(7)),
        Block(<<4>>, <<>>, <<Inst(NoValue, "store", <<vy>>)>>, Jump(7)),
        Block(<<5, 6>>, <<Phi(vz, <<0, vu>>)>>, <<>>, Return(vz))>>,
     site |-> Site(At(vy, <<4, 1>>) @@ At(vz, <<7, 1>>))]

Ladders ==
    {Ladder(first, left, right, second, test) :
        first \in Ops({vp, 0}, {0}) \cup {[op |-> "undef", args |-> <<>>]},
        left \in Ops({1}, {0, 1}), right \in {0, 1},
        second \in Ops({vy}, {vt}) \cup {[op |-> "load", args |-> <<>>]},
        test \in {vy, vu}}

MCInputs == AllInputs

MCFunctions == Loops \cup Ladders
=============================================================================
