----------------------------- MODULE MCPipeline -----------------------------
(***************************************************************************)
(* Pipeline over two families of functions with holes.                     *)
(*                                                                         *)
(* Loops: 1 -> 2 -> {3, 6}, 3 -> 4 -> 5 -> 2, with two variables carried   *)
(* around the loop and a body in three blocks that merge.                  *)
(* Diamonds: 1 -> {2, 3} -> 4, with a store on one side, two variables     *)
(* merged, and computations that repeat on some or all paths.              *)
(***************************************************************************)
EXTENDS Pipeline

CONSTANTS vp, vx, vw, vy, vz, vt, vu

MCValues == {vp, vx, vw, vy, vz, vt, vu}

MCInputs ==
    {[param |-> p, memory |-> (p + 1) % 2^Width, answer |-> (3 * p) % 2^Width] : p \in Word}

SitesOf(blocks) ==
    [v \in MCValues |->
        IF \E b \in DOMAIN blocks : \E p \in DOMAIN blocks[b].phis : blocks[b].phis[p].dest = v
        THEN LET b == CHOOSE b \in DOMAIN blocks :
                         \E p \in DOMAIN blocks[b].phis : blocks[b].phis[p].dest = v
             IN  <<b, SelectInSeq(blocks[b].phis, LAMBDA phi : phi.dest = v)>>
        ELSE Removed]

Make(blocks) == [blocks |-> blocks, site |-> SitesOf(blocks)]

E(op, args) == [op |-> op, args |-> args]

Let(v, e) == Inst(v, e.op, e.args)

Loop(e, test, body1, body2, back1, back2, result) ==
    Make(<<
        Block(<<>>, <<>>, <<Inst(vp, "param", <<>>)>>, Jump(2)),
        Block(<<1, 5>>, <<Phi(vx, <<0, back1>>), Phi(vw, <<e, back2>>)>>,
              <<Let(vt, test)>>, Branch(vt, 3, 6)),
        Block(<<2>>, <<>>, <<Let(vy, body1)>>, Jump(4)),
        Block(<<3>>, <<>>, <<Let(vz, body2)>>, Jump(5)),
        Block(<<4>>, <<>>, <<Inst(vu, "call", <<vz>>)>>, Jump(2)),
        Block(<<2>>, <<>>, <<>>, Return(result))>>)

Loops ==
    {Loop(e, test, body1, body2, back1, back2, result) :
        e \in {0, vp},
        test \in {E("eq", <<vx, vp>>), E("eq", <<vw, 0>>), E("eq", <<vx, vx>>)},
        body1 \in {E("add", <<vx, vp>>), E("mul", <<2, vx>>), E("load", <<>>)},
        body2 \in {E("add", <<vp, vx>>), E("copy", <<vy>>), E("add", <<vw, 0>>)},
        back1 \in {vx, vy}, back2 \in {vw, vz, vu}, result \in {vx, vw}}

Diamond(test, left, right, after, fromLeft, fromRight, result) ==
    Make(<<
        Block(<<>>, <<>>, <<Inst(vp, "param", <<>>), Inst(vt, "load", <<>>),
                            Inst(vu, test.op, test.args)>>, Branch(vu, 2, 3)),
        Block(<<1>>, <<>>, <<Let(vy, left)>>, Jump(4)),
        Block(<<1>>, <<>>, <<Inst(NoValue, "store", <<vp>>)>>, Jump(4)),
        Block(<<2, 3>>, <<Phi(vx, <<fromLeft, fromRight>>), Phi(vw, <<vy, right>>)>>,
              <<Let(vz, after)>>, Return(result))>>)

Diamonds ==
    {Diamond(test, left, right, after, fromLeft, fromRight, result) :
        test \in {E("eq", <<vp, vt>>), E("mul", <<vp, vp>>), E("div", <<vp, vp>>)},
        left \in {E("copy", <<vp>>), E("mul", <<vp, vp>>), E("addr", <<>>)},
        right \in {vp, vt},
        after \in {E("load", <<>>), E("mul", <<vp, vp>>), E("add", <<vx, vw>>)},
        fromLeft \in {vy, vp}, fromRight \in {vp, 1}, result \in {vx, vw, vz}}

MCFunctions == Loops \cup Diamonds
=============================================================================
