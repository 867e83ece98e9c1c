----------------------------- MODULE MCRegAlloc -----------------------------
(***************************************************************************)
(* RegAlloc on functions of three blocks and an empty exit block, in five  *)
(* shapes: a diamond's side, a loop with its test on top, a loop with its  *)
(* test at the bottom, an endless loop that never reaches the exit, and a  *)
(* loop laid out against the order of labels.                              *)
(* Every block has one to three instructions over three virtual registers  *)
(* and a transfer; those behind the first may read a register.             *)
(***************************************************************************)
EXTENDS RegAlloc

CONSTANTS r1, r2, r3

MCVirtualRegs == {r1, r2, r3}

Shapes ==
    {[entry |-> 1, successors |-> <<<<2, 3>>, <<3>>, <<4>>, <<>>>>],
     [entry |-> 1, successors |-> <<<<2>>, <<3, 4>>, <<2>>, <<>>>>],
     [entry |-> 1, successors |-> <<<<2>>, <<3>>, <<2, 4>>, <<>>>>],
     [entry |-> 1, successors |-> <<<<2>>, <<3>>, <<2>>, <<>>>>],
     [entry |-> 3, successors |-> <<<<4, 2>>, <<1>>, <<1>>, <<>>>>]}

Define1 == {Instruction("other", {}, v) : v \in {r1, r2}}
Step    == {Instruction("other", {r1}, r2), Instruction("other", {r2}, r1),
            Instruction("other", {r1}, r3), Instruction("other", {r2, r3}, r1),
            Instruction("call", {}, r2), Instruction("call", {}, NoReg)}

First  == {<<i>> : i \in Define1 \cup Step}
Second == {<<i>> : i \in Step}
Third  == {<<i, j>> : i \in Step, j \in {Instruction("call", {}, r3), Instruction("other", {r3}, r1)}}
          \cup {<<Instruction("param", {v}, NoReg), Instruction("param", {r1}, NoReg),
                  Instruction("call", {}, w)>> : v \in {r2, r3}, w \in {r1, NoReg}}

Transfer(reads) == <<Instruction("other", reads, NoReg)>>

MCGraphs ==
    {[entry |-> s.entry, successors |-> s.successors,
      bodies |-> <<x \o Transfer({}), y \o Transfer(t), z \o Transfer(u), <<>>>>] :
        s \in Shapes, x \in First, y \in Second, z \in Third, <<t, u>> \in {<<{}, {r1}>>, <<{r2}, {r3}>>}}
=============================================================================
