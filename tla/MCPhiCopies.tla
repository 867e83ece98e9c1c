----------------------------- MODULE MCPhiCopies ----------------------------
(***************************************************************************)
(* PhiCopies on every block of one to MaxPhis phis over five values, with  *)
(* any arguments.  Values are interchangeable, so it is enough to look at  *)
(* the phis that write a, b, c, ... in this order.                         *)
(***************************************************************************)
EXTENDS PhiCopies

CONSTANTS a, b, c, d, e, MaxPhis

MCValues == {a, b, c, d, e}

InOrder == <<a, b, c, d, e>>

MCPhiLists ==
    UNION {{[i \in 1 .. n |-> [dest |-> InOrder[i], arg |-> args[i]]] :
              args \in [1 .. n -> MCValues \cup {Immediate}]} : n \in 1 .. MaxPhis}
=============================================================================
