----------------------- MODULE SimultaneousAssignment -----------------------
(***************************************************************************)
(* What both move sequencers of the compiler promise: a group of moves     *)
(* takes effect as if every source were read before any destination is     *)
(* written.  The group is one indivisible step here.                       *)
(*                                                                         *)
(* Every place starts out holding a value of its own, named like the       *)
(* place, so what a place ends up holding tells where it was read from.    *)
(***************************************************************************)
CONSTANTS Places,   \* what can be written: values, or machine registers
          Requests  \* the groups of moves, each a function from destination
                    \* to source; a source outside Places is a constant

VARIABLES request,  \* the group to carry out
          contents, \* what every place holds
          done      \* whether the group has been carried out

vars == <<request, contents, done>>

Init ==
    /\ request \in Requests
    /\ contents = [p \in Places |-> p]
    /\ done = FALSE

Assign ==
    /\ ~done
    /\ contents' = [p \in Places |-> IF p \in DOMAIN request THEN request[p] ELSE p]
    /\ done' = TRUE
    /\ UNCHANGED request

Next == Assign

Spec == Init /\ [][Next]_vars /\ WF_vars(Next)
=============================================================================
