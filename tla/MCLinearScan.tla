---------------------------- MODULE MCLinearScan ----------------------------
(***************************************************************************)
(* LinearScan on every list of at most MaxIntervals intervals over the     *)
(* instructions 0 .. LastPosition, with every set of at most MaxCalls      *)
(* calls, each writing nothing or a value born there.                      *)
(***************************************************************************)
EXTENDS LinearScan

CONSTANTS MaxIntervals, LastPosition, MaxCalls

Positions == 0 .. LastPosition

MCIntervals == {i \in [start : Positions, end : Positions] : i.start <= i.end}

\* sort_unstable_by start, then end.
InOrder(i, j) == i.start < j.start \/ (i.start = j.start /\ i.end <= j.end)

SortedLists ==
    UNION {{s \in [1 .. n -> MCIntervals] : \A k \in 1 .. n - 1 : InOrder(s[k], s[k + 1])} :
             n \in 0 .. MaxIntervals}

BornAt(s, p) == {v \in 1 .. Len(s) : s[v].start = p}

CallSets(s) ==
    UNION {{{[position |-> p, defines |-> d[p]] : p \in P} :
              d \in {f \in [P -> 0 .. Len(s)] : \A p \in P : f[p] \in {0} \cup BornAt(s, p)}} :
             P \in {Q \in SUBSET Positions : Cardinality(Q) <= MaxCalls}}

MCWorkloads ==
    UNION {{[intervals |-> s, callSites |-> c] : c \in CallSets(s)} : s \in SortedLists}
=============================================================================
