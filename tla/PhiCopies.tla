----------------------------- MODULE PhiCopies ------------------------------
(***************************************************************************)
(* Phi lowering: lower_outgoing_phis and sequentialize of                  *)
(* middle/ssa/destruct.rs, for the phis of one block along one edge.       *)
(*                                                                         *)
(* The phis of a block are one parallel assignment, which is turned into   *)
(* moves one at a time: first the copies whose destination nothing still   *)
(* needs, and when only cycles are left, one value is saved in a fresh     *)
(* temporary.  Every move is executed as it is emitted, so `held' and      *)
(* `saved' are what the generated code leaves in the values' homes and in  *)
(* the temporaries.  A value starts out holding a token named like it.     *)
(***************************************************************************)
EXTENDS Integers, FiniteSets, SequencesExt

CONSTANTS Values,    \* SSA values; each has a home of its own
          Immediate, \* a constant operand
          PhiLists   \* the phis of a block, with the argument of this edge

Operands == Values \cup {Immediate}

ASSUME PhiCopiesAssumption ==
    /\ Immediate \notin Values
    /\ Values \cap Nat = {}
    /\ \A list \in PhiLists :
          /\ list \in Seq([dest : Values, arg : Operands]) /\ Len(list) > 0
          /\ \A i, j \in 1 .. Len(list) : i # j => list[i].dest # list[j].dest

VARIABLES
    phis,      \* the phis of the successor
    collected, \* how many of them the first loop has looked at
    sourceOf,  \* source_of: what every destination is to receive
    location,  \* where the value that started in a read place lives now
    pending,   \* destinations still to be written
    toDo,      \* to_do: a stack of the destinations to revisit
    seeded,    \* how many copies were considered for `ready'
    ready,     \* a stack of destinations nothing still needs
    held,      \* what every value's home holds
    saved,     \* what the temporaries phi1, phi2, ... hold
    moves      \* how many moves were emitted

vars == <<phis, collected, sourceOf, location, pending, toDo, seeded, ready,
          held, saved, moves>>

\* HashMap::insert.
Put(f, k, v) == [x \in DOMAIN f \cup {k} |-> IF x = k THEN v ELSE f[x]]

\* What a place holds: the home of a value, or the k-th temporary.
Contents(place) == IF place \in Values THEN held[place] ELSE saved[place]

-----------------------------------------------------------------------------
Init ==
    /\ phis \in PhiLists
    /\ collected = 0
    /\ sourceOf = <<>>
    /\ location = <<>>
    /\ pending = {}
    /\ toDo = <<>>
    /\ seeded = 0
    /\ ready = <<>>
    /\ held = [v \in Values |-> v]
    /\ saved = <<>>
    /\ moves = 0

(***************************************************************************)
(* The phis become copies; one that takes its own result along this edge   *)
(* asks for no move.  A value that is read starts out in its own home.     *)
(***************************************************************************)
CollectPhi ==
    /\ collected < Len(phis)
    /\ collected' = collected + 1
    /\ LET phi == phis[collected + 1]
       IN  IF phi.arg = phi.dest
           THEN UNCHANGED <<sourceOf, location, pending, toDo>>
           ELSE /\ sourceOf' = Put(sourceOf, phi.dest, phi.arg)
                /\ pending' = pending \cup {phi.dest}
                /\ toDo' = Append(toDo, phi.dest)
                /\ location' = IF phi.arg = Immediate THEN location
                               ELSE Put(location, phi.arg, phi.arg)
    /\ UNCHANGED <<phis, seeded, ready, held, saved, moves>>

\* A destination nothing reads can be written straight away.
SeedReady ==
    /\ collected = Len(phis)
    /\ seeded < Len(toDo)
    /\ seeded' = seeded + 1
    /\ LET dest == toDo[seeded + 1]
       IN  ready' = IF dest \in DOMAIN location THEN ready ELSE Append(ready, dest)
    /\ UNCHANGED <<phis, collected, sourceOf, location, pending, toDo, held, saved, moves>>

\* The loop runs once both passes are over; from then on toDo only shrinks.
Sequencing == collected = Len(phis) /\ seeded >= Len(toDo)

(***************************************************************************)
(* `while let Some(dest) = ready.pop()': write one destination from where  *)
(* its source is now.  If the source was still at home, its own home is    *)
(* free to be overwritten from here on.                                    *)
(***************************************************************************)
\* Mutants: the stale home is read; a source is never freed.
EmitFromHome(dest, source) ==
    /\ held' = [held EXCEPT ![dest] = held[source]]
    /\ location' = [location EXCEPT ![source] = dest]
    /\ ready' = IF location[source] = source /\ source \in pending \ {dest}
                THEN Append(Front(ready), source)
                ELSE Front(ready)

EmitFreeingNothing(dest, source) ==
    /\ held' = [held EXCEPT ![dest] = Contents(location[source])]
    /\ location' = [location EXCEPT ![source] = dest]
    /\ ready' = Front(ready)

EmitCopy(dest, source) ==
    /\ held' = [held EXCEPT ![dest] = Contents(location[source])]
    /\ location' = [location EXCEPT ![source] = dest]
    /\ ready' = IF location[source] = source /\ source \in pending \ {dest}
                THEN Append(Front(ready), source)
                ELSE Front(ready)

EmitConstant(dest) ==
    /\ held' = [held EXCEPT ![dest] = Immediate]
    /\ ready' = Front(ready)
    /\ UNCHANGED location

EmitReady ==
    /\ Sequencing
    /\ ready # <<>>
    /\ LET dest == Last(ready)
       IN  /\ IF sourceOf[dest] = Immediate
              THEN EmitConstant(dest)
              ELSE EmitCopy(dest, sourceOf[dest])
           /\ pending' = pending \ {dest}
    /\ moves' = moves + 1
    /\ UNCHANGED <<phis, collected, sourceOf, toDo, seeded, saved>>

(***************************************************************************)
(* Nothing is ready: a destination popped from to_do that is still pending *)
(* is on a cycle.  Its value is saved in a temporary, and it is ready.     *)
(***************************************************************************)
\* Mutant: the temporary is counted after it is named.
BreakCycleMiscounting(dest) ==
    /\ saved' = Append(saved, held[dest])
    /\ location' = [location EXCEPT ![dest] = Len(saved)]
    /\ ready' = Append(ready, dest)
    /\ moves' = moves + 1

BreakCycle(dest) ==
    /\ saved' = Append(saved, held[dest])
    /\ location' = [location EXCEPT ![dest] = Len(saved) + 1]
    /\ ready' = Append(ready, dest)
    /\ moves' = moves + 1

Revisit ==
    /\ Sequencing
    /\ ready = <<>> /\ toDo # <<>>
    /\ toDo' = Front(toDo)
    /\ IF Last(toDo) \in pending
       THEN BreakCycle(Last(toDo))
       ELSE UNCHANGED <<saved, location, ready, moves>>
    /\ UNCHANGED <<phis, collected, sourceOf, pending, seeded, held>>

Finished == Sequencing /\ ready = <<>> /\ toDo = <<>>

Next == CollectPhi \/ SeedReady \/ EmitReady \/ Revisit

Spec == Init /\ [][Next]_vars /\ WF_vars(Next)

-----------------------------------------------------------------------------
TypeOK ==
    /\ phis \in Seq([dest : Values, arg : Operands])
    /\ collected \in 0 .. Len(phis)
    /\ DOMAIN sourceOf \subseteq Values
    /\ \A d \in DOMAIN sourceOf : sourceOf[d] \in Operands
    /\ DOMAIN location \subseteq Values
    /\ \A v \in DOMAIN location : location[v] \in Values \cup 1 .. Len(saved)
    /\ pending \subseteq DOMAIN sourceOf
    /\ toDo \in Seq(DOMAIN sourceOf) /\ ready \in Seq(DOMAIN sourceOf)
    /\ seeded \in Nat /\ moves \in Nat
    /\ held \in [Values -> Operands]
    /\ saved \in Seq(Operands)

(***************************************************************************)
(* Neither the swap problem nor the lost-copy problem (destruct.rs, "Phi   *)
(* lowering"): whatever was emitted so far, a value that some copy still   *)
(* has to read is intact where location says it is.                        *)
(***************************************************************************)
NoLostCopy ==
    \A d \in pending :
       sourceOf[d] # Immediate =>
          /\ sourceOf[d] \in DOMAIN location
          /\ Contents(location[sourceOf[d]]) = sourceOf[d]

(***************************************************************************)
(* The moves that were emitted, run one after another, do what the phis of *)
(* the block say all at once, and they do come to an end.                  *)
(***************************************************************************)
RequestOf(list) ==
    [v \in {list[i].dest : i \in 1 .. Len(list)} |->
        (CHOOSE phi \in {list[i] : i \in 1 .. Len(list)} : phi.dest = v).arg]

Parallel == INSTANCE SimultaneousAssignment WITH
    Places   <- Values,
    Requests <- UNION {[D -> Operands] : D \in SUBSET Values},
    request  <- RequestOf(phis),
    contents <- IF Finished THEN held ELSE [v \in Values |-> v],
    done     <- Finished

ImplementsParallelCopy == Parallel!Spec

(***************************************************************************)
(* One move per copy, plus one per cycle that has to be broken: a cycle    *)
(* none of whose values is read by a copy outside it (destruct.rs: "one    *)
(* move per phi plus one per cycle").                                      *)
(***************************************************************************)
SourcesOf(C) == {sourceOf[d] : d \in C}

Cycles ==
    {C \in SUBSET DOMAIN sourceOf :
        /\ C # {} /\ SourcesOf(C) = C
        /\ \A D \in SUBSET C : (D # {} /\ SourcesOf(D) = D) => D = C}

ReadOutside(C) == \E d \in DOMAIN sourceOf \ C : sourceOf[d] \in C

FewestMoves ==
    Finished =>
       moves = Cardinality(DOMAIN sourceOf) + Cardinality({C \in Cycles : ~ReadOutside(C)})
=============================================================================
