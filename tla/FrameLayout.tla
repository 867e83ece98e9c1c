----------------------------- MODULE FrameLayout -----------------------------
(***************************************************************************)
(* The layout of a stack frame: FrameLayout::plan of backend/frame.rs, a   *)
(* step per object and per variable whose address is taken.                *)
(***************************************************************************)
EXTENDS FrameStorage, Sequences

CONSTANT Variables \* variable ids

VARIABLES
    toPlace, \* objects without a place yet, in order
    toPin    \* variables without a slot yet whose address is taken, in order

vars == <<saved, spilled, sizes, toPlace, toPin, slots, objects, pinned>>

-----------------------------------------------------------------------------
\* Mutant: what is left over gets no slot.
WholeSlotsOf(bytes) == bytes \div WordSize

SlotsFor(bytes) == (bytes + WordSize - 1) \div WordSize

Put(places, variable, offset) ==
    [v \in DOMAIN places \cup {variable} |-> IF v = variable THEN offset ELSE places[v]]

\* Byte 0 of an object is in the last slot reserved for it.
ReserveObject ==
    /\ toPlace # <<>>
    /\ slots' = slots + SlotsFor(sizes[Head(toPlace)])
    /\ objects' = Put(objects, Head(toPlace), OffsetOf(slots'))
    /\ toPlace' = Tail(toPlace)
    /\ UNCHANGED <<saved, spilled, sizes, toPin, pinned>>

PinVariable ==
    /\ toPlace = <<>> /\ toPin # <<>>
    /\ slots' = slots + 1
    /\ pinned' = Put(pinned, Head(toPin), OffsetOf(slots'))
    /\ toPin' = Tail(toPin)
    /\ UNCHANGED <<saved, spilled, sizes, toPlace, objects>>

Planned == toPlace = <<>> /\ toPin = <<>>

-----------------------------------------------------------------------------
(***************************************************************************)
(* What plan starts from: the two collections are maps, so nothing is in   *)
(* them twice.                                                             *)
(***************************************************************************)
AreDistinct(s) == \A i, j \in DOMAIN s : s[i] = s[j] => i = j

Starts(registers, spills, bytes, places, pins) ==
    /\ saved = registers /\ spilled = spills /\ slots = spills
    /\ sizes = bytes /\ toPlace = places /\ toPin = pins
    /\ objects = [v \in {} |-> 0] /\ pinned = [v \in {} |-> 0]

Init ==
    \E registers, spills \in Nat, known \in SUBSET Variables,
       places, pins \in Seq(Variables) :
       \E bytes \in [known -> Nat] :
          /\ \A i \in DOMAIN places : places[i] \in known
          /\ AreDistinct(places) /\ AreDistinct(pins)
          /\ Starts(registers, spills, bytes, places, pins)

Next == ReserveObject \/ PinVariable

Spec == Init /\ [][Next]_vars
=============================================================================
