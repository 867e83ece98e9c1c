----------------------------- MODULE LinearScan -----------------------------
(***************************************************************************)
(* Linear-scan register allocation: backend/regalloc.rs.                   *)
(*                                                                         *)
(* The allocator walks the live intervals of one function in order of      *)
(* their start point.  `active' is the list of the intervals that hold a   *)
(* register, sorted by end point; before each interval the ones that have  *)
(* ended give their register back, and then the interval is placed: in the *)
(* most preferred free register it may use, in the register of an active   *)
(* interval that ends later (which moves to the frame), or in the frame.   *)
(*                                                                         *)
(* A virtual register is named by the position of its interval in the      *)
(* list.  A physical register is its index in RegisterFile::allocatable(), *)
(* so a smaller number is a more preferred register.                       *)
(***************************************************************************)
EXTENDS Integers, SequencesExt

CONSTANTS
    NumRegisters,  \* F::allocatable().len()
    CalleeSaved,   \* the indices for which F::is_callee_saved answers true
    Workloads      \* the functions to allocate: intervals and call sites

Registers == 1 .. NumRegisters

(***************************************************************************)
(* What liveness.rs hands over: intervals sorted by start point, and call  *)
(* sites at distinct positions.  `defines' is the virtual register a call  *)
(* writes, 0 when it writes none; a call writes a value inside its live    *)
(* interval.                                                               *)
(***************************************************************************)
IsInterval(i) ==
    /\ DOMAIN i = {"start", "end"}
    /\ i.start \in Nat /\ i.end \in Nat /\ i.start <= i.end

IsWorkload(w) ==
    /\ w.intervals \in Seq([start : Nat, end : Nat])
    /\ \A v \in 1 .. Len(w.intervals) : IsInterval(w.intervals[v])
    /\ \A u, v \in 1 .. Len(w.intervals) :
          u < v => w.intervals[u].start <= w.intervals[v].start
    /\ \A call \in w.callSites :
          /\ call.position \in Nat
          /\ call.defines \in 0 .. Len(w.intervals)

ASSUME LinearScanAssumption ==
    /\ NumRegisters \in Nat
    /\ CalleeSaved \subseteq Registers
    /\ \A w \in Workloads : IsWorkload(w)

VARIABLES
    intervals,        \* the input, sorted by start point
    callSites,        \* the calls of the function
    cursor,           \* position of the interval the loop looks at next
    active,           \* the intervals holding a register, by end point
    available,        \* available[r]: register r is free
    usedCalleeSaved,  \* used_callee_saved: registers the prologue must save
    assignments,      \* where each virtual register lives
    spillSlots        \* how many frame slots were handed out

vars == <<intervals, callSites, cursor, active, available, usedCalleeSaved,
          assignments, spillSlots>>

VRegs == 1 .. Len(intervals)

Register(r) == [at |-> "register", n |-> r]
Spill(s)    == [at |-> "spill", n |-> s]
Unassigned  == [at |-> "none", n |-> 0]

InRegister(v, r) == assignments[v] = Register(r)

(***************************************************************************)
(* LiveInterval::crosses_call and crosses_any_call: the value is live on   *)
(* both sides of the call.  A value the call itself produces is not.       *)
(***************************************************************************)
CrossesCall(v, call) ==
    /\ intervals[v].start <= call.position
    /\ call.position <= intervals[v].end
    /\ ~(intervals[v].start = call.position /\ call.defines = v)

CrossesAnyCall(v) == \E call \in callSites : CrossesCall(v, call)

\* Registers the interval of v may be given: all, or those a callee keeps.
Permitted(v) == IF CrossesAnyCall(v) THEN CalleeSaved ELSE Registers

-----------------------------------------------------------------------------
Init ==
    /\ \E w \in Workloads :
          /\ intervals = w.intervals
          /\ callSites = w.callSites
    /\ cursor = 1
    /\ active = <<>>
    /\ available = [r \in Registers |-> TRUE]
    /\ usedCalleeSaved = {}
    /\ assignments = [v \in VRegs |-> Unassigned]
    /\ spillSlots = 0

(***************************************************************************)
(* expire_before: the first n active intervals end before the current one  *)
(* starts.  partition_point finds n on a list sorted by end point.         *)
(***************************************************************************)
\* Mutant: an interval expires at its last use already.
ExpiresAtLastUse(n) ==
    /\ \A i \in 1 .. n : active[i].end <= intervals[cursor].start
    /\ \A i \in n + 1 .. Len(active) : active[i].end > intervals[cursor].start

Expires(n) ==
    /\ \A i \in 1 .. n : active[i].end < intervals[cursor].start
    /\ \A i \in n + 1 .. Len(active) : active[i].end >= intervals[cursor].start

StillActive(n) == SubSeq(active, n + 1, Len(active))

FreeAfter(n) ==
    [r \in Registers |-> available[r] \/ \E i \in 1 .. n : active[i].register = r]

\* pick_register: the most preferred free register the interval may use.
\* Mutant: the restriction to what survives a call is forgotten.
PicksAnyFree(free, r) ==
    free[r] /\ \A q \in 1 .. r - 1 : ~free[q]

Picks(free, r) ==
    /\ r \in Permitted(cursor) /\ free[r]
    /\ \A q \in 1 .. r - 1 : ~(q \in Permitted(cursor) /\ free[q])

NothingFree(free) == \A r \in Permitted(cursor) : ~free[r]

\* evictable, filtered: the last active interval whose register the current
\* one may take, when it ends later than the current one.
\* Mutant: the comparison of end points is forgotten.
EvictsLastPermitted(held, k) ==
    /\ held[k].register \in Permitted(cursor)
    /\ \A j \in k + 1 .. Len(held) : held[j].register \notin Permitted(cursor)

Evicts(held, k) ==
    /\ held[k].register \in Permitted(cursor)
    /\ \A j \in k + 1 .. Len(held) : held[j].register \notin Permitted(cursor)
    /\ held[k].end > intervals[cursor].end

NothingToEvict(held) == \A k \in 1 .. Len(held) : ~Evicts(held, k)

\* insert_active: after every entry that ends no later.
\* Mutant: the entry is pushed at the end.
PushActive(held, r) ==
    active' = Append(held, [register |-> r, end |-> intervals[cursor].end, vreg |-> cursor])

InsertActive(held, r) ==
    LET current == [register |-> r, end |-> intervals[cursor].end, vreg |-> cursor]
    IN  \E p \in 1 .. Len(held) + 1 :
           /\ \A i \in 1 .. p - 1 : held[i].end <= current.end
           /\ \A i \in p .. Len(held) : held[i].end > current.end
           /\ active' = InsertAt(held, p, current)

-----------------------------------------------------------------------------
(***************************************************************************)
(* The body of the loop in linear_scan, after expire_before: the arms of   *)
(* `match pick_register(..)' and of `match victim'.                        *)
(***************************************************************************)
TakeFreeRegister(held, free) ==
    \E r \in Registers :
       /\ Picks(free, r)
       /\ available' = [free EXCEPT ![r] = FALSE]
       /\ usedCalleeSaved' = usedCalleeSaved \cup ({r} \cap CalleeSaved)
       /\ assignments' = [assignments EXCEPT ![cursor] = Register(r)]
       /\ InsertActive(held, r)
       /\ UNCHANGED spillSlots

\* Mutant: the slot counter is not moved on.
EvictWithoutCounting(held, free) ==
    /\ NothingFree(free)
    /\ \E k \in 1 .. Len(held) :
          /\ Evicts(held, k)
          /\ assignments' = [assignments EXCEPT
                 ![held[k].vreg] = Spill(spillSlots),
                 ![cursor] = Register(held[k].register)]
          /\ InsertActive(RemoveAt(held, k), held[k].register)
    /\ spillSlots' = spillSlots
    /\ available' = free
    /\ UNCHANGED usedCalleeSaved

EvictLongerLived(held, free) ==
    /\ NothingFree(free)
    /\ \E k \in 1 .. Len(held) :
          /\ Evicts(held, k)
          /\ assignments' = [assignments EXCEPT
                 ![held[k].vreg] = Spill(spillSlots + 1),
                 ![cursor] = Register(held[k].register)]
          /\ InsertActive(RemoveAt(held, k), held[k].register)
    /\ spillSlots' = spillSlots + 1
    /\ available' = free
    /\ UNCHANGED usedCalleeSaved

SpillCurrent(held, free) ==
    /\ NothingFree(free)
    /\ NothingToEvict(held)
    /\ assignments' = [assignments EXCEPT ![cursor] = Spill(spillSlots + 1)]
    /\ spillSlots' = spillSlots + 1
    /\ active' = held
    /\ available' = free
    /\ UNCHANGED usedCalleeSaved

PlaceNext ==
    /\ cursor <= Len(intervals)
    /\ \E n \in 0 .. Len(active) :
          /\ Expires(n)
          /\ \/ TakeFreeRegister(StillActive(n), FreeAfter(n))
             \/ EvictLongerLived(StillActive(n), FreeAfter(n))
             \/ SpillCurrent(StillActive(n), FreeAfter(n))
    /\ cursor' = cursor + 1
    /\ UNCHANGED <<intervals, callSites>>

Finished == cursor > Len(intervals) /\ UNCHANGED vars

Next == PlaceNext \/ Finished

Spec == Init /\ [][Next]_vars

-----------------------------------------------------------------------------
Homes == {Register(r) : r \in Registers}
           \cup {Spill(s) : s \in 1 .. spillSlots} \cup {Unassigned}

Entries == [register : Registers, end : Nat, vreg : VRegs]

TypeOK ==
    /\ IsWorkload([intervals |-> intervals, callSites |-> callSites])
    /\ cursor \in 1 .. Len(intervals) + 1
    /\ active \in Seq(Entries)
    /\ available \in [Registers -> BOOLEAN]
    /\ usedCalleeSaved \subseteq CalleeSaved
    /\ spillSlots \in Nat
    /\ assignments \in [VRegs -> Homes]

(***************************************************************************)
(* The point of the allocator: two values live at the same instruction     *)
(* never share a home, neither a register nor a spill slot.  An eviction   *)
(* moves a value that was placed many intervals ago, so this relates the   *)
(* whole history of placements (linear_scan).                              *)
(***************************************************************************)
Overlap(u, v) ==
    /\ intervals[u].start <= intervals[v].end
    /\ intervals[v].start <= intervals[u].end

NoSharedHome ==
    \A u, v \in VRegs :
       (u # v /\ assignments[u] = assignments[v] /\ assignments[u] # Unassigned)
         => assignments[u].at = "register" /\ ~Overlap(u, v)

(***************************************************************************)
(* A value live on both sides of a call is never left in a register the    *)
(* callee may destroy, not even when it got its register by evicting       *)
(* another value; and every callee-saved register handed out, at any time, *)
(* is one the prologue saves (Allocation::callee_saved).                   *)
(***************************************************************************)
SafeAcrossCalls ==
    \A v \in VRegs, r \in Registers :
       InRegister(v, r) =>
          /\ CrossesAnyCall(v) => r \in CalleeSaved
          /\ r \in CalleeSaved => r \in usedCalleeSaved

(***************************************************************************)
(* linear_scan's doc comment: when a register is needed and none is        *)
(* available the longest-lived candidate is spilled.  So whenever a step   *)
(* moves a value to the frame, every register the current interval may use *)
(* ends up held by an overlapping value that ends no later than it.        *)
(***************************************************************************)
SpillsTheLongestLived ==
    [][\A v \in VRegs :
          (assignments[v].at # "spill" /\ assignments'[v].at = "spill") =>
             \A r \in Permitted(cursor) :
                \E u \in VRegs \ {v} :
                   /\ assignments'[u] = Register(r)
                   /\ intervals[u].start <= intervals[cursor].start
                   /\ intervals[cursor].start <= intervals[u].end
                   /\ intervals[u].end <= intervals[v].end]_vars

(***************************************************************************)
(* A placed value is only ever moved from a register to a frame slot no    *)
(* one had before: code already allocated never sees a value change        *)
(* register or slot again.                                                 *)
(***************************************************************************)
MovesOnlyToFreshSlots ==
    [][\A v \in VRegs :
          (assignments[v] # Unassigned /\ assignments'[v] # assignments[v]) =>
             /\ assignments[v].at = "register"
             /\ assignments'[v] = Spill(spillSlots')
             /\ \A u \in VRegs : assignments[u] # Spill(spillSlots')]_vars

-----------------------------------------------------------------------------
(***************************************************************************)
(* What the loop maintains.  The parts about `active' and `available' are  *)
(* operators over a list, a map and a bound on the intervals looked at, so *)
(* that they can be stated of the state between expire_before and the      *)
(* placement too.                                                          *)
(***************************************************************************)

\* The list is sorted by end point, holds every register once, and repeats
\* what the assignments and the intervals say.
WellHeld(list, homes, limit) ==
    /\ list \in Seq(Entries)
    /\ \A i, j \in 1 .. Len(list) : i < j => list[i].end <= list[j].end
    /\ \A i, j \in 1 .. Len(list) : i # j => list[i].register # list[j].register
    /\ \A i \in 1 .. Len(list) :
          /\ list[i].vreg < limit
          /\ list[i].end = intervals[list[i].vreg].end
          /\ homes[list[i].vreg] = Register(list[i].register)

\* A register marked free is held by no one.
FreeIsFree(list, free) ==
    \A i \in 1 .. Len(list) : ~free[list[i].register]

\* A value in a register is on the list, or over before anything to come.
HeldOrOver(list, homes, limit) ==
    \A v \in VRegs, r \in Registers :
       homes[v] = Register(r) =>
          \/ \E i \in 1 .. Len(list) : list[i].vreg = v /\ list[i].register = r
          \/ \A w \in VRegs : w >= limit => intervals[v].end < intervals[w].start

\* Exactly the intervals before the cursor have a home.
PlacedSoFar == \A v \in VRegs : assignments[v] = Unassigned <=> v >= cursor

IInv ==
    /\ TypeOK
    /\ WellHeld(active, assignments, cursor)
    /\ FreeIsFree(active, available)
    /\ HeldOrOver(active, assignments, cursor)
    /\ PlacedSoFar
    /\ NoSharedHome
    /\ SafeAcrossCalls
=============================================================================
