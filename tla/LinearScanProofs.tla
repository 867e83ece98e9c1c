-------------------------- MODULE LinearScanProofs --------------------------
(***************************************************************************)
(* The allocator is safe on every workload, whatever its size and whatever *)
(* the register file: IInv of LinearScan is inductive.                     *)
(***************************************************************************)
EXTENDS LinearScan, FiniteLemmas

Input == [intervals |-> intervals, callSites |-> callSites]

(***************************************************************************)
(* The intervals are records of naturals in order of their start point,    *)
(* which is all the proof needs to know of the input.                      *)
(***************************************************************************)
LEMMA InputFacts ==
    ASSUME IsWorkload(Input)
    PROVE  /\ intervals \in Seq([start : Nat, end : Nat])
           /\ Len(intervals) \in Nat
           /\ \A v \in VRegs : /\ intervals[v].start \in Nat /\ intervals[v].end \in Nat
                               /\ intervals[v].start <= intervals[v].end
           /\ \A u, v \in VRegs : u < v => intervals[u].start <= intervals[v].start
  BY DEF IsWorkload, IsInterval, Input, VRegs

(***************************************************************************)
(* A home says whether it is a register or a slot, and which one.          *)
(***************************************************************************)
LEMMA HomesDiffer ==
    /\ \A r, q : Register(r) = Register(q) => r = q
    /\ \A s, t : Spill(s) = Spill(t) => s = t
    /\ \A r, s : Register(r) # Spill(s)
    /\ \A r : Register(r) # Unassigned /\ Spill(r) # Unassigned
    /\ \A r : Register(r).at = "register" /\ Spill(r).at = "spill"
  BY DEF Register, Spill, Unassigned

(***************************************************************************)
(* An entry of a well-held list names a value looked at and a register.    *)
(***************************************************************************)
LEMMA EntryFacts ==
    ASSUME NEW list, NEW homes, NEW limit, WellHeld(list, homes, limit),
           NEW i \in 1 .. Len(list)
    PROVE  /\ list[i].vreg \in VRegs /\ list[i].vreg < limit
           /\ list[i].register \in Registers
           /\ homes[list[i].vreg] = Register(list[i].register)
<1>1. list \in Seq(Entries)
  BY DEF WellHeld
<1>2. list[i] \in Entries
  BY <1>1
<1>3. list[i].vreg \in VRegs /\ list[i].register \in Registers
  BY <1>2 DEF Entries
<1>4. list[i].vreg < limit /\ homes[list[i].vreg] = Register(list[i].register)
  BY DEF WellHeld
<1> QED BY <1>3, <1>4

-----------------------------------------------------------------------------
(***************************************************************************)
(* insert_active keeps the list sorted, and with one more register held.   *)
(***************************************************************************)
LEMMA InsertKeepsWellHeld ==
    ASSUME IsWorkload(Input),
           cursor \in VRegs,
           NEW list, NEW homes, NEW r \in Registers,
           WellHeld(list, homes, cursor),
           \A i \in 1 .. Len(list) : list[i].register # r,
           homes[cursor] = Register(r),
           InsertActive(list, r)
    PROVE  /\ WellHeld(active', homes, cursor + 1)
           /\ \A i \in 1 .. Len(active') :
                 \/ active'[i].vreg = cursor /\ active'[i].register = r
                 \/ \E j \in 1 .. Len(list) : active'[i] = list[j]
           /\ \E i \in 1 .. Len(active') : active'[i].vreg = cursor /\ active'[i].register = r
           /\ \A j \in 1 .. Len(list) : \E i \in 1 .. Len(active') : active'[i] = list[j]
<1> DEFINE current == [register |-> r, end |-> intervals[cursor].end, vreg |-> cursor]
<1>1. /\ Len(intervals) \in Nat /\ cursor \in Int
      /\ intervals[cursor].end \in Nat
  BY InputFacts DEF VRegs
<1>2. current \in Entries
  BY <1>1 DEF Entries
<1>3. /\ list \in Seq(Entries)
      /\ Len(list) \in Nat
      /\ \A i \in 1 .. Len(list) : list[i] \in Entries
  BY DEF WellHeld
<1>4. PICK p \in 1 .. Len(list) + 1 :
         /\ \A i \in 1 .. p - 1 : list[i].end <= current.end
         /\ \A i \in p .. Len(list) : list[i].end > current.end
         /\ active' = InsertAt(list, p, current)
  BY DEF InsertActive
<1> HIDE DEF current
<1>5. /\ active' \in Seq(Entries)
      /\ Len(active') = Len(list) + 1
      /\ \A i \in 1 .. Len(list) + 1 :
            active'[i] = IF i < p THEN list[i] ELSE IF i = p THEN current ELSE list[i - 1]
  <2> DEFINE longer == InsertAt(list, p, current)
  <2>1. /\ longer \in Seq(Entries)
        /\ Len(longer) = Len(list) + 1
        /\ \A i \in 1 .. Len(list) + 1 :
              longer[i] = IF i < p THEN list[i] ELSE IF i = p THEN current ELSE list[i - 1]
    <3> HIDE DEF current
    <3> QED BY <1>2, <1>3, InsertAtFacts
  <2>2. active' = longer
    BY <1>4
  <2> HIDE DEF longer
  <2> QED BY <2>1, <2>2
<1>6. /\ \A i \in 1 .. p - 1 : i \in 1 .. Len(list) /\ active'[i] = list[i]
      /\ active'[p] = current /\ p \in 1 .. Len(active')
      /\ \A i \in p + 1 .. Len(active') : i - 1 \in p .. Len(list) /\ active'[i] = list[i - 1]
  BY <1>3, <1>5
<1>7. current.vreg = cursor /\ current.register = r /\ current.end = intervals[cursor].end
  BY DEF current
<1>8. \A i \in 1 .. Len(active') :
         \/ i \in 1 .. p - 1
         \/ i = p
         \/ i \in p + 1 .. Len(active')
  BY <1>3, <1>5
<1>9. \A i, j \in 1 .. Len(active') : i < j => active'[i].end <= active'[j].end
  <2> SUFFICES ASSUME NEW i \in 1 .. Len(active'), NEW j \in 1 .. Len(active'), i < j
               PROVE  active'[i].end <= active'[j].end
    OBVIOUS
  <2>0. /\ \A k, l \in 1 .. Len(list) : k < l => list[k].end <= list[l].end
        /\ \A k \in 1 .. Len(list) : list[k].end \in Nat
        /\ current.end \in Nat
    <3>1. \A k \in 1 .. Len(list) : list[k].end \in Nat
      BY <1>3 DEF Entries
    <3>2. \A k, l \in 1 .. Len(list) : k < l => list[k].end <= list[l].end
      BY DEF WellHeld
    <3> QED BY <3>1, <3>2, <1>1, <1>7
  <2>00. i \in Int /\ j \in Int /\ p \in Int
    BY <1>3, <1>5
  <2>1. CASE i \in 1 .. p - 1 /\ j \in 1 .. p - 1
    BY <2>0, <2>1, <1>6
  <2>2. CASE i \in 1 .. p - 1 /\ j = p
    BY <2>2, <1>4, <1>6
  <2>3. CASE i \in 1 .. p - 1 /\ j \in p + 1 .. Len(active')
    <3>1. j - 1 \in 1 .. Len(list) /\ i \in 1 .. Len(list) /\ i < j - 1
      BY <2>3, <2>00, <1>6, <1>3
    <3>2. active'[i] = list[i] /\ active'[j] = list[j - 1]
      BY <2>3, <1>6
    <3> QED BY <3>1, <3>2, <2>0
  <2>4. CASE i = p /\ j \in p + 1 .. Len(active')
    <3>1. j - 1 \in p .. Len(list) /\ active'[j] = list[j - 1] /\ active'[i] = current
      BY <2>4, <1>6
    <3>2. list[j - 1].end > current.end /\ j - 1 \in 1 .. Len(list)
      BY <3>1, <1>4
    <3> QED BY <3>1, <3>2, <2>0
  <2>5. CASE i \in p + 1 .. Len(active') /\ j \in p + 1 .. Len(active')
    <3>1. j - 1 \in 1 .. Len(list) /\ i - 1 \in 1 .. Len(list) /\ i - 1 < j - 1
      BY <2>5, <2>00, <1>6, <1>3
    <3>2. active'[i] = list[i - 1] /\ active'[j] = list[j - 1]
      BY <2>5, <1>6
    <3> QED BY <3>1, <3>2, <2>0
  <2> QED BY <2>00, <2>1, <2>2, <2>3, <2>4, <2>5, <1>8
<1>10. \A i, j \in 1 .. Len(active') : i # j => active'[i].register # active'[j].register
  <2> SUFFICES ASSUME NEW i \in 1 .. Len(active'), NEW j \in 1 .. Len(active'), i < j
               PROVE  active'[i].register # active'[j].register
    BY <1>3, <1>5
  <2>0. /\ \A k, l \in 1 .. Len(list) : k # l => list[k].register # list[l].register
        /\ i \in Int /\ j \in Int /\ p \in Int
    BY <1>5, <1>3 DEF WellHeld
  <2>1. CASE i \in 1 .. p - 1 /\ j \in 1 .. p - 1
    BY <2>0, <2>1, <1>6
  <2>2. CASE i \in 1 .. p - 1 /\ j = p
    BY <2>2, <1>6, <1>7
  <2>3. CASE i \in 1 .. p - 1 /\ j \in p + 1 .. Len(active')
    <3>1. j - 1 \in 1 .. Len(list) /\ i \in 1 .. Len(list) /\ i # j - 1
      BY <2>3, <2>0, <1>6, <1>3
    <3>2. active'[i] = list[i] /\ active'[j] = list[j - 1]
      BY <2>3, <1>6
    <3> QED BY <3>1, <3>2, <2>0
  <2>4. CASE i = p /\ j \in p + 1 .. Len(active')
    <3>1. j - 1 \in 1 .. Len(list)
      BY <2>4, <1>6
    <3> QED BY <3>1, <2>4, <1>6, <1>7
  <2>5. CASE i \in p + 1 .. Len(active') /\ j \in p + 1 .. Len(active')
    <3>1. j - 1 \in 1 .. Len(list) /\ i - 1 \in 1 .. Len(list) /\ i - 1 # j - 1
      BY <2>5, <2>0, <1>6, <1>3
    <3>2. active'[i] = list[i - 1] /\ active'[j] = list[j - 1]
      BY <2>5, <1>6
    <3> QED BY <3>1, <3>2, <2>0
  <2> QED BY <2>0, <2>1, <2>2, <2>3, <2>4, <2>5, <1>8
<1>11. \A i \in 1 .. Len(active') :
          \/ active'[i] = current
          \/ \E j \in 1 .. Len(list) : active'[i] = list[j]
  <2> SUFFICES ASSUME NEW i \in 1 .. Len(active')
               PROVE  \/ active'[i] = current
                      \/ \E j \in 1 .. Len(list) : active'[i] = list[j]
    OBVIOUS
  <2>1. CASE i \in 1 .. p - 1
    BY <2>1, <1>6
  <2>2. CASE i = p
    BY <2>2, <1>6
  <2>3. CASE i \in p + 1 .. Len(active')
    <3>1. i - 1 \in 1 .. Len(list)
      BY <2>3, <1>6
    <3> QED BY <3>1, <2>3, <1>6
  <2> QED BY <2>1, <2>2, <2>3, <1>8
<1>12. \A i \in 1 .. Len(active') :
          /\ active'[i].vreg < cursor + 1
          /\ active'[i].end = intervals[active'[i].vreg].end
          /\ homes[active'[i].vreg] = Register(active'[i].register)
  <2>1. /\ current.vreg < cursor + 1
        /\ current.end = intervals[current.vreg].end
        /\ homes[current.vreg] = Register(current.register)
    BY <1>1, <1>7
  <2>2. ASSUME NEW j \in 1 .. Len(list)
        PROVE  /\ list[j].vreg < cursor + 1
               /\ list[j].end = intervals[list[j].vreg].end
               /\ homes[list[j].vreg] = Register(list[j].register)
    BY <1>1, <1>3, SMTT(30) DEF WellHeld, Entries, VRegs
  <2> QED BY <2>1, <2>2, <1>11
<1>13. \A j \in 1 .. Len(list) : \E i \in 1 .. Len(active') : active'[i] = list[j]
  <2> SUFFICES ASSUME NEW j \in 1 .. Len(list)
               PROVE  \E i \in 1 .. Len(active') : active'[i] = list[j]
    OBVIOUS
  <2>1. CASE j \in 1 .. p - 1
    BY <2>1, <1>3, <1>5, <1>6
  <2>2. CASE j >= p
    <3>1. j + 1 \in p + 1 .. Len(active') /\ j + 1 \in 1 .. Len(active') /\ (j + 1) - 1 = j
      BY <2>2, <1>3, <1>5
    <3>2. active'[j + 1] = list[j]
      BY <3>1, <1>6
    <3> QED BY <3>1, <3>2
  <2>3. j \in 1 .. p - 1 \/ j >= p
    BY <1>3
  <2> QED BY <2>1, <2>2, <2>3
<1> QED BY <1>5, <1>6, <1>7, <1>9, <1>10, <1>11, <1>12, <1>13 DEF WellHeld

\* rest has the entries of list but the k-th, whose register no other holds.
Without(list, k, rest) ==
    /\ \A i \in 1 .. Len(rest) : rest[i].register # list[k].register
    /\ \A i \in 1 .. Len(rest) : \E j \in 1 .. Len(list) : rest[i] = list[j]
    /\ \A j \in 1 .. Len(list) : j # k => \E i \in 1 .. Len(rest) : rest[i] = list[j]

(***************************************************************************)
(* Taking a victim off the list leaves it sorted, and without the victim's *)
(* register.                                                               *)
(***************************************************************************)
LEMMA RemoveKeepsWellHeld ==
    ASSUME NEW list, NEW homes, NEW limit, NEW k \in 1 .. Len(list),
           WellHeld(list, homes, limit),
           NEW rest, rest = RemoveAt(list, k)
    PROVE  WellHeld(rest, homes, limit) /\ Without(list, k, rest)
<1> DEFINE Old(i) == IF i < k THEN i ELSE i + 1
<1>1. list \in Seq(Entries) /\ Len(list) \in Nat /\ k \in Int
  BY DEF WellHeld
<1>2. /\ rest \in Seq(Entries)
      /\ Len(rest) = Len(list) - 1
      /\ \A i \in 1 .. Len(list) - 1 : rest[i] = IF i < k THEN list[i] ELSE list[i + 1]
  BY <1>1, RemoveAtFacts
<1>3. \A i \in 1 .. Len(rest) :
         Old(i) \in 1 .. Len(list) /\ Old(i) # k /\ rest[i] = list[Old(i)]
  BY <1>1, <1>2
<1>4. \A i, j \in 1 .. Len(rest) : (i < j => Old(i) < Old(j)) /\ (i # j => Old(i) # Old(j))
  BY <1>1, <1>2
<1> HIDE DEF Old
<1>5. WellHeld(rest, homes, limit)
  BY <1>2, <1>3, <1>4, SMTT(30) DEF WellHeld
<1>6. ASSUME NEW i \in 1 .. Len(rest) PROVE rest[i].register # list[k].register
  <2>1. PICK j \in 1 .. Len(list) : j # k /\ rest[i] = list[j]
    BY <1>3
  <2>2. list[j].register # list[k].register
    BY <2>1 DEF WellHeld
  <2> QED BY <2>1, <2>2
<1>7. \A i \in 1 .. Len(rest) : \E j \in 1 .. Len(list) : rest[i] = list[j]
  BY <1>3
<1>8. ASSUME NEW j \in 1 .. Len(list), j # k
      PROVE  \E i \in 1 .. Len(rest) : rest[i] = list[j]
  <2>1. CASE j < k
    <3>1. j \in 1 .. Len(rest) /\ rest[j] = list[j]
      BY <2>1, <1>1, <1>2
    <3> QED BY <3>1
  <2>2. CASE j > k
    <3>1. j - 1 \in 1 .. Len(list) - 1 /\ ~(j - 1 < k) /\ (j - 1) + 1 = j
      BY <2>2, <1>1
    <3>2. rest[j - 1] = list[j]
      BY <3>1, <1>2
    <3> QED BY <3>1, <3>2, <1>2
  <2> QED BY <2>1, <2>2, <1>8, <1>1
<1> QED BY <1>5, <1>6, <1>7, <1>8 DEF Without

(***************************************************************************)
(* expire_before: what is left on the list is still well held, reaches the *)
(* current interval, and holds none of the free registers; a value that    *)
(* was dropped is over before the current interval starts.                 *)
(***************************************************************************)
LEMMA ExpireFacts ==
    ASSUME IInv, cursor \in VRegs, NEW n \in 0 .. Len(active), Expires(n)
    PROVE  LET held == StillActive(n)  free == FreeAfter(n)
           IN  /\ WellHeld(held, assignments, cursor)
               /\ free \in [Registers -> BOOLEAN]
               /\ FreeIsFree(held, free)
               /\ HeldOrOver(held, assignments, cursor)
<1> DEFINE held == StillActive(n)
           free == FreeAfter(n)
<1>1. /\ WellHeld(active, assignments, cursor)
      /\ FreeIsFree(active, available)
      /\ HeldOrOver(active, assignments, cursor)
      /\ available \in [Registers -> BOOLEAN]
      /\ IsWorkload(Input)
  BY DEF IInv, TypeOK, Input
<1>2. active \in Seq(Entries) /\ Len(active) \in Nat /\ n \in Nat /\ n <= Len(active)
  BY <1>1 DEF WellHeld
<1>3. /\ held \in Seq(Entries)
      /\ Len(held) = Len(active) - n
      /\ \A i \in 1 .. Len(active) - n : held[i] = active[n + i]
  <2>1. n + 1 \in 1 .. Len(active) + 1 /\ Len(active) \in (n + 1) - 1 .. Len(active)
    BY <1>2
  <2>2. /\ SubSeq(active, n + 1, Len(active)) \in Seq(Entries)
        /\ Len(SubSeq(active, n + 1, Len(active))) = Len(active) - (n + 1) + 1
        /\ \A i \in 1 .. Len(active) - (n + 1) + 1 :
              SubSeq(active, n + 1, Len(active))[i] = active[(n + 1) + i - 1]
    BY <2>1, <1>2, SubSeqFacts
  <2> QED BY <2>2, <1>2 DEF StillActive
<1> HIDE DEF held
<1>4. \A i \in 1 .. Len(held) : n + i \in 1 .. Len(active) /\ held[i] = active[n + i] /\ i \in Nat
  BY <1>2, <1>3
<1>5. WellHeld(held, assignments, cursor)
  <2>1. \A i, j \in 1 .. Len(held) : i < j => n + i < n + j
    BY <1>2, <1>3
  <2>2. \A i, j \in 1 .. Len(held) : i # j => n + i # n + j
    BY <1>2, <1>3
  <2>3. \A i, j \in 1 .. Len(held) : i < j => held[i].end <= held[j].end
    BY <2>1, <1>4, <1>1 DEF WellHeld
  <2>4. \A i, j \in 1 .. Len(held) : i # j => held[i].register # held[j].register
    BY <2>2, <1>4, <1>1, SMTT(30) DEF WellHeld
  <2>5. \A i \in 1 .. Len(held) :
          /\ held[i].vreg < cursor
          /\ held[i].end = intervals[held[i].vreg].end
          /\ assignments[held[i].vreg] = Register(held[i].register)
    BY <1>4, <1>1, ZenonT(40) DEF WellHeld
  <2> QED BY <1>3, <2>3, <2>4, <2>5 DEF WellHeld
<1>6. free \in [Registers -> BOOLEAN]
  BY <1>1 DEF FreeAfter
<1>7. FreeIsFree(held, free)
  <2> SUFFICES ASSUME NEW i \in 1 .. Len(held)
               PROVE  ~free[held[i].register]
    BY DEF FreeIsFree
  <2>0. held[i] \in Entries
    BY <1>2, <1>3
  <2>1. held[i].register \in Registers
    BY <2>0 DEF Entries
  <2>2. ~available[held[i].register]
    BY <1>4, <1>1 DEF FreeIsFree
  <2>3. ASSUME NEW j \in 1 .. n PROVE active[j].register # held[i].register
    <3>1. j \in 1 .. Len(active) /\ j # n + i
      BY <1>2, <1>4
    <3> QED BY <3>1, <1>4, <1>1, SMTT(30) DEF WellHeld
  <2> QED BY <2>1, <2>2, <2>3 DEF FreeAfter
<1>8. HeldOrOver(held, assignments, cursor)
  <2> SUFFICES ASSUME NEW v \in VRegs, NEW r \in Registers, assignments[v] = Register(r),
                      ~(\A w \in VRegs : w >= cursor => intervals[v].end < intervals[w].start)
               PROVE  \E i \in 1 .. Len(held) : held[i].vreg = v /\ held[i].register = r
    BY DEF HeldOrOver
  <2>1. PICK j \in 1 .. Len(active) : active[j].vreg = v /\ active[j].register = r
    BY <1>1 DEF HeldOrOver
  <2>2. PICK w \in VRegs : w >= cursor /\ ~(intervals[v].end < intervals[w].start)
    OBVIOUS
  <2>3. /\ intervals[cursor].start <= intervals[w].start
        /\ intervals[w].start \in Nat /\ intervals[cursor].start \in Nat
        /\ intervals[v].end \in Nat
    <3>1. /\ \A u \in VRegs : intervals[u].start \in Nat /\ intervals[u].end \in Nat
          /\ \A t, u \in VRegs : t < u => intervals[t].start <= intervals[u].start
      BY <1>1, InputFacts
    <3>2. w = cursor \/ cursor < w
      BY <2>2, <1>1, InputFacts DEF VRegs
    <3> QED BY <3>1, <3>2
  <2>4. active[j].end = intervals[v].end
    BY <2>1, <1>1 DEF WellHeld
  <2>5. ~(j \in 1 .. n)
    BY <2>2, <2>3, <2>4 DEF Expires
  <2>6. j - n \in 1 .. Len(active) - n /\ n + (j - n) = j
    BY <2>5, <1>2
  <2>7. held[j - n] = active[j]
    BY <2>6, <1>3
  <2> QED BY <2>1, <2>6, <2>7, <1>3
<1> QED BY <1>5, <1>6, <1>7, <1>8 DEF held

-----------------------------------------------------------------------------
(***************************************************************************)
(* Giving the current interval a register that no entry of the list holds, *)
(* with or without a victim sent to the frame, keeps the invariant.        *)
(***************************************************************************)
LEMMA PlaceInRegister ==
    ASSUME IInv, cursor \in VRegs,
           NEW list, NEW r \in Permitted(cursor), NEW victim \in {0} \cup VRegs,
           victim < cursor,
           spillSlots' = IF victim = 0 THEN spillSlots ELSE spillSlots + 1,
           assignments' = [v \in VRegs |-> IF v = cursor THEN Register(r)
                                          ELSE IF v = victim THEN Spill(spillSlots + 1)
                                          ELSE assignments[v]],
           WellHeld(list, assignments', cursor),
           \A i \in 1 .. Len(list) : list[i].register # r,
           \A v \in VRegs, q \in Registers :
              (v # cursor /\ assignments'[v] = Register(q)) =>
                 \/ \E i \in 1 .. Len(list) : list[i].vreg = v /\ list[i].register = q
                 \/ \A w \in VRegs : w >= cursor => intervals[v].end < intervals[w].start,
           available' \in [Registers -> BOOLEAN],
           FreeIsFree(list, available'), ~available'[r],
           usedCalleeSaved' \subseteq CalleeSaved,
           usedCalleeSaved \subseteq usedCalleeSaved',
           r \in CalleeSaved => r \in usedCalleeSaved',
           InsertActive(list, r),
           cursor' = cursor + 1,
           UNCHANGED <<intervals, callSites>>
    PROVE  IInv'
<1>1. /\ IsWorkload(Input)
      /\ assignments \in [VRegs -> Homes]
      /\ spillSlots \in Nat
      /\ PlacedSoFar /\ NoSharedHome /\ SafeAcrossCalls
  BY DEF IInv, TypeOK, Input
<1>2. r \in Registers
  BY LinearScanAssumption DEF Permitted
<1>3. /\ Len(intervals) \in Nat /\ cursor \in Nat /\ cursor \in 1 .. Len(intervals)
      /\ \A v \in VRegs : /\ v \in Nat
                          /\ intervals[v].start \in Nat /\ intervals[v].end \in Nat
                          /\ intervals[v].start <= intervals[v].end
      /\ \A u, v \in VRegs : u < v => intervals[u].start <= intervals[v].start
  BY <1>1, InputFacts, SMTT(30) DEF VRegs
<1>4. /\ intervals' = intervals /\ callSites' = callSites /\ VRegs' = VRegs
      /\ Entries' = Entries
  BY DEF VRegs, Entries
<1>5. spillSlots' \in Nat /\ spillSlots <= spillSlots' /\ (victim # 0 => spillSlots' = spillSlots + 1)
  BY <1>1
<1>6. assignments'[cursor] = Register(r)
  OBVIOUS
<1>7. /\ WellHeld(active', assignments', cursor + 1)
      /\ \A i \in 1 .. Len(active') :
            \/ active'[i].vreg = cursor /\ active'[i].register = r
            \/ \E j \in 1 .. Len(list) : active'[i] = list[j]
      /\ \E i \in 1 .. Len(active') : active'[i].vreg = cursor /\ active'[i].register = r
      /\ \A j \in 1 .. Len(list) : \E i \in 1 .. Len(active') : active'[i] = list[j]
  BY <1>1, <1>2, <1>6, InsertKeepsWellHeld
<1>8. WellHeld(active, assignments, cursor)'
  BY <1>4, <1>7 DEF WellHeld
<1>9. FreeIsFree(active, available)'
  <2> SUFFICES ASSUME NEW i \in 1 .. Len(active')
               PROVE  ~available'[active'[i].register]
    BY DEF FreeIsFree
  <2>1. CASE active'[i].vreg = cursor /\ active'[i].register = r
    BY <2>1
  <2>2. CASE \E j \in 1 .. Len(list) : active'[i] = list[j]
    BY <2>2 DEF FreeIsFree
  <2> QED BY <1>7, <2>1, <2>2
<1>10. HeldOrOver(active, assignments, cursor)'
  <2> SUFFICES ASSUME NEW v \in VRegs, NEW q \in Registers, assignments'[v] = Register(q)
               PROVE  \/ \E i \in 1 .. Len(active') : active'[i].vreg = v /\ active'[i].register = q
                      \/ \A w \in VRegs : w >= cursor + 1 => intervals[v].end < intervals[w].start
    BY <1>4 DEF HeldOrOver
  <2>1. CASE v = cursor
    BY <2>1, <1>6, <1>7, HomesDiffer
  <2>2. CASE v # cursor
    <3>1. CASE \E i \in 1 .. Len(list) : list[i].vreg = v /\ list[i].register = q
      BY <3>1, <1>7
    <3>2. CASE \A w \in VRegs : w >= cursor => intervals[v].end < intervals[w].start
      BY <3>2, <1>3
    <3> QED BY <2>2, <3>1, <3>2
  <2> QED BY <2>1, <2>2
<1>11. PlacedSoFar'
  <2> SUFFICES ASSUME NEW v \in VRegs
               PROVE  assignments'[v] = Unassigned <=> v >= cursor + 1
    BY <1>4 DEF PlacedSoFar
  <2>1. CASE v = cursor
    BY <2>1, <1>3, <1>6, HomesDiffer
  <2>2. CASE v # cursor /\ v = victim
    BY <2>2, <1>3, HomesDiffer
  <2>3. CASE v # cursor /\ v # victim
    <3>1. assignments'[v] = assignments[v]
      BY <2>3
    <3>2. assignments[v] = Unassigned <=> v >= cursor
      BY <1>1 DEF PlacedSoFar
    <3>3. v >= cursor <=> v >= cursor + 1
      BY <2>3, <1>3
    <3> QED BY <3>1, <3>2, <3>3
  <2> QED BY <2>1, <2>2, <2>3
<1>12. \A s : assignments[s] = Spill(spillSlots + 1) => s \notin VRegs
  <2> SUFFICES ASSUME NEW s \in VRegs, assignments[s] = Spill(spillSlots + 1)
               PROVE  FALSE
    OBVIOUS
  <2>1. assignments[s] \in Homes
    BY <1>1
  <2>2. PICK t \in 1 .. spillSlots : Spill(spillSlots + 1) = Spill(t)
    BY <2>1, HomesDiffer DEF Homes
  <2>3. spillSlots + 1 = t
    <3>1. \A x, y : Spill(x) = Spill(y) => x = y
      BY HomesDiffer
    <3> HIDE DEF Spill
    <3> QED BY <2>2, <3>1
  <2> QED BY <2>3, <1>1
<1>13. \A v \in VRegs : (v # cursor /\ assignments'[v] = Register(r)) => ~Overlap(v, cursor)
  <2> SUFFICES ASSUME NEW v \in VRegs, v # cursor, assignments'[v] = Register(r)
               PROVE  ~Overlap(v, cursor)
    OBVIOUS
  <2>1. \A w \in VRegs : w >= cursor => intervals[v].end < intervals[w].start
    BY <1>2
  <2>2. intervals[v].end < intervals[cursor].start
    BY <2>1, <1>3
  <2> QED BY <2>2, <1>3 DEF Overlap
<1>14. NoSharedHome'
  <2> SUFFICES ASSUME NEW u \in VRegs, NEW v \in VRegs, u # v,
                      assignments'[u] = assignments'[v], assignments'[u] # Unassigned
               PROVE  assignments'[u].at = "register" /\ ~Overlap(u, v)
    BY <1>4 DEF NoSharedHome, Overlap
  <2>1. CASE u = cursor
    <3>1. assignments'[u] = Register(r) /\ assignments'[v] = Register(r)
      BY <2>1, <1>6
    <3>2. ~Overlap(v, cursor)
      BY <2>1, <3>1, <1>13
    <3> QED BY <2>1, <3>1, <3>2, HomesDiffer DEF Overlap
  <2>2. CASE v = cursor
    <3>1. assignments'[u] = Register(r)
      BY <2>2, <1>6
    <3>2. ~Overlap(u, cursor)
      BY <2>2, <3>1, <1>13
    <3> QED BY <2>2, <3>1, <3>2, HomesDiffer
  <2>3. CASE u # cursor /\ v # cursor
    <3>1. CASE u = victim
      <4>1. assignments'[u] = Spill(spillSlots + 1) /\ assignments'[v] = assignments[v]
        BY <2>3, <3>1
      <4> QED BY <4>1, <1>12
    <3>2. CASE v = victim
      <4>1. assignments'[v] = Spill(spillSlots + 1) /\ assignments'[u] = assignments[u]
        BY <2>3, <3>2
      <4> QED BY <4>1, <1>12
    <3>3. CASE u # victim /\ v # victim
      <4>1. assignments'[u] = assignments[u] /\ assignments'[v] = assignments[v]
        BY <2>3, <3>3
      <4> QED BY <4>1, <1>1 DEF NoSharedHome
    <3> QED BY <3>1, <3>2, <3>3
  <2> QED BY <2>1, <2>2, <2>3
<1>15. SafeAcrossCalls'
  <2> SUFFICES ASSUME NEW v \in VRegs, NEW q \in Registers, assignments'[v] = Register(q)
               PROVE  /\ CrossesAnyCall(v) => q \in CalleeSaved
                      /\ q \in CalleeSaved => q \in usedCalleeSaved'
    BY <1>4 DEF SafeAcrossCalls, InRegister, CrossesAnyCall, CrossesCall
  <2>1. CASE v = cursor
    <3>1. q = r
      BY <2>1, <1>6, HomesDiffer
    <3> QED BY <2>1, <3>1 DEF Permitted
  <2>2. CASE v # cursor
    <3>1. v # victim
      BY <2>2, HomesDiffer
    <3>2. assignments[v] = Register(q)
      BY <2>2, <3>1
    <3> QED BY <3>2, <1>1 DEF SafeAcrossCalls, InRegister
  <2> QED BY <2>1, <2>2
<1>16. TypeOK'
  <2>1. IsWorkload([intervals |-> intervals, callSites |-> callSites])'
    BY <1>1, <1>4 DEF Input
  <2>2. cursor' \in 1 .. Len(intervals') + 1
    BY <1>3, <1>4
  <2>3. active' \in Seq(Entries')
    BY <1>4, <1>7 DEF WellHeld
  <2>4. assignments' \in [VRegs' -> Homes']
    <3> SUFFICES ASSUME NEW v \in VRegs PROVE assignments'[v] \in Homes'
      BY <1>4
    <3>1. CASE v = cursor
      BY <3>1, <1>2, <1>6 DEF Homes
    <3>2. CASE v # cursor /\ v = victim
      <4>1. spillSlots + 1 \in 1 .. spillSlots'
        <5>1. victim # 0
          BY <3>2, <1>3 DEF VRegs
        <5>2. spillSlots' = spillSlots + 1
          BY <5>1, <1>5
        <5> QED BY <5>2, <1>1
      <4>2. assignments'[v] = Spill(spillSlots + 1)
        BY <3>2
      <4>3. Spill(spillSlots + 1) \in {Spill(s) : s \in 1 .. spillSlots'}
        BY <4>1
      <4> HIDE DEF Spill
      <4> QED BY <4>2, <4>3 DEF Homes
    <3>3. CASE v # cursor /\ v # victim
      <4>1. assignments'[v] = assignments[v] /\ assignments[v] \in Homes
        BY <3>3, <1>1
      <4>2. 1 .. spillSlots \subseteq 1 .. spillSlots'
        BY <1>1, <1>5
      <4> QED BY <4>1, <4>2 DEF Homes
    <3> QED BY <3>1, <3>2, <3>3
  <2> QED BY <2>1, <2>2, <2>3, <2>4, <1>4, <1>5 DEF TypeOK
<1> QED BY <1>8, <1>9, <1>10, <1>11, <1>14, <1>15, <1>16 DEF IInv

-----------------------------------------------------------------------------
(***************************************************************************)
(* The three arms of the loop body, each from what ExpireFacts says.       *)
(***************************************************************************)
LEMMA TakeFreeRegisterKeeps ==
    ASSUME IInv, cursor \in VRegs, NEW held, NEW free,
           WellHeld(held, assignments, cursor),
           free \in [Registers -> BOOLEAN],
           FreeIsFree(held, free),
           HeldOrOver(held, assignments, cursor),
           TakeFreeRegister(held, free),
           cursor' = cursor + 1,
           UNCHANGED <<intervals, callSites>>
    PROVE  IInv'
<1>1. /\ IsWorkload(Input) /\ assignments \in [VRegs -> Homes]
      /\ usedCalleeSaved \subseteq CalleeSaved
  BY DEF IInv, TypeOK, Input
<1>2. PICK r \in Registers :
         /\ Picks(free, r)
         /\ available' = [free EXCEPT ![r] = FALSE]
         /\ usedCalleeSaved' = usedCalleeSaved \cup ({r} \cap CalleeSaved)
         /\ assignments' = [assignments EXCEPT ![cursor] = Register(r)]
         /\ InsertActive(held, r)
         /\ spillSlots' = spillSlots
  BY DEF TakeFreeRegister
<1>3. r \in Permitted(cursor) /\ free[r]
  BY <1>2 DEF Picks
<1>4. Len(intervals) \in Nat /\ cursor \in Nat /\ 0 < cursor /\ 0 \notin VRegs
  BY <1>1, InputFacts DEF VRegs
<1>5. assignments' = [v \in VRegs |-> IF v = cursor THEN Register(r)
                                     ELSE IF v = 0 THEN Spill(spillSlots + 1)
                                     ELSE assignments[v]]
  BY <1>1, <1>2, <1>4
<1>6. WellHeld(held, assignments', cursor)
  <2>1. ASSUME NEW i \in 1 .. Len(held)
        PROVE  assignments'[held[i].vreg] = assignments[held[i].vreg]
    <3>1. held[i].vreg \in VRegs /\ held[i].vreg < cursor
      BY EntryFacts
    <3>2. held[i].vreg # cursor
      BY <3>1, <1>4
    <3> QED BY <3>1, <3>2, <1>1, <1>2
  <2> QED BY <2>1 DEF WellHeld
<1>7. \A i \in 1 .. Len(held) : held[i].register # r
  BY <1>3 DEF FreeIsFree
<1>8. \A v \in VRegs, q \in Registers :
         (v # cursor /\ assignments'[v] = Register(q)) =>
            \/ \E i \in 1 .. Len(held) : held[i].vreg = v /\ held[i].register = q
            \/ \A w \in VRegs : w >= cursor => intervals[v].end < intervals[w].start
  BY <1>1, <1>2 DEF HeldOrOver
<1>9. available' \in [Registers -> BOOLEAN] /\ FreeIsFree(held, available') /\ ~available'[r]
  <2>1. available' \in [Registers -> BOOLEAN] /\ ~available'[r]
    BY <1>2
  <2>2. ASSUME NEW i \in 1 .. Len(held) PROVE ~available'[held[i].register]
    <3>1. held[i].register \in Registers
      BY EntryFacts
    <3>2. ~free[held[i].register]
      BY DEF FreeIsFree
    <3> QED BY <3>1, <3>2, <1>2
  <2> QED BY <2>1, <2>2 DEF FreeIsFree
<1>10. /\ usedCalleeSaved' \subseteq CalleeSaved
       /\ usedCalleeSaved \subseteq usedCalleeSaved'
       /\ r \in CalleeSaved => r \in usedCalleeSaved'
  BY <1>1, <1>2
<1>11. spillSlots' = IF 0 = 0 THEN spillSlots ELSE spillSlots + 1
  BY <1>2
<1>12. 0 \in {0} \cup VRegs
  OBVIOUS
<1>13. InsertActive(held, r)
  BY <1>2
<1> QED BY <1>3, <1>4, <1>5, <1>6, <1>7, <1>8, <1>9, <1>10, <1>11, <1>12, <1>13, PlaceInRegister

LEMMA EvictLongerLivedKeeps ==
    ASSUME IInv, cursor \in VRegs, NEW held, NEW free,
           WellHeld(held, assignments, cursor),
           free \in [Registers -> BOOLEAN],
           FreeIsFree(held, free),
           HeldOrOver(held, assignments, cursor),
           EvictLongerLived(held, free),
           cursor' = cursor + 1,
           UNCHANGED <<intervals, callSites>>
    PROVE  IInv'
<1>1. /\ IsWorkload(Input) /\ assignments \in [VRegs -> Homes]
      /\ usedCalleeSaved \subseteq CalleeSaved /\ SafeAcrossCalls
  BY DEF IInv, TypeOK, Input
<1>2. PICK k \in 1 .. Len(held) :
         /\ Evicts(held, k)
         /\ assignments' = [assignments EXCEPT
                ![held[k].vreg] = Spill(spillSlots + 1),
                ![cursor] = Register(held[k].register)]
         /\ InsertActive(RemoveAt(held, k), held[k].register)
  BY DEF EvictLongerLived
<1>3. /\ spillSlots' = spillSlots + 1
      /\ available' = free
      /\ usedCalleeSaved' = usedCalleeSaved
  BY DEF EvictLongerLived
<1> DEFINE r == held[k].register
           victim == held[k].vreg
           rest == RemoveAt(held, k)
<1>4. Len(intervals) \in Nat /\ cursor \in Nat /\ 0 \notin VRegs
  BY <1>1, InputFacts DEF VRegs
<1>5. /\ victim \in VRegs /\ victim < cursor /\ r \in Registers
      /\ assignments[victim] = Register(r)
  BY EntryFacts
<1>6. r \in Permitted(cursor)
  BY <1>2 DEF Evicts
<1>7. /\ WellHeld(rest, assignments, cursor)
      /\ \A i \in 1 .. Len(rest) : rest[i].register # r
      /\ \A i \in 1 .. Len(rest) : \E j \in 1 .. Len(held) : rest[i] = held[j]
      /\ \A j \in 1 .. Len(held) : j # k => \E i \in 1 .. Len(rest) : rest[i] = held[j]
  <2>1. rest = RemoveAt(held, k)
    OBVIOUS
  <2> HIDE DEF rest
  <2>2. WellHeld(rest, assignments, cursor) /\ Without(held, k, rest)
    BY <2>1, RemoveKeepsWellHeld
  <2> QED BY <2>2 DEF Without
<1>8. assignments' = [v \in VRegs |-> IF v = cursor THEN Register(r)
                                     ELSE IF v = victim THEN Spill(spillSlots + 1)
                                     ELSE assignments[v]]
  BY <1>1, <1>2, <1>4, <1>5
<1>9. ~free[r]
  BY DEF FreeIsFree
<1>10. r \in CalleeSaved => r \in usedCalleeSaved
  BY <1>1, <1>5 DEF SafeAcrossCalls, InRegister
<1>11. InsertActive(rest, r)
  BY <1>2
<1>12. \A j \in 1 .. Len(held) : held[j].vreg = victim => held[j].register = r
  <2> SUFFICES ASSUME NEW j \in 1 .. Len(held), held[j].vreg = victim
               PROVE  held[j].register = r
    OBVIOUS
  <2>1. assignments[victim] = Register(held[j].register)
    BY DEF WellHeld
  <2> HIDE DEF r, victim
  <2> QED BY <2>1, <1>5, HomesDiffer
<1> HIDE DEF rest, r, victim
<1>13. WellHeld(rest, assignments', cursor)
  <2>1. ASSUME NEW i \in 1 .. Len(rest)
        PROVE  assignments'[rest[i].vreg] = assignments[rest[i].vreg]
    <3>1. rest[i].vreg \in VRegs /\ rest[i].vreg < cursor
      BY <1>7, EntryFacts
    <3>2. rest[i].vreg # cursor
      BY <3>1, <1>4
    <3>3. rest[i].vreg # victim
      BY <1>7, <1>12
    <3> QED BY <3>1, <3>2, <3>3, <1>8
  <2> QED BY <2>1, <1>7 DEF WellHeld
<1>14. \A v \in VRegs, q \in Registers :
         (v # cursor /\ assignments'[v] = Register(q)) =>
            \/ \E i \in 1 .. Len(rest) : rest[i].vreg = v /\ rest[i].register = q
            \/ \A w \in VRegs : w >= cursor => intervals[v].end < intervals[w].start
  <2> SUFFICES ASSUME NEW v \in VRegs, NEW q \in Registers,
                      v # cursor, assignments'[v] = Register(q),
                      ~(\A w \in VRegs : w >= cursor => intervals[v].end < intervals[w].start)
               PROVE  \E i \in 1 .. Len(rest) : rest[i].vreg = v /\ rest[i].register = q
    OBVIOUS
  <2>1. v # victim
    BY <1>8, HomesDiffer
  <2>2. assignments[v] = Register(q)
    BY <2>1, <1>8
  <2>3. PICK j \in 1 .. Len(held) : held[j].vreg = v /\ held[j].register = q
    BY <2>2 DEF HeldOrOver
  <2>4. j # k
    BY <2>1, <2>3 DEF victim
  <2> QED BY <2>3, <2>4, <1>7
<1>15. FreeIsFree(rest, free)
  BY <1>7 DEF FreeIsFree
<1>16. victim \in {0} \cup VRegs /\ victim # 0
  BY <1>4, <1>5
<1>17. spillSlots' = IF victim = 0 THEN spillSlots ELSE spillSlots + 1
  BY <1>3, <1>16
<1>18. /\ available' \in [Registers -> BOOLEAN]
       /\ FreeIsFree(rest, available') /\ ~available'[r]
  BY <1>3, <1>9, <1>15
<1>19. /\ usedCalleeSaved' \subseteq CalleeSaved
       /\ usedCalleeSaved \subseteq usedCalleeSaved'
       /\ r \in CalleeSaved => r \in usedCalleeSaved'
  BY <1>1, <1>3, <1>10
<1> QED BY <1>5, <1>6, <1>7, <1>8, <1>11, <1>13, <1>14, <1>16, <1>17, <1>18, <1>19, PlaceInRegister

LEMMA SpillCurrentKeeps ==
    ASSUME IInv, cursor \in VRegs, NEW held, NEW free,
           WellHeld(held, assignments, cursor),
           free \in [Registers -> BOOLEAN],
           FreeIsFree(held, free),
           HeldOrOver(held, assignments, cursor),
           SpillCurrent(held, free),
           cursor' = cursor + 1,
           UNCHANGED <<intervals, callSites>>
    PROVE  IInv'
<1>1. /\ IsWorkload(Input) /\ assignments \in [VRegs -> Homes] /\ spillSlots \in Nat
      /\ usedCalleeSaved \subseteq CalleeSaved
      /\ PlacedSoFar /\ NoSharedHome /\ SafeAcrossCalls
  BY DEF IInv, TypeOK, Input
<1>2. /\ assignments' = [assignments EXCEPT ![cursor] = Spill(spillSlots + 1)]
      /\ spillSlots' = spillSlots + 1
      /\ active' = held /\ available' = free
      /\ usedCalleeSaved' = usedCalleeSaved
  BY DEF SpillCurrent
<1>3. /\ Len(intervals) \in Nat /\ cursor \in Nat /\ cursor \in 1 .. Len(intervals)
      /\ \A v \in VRegs : v \in Nat
  BY <1>1, InputFacts DEF VRegs
<1>4. /\ intervals' = intervals /\ callSites' = callSites /\ VRegs' = VRegs
      /\ Entries' = Entries
  BY DEF VRegs, Entries
<1>5. /\ assignments'[cursor] = Spill(spillSlots + 1)
      /\ \A v \in VRegs : v # cursor => assignments'[v] = assignments[v]
  BY <1>1, <1>2
<1>6. \A v \in VRegs, q \in Registers :
         assignments'[v] = Register(q) => v # cursor /\ assignments[v] = Register(q)
  BY <1>5, HomesDiffer
<1>7. WellHeld(active, assignments, cursor)'
  <2>1. ASSUME NEW i \in 1 .. Len(held)
        PROVE  /\ held[i].vreg < cursor + 1
               /\ assignments'[held[i].vreg] = Register(held[i].register)
    <3>1. /\ held[i].vreg \in VRegs /\ held[i].vreg < cursor
          /\ assignments[held[i].vreg] = Register(held[i].register)
      BY EntryFacts
    <3>2. held[i].vreg # cursor /\ held[i].vreg < cursor + 1
      BY <3>1, <1>3
    <3> QED BY <3>1, <3>2, <1>5
  <2>2. WellHeld(held, assignments', cursor + 1)
    BY <2>1 DEF WellHeld
  <2> QED BY <2>2, <1>2, <1>4 DEF WellHeld
<1>8. FreeIsFree(active, available)'
  BY <1>2 DEF FreeIsFree
<1>9. HeldOrOver(active, assignments, cursor)'
  <2> SUFFICES ASSUME NEW v \in VRegs, NEW q \in Registers, assignments'[v] = Register(q)
               PROVE  \/ \E i \in 1 .. Len(held) : held[i].vreg = v /\ held[i].register = q
                      \/ \A w \in VRegs : w >= cursor + 1 => intervals[v].end < intervals[w].start
    BY <1>2, <1>4 DEF HeldOrOver
  <2>1. \/ \E i \in 1 .. Len(held) : held[i].vreg = v /\ held[i].register = q
        \/ \A w \in VRegs : w >= cursor => intervals[v].end < intervals[w].start
    BY <1>6 DEF HeldOrOver
  <2>2. \A w \in VRegs : w >= cursor + 1 => w >= cursor
    BY <1>3
  <2> QED BY <2>1, <2>2
<1>10. PlacedSoFar'
  <2> SUFFICES ASSUME NEW v \in VRegs
               PROVE  assignments'[v] = Unassigned <=> v >= cursor + 1
    BY <1>4 DEF PlacedSoFar
  <2>1. CASE v = cursor
    BY <2>1, <1>3, <1>5, HomesDiffer
  <2>2. CASE v # cursor
    <3>1. assignments'[v] = assignments[v]
      BY <2>2, <1>5
    <3>2. assignments[v] = Unassigned <=> v >= cursor
      BY <1>1 DEF PlacedSoFar
    <3>3. v >= cursor <=> v >= cursor + 1
      BY <2>2, <1>3
    <3> QED BY <3>1, <3>2, <3>3
  <2> QED BY <2>1, <2>2
<1>11. \A v \in VRegs : assignments[v] # Spill(spillSlots + 1)
  <2> SUFFICES ASSUME NEW v \in VRegs, assignments[v] = Spill(spillSlots + 1)
               PROVE  FALSE
    OBVIOUS
  <2>1. assignments[v] \in Homes
    BY <1>1
  <2>2. PICK t \in 1 .. spillSlots : Spill(spillSlots + 1) = Spill(t)
    BY <2>1, HomesDiffer DEF Homes
  <2>3. spillSlots + 1 = t
    <3>1. \A x, y : Spill(x) = Spill(y) => x = y
      BY HomesDiffer
    <3> HIDE DEF Spill
    <3> QED BY <2>2, <3>1
  <2> QED BY <2>3, <1>1
<1>12. NoSharedHome'
  <2> SUFFICES ASSUME NEW u \in VRegs, NEW v \in VRegs, u # v,
                      assignments'[u] = assignments'[v], assignments'[u] # Unassigned
               PROVE  assignments'[u].at = "register" /\ ~Overlap(u, v)
    BY <1>4 DEF NoSharedHome, Overlap
  <2>1. CASE u = cursor
    BY <2>1, <1>5, <1>11
  <2>2. CASE v = cursor
    BY <2>2, <1>5, <1>11
  <2>3. CASE u # cursor /\ v # cursor
    <3>1. assignments'[u] = assignments[u] /\ assignments'[v] = assignments[v]
      BY <2>3, <1>5
    <3> QED BY <3>1, <1>1 DEF NoSharedHome
  <2> QED BY <2>1, <2>2, <2>3
<1>13. SafeAcrossCalls'
  <2> SUFFICES ASSUME NEW v \in VRegs, NEW q \in Registers, assignments'[v] = Register(q)
               PROVE  /\ CrossesAnyCall(v) => q \in CalleeSaved
                      /\ q \in CalleeSaved => q \in usedCalleeSaved
    BY <1>2, <1>4 DEF SafeAcrossCalls, InRegister, CrossesAnyCall, CrossesCall
  <2> QED BY <1>1, <1>6 DEF SafeAcrossCalls, InRegister
<1>14. TypeOK'
  <2>1. IsWorkload([intervals |-> intervals, callSites |-> callSites])'
    BY <1>1, <1>4 DEF Input
  <2>2. cursor' \in 1 .. Len(intervals') + 1
    BY <1>3, <1>4
  <2>3. active' \in Seq(Entries')
    BY <1>2, <1>4 DEF WellHeld
  <2>4. assignments' \in [VRegs' -> Homes']
    <3>1. assignments' \in [VRegs -> Homes']
      <4> SUFFICES ASSUME NEW v \in VRegs PROVE assignments'[v] \in Homes'
        BY <1>1, <1>2
      <4>1. CASE v = cursor
        <5>1. spillSlots + 1 \in 1 .. spillSlots'
          BY <1>1, <1>2
        <5>2. Spill(spillSlots + 1) \in {Spill(s) : s \in 1 .. spillSlots'}
          BY <5>1
        <5> HIDE DEF Spill
        <5> QED BY <4>1, <5>2, <1>5 DEF Homes
      <4>2. CASE v # cursor
        <5>1. assignments'[v] = assignments[v] /\ assignments[v] \in Homes
          BY <4>2, <1>1, <1>5
        <5>2. 1 .. spillSlots \subseteq 1 .. spillSlots'
          BY <1>1, <1>2
        <5> QED BY <5>1, <5>2 DEF Homes
      <4> QED BY <4>1, <4>2
    <3> QED BY <3>1, <1>4
  <2> QED BY <2>1, <2>2, <2>3, <2>4, <1>1, <1>2, <1>4 DEF TypeOK
<1> QED BY <1>7, <1>8, <1>9, <1>10, <1>12, <1>13, <1>14 DEF IInv

-----------------------------------------------------------------------------
(***************************************************************************)
(* linear_scan's loop starts with nothing placed and every register free.  *)
(***************************************************************************)
NothingPlaced ==
    /\ IsWorkload(Input)
    /\ cursor = 1
    /\ active = <<>>
    /\ available = [r \in Registers |-> TRUE]
    /\ usedCalleeSaved = {}
    /\ assignments = [v \in VRegs |-> Unassigned]
    /\ spillSlots = 0

LEMMA StartEstablishes == NothingPlaced => IInv
<1> SUFFICES ASSUME NothingPlaced PROVE IInv
  OBVIOUS
<1>2. IsWorkload(Input)
  BY DEF NothingPlaced
<1>3. /\ Len(intervals) \in Nat
      /\ \A v \in VRegs : v >= 1
  BY <1>2, InputFacts DEF VRegs
<1>4. /\ cursor = 1 /\ active = <<>>
      /\ available = [r \in Registers |-> TRUE]
      /\ usedCalleeSaved = {} /\ spillSlots = 0
      /\ assignments = [v \in VRegs |-> Unassigned]
  BY DEF NothingPlaced
<1>5. TypeOK
  BY <1>2, <1>3, <1>4 DEF TypeOK, Input, Homes
<1>6. WellHeld(active, assignments, cursor) /\ FreeIsFree(active, available)
  BY <1>4 DEF WellHeld, FreeIsFree
<1>7. \A v \in VRegs, q \in Registers : assignments[v] # Register(q)
  BY <1>4, HomesDiffer
<1>8. HeldOrOver(active, assignments, cursor) /\ SafeAcrossCalls
  BY <1>7 DEF HeldOrOver, SafeAcrossCalls, InRegister
<1>9. PlacedSoFar /\ NoSharedHome
  BY <1>3, <1>4 DEF PlacedSoFar, NoSharedHome
<1> QED BY <1>5, <1>6, <1>8, <1>9 DEF IInv

LEMMA InitEstablishes == Init => IInv
<1> SUFFICES ASSUME Init PROVE IInv
  OBVIOUS
<1>1. PICK w \in Workloads : intervals = w.intervals /\ callSites = w.callSites
  BY DEF Init
<1>2. IsWorkload(Input)
  BY <1>1, LinearScanAssumption DEF IsWorkload, IsInterval, Input
<1> QED BY <1>2, StartEstablishes DEF Init, NothingPlaced

LEMMA StepKeeps == IInv /\ [Next]_vars => IInv'
<1> SUFFICES ASSUME IInv, [Next]_vars PROVE IInv'
  OBVIOUS
<1>1. CASE UNCHANGED vars
  <2>1. /\ TypeOK /\ WellHeld(active, assignments, cursor) /\ FreeIsFree(active, available)
        /\ HeldOrOver(active, assignments, cursor)
        /\ PlacedSoFar /\ NoSharedHome /\ SafeAcrossCalls
    BY DEF IInv
  <2>2. TypeOK' /\ WellHeld(active, assignments, cursor)'
    BY <1>1, <2>1 DEF vars, TypeOK, WellHeld, Entries, VRegs, Homes
  <2>3. FreeIsFree(active, available)' /\ HeldOrOver(active, assignments, cursor)'
    BY <1>1, <2>1 DEF vars, FreeIsFree, HeldOrOver, VRegs
  <2>4. PlacedSoFar' /\ NoSharedHome' /\ SafeAcrossCalls'
    BY <1>1, <2>1 DEF vars, PlacedSoFar, NoSharedHome, SafeAcrossCalls, InRegister, Overlap,
                      CrossesAnyCall, CrossesCall, VRegs
  <2> QED BY <2>2, <2>3, <2>4 DEF IInv
<1>2. CASE PlaceNext
  <2>1. /\ cursor \in VRegs
        /\ cursor' = cursor + 1
        /\ UNCHANGED <<intervals, callSites>>
    BY <1>2 DEF PlaceNext, IInv, TypeOK, VRegs
  <2>2. PICK n \in 0 .. Len(active) :
           /\ Expires(n)
           /\ \/ TakeFreeRegister(StillActive(n), FreeAfter(n))
              \/ EvictLongerLived(StillActive(n), FreeAfter(n))
              \/ SpillCurrent(StillActive(n), FreeAfter(n))
    BY <1>2 DEF PlaceNext
  <2>3. /\ WellHeld(StillActive(n), assignments, cursor)
        /\ FreeAfter(n) \in [Registers -> BOOLEAN]
        /\ FreeIsFree(StillActive(n), FreeAfter(n))
        /\ HeldOrOver(StillActive(n), assignments, cursor)
    BY <2>1, <2>2, ExpireFacts
  <2>4. CASE TakeFreeRegister(StillActive(n), FreeAfter(n))
    BY <2>1, <2>3, <2>4, TakeFreeRegisterKeeps
  <2>5. CASE EvictLongerLived(StillActive(n), FreeAfter(n))
    BY <2>1, <2>3, <2>5, EvictLongerLivedKeeps
  <2>6. CASE SpillCurrent(StillActive(n), FreeAfter(n))
    BY <2>1, <2>3, <2>6, SpillCurrentKeeps
  <2> QED BY <2>2, <2>4, <2>5, <2>6
<1> QED BY <1>1, <1>2 DEF Next, Finished

(***************************************************************************)
(* The invariant of linear_scan's loop holds in every reachable state, for *)
(* every register file and every set of functions to allocate.             *)
(***************************************************************************)
THEOREM AllocatorInvariant == Spec => []IInv
  BY InitEstablishes, StepKeeps, PTL DEF Spec

(***************************************************************************)
(* The allocator's tables always have their types: registers are indices   *)
(* into allocatable(), slots are counted from 1 up to spill_slots.         *)
(***************************************************************************)
THEOREM TypeCorrect == Spec => []TypeOK
<1>1. IInv => TypeOK
  BY DEF IInv
<1> QED BY <1>1, AllocatorInvariant, PTL

(***************************************************************************)
(* linear_scan never gives two overlapping intervals the same register, or *)
(* two intervals the same spill slot.                                      *)
(***************************************************************************)
THEOREM HomesAreNeverShared == Spec => []NoSharedHome
<1>1. IInv => NoSharedHome
  BY DEF IInv
<1> QED BY <1>1, AllocatorInvariant, PTL

(***************************************************************************)
(* linear_scan keeps every value that crosses a call out of the registers  *)
(* a callee destroys, and records every callee-saved register it uses.     *)
(***************************************************************************)
THEOREM CallsDestroyNothing == Spec => []SafeAcrossCalls
<1>1. IInv => SafeAcrossCalls
  BY DEF IInv
<1> QED BY <1>1, AllocatorInvariant, PTL

-----------------------------------------------------------------------------
(***************************************************************************)
(* A value that has a home has an interval before the current one, and no  *)
(* value is in the slot that is handed out next.                           *)
(***************************************************************************)
LEMMA NextSlotIsFresh ==
    ASSUME IInv
    PROVE  /\ \A u \in VRegs : assignments[u] # Spill(spillSlots + 1)
           /\ cursor \in VRegs => assignments[cursor] = Unassigned
           /\ assignments \in [VRegs -> Homes]
<1>1. spillSlots \in Nat /\ assignments \in [VRegs -> Homes] /\ PlacedSoFar
  BY DEF IInv, TypeOK
<1>2. ASSUME NEW u \in VRegs PROVE assignments[u] # Spill(spillSlots + 1)
  <2>1. assignments[u] \in Homes
    BY <1>1
  <2>2. Spill(spillSlots + 1) \notin Homes
    <3>1. \A t \in 1 .. spillSlots : t # spillSlots + 1
      BY <1>1
    <3> QED BY <3>1, HomesDiffer DEF Homes
  <2> QED BY <2>1, <2>2
<1>3. cursor \in VRegs => assignments[cursor] = Unassigned
  <2>1. cursor \in VRegs => cursor >= cursor
    BY DEF VRegs
  <2> QED BY <1>1, <2>1 DEF PlacedSoFar
<1> QED BY <1>1, <1>2, <1>3

(***************************************************************************)
(* One step of the loop moves no value that has a home, unless from its    *)
(* register to a slot that is new.                                         *)
(***************************************************************************)
LEMMA StepMovesOnlyToAFreshSlot ==
    ASSUME IInv, PlaceNext, NEW v \in VRegs,
           assignments[v] # Unassigned, assignments'[v] # assignments[v]
    PROVE  /\ assignments[v].at = "register"
           /\ assignments'[v] = Spill(spillSlots')
           /\ \A u \in VRegs : assignments[u] # Spill(spillSlots')
<1>1. cursor \in VRegs
  BY DEF PlaceNext, IInv, TypeOK, VRegs
<1>2. v # cursor /\ assignments \in [VRegs -> Homes]
  BY <1>1, NextSlotIsFresh
<1>3. PICK n \in 0 .. Len(active) :
         /\ Expires(n)
         /\ \/ TakeFreeRegister(StillActive(n), FreeAfter(n))
            \/ EvictLongerLived(StillActive(n), FreeAfter(n))
            \/ SpillCurrent(StillActive(n), FreeAfter(n))
  BY DEF PlaceNext
<1>4. ~TakeFreeRegister(StillActive(n), FreeAfter(n))
  BY <1>2 DEF TakeFreeRegister
<1>5. ~SpillCurrent(StillActive(n), FreeAfter(n))
  BY <1>2 DEF SpillCurrent
<1>6. CASE EvictLongerLived(StillActive(n), FreeAfter(n))
  <2>1. PICK k \in 1 .. Len(StillActive(n)) :
           assignments' = [assignments EXCEPT
                ![StillActive(n)[k].vreg] = Spill(spillSlots + 1),
                ![cursor] = Register(StillActive(n)[k].register)]
    BY <1>6 DEF EvictLongerLived
  <2>2. spillSlots' = spillSlots + 1
    BY <1>6 DEF EvictLongerLived
  <2>3. WellHeld(StillActive(n), assignments, cursor)
    BY <1>1, <1>3, ExpireFacts
  <2>4. assignments[StillActive(n)[k].vreg] = Register(StillActive(n)[k].register)
    BY <2>3, EntryFacts
  <2>5. v = StillActive(n)[k].vreg /\ assignments'[v] = Spill(spillSlots + 1)
    BY <1>2, <2>1
  <2> QED BY <2>2, <2>4, <2>5, NextSlotIsFresh, HomesDiffer
<1> QED BY <1>3, <1>4, <1>5, <1>6

(***************************************************************************)
(* linear_scan never changes the home of a value it has placed, except by  *)
(* evicting it from its register to a slot no value ever had.              *)
(***************************************************************************)
THEOREM MovesAreEvictions == Spec => MovesOnlyToFreshSlots
<1>1. IInv /\ [Next]_vars =>
         [\A v \in VRegs :
            (assignments[v] # Unassigned /\ assignments'[v] # assignments[v]) =>
               /\ assignments[v].at = "register"
               /\ assignments'[v] = Spill(spillSlots')
               /\ \A u \in VRegs : assignments[u] # Spill(spillSlots')]_vars
  BY StepMovesOnlyToAFreshSlot DEF Next, Finished, vars
<1> QED BY <1>1, AllocatorInvariant, PTL DEF Spec, MovesOnlyToFreshSlots

-----------------------------------------------------------------------------
(***************************************************************************)
(* A register that is not free is held by an entry of the list: with       *)
(* FreeIsFree, the two tables say the same.  That the longest-lived value  *)
(* is spilled rests on it.                                                 *)
(***************************************************************************)
BusyIsHeld(list, free) ==
    \A r \in Registers : ~free[r] => \E i \in 1 .. Len(list) : list[i].register = r

LEMMA InsertHolds ==
    ASSUME IsWorkload(Input), cursor \in VRegs,
           NEW list \in Seq(Entries), NEW r \in Registers, InsertActive(list, r)
    PROVE  /\ \E i \in 1 .. Len(active') : active'[i].register = r
           /\ \A j \in 1 .. Len(list) : \E i \in 1 .. Len(active') : active'[i] = list[j]
<1> DEFINE current == [register |-> r, end |-> intervals[cursor].end, vreg |-> cursor]
<1>1. current \in Entries
  BY InputFacts DEF Entries
<1>2. PICK p \in 1 .. Len(list) + 1 : active' = InsertAt(list, p, current)
  BY DEF InsertActive
<1> HIDE DEF current
<1>3. /\ Len(active') = Len(list) + 1
      /\ \A i \in 1 .. Len(list) + 1 :
            active'[i] = IF i < p THEN list[i] ELSE IF i = p THEN current ELSE list[i - 1]
  <2>1. PICK longer : longer = InsertAt(list, p, current)
    OBVIOUS
  <2>2. /\ Len(longer) = Len(list) + 1
        /\ \A i \in 1 .. Len(list) + 1 :
              longer[i] = IF i < p THEN list[i] ELSE IF i = p THEN current ELSE list[i - 1]
    BY <1>1, <2>1, InsertAtFacts
  <2> QED BY <1>2, <2>1, <2>2
<1>4. p \in 1 .. Len(active') /\ active'[p] = current
  BY <1>3
<1>5. ASSUME NEW j \in 1 .. Len(list)
      PROVE  \E i \in 1 .. Len(active') : active'[i] = list[j]
  <2>1. CASE j < p
    BY <1>3, <2>1
  <2>2. CASE ~(j < p)
    <3>1. j + 1 \in 1 .. Len(list) + 1 /\ ~(j + 1 < p) /\ j + 1 # p /\ (j + 1) - 1 = j
      BY <2>2
    <3> QED BY <1>3, <3>1
  <2> QED BY <2>1, <2>2
<1> QED BY <1>4, <1>5 DEF current

(***************************************************************************)
(* What expire_before leaves holds every register it does not free, and    *)
(* reaches the current interval.                                           *)
(***************************************************************************)
LEMMA ExpireKeepsBusy ==
    ASSUME active \in Seq(Entries), BusyIsHeld(active, available),
           available \in [Registers -> BOOLEAN],
           NEW n \in 0 .. Len(active), Expires(n)
    PROVE  /\ BusyIsHeld(StillActive(n), FreeAfter(n))
           /\ \A i \in 1 .. Len(StillActive(n)) :
                 StillActive(n)[i].end >= intervals[cursor].start
<1>1. n + 1 \in 1 .. Len(active) + 1 /\ Len(active) \in (n + 1) - 1 .. Len(active)
  OBVIOUS
<1>2. /\ Len(StillActive(n)) = Len(active) - n
      /\ \A i \in 1 .. Len(active) - n : StillActive(n)[i] = active[n + i]
  BY <1>1, SubSeqFacts DEF StillActive
<1>3. ASSUME NEW r \in Registers, ~FreeAfter(n)[r]
      PROVE  \E i \in 1 .. Len(StillActive(n)) : StillActive(n)[i].register = r
  <2>1. ~available[r] /\ \A i \in 1 .. n : active[i].register # r
    BY <1>3 DEF FreeAfter
  <2>2. PICK i \in 1 .. Len(active) : active[i].register = r
    BY <2>1 DEF BusyIsHeld
  <2>3. i - n \in 1 .. Len(active) - n /\ n + (i - n) = i
    BY <2>1, <2>2
  <2> QED BY <1>2, <2>2, <2>3
<1>4. ASSUME NEW i \in 1 .. Len(StillActive(n))
      PROVE  StillActive(n)[i].end >= intervals[cursor].start
  <2>1. n + i \in n + 1 .. Len(active) /\ StillActive(n)[i] = active[n + i]
    BY <1>2, SMTT(30)
  <2> QED BY <2>1 DEF Expires
<1> QED BY <1>3, <1>4 DEF BusyIsHeld

LEMMA StepKeepsBusy ==
    ASSUME IInv, BusyIsHeld(active, available), [Next]_vars
    PROVE  BusyIsHeld(active', available')
<1>1. CASE UNCHANGED vars
  BY <1>1 DEF vars, BusyIsHeld
<1>2. CASE PlaceNext
  <2>1. /\ IsWorkload(Input) /\ cursor \in VRegs
        /\ active \in Seq(Entries) /\ available \in [Registers -> BOOLEAN]
    BY <1>2 DEF PlaceNext, IInv, TypeOK, VRegs, Input
  <2>2. PICK n \in 0 .. Len(active) :
           /\ Expires(n)
           /\ \/ TakeFreeRegister(StillActive(n), FreeAfter(n))
              \/ EvictLongerLived(StillActive(n), FreeAfter(n))
              \/ SpillCurrent(StillActive(n), FreeAfter(n))
    BY <1>2 DEF PlaceNext
  <2>3. PICK held, free : held = StillActive(n) /\ free = FreeAfter(n)
    OBVIOUS
  <2>4. /\ WellHeld(held, assignments, cursor) /\ held \in Seq(Entries)
        /\ free \in [Registers -> BOOLEAN] /\ BusyIsHeld(held, free)
    BY <2>1, <2>2, <2>3, ExpireFacts, ExpireKeepsBusy DEF WellHeld
  <2>5. CASE TakeFreeRegister(held, free)
    <3>1. PICK r \in Registers : available' = [free EXCEPT ![r] = FALSE] /\ InsertActive(held, r)
      BY <2>5 DEF TakeFreeRegister
    <3>2. \A q \in Registers : ~available'[q] => q = r \/ ~free[q]
      BY <2>4, <3>1
    <3>3. /\ \E i \in 1 .. Len(active') : active'[i].register = r
          /\ \A j \in 1 .. Len(held) : \E i \in 1 .. Len(active') : active'[i] = held[j]
      BY <2>1, <2>4, <3>1, InsertHolds
    <3>4. ASSUME NEW q \in Registers, ~available'[q]
          PROVE  \E i \in 1 .. Len(active') : active'[i].register = q
      <4>1. CASE q = r
        BY <3>3, <4>1
      <4>2. CASE q # r
        <5>1. ~free[q]
          BY <3>2, <3>4, <4>2
        <5>2. PICK j \in 1 .. Len(held) : held[j].register = q
          BY <2>4, <5>1 DEF BusyIsHeld
        <5>3. PICK i \in 1 .. Len(active') : active'[i] = held[j]
          BY <3>3
        <5> QED BY <5>2, <5>3
      <4> QED BY <4>1, <4>2
    <3> QED BY <3>4 DEF BusyIsHeld
  <2>6. CASE EvictLongerLived(held, free)
    <3>1. PICK k \in 1 .. Len(held) :
             available' = free /\ InsertActive(RemoveAt(held, k), held[k].register)
      BY <2>6 DEF EvictLongerLived
    <3>2. PICK rest : rest = RemoveAt(held, k)
      OBVIOUS
    <3>3. rest \in Seq(Entries) /\ Without(held, k, rest)
      <4>1. WellHeld(rest, assignments, cursor) /\ Without(held, k, rest)
        BY <2>4, <3>2, RemoveKeepsWellHeld
      <4> QED BY <4>1 DEF WellHeld
    <3>4. held[k].register \in Registers
      BY <2>4, EntryFacts
    <3>5. /\ \E i \in 1 .. Len(active') : active'[i].register = held[k].register
          /\ \A j \in 1 .. Len(rest) : \E i \in 1 .. Len(active') : active'[i] = rest[j]
      BY <2>1, <3>1, <3>2, <3>3, <3>4, InsertHolds
    <3>6. ASSUME NEW j \in 1 .. Len(held)
          PROVE  \E i \in 1 .. Len(active') : active'[i].register = held[j].register
      <4>1. CASE j = k
        BY <3>5, <4>1
      <4>2. CASE j # k
        <5>1. PICK i \in 1 .. Len(rest) : rest[i] = held[j]
          BY <3>3, <4>2 DEF Without
        <5>2. PICK m \in 1 .. Len(active') : active'[m] = rest[i]
          BY <3>5
        <5> QED BY <5>1, <5>2
      <4> QED BY <4>1, <4>2
    <3>7. ASSUME NEW q \in Registers, ~available'[q]
          PROVE  \E i \in 1 .. Len(active') : active'[i].register = q
      <4>1. ~free[q]
        BY <3>1, <3>7
      <4>2. PICK j \in 1 .. Len(held) : held[j].register = q
        BY <2>4, <4>1 DEF BusyIsHeld
      <4> QED BY <3>6, <4>2
    <3> QED BY <3>7 DEF BusyIsHeld
  <2>7. CASE SpillCurrent(held, free)
    BY <2>4, <2>7 DEF SpillCurrent
  <2> QED BY <2>2, <2>3, <2>5, <2>6, <2>7
<1> QED BY <1>1, <1>2 DEF Next, Finished

(***************************************************************************)
(* What a list after expire_before says of a value on it: which register   *)
(* it is in, and that it overlaps the current interval's first position.   *)
(***************************************************************************)
LEMMA HolderFacts ==
    ASSUME IsWorkload(Input), cursor \in VRegs, NEW held,
           WellHeld(held, assignments, cursor),
           \A i \in 1 .. Len(held) : held[i].end >= intervals[cursor].start,
           NEW i \in 1 .. Len(held)
    PROVE  LET u == held[i].vreg
           IN  /\ u \in VRegs /\ u # cursor
               /\ assignments[u] = Register(held[i].register)
               /\ intervals[u].start <= intervals[cursor].start
               /\ intervals[cursor].start <= intervals[u].end
               /\ intervals[u].end = held[i].end /\ held[i].end \in Nat
<1>1. PICK u : u = held[i].vreg
  OBVIOUS
<1>2. u \in VRegs /\ u < cursor /\ assignments[u] = Register(held[i].register)
  BY <1>1, EntryFacts
<1>3. intervals[u].end = held[i].end
  BY <1>1 DEF WellHeld
<1>4. /\ intervals[u].end \in Nat /\ intervals[cursor].start \in Nat
      /\ intervals[u].start <= intervals[cursor].start
  BY <1>2, InputFacts
<1>5. u # cursor
  BY <1>2 DEF VRegs
<1> QED BY <1>1, <1>2, <1>3, <1>4, <1>5

(***************************************************************************)
(* The value a step spills, and a register the current interval may use:   *)
(* after the step another value is in it that ends no later.               *)
(***************************************************************************)
LEMMA StepSpillsTheLongestLived ==
    ASSUME IInv, BusyIsHeld(active, available), PlaceNext,
           NEW v \in VRegs, assignments[v].at # "spill", assignments'[v].at = "spill",
           NEW r \in Permitted(cursor)
    PROVE  \E u \in VRegs \ {v} :
              /\ assignments'[u] = Register(r)
              /\ intervals[u].start <= intervals[cursor].start
              /\ intervals[cursor].start <= intervals[u].end
              /\ intervals[u].end <= intervals[v].end
<1>1. /\ IsWorkload(Input) /\ cursor \in VRegs /\ assignments \in [VRegs -> Homes]
      /\ active \in Seq(Entries) /\ available \in [Registers -> BOOLEAN]
  BY DEF PlaceNext, IInv, TypeOK, VRegs, Input
<1>2. r \in Registers
  BY LinearScanAssumption DEF Permitted
<1>3. PICK n \in 0 .. Len(active) :
         /\ Expires(n)
         /\ \/ TakeFreeRegister(StillActive(n), FreeAfter(n))
            \/ EvictLongerLived(StillActive(n), FreeAfter(n))
            \/ SpillCurrent(StillActive(n), FreeAfter(n))
  BY DEF PlaceNext
<1>4. PICK held, free : held = StillActive(n) /\ free = FreeAfter(n)
  OBVIOUS
<1>5. /\ WellHeld(held, assignments, cursor) /\ BusyIsHeld(held, free)
      /\ \A i \in 1 .. Len(held) : held[i].end >= intervals[cursor].start
  BY <1>1, <1>3, <1>4, ExpireFacts, ExpireKeepsBusy
<1>6. \A i \in 1 .. Len(held) :
         /\ held[i].vreg \in VRegs /\ held[i].vreg # cursor
         /\ assignments[held[i].vreg] = Register(held[i].register)
         /\ intervals[held[i].vreg].start <= intervals[cursor].start
         /\ intervals[cursor].start <= intervals[held[i].vreg].end
         /\ intervals[held[i].vreg].end = held[i].end /\ held[i].end \in Nat
  BY <1>1, <1>5, HolderFacts
<1>7. /\ Len(held) \in Nat
      /\ \A i, j \in 1 .. Len(held) : i < j => held[i].end <= held[j].end
      /\ \A i, j \in 1 .. Len(held) : i # j => held[i].register # held[j].register
  BY <1>5 DEF WellHeld
<1>8. /\ intervals[cursor].start \in Nat /\ intervals[cursor].end \in Nat
      /\ intervals[cursor].start <= intervals[cursor].end
  BY <1>1, InputFacts
<1>9. ~TakeFreeRegister(held, free)
  <2> SUFFICES ASSUME TakeFreeRegister(held, free) PROVE FALSE
    OBVIOUS
  <2>1. PICK q : assignments' = [assignments EXCEPT ![cursor] = Register(q)]
    BY DEF TakeFreeRegister
  <2>2. assignments'[v] = assignments[v] \/ assignments'[v] = Register(q)
    BY <1>1, <2>1
  <2> QED BY <2>2, HomesDiffer
<1>10. ASSUME NothingFree(free)
       PROVE  \E i \in 1 .. Len(held) : held[i].register = r
  BY <1>2, <1>5, <1>10 DEF NothingFree, BusyIsHeld
<1>11. CASE EvictLongerLived(held, free)
  <2>1. PICK k \in 1 .. Len(held) :
           /\ Evicts(held, k)
           /\ assignments' = [assignments EXCEPT
                  ![held[k].vreg] = Spill(spillSlots + 1),
                  ![cursor] = Register(held[k].register)]
    BY <1>11 DEF EvictLongerLived
  <2>2. /\ assignments'[cursor] = Register(held[k].register)
        /\ \A u \in VRegs : u # cursor /\ u # held[k].vreg => assignments'[u] = assignments[u]
    BY <1>1, <2>1
  <2>3. v = held[k].vreg
    BY <2>2, HomesDiffer
  <2>4. /\ held[k].end > intervals[cursor].end
        /\ \A j \in k + 1 .. Len(held) : held[j].register \notin Permitted(cursor)
    BY <2>1 DEF Evicts
  <2>5. PICK i \in 1 .. Len(held) : held[i].register = r
    BY <1>10, <1>11 DEF EvictLongerLived
  <2>6. CASE i = k
    <3>1. assignments'[cursor] = Register(r) /\ cursor \in VRegs \ {v}
      BY <1>1, <1>6, <2>2, <2>3, <2>5, <2>6
    <3>2. intervals[cursor].end <= intervals[v].end
      BY <1>6, <1>8, <2>3, <2>4
    <3> QED BY <1>8, <3>1, <3>2
  <2>7. CASE i # k
    <3>1. i < k
      <4>1. i \notin k + 1 .. Len(held)
        BY <2>4, <2>5
      <4> QED BY <1>7, <2>7, <4>1
    <3>2. held[i].vreg # held[k].vreg
      <4>1. held[i].register # held[k].register
        BY <1>7, <2>7
      <4> QED BY <1>6, <4>1, HomesDiffer
    <3>3. assignments'[held[i].vreg] = Register(r) /\ held[i].vreg \in VRegs \ {v}
      BY <1>6, <2>2, <2>3, <2>5, <3>2
    <3>4. intervals[held[i].vreg].end <= intervals[v].end
      BY <1>6, <1>7, <2>3, <3>1
    <3> QED BY <1>6, <3>3, <3>4
  <2> QED BY <2>6, <2>7
<1>12. CASE SpillCurrent(held, free)
  <2>1. /\ NothingFree(free) /\ NothingToEvict(held)
        /\ assignments' = [assignments EXCEPT ![cursor] = Spill(spillSlots + 1)]
    BY <1>12 DEF SpillCurrent
  <2>2. v = cursor /\ \A u \in VRegs : u # cursor => assignments'[u] = assignments[u]
    BY <1>1, <2>1
  <2>3. PICK i \in 1 .. Len(held) : held[i].register = r
    BY <1>10, <2>1
  <2>4. PICK candidates : candidates = {j \in 1 .. Len(held) : held[j].register \in Permitted(cursor)}
    OBVIOUS
  <2>5. PICK k \in candidates : \A j \in candidates : j <= k
    <3>1. candidates \in SUBSET (1 .. Len(held)) /\ candidates # {}
      BY <2>3, <2>4
    <3> QED BY <1>7, <3>1, LastOfPositions
  <2>6. /\ k \in 1 .. Len(held) /\ held[k].register \in Permitted(cursor)
        /\ \A j \in k + 1 .. Len(held) : held[j].register \notin Permitted(cursor)
    <3>1. k \in 1 .. Len(held) /\ held[k].register \in Permitted(cursor)
      BY <2>4, <2>5
    <3>2. ASSUME NEW j \in k + 1 .. Len(held), held[j].register \in Permitted(cursor)
          PROVE  FALSE
      <4>1. j \in 1 .. Len(held) /\ ~(j <= k)
        BY <1>7, <3>1
      <4> QED BY <2>4, <2>5, <3>2, <4>1
    <3> QED BY <3>1, <3>2
  <2>7. ~(held[k].end > intervals[cursor].end)
    BY <2>1, <2>6 DEF NothingToEvict, Evicts
  <2>8. i = k \/ i < k
    BY <2>3, <2>4, <2>5, <2>6
  <2>9. held[i].end <= intervals[cursor].end
    <3>1. held[k].end <= intervals[cursor].end
      BY <1>6, <1>8, <2>6, <2>7
    <3>2. held[i].end <= held[k].end
      BY <1>6, <1>7, <2>6, <2>8
    <3> QED BY <1>6, <1>8, <2>6, <3>1, <3>2
  <2> QED BY <1>6, <2>2, <2>3, <2>9
<1> QED BY <1>3, <1>4, <1>9, <1>11, <1>12

(***************************************************************************)
(* When linear_scan moves a value to the frame, every register the current *)
(* interval may use is left to a value that overlaps it and ends no later. *)
(***************************************************************************)
THEOREM TheLongestLivedIsSpilled == Spec => SpillsTheLongestLived
<1>1. Init => BusyIsHeld(active, available)
  BY DEF Init, BusyIsHeld
<1>2. IInv /\ BusyIsHeld(active, available) /\ [Next]_vars => BusyIsHeld(active, available)'
  BY StepKeepsBusy
<1>3. IInv /\ BusyIsHeld(active, available) /\ [Next]_vars =>
         [\A v \in VRegs :
            (assignments[v].at # "spill" /\ assignments'[v].at = "spill") =>
               \A r \in Permitted(cursor) :
                  \E u \in VRegs \ {v} :
                     /\ assignments'[u] = Register(r)
                     /\ intervals[u].start <= intervals[cursor].start
                     /\ intervals[cursor].start <= intervals[u].end
                     /\ intervals[u].end <= intervals[v].end]_vars
  BY StepSpillsTheLongestLived DEF Next, Finished
<1> QED BY <1>1, <1>2, <1>3, AllocatorInvariant, PTL DEF Spec, SpillsTheLongestLived
=============================================================================
