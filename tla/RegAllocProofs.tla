--------------------------- MODULE RegAllocProofs ---------------------------
(***************************************************************************)
(* From a control-flow graph to registers, for every graph and every       *)
(* register file: linearization lays out every block once, the rounds of   *)
(* compute_live_out end at the exact liveness, compute_live_intervals      *)
(* covers every point at which a value is live, and with what LinearScan's *)
(* theorems say of the allocator nothing that is still read is destroyed.  *)
(***************************************************************************)
EXTENDS RegAlloc, FrameStorage, FiniteLemmas

\* The allocator's own lemmas; its state is part of RegAlloc's.
Proved == INSTANCE LinearScanProofs WITH Workloads <- {}

Count == Len(cfg.bodies)

(***************************************************************************)
(* The depth-first order.  A label stands in it once, and once the stack   *)
(* is empty every label below `turn' does.                                 *)
(***************************************************************************)
Ordering ==
    /\ at \in Nat /\ turn \in 1 .. Count + 1
    /\ stack \in Seq(Labels)
    /\ visitOrder \in Seq(Labels) /\ IsInjective(visitOrder)
    /\ IF visitOrder = <<>> THEN stack = <<cfg.entry>> /\ at = 0
       ELSE visitOrder[1] = cfg.entry /\ at <= Len(cfg.successors[Last(visitOrder)])
    /\ (stack # <<>> \/ at > 0) => turn = 1
    /\ \A b \in 1 .. turn - 1 : Visited(b)
    /\ length = 0 /\ starts = <<>> /\ blocks = <<>> /\ emptyBlocks = <<>>

(***************************************************************************)
(* The layout so far: each block laid out is on one of the two lists, and  *)
(* the ranges handed out follow one another.                               *)
(***************************************************************************)
Laid == {visitOrder[k] : k \in 1 .. turn - 1}

Apart(list) ==
    \A j, k \in 1 .. Len(list) :
       j < k => starts[list[j]] + Len(Body(list[j])) <= starts[list[k]]

LayingOut ==
    /\ at = 0 /\ turn \in 1 .. Len(visitOrder) + 1
    /\ visitOrder \in Seq(Labels) /\ IsInjective(visitOrder)
    /\ visitOrder # <<>> /\ visitOrder[1] = cfg.entry
    /\ ToSet(visitOrder) = Labels
    /\ blocks \in Seq(Laid) /\ IsInjective(blocks)
    /\ emptyBlocks \in Seq(Laid) /\ IsInjective(emptyBlocks)
    /\ ToSet(blocks) = {b \in Laid : Body(b) # <<>>}
    /\ ToSet(emptyBlocks) = {b \in Laid : Body(b) = <<>>}
    /\ turn > 1 => blocks # <<>> /\ blocks[1] = cfg.entry
    /\ DOMAIN starts = Laid /\ length \in Nat
    /\ \A b \in Laid : starts[b] \in Nat /\ starts[b] + Len(Body(b)) <= length
    /\ Apart(blocks)

LaidOut ==
    /\ blocks \in Seq(Labels) /\ IsInjective(blocks)
    /\ ToSet(blocks) = Labels /\ Len(blocks) = Count
    /\ blocks[1] = cfg.entry
    /\ DOMAIN starts = Labels /\ \A b \in Labels : starts[b] \in Nat
    /\ \A j, k \in 1 .. Len(blocks) :
          (j < k /\ Body(blocks[k]) # <<>>) =>
             /\ Body(blocks[j]) # <<>>
             /\ starts[blocks[j]] + Len(Body(blocks[j])) <= starts[blocks[k]]

(***************************************************************************)
(* The dataflow equations.  What was found is live; and while a round has  *)
(* changed nothing, the equations hold at the blocks it has looked at.     *)
(***************************************************************************)
Solved(b) ==
    /\ b \in DOMAIN liveIn
    /\ liveOut[b] = SuccessorsIn(b)
    /\ liveIn[b] = Use(b) \cup (liveOut[b] \ Kill(b))

Solving ==
    /\ at = 0 /\ turn \in 0 .. Count /\ changed \in BOOLEAN
    /\ DOMAIN liveIn \subseteq Labels /\ DOMAIN liveOut = DOMAIN liveIn
    /\ \A b \in DOMAIN liveIn :
          /\ \A v \in liveOut[b] : v \in VirtualRegs /\ LiveAtEnd(v, b)
          /\ \A v \in liveIn[b] : v \in VirtualRegs /\ LiveAfter(v, b, 0)
    /\ ~changed => \A b \in turn + 1 .. Count : Solved(b)

LiveOutKnown ==
    /\ DOMAIN liveOut = Labels
    /\ \A b \in Labels : liveOut[b] = {v \in VirtualRegs : LiveAtEnd(v, b)}

(***************************************************************************)
(* The intervals.  An instruction the walk has passed is covered by the    *)
(* intervals of what it reads, of what it writes, and of what is live      *)
(* behind it; a register live at the point the walk has come to is covered *)
(* from the start of the block.  Every end lies behind what is to come, so *)
(* that a definition never moves a start past it.                          *)
(***************************************************************************)
Passed(b, i) ==
    \E k \in 1 .. Len(blocks) :
       blocks[k] = b /\ (k > turn \/ (k = turn /\ at > 0 /\ i > at))

Within(v, point) ==
    v \in DOMAIN spans /\ spans[v].start <= point /\ point <= spans[v].end

Covered(b, i) ==
    /\ Body(b)[i].writes # NoReg => Within(Body(b)[i].writes, PositionOf(b, i))
    /\ \A v \in Body(b)[i].reads : Within(v, PositionOf(b, i))
    /\ \A v \in VirtualRegs :
          (LiveAfter(v, b, i) /\ Body(b)[i].op # "param") => Within(v, PositionOf(b, i))

ReadBehind(v, b, i) ==
    \E j \in i + 1 .. Len(Body(b)) :
       v \in Body(b)[j].reads /\ \A k \in i + 1 .. j - 1 : Body(b)[k].writes # v

Awaited(v, b, i) ==
    ReadBehind(v, b, i) \/ (KeptAfter(v, b, i) /\ v \in liveOut[b])

SpanTypes ==
    /\ DOMAIN spans \subseteq VirtualRegs
    /\ \A v \in DOMAIN spans :
          spans[v] \in [start : Nat, end : Nat] /\ spans[v].start <= spans[v].end

OrderTypes ==
    /\ order \in Seq(DOMAIN spans) /\ IsInjective(order)
    /\ \A j, k \in 1 .. Len(order) :
          j < k => spans[order[j]].start <= spans[order[k]].start

Spanning ==
    /\ turn \in 0 .. Count /\ at \in Nat
    /\ at > 0 => turn > 0 /\ at <= Len(Body(blocks[turn]))
    /\ SpanTypes
    /\ OrderTypes
    /\ \A k \in 1 .. Len(order) : \A u \in Unsorted : spans[order[k]].start <= spans[u].start
    /\ order # <<>> => turn = 0
    /\ \A b \in Labels : \A i \in PointsOf(b) :
          IF Passed(b, i) THEN Covered(b, i)
          ELSE \A v \in DOMAIN spans : PositionOf(b, i) <= spans[v].end
    /\ at > 0 => \A v \in VirtualRegs :
          Awaited(v, blocks[turn], at) =>
             v \in DOMAIN spans /\ spans[v].start <= starts[blocks[turn]]

(***************************************************************************)
(* What linear_scan works on.                                              *)
(***************************************************************************)
Scanning ==
    /\ SpanTypes
    /\ OrderTypes
    /\ ToSet(order) = DOMAIN spans
    /\ intervals = [k \in DOMAIN order |-> spans[order[k]]]
    /\ callSites = {SiteOf(c) : c \in CallPoints}
    /\ \A b \in Labels : \A i \in PointsOf(b) : Covered(b, i)
    /\ Proved!IInv

RegAllocInvariant ==
    /\ IsGraph(cfg)
    /\ phase \in {"order", "layout", "dataflow", "intervals", "scan"}
    /\ phase \in {"order", "layout"} => changed = FALSE /\ liveIn = <<>> /\ liveOut = <<>>
    /\ phase \in {"order", "layout", "dataflow"} => spans = <<>> /\ order = <<>>
    /\ phase = "order" => Ordering
    /\ phase = "layout" => LayingOut
    /\ phase \in {"dataflow", "intervals", "scan"} => LaidOut
    /\ phase = "dataflow" => Solving
    /\ phase \in {"intervals", "scan"} => LiveOutKnown
    /\ phase = "intervals" => Spanning
    /\ phase = "scan" => Scanning

-----------------------------------------------------------------------------
(***************************************************************************)
(* A list without repetition, and a new element behind it.                 *)
(***************************************************************************)
LEMMA AppendNew ==
    ASSUME NEW S, NEW s \in Seq(S), NEW e \in S, IsInjective(s), e \notin ToSet(s)
    PROVE  /\ Append(s, e) \in Seq(S) /\ IsInjective(Append(s, e))
           /\ ToSet(Append(s, e)) = ToSet(s) \cup {e}
           /\ Len(Append(s, e)) = Len(s) + 1 /\ Append(s, e) # <<>>
           /\ \A k \in 1 .. Len(s) : Append(s, e)[k] = s[k]
           /\ Append(s, e)[Len(s) + 1] = e /\ Last(Append(s, e)) = e
           /\ Append(s, e)[1] = IF s = <<>> THEN e ELSE s[1]
<1>1. /\ Append(s, e) \in Seq(S)
      /\ Len(Append(s, e)) = Len(s) + 1
      /\ \A i \in 1 .. Len(s) + 1 : Append(s, e)[i] = IF i <= Len(s) THEN s[i] ELSE e
  BY AppendFacts
<1>2. /\ Len(s) \in Nat /\ DOMAIN s = 1 .. Len(s) /\ DOMAIN Append(s, e) = 1 .. Len(s) + 1
      /\ (\A k \in 1 .. Len(s) : Append(s, e)[k] = s[k]) /\ Append(s, e)[Len(s) + 1] = e
  BY <1>1
<1>3. \A j, k \in 1 .. Len(s) : s[j] = s[k] => j = k
  BY <1>2 DEF IsInjective
<1>4. \A k \in 1 .. Len(s) : s[k] # e
  BY <1>2 DEF ToSet
<1>5. ASSUME NEW j \in 1 .. Len(s) + 1, NEW k \in 1 .. Len(s) + 1, Append(s, e)[j] = Append(s, e)[k]
      PROVE  j = k
  BY <1>1, <1>2, <1>3, <1>4, <1>5
<1>6. IsInjective(Append(s, e))
  BY <1>2, <1>5 DEF IsInjective
<1>7. ToSet(Append(s, e)) = ToSet(s) \cup {e}
  BY <1>1, <1>2 DEF ToSet
<1>8. Last(Append(s, e)) = e /\ Append(s, e) # <<>>
  BY <1>1, <1>2 DEF Last
<1>9. Append(s, e)[1] = IF s = <<>> THEN e ELSE s[1]
  BY <1>1, <1>2
<1> QED BY <1>1, <1>2, <1>6, <1>7, <1>8, <1>9

-----------------------------------------------------------------------------
(***************************************************************************)
(* What a graph is made of.                                                *)
(***************************************************************************)
LEMMA GraphFacts ==
    ASSUME IsGraph(cfg)
    PROVE  /\ Count \in Nat /\ Labels = 1 .. Count
           /\ cfg.entry \in Labels /\ Body(cfg.entry) # <<>>
           /\ \A b \in Labels :
                 /\ cfg.successors[b] \in Seq(Labels) /\ ToSet(cfg.successors[b]) \subseteq Labels
                 /\ Len(Body(b)) \in Nat /\ PointsOf(b) = DOMAIN Body(b)
                 /\ Body(b) # <<>> => Len(Body(b)) > 0
                 /\ Body(b) = <<>> => Len(Body(b)) = 0
<1>1. cfg.bodies \in Seq(Seq(Instructions))
  BY DEF IsGraph
<1>2. Count \in Nat /\ Labels = 1 .. Count
  BY <1>1 DEF Count, Labels
<1>3. ASSUME NEW b \in Labels
      PROVE  /\ cfg.successors[b] \in Seq(Labels) /\ ToSet(cfg.successors[b]) \subseteq Labels
             /\ Len(Body(b)) \in Nat /\ PointsOf(b) = DOMAIN Body(b)
             /\ Body(b) # <<>> => Len(Body(b)) > 0
             /\ Body(b) = <<>> => Len(Body(b)) = 0
  <2>1. Body(b) \in Seq(Instructions)
    BY <1>1, <1>3 DEF Body, Labels
  <2>2. cfg.successors[b] \in Seq(Labels)
    BY <1>3 DEF IsGraph, Labels
  <2>3. ToSet(cfg.successors[b]) \subseteq Labels
    BY <2>2 DEF ToSet
  <2> QED BY <2>1, <2>2, <2>3 DEF PointsOf
<1> QED BY <1>2, <1>3 DEF IsGraph, Body, Labels

(***************************************************************************)
(* What an instruction is made of.                                         *)
(***************************************************************************)
LEMMA InstructionFacts ==
    ASSUME IsGraph(cfg), NEW b \in Labels, NEW i \in PointsOf(b)
    PROVE  /\ i \in Nat /\ 1 <= i /\ i <= Len(Body(b))
           /\ Body(b)[i].op \in {"other", "param", "call"}
           /\ Body(b)[i].reads \subseteq VirtualRegs
           /\ Body(b)[i].writes \in VirtualRegs \cup {NoReg}
           /\ Body(b)[i].op = "call" => Body(b)[i].reads = {}
           /\ Body(b)[i].op = "param" =>
                 /\ i + 1 \in PointsOf(b) /\ Body(b)[i + 1].op \in {"param", "call"}
                 /\ Body(b)[i].writes = NoReg
<1>1. Body(b) \in Seq(Instructions)
  BY DEF IsGraph, Body, Labels
<1>2. i \in DOMAIN Body(b) /\ Len(Body(b)) \in Nat /\ i \in 1 .. Len(Body(b))
  BY <1>1, GraphFacts DEF PointsOf
<1>3. Body(b)[i] \in Instructions
  BY <1>1, <1>2
<1>4. ParamsMeetTheirCall(Body(b))
  BY DEF IsGraph, Body, Labels
<1>5. /\ Body(b)[i].op \in {"other", "param", "call"}
      /\ Body(b)[i].reads \subseteq VirtualRegs
      /\ Body(b)[i].writes \in VirtualRegs \cup {NoReg}
  BY <1>3 DEF Instructions, Opcodes
<1>6. /\ Body(b)[i].op = "call" => Body(b)[i].reads = {}
      /\ Body(b)[i].op = "param" =>
            i < Len(Body(b)) /\ Body(b)[i + 1].op \in {"param", "call"} /\ Body(b)[i].writes = NoReg
  BY <1>2, <1>4 DEF ParamsMeetTheirCall
<1> QED BY <1>2, <1>5, <1>6 DEF PointsOf

-----------------------------------------------------------------------------
(***************************************************************************)
(* What the machine code reads behind a point that is not a Param is read  *)
(* by an instruction behind it: the Params of a call all stand behind the  *)
(* last instruction that is not one of them.                               *)
(***************************************************************************)
LEMMA ReadAfterIsReadBehind ==
    ASSUME IsGraph(cfg), NEW b \in Labels, NEW i \in 0 .. Len(Body(b)), NEW v,
           i > 0 => Body(b)[i].op # "param", ReadAfter(v, b, i)
    PROVE  ReadBehind(v, b, i)
<1>1. PICK j \in i + 1 .. Len(Body(b)) :
         v \in ReadsAt(b, j) /\ \A k \in i + 1 .. j - 1 : Body(b)[k].writes # v
  BY DEF ReadAfter
<1>2. Len(Body(b)) \in Nat /\ j \in PointsOf(b)
  BY <1>1, GraphFacts DEF PointsOf
<1>3. Body(b)[j].op \in {"other", "param", "call"}
  BY <1>2, InstructionFacts
<1>4. CASE Body(b)[j].op = "other"
  <2>1. v \in Body(b)[j].reads
    BY <1>1, <1>4 DEF ReadsAt
  <2> QED BY <2>1, <1>1 DEF ReadBehind
<1>5. CASE Body(b)[j].op = "param"
  BY <1>1, <1>5 DEF ReadsAt
<1>6. CASE Body(b)[j].op = "call"
  <2>1. v \in ArgumentsOf(b, j)
    BY <1>1, <1>6 DEF ReadsAt
  <2>2. PICK a \in 1 .. j - 1 :
           v \in Body(b)[a].reads /\ \A k \in a .. j - 1 : Body(b)[k].op = "param"
    BY <2>1 DEF ArgumentsOf
  <2>3. a > i
    BY <2>2, <1>1, <1>2
  <2>4. a \in i + 1 .. Len(Body(b)) /\ \A k \in i + 1 .. a - 1 : k \in i + 1 .. j - 1
    BY <2>2, <2>3, <1>1, <1>2
  <2> QED BY <2>2, <2>4, <1>1 DEF ReadBehind
<1> QED BY <1>3, <1>4, <1>5, <1>6

(***************************************************************************)
(* And the other way round, from the start of a block: behind the Param    *)
(* that reads it, the first instruction that is not a Param is the call.   *)
(***************************************************************************)
LEMMA ReadBehindIsReadAfter ==
    ASSUME IsGraph(cfg), NoReg \notin VirtualRegs,
           NEW b \in Labels, NEW v \in VirtualRegs, ReadBehind(v, b, 0)
    PROVE  ReadAfter(v, b, 0)
<1>1. PICK j \in 1 .. Len(Body(b)) :
         v \in Body(b)[j].reads /\ \A k \in 1 .. j - 1 : Body(b)[k].writes # v
  BY DEF ReadBehind
<1>2. Len(Body(b)) \in Nat /\ j \in PointsOf(b)
  BY <1>1, GraphFacts DEF PointsOf
<1>3. Body(b)[j].op \in {"other", "param", "call"} /\ Body(b)[j].op # "call"
  BY <1>1, <1>2, InstructionFacts
<1>4. CASE Body(b)[j].op = "other"
  <2>1. v \in ReadsAt(b, j)
    BY <1>1, <1>4 DEF ReadsAt
  <2> QED BY <2>1, <1>1 DEF ReadAfter
<1>5. CASE Body(b)[j].op = "param"
  <2> DEFINE Run == {m \in 1 .. Len(Body(b)) : j <= m /\ \A k \in j .. m : Body(b)[k].op = "param"}
  <2>1. Run \in SUBSET (1 .. Len(Body(b))) /\ j \in Run
    BY <1>1, <1>5
  <2>2. PICK m \in Run : \A k \in Run : k <= m
    <3> HIDE DEF Run
    <3> QED BY <2>1, <1>2, LastOfPositions
  <2>3. m \in PointsOf(b) /\ Body(b)[m].op = "param" /\ j <= m /\ m \in 1 .. Len(Body(b))
    BY <1>2, <2>2 DEF PointsOf
  <2>4. m + 1 \in PointsOf(b) /\ Body(b)[m + 1].op \in {"param", "call"}
    BY <2>3, InstructionFacts
  <2>5. Body(b)[m + 1].op = "call"
    <3>1. SUFFICES ASSUME Body(b)[m + 1].op = "param" PROVE FALSE
      BY <2>4
    <3>2. m + 1 \in 1 .. Len(Body(b)) /\ j <= m + 1
      BY <2>3, <2>4, <1>2 DEF PointsOf
    <3>3. \A k \in j .. m + 1 : Body(b)[k].op = "param"
      BY <2>2, <2>3, <3>1
    <3>4. m + 1 \in Run
      BY <3>2, <3>3
    <3> QED BY <2>2, <2>3, <3>4
  <2>6. \A k \in j .. m : Body(b)[k].op = "param" /\ k \in PointsOf(b)
    BY <2>2, <2>3, <1>1, <1>2 DEF PointsOf
  <2>7. v \in ReadsAt(b, m + 1)
    <3>1. j \in 1 .. m + 1 - 1 /\ \A k \in j .. m + 1 - 1 : Body(b)[k].op = "param"
      BY <2>3, <2>6, <1>1
    <3>2. v \in ArgumentsOf(b, m + 1)
      BY <3>1, <1>1 DEF ArgumentsOf
    <3> QED BY <2>5, <3>2 DEF ReadsAt
  <2>8. ASSUME NEW k \in 1 .. m PROVE Body(b)[k].writes # v
    <3>1. CASE k < j
      BY <3>1, <1>1
    <3>2. CASE k >= j
      <4>1. k \in j .. m
        BY <3>2, <2>3
      <4>2. Body(b)[k].writes = NoReg
        BY <4>1, <2>6, InstructionFacts
      <4> QED BY <4>2
    <3> QED BY <3>1, <3>2, <1>1
  <2>9. m + 1 \in 0 + 1 .. Len(Body(b)) /\ \A k \in 0 + 1 .. m + 1 - 1 : k \in 1 .. m
    BY <2>3, <2>4, <1>2 DEF PointsOf
  <2> QED BY <2>7, <2>8, <2>9 DEF ReadAfter
<1> QED BY <1>3, <1>4, <1>5
-----------------------------------------------------------------------------
(***************************************************************************)
(* What the dataflow equations are about: a use is a read at the start of  *)
(* the block, and what is not killed passes through it.                    *)
(***************************************************************************)
LEMMA UseFacts ==
    ASSUME IsGraph(cfg), NoReg \notin VirtualRegs, NEW b \in Labels, NEW v \in VirtualRegs
    PROVE  /\ v \in Use(b) <=> ReadAfter(v, b, 0)
           /\ v \in Kill(b) <=> ~KeptAfter(v, b, 0)
<1>1. Len(Body(b)) \in Nat /\ DOMAIN Body(b) = 1 .. Len(Body(b)) /\ 0 \in 0 .. Len(Body(b))
  BY GraphFacts DEF PointsOf
<1>2. v \in Kill(b) <=> ~KeptAfter(v, b, 0)
  BY <1>1 DEF Kill, KeptAfter
<1>3. v \in Use(b) <=> \E i \in 1 .. Len(Body(b)) :
         v \in Body(b)[i].reads /\ v \notin {Body(b)[j].writes : j \in 1 .. i - 1}
  BY <1>1 DEF Use
<1>4. v \in Use(b) <=> ReadBehind(v, b, 0)
  BY <1>1, <1>3 DEF ReadBehind
<1>5. ReadBehind(v, b, 0) => ReadAfter(v, b, 0)
  BY ReadBehindIsReadAfter
<1>6. ReadAfter(v, b, 0) => ReadBehind(v, b, 0)
  <2>1. ~(0 > 0)
    OBVIOUS
  <2> QED BY <1>1, <2>1, ReadAfterIsReadBehind
<1> QED BY <1>2, <1>4, <1>5, <1>6

(***************************************************************************)
(* ReachedWith is the least of the sets that hold the paths.               *)
(***************************************************************************)
LEMMA ReachedFacts ==
    ASSUME IsGraph(cfg), NEW b \in Labels, NEW v
    PROVE  /\ ReachedWith(v, b) \subseteq Labels
           /\ HoldsPaths(v, b, ReachedWith(v, b))
           /\ \A set \in SUBSET Labels : HoldsPaths(v, b, set) => ReachedWith(v, b) \subseteq set
<1>1. ToSet(cfg.successors[b]) \subseteq ReachedWith(v, b)
  <2>1. ToSet(cfg.successors[b]) \subseteq Labels
    BY GraphFacts
  <2> QED BY <2>1 DEF ReachedWith, HoldsPaths
<1>2. ASSUME NEW c \in ReachedWith(v, b), KeptAfter(v, c, 0)
      PROVE  ToSet(cfg.successors[c]) \subseteq ReachedWith(v, b)
  <2>1. c \in Labels /\ \A set \in SUBSET Labels : HoldsPaths(v, b, set) => c \in set
    BY <1>2 DEF ReachedWith
  <2>2. ToSet(cfg.successors[c]) \subseteq Labels
    BY <2>1, GraphFacts
  <2>3. \A set \in SUBSET Labels :
           HoldsPaths(v, b, set) => ToSet(cfg.successors[c]) \subseteq set
    BY <2>1, <1>2 DEF HoldsPaths
  <2> QED BY <2>2, <2>3 DEF ReachedWith
<1>3. HoldsPaths(v, b, ReachedWith(v, b))
  BY <1>1, <1>2 DEF HoldsPaths
<1> QED BY <1>3 DEF ReachedWith

(***************************************************************************)
(* What is live at the start of a successor is live at the end.            *)
(***************************************************************************)
LEMMA LiveFromASuccessor ==
    ASSUME IsGraph(cfg), NEW b \in Labels, NEW v, NEW s \in ToSet(cfg.successors[b]),
           LiveAfter(v, s, 0)
    PROVE  LiveAtEnd(v, b)
<1>1. s \in Labels /\ s \in ReachedWith(v, b)
  BY GraphFacts, ReachedFacts DEF HoldsPaths
<1>2. CASE ReadAfter(v, s, 0)
  BY <1>1, <1>2 DEF LiveAtEnd
<1>3. CASE KeptAfter(v, s, 0) /\ LiveAtEnd(v, s)
  <2>1. PICK c \in ReachedWith(v, s) : ReadAfter(v, c, 0)
    BY <1>3 DEF LiveAtEnd
  <2>2. HoldsPaths(v, s, ReachedWith(v, b))
    BY <1>1, <1>3, ReachedFacts DEF HoldsPaths
  <2>3. c \in ReachedWith(v, b)
    BY <1>1, <2>1, <2>2, ReachedFacts
  <2> QED BY <2>1, <2>3 DEF LiveAtEnd
<1> QED BY <1>2, <1>3 DEF LiveAfter

(***************************************************************************)
(* A solution of the equations that holds nothing dead is exact: were v    *)
(* live but not found, the blocks at whose start it was not found would    *)
(* hold every path to a read of it, and a read is found in its own block.  *)
(***************************************************************************)
LEMMA SolutionIsExact ==
    ASSUME IsGraph(cfg), NoReg \notin VirtualRegs, NEW b \in Labels, NEW v \in VirtualRegs,
           \A c \in Labels : Solved(c), LiveAtEnd(v, b)
    PROVE  v \in liveOut[b]
<1> DEFINE NotFound == {c \in Labels : v \notin liveIn[c]}
<1>1. SUFFICES ASSUME v \notin liveOut[b] PROVE FALSE
  OBVIOUS
<1>2. ASSUME NEW c \in Labels, v \notin liveOut[c]
      PROVE  ToSet(cfg.successors[c]) \subseteq NotFound
  <2>1. ToSet(cfg.successors[c]) \subseteq Labels
    BY GraphFacts
  <2>2. \A s \in ToSet(cfg.successors[c]) : s \in DOMAIN liveIn
    BY <2>1 DEF Solved
  <2>3. liveOut[c] = UNION {liveIn[s] : s \in ToSet(cfg.successors[c]) \cap DOMAIN liveIn}
    BY DEF Solved, SuccessorsIn
  <2>4. \A s \in ToSet(cfg.successors[c]) : v \notin liveIn[s]
    BY <1>2, <2>2, <2>3
  <2> QED BY <2>1, <2>4
<1>3. ASSUME NEW c \in NotFound, KeptAfter(v, c, 0)
      PROVE  ToSet(cfg.successors[c]) \subseteq NotFound
  <2>1. v \notin Kill(c) /\ v \notin liveIn[c]
    BY <1>3, UseFacts
  <2>2. v \notin liveOut[c]
    BY <2>1 DEF Solved
  <2> QED BY <2>2, <1>2
<1>4. HoldsPaths(v, b, NotFound)
  <2>1. ToSet(cfg.successors[b]) \subseteq NotFound
    BY <1>1, <1>2
  <2> HIDE DEF NotFound
  <2> QED BY <2>1, <1>3 DEF HoldsPaths
<1>5. ReachedWith(v, b) \subseteq NotFound
  BY <1>4, ReachedFacts
<1>6. PICK c \in ReachedWith(v, b) : ReadAfter(v, c, 0)
  BY DEF LiveAtEnd
<1>7. c \in Labels /\ v \notin liveIn[c]
  BY <1>5, <1>6
<1>8. v \in Use(c)
  BY <1>6, <1>7, UseFacts
<1> QED BY <1>7, <1>8 DEF Solved

-----------------------------------------------------------------------------
(***************************************************************************)
(* The start, and the depth-first order.                                   *)
(***************************************************************************)
LEMMA InitHolds ==
    ASSUME Init PROVE RegAllocInvariant
<1>1. IsGraph(cfg)
  BY RegAllocAssumption DEF Init
<1>2. Count \in Nat /\ Labels = 1 .. Count /\ cfg.entry \in Labels
  BY <1>1, GraphFacts
<1>3. Ordering
  <2>1. /\ at = 0 /\ turn = 1 /\ stack = <<cfg.entry>> /\ visitOrder = <<>>
        /\ length = 0 /\ starts = <<>> /\ blocks = <<>> /\ emptyBlocks = <<>>
    BY DEF Init
  <2>2. IsInjective(<<>>)
    BY DEF IsInjective
  <2> QED BY <1>2, <2>1, <2>2 DEF Ordering
<1> QED BY <1>1, <1>3 DEF Init, RegAllocInvariant

LEMMA VisitLabelKeeps ==
    ASSUME RegAllocInvariant, VisitLabel PROVE RegAllocInvariant'
<1>1. Ordering /\ at = 0 /\ stack # <<>> /\ turn = 1 /\ IsGraph(cfg)
  BY DEF RegAllocInvariant, VisitLabel, Ordering
<1>2. /\ stack \in Seq(Labels) /\ visitOrder \in Seq(Labels) /\ IsInjective(visitOrder)
      /\ visitOrder = <<>> => stack = <<cfg.entry>>
      /\ visitOrder # <<>> => visitOrder[1] = cfg.entry
      /\ length = 0 /\ starts = <<>> /\ blocks = <<>> /\ emptyBlocks = <<>>
  BY <1>1 DEF Ordering
<1>3. /\ cfg' = cfg /\ turn' = turn /\ phase' = phase /\ stack' = Front(stack)
      /\ length' = length /\ starts' = starts /\ blocks' = blocks /\ emptyBlocks' = emptyBlocks
  BY DEF VisitLabel, layoutVars
<1>4. Labels' = Labels /\ Count' = Count
  BY <1>3 DEF Labels, Count
<1>5. Front(stack) \in Seq(Labels) /\ Last(stack) \in Labels /\ Count \in Nat
  BY <1>1, <1>2, FrontFacts, GraphFacts
<1>6. Last(stack) = cfg.entry \/ visitOrder # <<>>
  BY <1>2, SMTT(30), Zenon DEF Last
<1>7. /\ at' \in Nat /\ visitOrder' \in Seq(Labels) /\ IsInjective(visitOrder')
      /\ visitOrder' # <<>> /\ visitOrder'[1] = cfg.entry
      /\ at' <= Len(cfg.successors[Last(visitOrder')])
  <2>1. CASE Visited(Last(stack))
    <3>1. visitOrder' = visitOrder /\ at' = 0
      BY <2>1, <1>1 DEF VisitLabel
    <3>2. visitOrder # <<>>
      BY <2>1 DEF Visited, ToSet
    <3>3. 0 <= Len(cfg.successors[Last(visitOrder)])
      BY <1>1, <3>2 DEF Ordering
    <3> QED BY <3>1, <3>2, <3>3, <1>2
  <2>2. CASE ~Visited(Last(stack))
    <3>1. visitOrder' = Append(visitOrder, Last(stack))
          /\ at' = Len(cfg.successors[Last(stack)])
      BY <2>2 DEF VisitLabel
    <3>2. cfg.successors[Last(stack)] \in Seq(Labels)
      BY <1>1, <1>5, GraphFacts
    <3>3. Last(stack) \notin ToSet(visitOrder)
      BY <2>2 DEF Visited
    <3>4. /\ visitOrder' \in Seq(Labels) /\ IsInjective(visitOrder') /\ visitOrder' # <<>>
          /\ Last(visitOrder') = Last(stack)
          /\ visitOrder'[1] = IF visitOrder = <<>> THEN Last(stack) ELSE visitOrder[1]
      BY <3>1, <3>3, <1>2, <1>5, AppendNew
    <3>5. visitOrder'[1] = cfg.entry
      BY <3>4, <1>2, <1>6
    <3>6. at' \in Nat /\ at' <= Len(cfg.successors[Last(visitOrder')])
      BY <3>1, <3>2, <3>4
    <3> QED BY <3>4, <3>5, <3>6
  <2> QED BY <2>1, <2>2
<1>8. Ordering'
  BY <1>1, <1>2, <1>3, <1>4, <1>5, <1>7 DEF Ordering
<1> QED BY <1>8, <1>3 DEF RegAllocInvariant, VisitLabel, livenessVars, spanVars

LEMMA PushSuccessorKeeps ==
    ASSUME RegAllocInvariant, PushSuccessor PROVE RegAllocInvariant'
<1>1. Ordering /\ at > 0 /\ turn = 1 /\ IsGraph(cfg)
  BY DEF RegAllocInvariant, PushSuccessor, Ordering
<1>2. /\ at \in Nat /\ stack \in Seq(Labels) /\ visitOrder \in Seq(Labels)
      /\ IsInjective(visitOrder)
      /\ visitOrder # <<>> /\ visitOrder[1] = cfg.entry
      /\ at <= Len(cfg.successors[Last(visitOrder)])
      /\ length = 0 /\ starts = <<>> /\ blocks = <<>> /\ emptyBlocks = <<>>
  BY <1>1 DEF Ordering
<1>3. /\ cfg' = cfg /\ turn' = turn /\ phase' = phase /\ visitOrder' = visitOrder /\ at' = at - 1
      /\ length' = length /\ starts' = starts /\ blocks' = blocks /\ emptyBlocks' = emptyBlocks
  BY DEF PushSuccessor, layoutVars
<1>4. Labels' = Labels /\ Count' = Count
  BY <1>3 DEF Labels, Count
<1>5. cfg.successors[Last(visitOrder)] \in Seq(Labels) /\ Count \in Nat
  BY <1>1, <1>2, FrontFacts, GraphFacts
<1>6. cfg.successors[Last(visitOrder)][at] \in Labels /\ at - 1 \in Nat
      /\ at - 1 <= Len(cfg.successors[Last(visitOrder)])
  BY <1>1, <1>2, <1>5
<1>7. stack' \in Seq(Labels)
  BY <1>2, <1>6, AppendFacts DEF PushSuccessor
<1>8. Ordering'
  BY <1>1, <1>2, <1>3, <1>4, <1>5, <1>6, <1>7 DEF Ordering
<1> QED BY <1>8, <1>3 DEF RegAllocInvariant, PushSuccessor, livenessVars, spanVars

LEMMA AppendUnreachedKeeps ==
    ASSUME RegAllocInvariant, AppendUnreached PROVE RegAllocInvariant'
<1>1. Ordering /\ at = 0 /\ stack = <<>> /\ turn \in Labels /\ IsGraph(cfg)
  BY DEF RegAllocInvariant, AppendUnreached
<1>2. /\ visitOrder \in Seq(Labels) /\ IsInjective(visitOrder)
      /\ visitOrder # <<>> /\ visitOrder[1] = cfg.entry
      /\ \A b \in 1 .. turn - 1 : b \in ToSet(visitOrder)
      /\ length = 0 /\ starts = <<>> /\ blocks = <<>> /\ emptyBlocks = <<>>
  BY <1>1 DEF Ordering, Visited
<1>3. /\ cfg' = cfg /\ turn' = turn + 1 /\ phase' = phase /\ stack' = stack /\ at' = at
      /\ length' = length /\ starts' = starts /\ blocks' = blocks /\ emptyBlocks' = emptyBlocks
  BY DEF AppendUnreached, layoutVars
<1>4. Labels' = Labels /\ Count' = Count
  BY <1>3 DEF Labels, Count
<1>5. Labels = 1 .. Count /\ Count \in Nat
  BY <1>1, GraphFacts
<1>6. /\ visitOrder' \in Seq(Labels) /\ IsInjective(visitOrder')
      /\ visitOrder' # <<>> /\ visitOrder'[1] = cfg.entry
      /\ ToSet(visitOrder) \subseteq ToSet(visitOrder') /\ turn \in ToSet(visitOrder')
  <2>1. CASE Visited(turn)
    BY <2>1, <1>2 DEF AppendUnreached, Visited
  <2>2. CASE ~Visited(turn)
    <3>1. visitOrder' = Append(visitOrder, turn) /\ turn \notin ToSet(visitOrder)
      BY <2>2 DEF AppendUnreached, Visited
    <3> QED BY <3>1, <1>1, <1>2, AppendNew
  <2> QED BY <2>1, <2>2
<1>7. \A b \in 1 .. turn' - 1 : b \in ToSet(visitOrder')
  BY <1>1, <1>2, <1>3, <1>5, <1>6
<1>8. Len(cfg.successors[Last(visitOrder')]) \in Nat
  <2>1. Last(visitOrder') \in Labels
    BY <1>6, FrontFacts
  <2>2. cfg.successors[Last(visitOrder')] \in Seq(Labels)
    BY <1>1, <2>1, GraphFacts
  <2> QED BY <2>2
<1>9. Ordering'
  BY <1>1, <1>2, <1>3, <1>4, <1>5, <1>6, <1>7, <1>8 DEF Ordering, Visited
<1> QED BY <1>9, <1>3 DEF RegAllocInvariant, AppendUnreached, livenessVars, spanVars

LEMMA FinishOrderKeeps ==
    ASSUME RegAllocInvariant, FinishOrder PROVE RegAllocInvariant'
<1>1. Ordering /\ at = 0 /\ stack = <<>> /\ turn \notin Labels /\ IsGraph(cfg)
  BY DEF RegAllocInvariant, FinishOrder
<1>2. /\ visitOrder \in Seq(Labels) /\ IsInjective(visitOrder)
      /\ visitOrder # <<>> /\ visitOrder[1] = cfg.entry
      /\ turn \in 1 .. Count + 1 /\ \A b \in 1 .. turn - 1 : b \in ToSet(visitOrder)
      /\ length = 0 /\ starts = <<>> /\ blocks = <<>> /\ emptyBlocks = <<>>
  BY <1>1 DEF Ordering, Visited
<1>3. /\ cfg' = cfg /\ turn' = 1 /\ phase' = "layout" /\ at' = 0 /\ visitOrder' = visitOrder
      /\ length' = 0 /\ starts' = <<>> /\ blocks' = <<>> /\ emptyBlocks' = <<>>
  BY <1>1, <1>2 DEF FinishOrder, layoutVars, orderVars
<1>4. Labels' = Labels /\ Labels = 1 .. Count /\ Count \in Nat
  BY <1>1, <1>3, GraphFacts DEF Labels
<1>5. turn = Count + 1
  BY <1>1, <1>2, <1>4
<1>6. ToSet(visitOrder) = Labels
  BY <1>2, <1>4, <1>5 DEF ToSet
<1>7. Laid' = {} /\ Len(visitOrder) \in Nat
  BY <1>2, <1>3 DEF Laid
<1>8. LayingOut'
  <2>1. IsInjective(<<>>) /\ \A S : <<>> \in Seq(S) /\ ToSet(<<>>) = {}
    BY DEF IsInjective, ToSet
  <2>2. Apart(blocks)'
    BY <1>3 DEF Apart
  <2>3. /\ blocks' \in Seq(Laid') /\ IsInjective(blocks') /\ ToSet(blocks') = {}
        /\ emptyBlocks' \in Seq(Laid') /\ IsInjective(emptyBlocks') /\ ToSet(emptyBlocks') = {}
    BY <1>3, <2>1
  <2> HIDE DEF Apart
  <2> QED BY <1>2, <1>3, <1>4, <1>6, <1>7, <2>2, <2>3 DEF LayingOut
<1> QED BY <1>8, <1>1, <1>3 DEF RegAllocInvariant, FinishOrder, livenessVars, spanVars

-----------------------------------------------------------------------------
(***************************************************************************)
(* A list that names each of 1 .. n once has n elements.                   *)
(***************************************************************************)
LEMMA EachOnce ==
    ASSUME NEW n \in Nat, NEW s \in Seq(1 .. n), IsInjective(s), ToSet(s) = 1 .. n
    PROVE  Len(s) = n
<1>1. Len(s) \in Nat /\ s \in [1 .. Len(s) -> 1 .. n] /\ DOMAIN s = 1 .. Len(s)
  OBVIOUS
<1>2. \A j, k \in 1 .. Len(s) : s[j] = s[k] => j = k
  BY <1>1 DEF IsInjective
<1>3. s \in Injection(1 .. Len(s), 1 .. n)
  BY <1>1, <1>2 DEF Injection, IsInjective
<1>4. s \in Surjection(1 .. Len(s), 1 .. n)
  BY <1>1 DEF Surjection, ToSet
<1>5. /\ IsFiniteSet(1 .. Len(s)) /\ Cardinality(1 .. Len(s)) = Len(s)
      /\ Cardinality(1 .. n) = n
  <2>1. 1 \in Int /\ Len(s) \in Int /\ n \in Int
    BY <1>1
  <2>2. IsFiniteSet(1 .. Len(s)) /\ Cardinality(1 .. Len(s)) = IF 1 > Len(s) THEN 0 ELSE Len(s) - 1 + 1
    BY <2>1, FS_Interval
  <2>3. Cardinality(1 .. n) = IF 1 > n THEN 0 ELSE n - 1 + 1
    BY <2>1, FS_Interval
  <2> QED BY <1>1, <2>2, <2>3
<1>6. Cardinality(1 .. n) = Cardinality(1 .. Len(s))
  BY <1>3, <1>4, <1>5, FS_Surjection
<1> QED BY <1>5, <1>6

(***************************************************************************)
(* The layout.  The entry is the first block laid out, for it is the first *)
(* of the order and has instructions.                                      *)
(***************************************************************************)
LEMMA LayOutBlockKeeps ==
    ASSUME RegAllocInvariant, LayOutBlock PROVE RegAllocInvariant'
<1>1. LayingOut /\ IsGraph(cfg) /\ turn \in DOMAIN visitOrder
  BY DEF RegAllocInvariant, LayOutBlock
<1>2. /\ at = 0 /\ turn \in 1 .. Len(visitOrder) + 1
      /\ visitOrder \in Seq(Labels) /\ IsInjective(visitOrder)
      /\ visitOrder # <<>> /\ visitOrder[1] = cfg.entry /\ ToSet(visitOrder) = Labels
      /\ blocks \in Seq(Laid) /\ IsInjective(blocks)
      /\ emptyBlocks \in Seq(Laid) /\ IsInjective(emptyBlocks)
      /\ ToSet(blocks) = {b \in Laid : Body(b) # <<>>}
      /\ ToSet(emptyBlocks) = {b \in Laid : Body(b) = <<>>}
      /\ turn > 1 => blocks # <<>> /\ blocks[1] = cfg.entry
      /\ DOMAIN starts = Laid /\ length \in Nat
      /\ \A b \in Laid : starts[b] \in Nat /\ starts[b] + Len(Body(b)) <= length
      /\ Apart(blocks)
  BY <1>1 DEF LayingOut
<1>3. PICK b : b = visitOrder[turn]
  OBVIOUS
<1>4. /\ cfg' = cfg /\ turn' = turn + 1 /\ phase' = phase /\ at' = at /\ visitOrder' = visitOrder
      /\ starts' = Put(starts, b, length) /\ length' = length + Len(Body(b))
      /\ Trails(b) => emptyBlocks' = Append(emptyBlocks, b) /\ blocks' = blocks
      /\ ~Trails(b) => blocks' = Append(blocks, b) /\ emptyBlocks' = emptyBlocks
  BY <1>3 DEF LayOutBlock, orderVars
<1>5. /\ Labels' = Labels /\ (\A c : Body(c)' = Body(c)) /\ b \in Labels /\ b \notin Laid
      /\ Laid' = Laid \cup {b} /\ turn \in 1 .. Len(visitOrder) /\ Len(visitOrder) \in Nat
  <2>1. /\ turn \in 1 .. Len(visitOrder) /\ Len(visitOrder) \in Nat /\ b \in Labels
        /\ \A k \in 1 .. Len(visitOrder) : visitOrder[k] = b => k = turn
    BY <1>1, <1>2, <1>3 DEF IsInjective
  <2>2. b \notin Laid
    BY <2>1 DEF Laid
  <2>3. Laid' = {visitOrder[k] : k \in 1 .. turn}
    BY <1>4, <2>1 DEF Laid
  <2>4. Laid' = Laid \cup {b}
    <3>1. \A k : k \in 1 .. turn <=> (k \in 1 .. turn - 1 \/ k = turn)
      BY <2>1
    <3> QED BY <1>3, <2>3, <3>1 DEF Laid
  <2> QED BY <1>4, <2>1, <2>2, <2>4 DEF Labels, Body
<1>6. Len(Body(b)) \in Nat /\ Laid \subseteq Labels
  <2>1. \A k \in 1 .. turn - 1 : visitOrder[k] \in Labels
    BY <1>2, <1>5
  <2>2. Laid \subseteq Labels
    BY <2>1 DEF Laid
  <2> QED BY <2>2, <1>1, <1>5, GraphFacts
<1>7. /\ DOMAIN starts' = Laid' /\ starts'[b] = length
      /\ \A c \in Laid : starts'[c] = starts[c]
  BY <1>2, <1>4, <1>5 DEF Put
<1>8. length' \in Nat /\ \A c \in Laid' : starts'[c] \in Nat /\ starts'[c] + Len(Body(c)) <= length'
  <2>1. \A c \in Laid : Len(Body(c)) \in Nat
    BY <1>1, <1>6, GraphFacts
  <2> QED BY <2>1, <1>2, <1>4, <1>5, <1>6, <1>7, SMTT(30)
<1>9. blocks \in Seq(Laid') /\ emptyBlocks \in Seq(Laid')
  BY <1>2, <1>5
<1>10. b \notin ToSet(blocks) /\ b \notin ToSet(emptyBlocks)
  BY <1>2, <1>5
<1>11. turn = 1 => b = cfg.entry /\ blocks = <<>> /\ ~Trails(b)
  <2>1. SUFFICES ASSUME turn = 1 PROVE b = cfg.entry /\ blocks = <<>> /\ ~Trails(b)
    OBVIOUS
  <2>2. b = cfg.entry /\ ~Trails(b)
    BY <2>1, <1>1, <1>2, <1>3, GraphFacts DEF Trails
  <2>3. ToSet(blocks) = {} /\ Laid = {}
    BY <2>1, <1>2 DEF Laid
  <2>4. blocks = <<>>
    BY <2>3, <1>2 DEF ToSet
  <2> QED BY <2>2, <2>4
<1>12. Apart(blocks)' /\ blocks' # <<>> /\ blocks'[1] = cfg.entry /\ IsInjective(blocks')
       /\ blocks' \in Seq(Laid') /\ ToSet(blocks') = {c \in Laid' : Body(c) # <<>>}
  <2>1. CASE Trails(b)
    <3>1. blocks' = blocks /\ turn > 1
      BY <2>1, <1>4, <1>5, <1>11
    <3>2. \A k \in 1 .. Len(blocks) : blocks[k] \in Laid
      BY <1>2
    <3>3. Apart(blocks)'
      BY <3>1, <3>2, <1>2, <1>5, <1>7, ZenonT(60) DEF Apart
    <3>4. ToSet(blocks') = {c \in Laid' : Body(c) # <<>>}
      BY <3>1, <2>1, <1>2, <1>5 DEF Trails
    <3> QED BY <3>1, <3>3, <3>4, <1>2, <1>9
  <2>2. CASE ~Trails(b)
    <3>1. blocks' = Append(blocks, b)
      BY <2>2, <1>4
    <3>2. /\ blocks' \in Seq(Laid') /\ IsInjective(blocks') /\ ToSet(blocks') = ToSet(blocks) \cup {b}
          /\ Len(blocks') = Len(blocks) + 1 /\ blocks' # <<>>
          /\ \A k \in 1 .. Len(blocks) : blocks'[k] = blocks[k]
          /\ blocks'[Len(blocks) + 1] = b
          /\ blocks'[1] = IF blocks = <<>> THEN b ELSE blocks[1]
      <4>1. PICK longer : longer = Append(blocks, b)
        OBVIOUS
      <4>2. blocks \in Seq(Laid') /\ b \in Laid' /\ IsInjective(blocks) /\ b \notin ToSet(blocks)
        BY <1>2, <1>5, <1>9, <1>10
      <4>3. /\ longer \in Seq(Laid') /\ IsInjective(longer) /\ ToSet(longer) = ToSet(blocks) \cup {b}
            /\ Len(longer) = Len(blocks) + 1 /\ longer # <<>>
            /\ \A k \in 1 .. Len(blocks) : longer[k] = blocks[k]
            /\ longer[Len(blocks) + 1] = b
            /\ longer[1] = IF blocks = <<>> THEN b ELSE blocks[1]
        BY <4>1, <4>2, AppendNew
      <4> QED BY <3>1, <4>1, <4>3
    <3>3. blocks'[1] = cfg.entry
      BY <3>2, <1>2, <1>5, <1>11
    <3>4. ASSUME NEW j \in 1 .. Len(blocks'), NEW k \in 1 .. Len(blocks'), j < k
          PROVE  starts'[blocks'[j]] + Len(Body(blocks'[j])) <= starts'[blocks'[k]]
      <4>1. Len(blocks) \in Nat /\ j \in 1 .. Len(blocks) /\ blocks[j] \in Laid /\ blocks'[j] = blocks[j]
        <5>1. blocks \in Seq(Laid)
          BY <1>2
        <5>2. Len(blocks) \in Nat /\ Len(blocks') = Len(blocks) + 1
          BY <5>1, <3>2
        <5>3. j \in 1 .. Len(blocks)
          BY <5>2, <3>4
        <5>4. blocks[j] \in Laid
          BY <5>1, <5>3
        <5> QED BY <5>2, <5>3, <5>4, <3>2
      <4>2. CASE k \in 1 .. Len(blocks)
        <5>1. blocks \in Seq(Laid)
          BY <1>2
        <5>2. blocks[k] \in Laid /\ blocks'[k] = blocks[k]
          BY <4>2, <3>2, <5>1
        <5> QED BY <4>1, <4>2, <5>2, <3>4, <1>2, <1>7 DEF Apart
      <4>3. CASE k = Len(blocks) + 1
        BY <4>1, <4>3, <3>2, <1>2, <1>7
      <4> QED BY <4>1, <4>2, <4>3, <3>2
    <3>5. Apart(blocks)'
      BY <3>4, <1>5 DEF Apart
    <3>6. ToSet(blocks') = {c \in Laid' : Body(c) # <<>>}
      BY <3>2, <2>2, <1>2, <1>5 DEF Trails
    <3> QED BY <3>2, <3>3, <3>5, <3>6
  <2> QED BY <2>1, <2>2
<1>13. /\ emptyBlocks' \in Seq(Laid') /\ IsInjective(emptyBlocks')
       /\ ToSet(emptyBlocks') = {c \in Laid' : Body(c) = <<>>}
  <2>1. CASE Trails(b)
    <3>1. emptyBlocks' = Append(emptyBlocks, b) /\ b \in Laid'
      BY <2>1, <1>4, <1>5
    <3>2. /\ emptyBlocks' \in Seq(Laid') /\ IsInjective(emptyBlocks')
          /\ ToSet(emptyBlocks') = ToSet(emptyBlocks) \cup {b}
      BY <3>1, <1>2, <1>9, <1>10, AppendNew
    <3> QED BY <3>2, <2>1, <1>2, <1>5 DEF Trails
  <2>2. CASE ~Trails(b)
    BY <2>2, <1>2, <1>4, <1>5, <1>9 DEF Trails
  <2> QED BY <2>1, <2>2
<1>14. LayingOut'
  <2>1. turn' \in 1 .. Len(visitOrder') + 1 /\ at' = 0
    BY <1>2, <1>4, <1>5
  <2> QED BY <2>1, <1>2, <1>4, <1>5, <1>7, <1>8, <1>12, <1>13 DEF LayingOut
<1> QED BY <1>14, <1>4 DEF RegAllocInvariant, LayOutBlock, livenessVars, spanVars

LEMMA FinishLayoutKeeps ==
    ASSUME RegAllocInvariant, FinishLayout PROVE RegAllocInvariant'
<1>1. LayingOut /\ IsGraph(cfg) /\ turn \notin DOMAIN visitOrder /\ phase = "layout"
  BY DEF RegAllocInvariant, FinishLayout
<1>2. /\ at = 0 /\ turn \in 1 .. Len(visitOrder) + 1
      /\ visitOrder \in Seq(Labels) /\ visitOrder # <<>> /\ ToSet(visitOrder) = Labels
      /\ blocks \in Seq(Laid) /\ IsInjective(blocks)
      /\ emptyBlocks \in Seq(Laid) /\ IsInjective(emptyBlocks)
      /\ ToSet(blocks) = {b \in Laid : Body(b) # <<>>}
      /\ ToSet(emptyBlocks) = {b \in Laid : Body(b) = <<>>}
      /\ turn > 1 => blocks # <<>> /\ blocks[1] = cfg.entry
      /\ DOMAIN starts = Laid /\ \A b \in Laid : starts[b] \in Nat
      /\ Apart(blocks)
  BY <1>1 DEF LayingOut
<1>3. /\ cfg' = cfg /\ turn' = Len(cfg.bodies) /\ phase' = "dataflow" /\ at' = at
      /\ starts' = starts /\ blocks' = blocks \o emptyBlocks
  BY DEF FinishLayout
<1>4. Labels' = Labels /\ Count' = Count /\ Labels = 1 .. Count /\ Count \in Nat
      /\ \A c : Body(c)' = Body(c)
  BY <1>1, <1>3, GraphFacts DEF Labels, Count, Body
<1>5. turn > 1 /\ Laid = Labels
  <2>1. turn = Len(visitOrder) + 1 /\ Len(visitOrder) \in Nat /\ Len(visitOrder) > 0
    BY <1>1, <1>2
  <2>2. Laid = ToSet(visitOrder)
    BY <2>1, <1>2, SMTT(30) DEF Laid, ToSet
  <2> QED BY <2>1, <2>2, <1>2
<1>6. /\ blocks' \in Seq(Labels) /\ Len(blocks') = Len(blocks) + Len(emptyBlocks)
      /\ Len(blocks) \in Nat /\ Len(blocks) > 0 /\ Len(emptyBlocks) \in Nat
      /\ \A i \in 1 .. Len(blocks) : blocks'[i] = blocks[i]
      /\ \A i \in 1 .. Len(emptyBlocks) : blocks'[Len(blocks) + i] = emptyBlocks[i]
  <2>1. /\ blocks \o emptyBlocks \in Seq(Laid)
        /\ Len(blocks \o emptyBlocks) = Len(blocks) + Len(emptyBlocks)
        /\ \A i \in 1 .. Len(blocks) + Len(emptyBlocks) :
              (blocks \o emptyBlocks)[i] =
                 IF i <= Len(blocks) THEN blocks[i] ELSE emptyBlocks[i - Len(blocks)]
    BY <1>2, ConcatFacts
  <2>2. Len(blocks) \in Nat /\ Len(blocks) > 0 /\ Len(emptyBlocks) \in Nat
    BY <1>2, <1>5
  <2>3. ASSUME NEW i \in 1 .. Len(emptyBlocks)
        PROVE  blocks'[Len(blocks) + i] = emptyBlocks[i]
    <3>1. /\ Len(blocks) + i \in 1 .. Len(blocks) + Len(emptyBlocks)
          /\ ~(Len(blocks) + i <= Len(blocks)) /\ Len(blocks) + i - Len(blocks) = i
      BY <2>2
    <3> QED BY <2>1, <3>1, <1>3
  <2>4. \A i \in 1 .. Len(blocks) : blocks'[i] = blocks[i]
    BY <2>1, <2>2, <1>3
  <2> QED BY <2>1, <2>2, <2>3, <2>4, <1>3, <1>5
<1>7. /\ \A i \in 1 .. Len(blocks) : blocks[i] \in Labels /\ Body(blocks[i]) # <<>>
      /\ \A i \in 1 .. Len(emptyBlocks) : Body(emptyBlocks[i]) = <<>>
  <2>1. /\ \A i \in 1 .. Len(blocks) : blocks[i] \in ToSet(blocks)
        /\ \A i \in 1 .. Len(emptyBlocks) : emptyBlocks[i] \in ToSet(emptyBlocks)
    BY <1>2, SMTT(30) DEF ToSet
  <2> QED BY <2>1, <1>2, <1>5
<1>8. ASSUME NEW k \in 1 .. Len(blocks')
      PROVE  \/ k \in 1 .. Len(blocks) /\ blocks'[k] = blocks[k]
             \/ \E i \in 1 .. Len(emptyBlocks) : k = Len(blocks) + i /\ blocks'[k] = emptyBlocks[i]
  <2>1. CASE k <= Len(blocks)
    <3>1. k \in 1 .. Len(blocks)
      BY <2>1, <1>6
    <3> QED BY <3>1, <1>6
  <2>2. CASE k > Len(blocks)
    <3>1. PICK i : i = k - Len(blocks)
      OBVIOUS
    <3>2. i \in 1 .. Len(emptyBlocks) /\ k = Len(blocks) + i
      BY <2>2, <3>1, <1>6
    <3> QED BY <3>2, <1>6
  <2> QED BY <2>1, <2>2, <1>6
<1>9. IsInjective(blocks')
  <2>1. /\ \A i, j \in 1 .. Len(blocks) : blocks[i] = blocks[j] => i = j
        /\ \A i, j \in 1 .. Len(emptyBlocks) : emptyBlocks[i] = emptyBlocks[j] => i = j
    <3>1. DOMAIN blocks = 1 .. Len(blocks) /\ DOMAIN emptyBlocks = 1 .. Len(emptyBlocks)
      BY <1>2
    <3>2. IsInjective(blocks) /\ IsInjective(emptyBlocks)
      BY <1>2
    <3> QED BY <3>1, <3>2 DEF IsInjective
  <2>2. ASSUME NEW j \in 1 .. Len(blocks'), NEW k \in 1 .. Len(blocks'), blocks'[j] = blocks'[k]
        PROVE  j = k
    <3>1. CASE j \in 1 .. Len(blocks) /\ blocks'[j] = blocks[j]
      <4>1. Body(blocks'[k]) # <<>>
        BY <3>1, <2>2, <1>7
      <4>2. k \in 1 .. Len(blocks) /\ blocks'[k] = blocks[k]
        BY <4>1, <1>7, <1>8
      <4> QED BY <3>1, <4>2, <2>1, <2>2
    <3>2. CASE \E i \in 1 .. Len(emptyBlocks) : j = Len(blocks) + i /\ blocks'[j] = emptyBlocks[i]
      <4>1. PICK i \in 1 .. Len(emptyBlocks) : j = Len(blocks) + i /\ blocks'[j] = emptyBlocks[i]
        BY <3>2
      <4>2. Body(blocks'[k]) = <<>>
        BY <4>1, <2>2, <1>7
      <4>3. PICK l \in 1 .. Len(emptyBlocks) : k = Len(blocks) + l /\ blocks'[k] = emptyBlocks[l]
        BY <4>2, <1>7, <1>8
      <4> QED BY <4>1, <4>3, <2>1, <2>2
    <3> QED BY <3>1, <3>2, <1>8
  <2>3. DOMAIN blocks' = 1 .. Len(blocks')
    BY <1>6
  <2> QED BY <2>2, <2>3 DEF IsInjective
<1>10. ToSet(blocks') = Labels
  <2>1. ASSUME NEW b \in Labels PROVE \E k \in 1 .. Len(blocks') : blocks'[k] = b
    <3>1. CASE Body(b) # <<>>
      <4>1. b \in ToSet(blocks)
        BY <3>1, <1>2, <1>5
      <4>2. PICK k \in 1 .. Len(blocks) : blocks[k] = b
        BY <4>1, <1>2 DEF ToSet
      <4>3. k \in 1 .. Len(blocks')
        BY <4>2, <1>6
      <4> QED BY <4>2, <4>3, <1>6
    <3>2. CASE Body(b) = <<>>
      <4>1. b \in ToSet(emptyBlocks)
        BY <3>2, <1>2, <1>5
      <4>2. PICK k \in 1 .. Len(emptyBlocks) : emptyBlocks[k] = b
        BY <4>1, <1>2 DEF ToSet
      <4>3. Len(blocks) + k \in 1 .. Len(blocks')
        BY <4>2, <1>6
      <4> QED BY <4>2, <4>3, <1>6
    <3> QED BY <3>1, <3>2
  <2>2. \A k \in 1 .. Len(blocks') : blocks'[k] \in Labels
    BY <1>6
  <2> QED BY <2>1, <2>2, <1>6 DEF ToSet
<1>11. Len(blocks') = Count
  BY <1>4, <1>6, <1>9, <1>10, EachOnce
<1>12. blocks'[1] = cfg.entry
  <2>1. 1 \in 1 .. Len(blocks)
    BY <1>6
  <2> QED BY <2>1, <1>2, <1>5, <1>6
<1>13. ASSUME NEW j \in 1 .. Len(blocks'), NEW k \in 1 .. Len(blocks'), j < k,
              Body(blocks'[k]) # <<>>
       PROVE  /\ Body(blocks'[j]) # <<>>
              /\ starts[blocks'[j]] + Len(Body(blocks'[j])) <= starts[blocks'[k]]
  <2>1. k \in 1 .. Len(blocks) /\ blocks'[k] = blocks[k]
    BY <1>7, <1>8, <1>13
  <2>2. j \in 1 .. Len(blocks)
    BY <2>1, <1>13, <1>6
  <2>3. blocks'[j] = blocks[j]
    BY <2>2, <1>6
  <2> QED BY <2>1, <2>2, <2>3, <1>2, <1>7, <1>13 DEF Apart
<1>14. LaidOut'
  BY <1>2, <1>3, <1>4, <1>5, <1>6, <1>9, <1>10, <1>11, <1>12, <1>13 DEF LaidOut
<1>15. Solving'
  <2>1. /\ changed' = FALSE /\ liveIn' = <<>> /\ liveOut' = <<>>
    BY <1>1 DEF RegAllocInvariant, FinishLayout, livenessVars
  <2>2. turn' = Count /\ at' = 0
    BY <1>2, <1>3 DEF Count
  <2>3. DOMAIN liveIn' = {} /\ DOMAIN liveOut' = {}
    BY <2>1
  <2>4. Count \in 0 .. Count /\ Count + 1 .. Count = {}
    BY <1>4
  <2> QED BY <2>1, <2>2, <2>3, <2>4, <1>4 DEF Solving
<1> QED BY <1>1, <1>3, <1>14, <1>15 DEF RegAllocInvariant, FinishLayout, spanVars

-----------------------------------------------------------------------------
(***************************************************************************)
(* Liveness is a matter of the graph, which no step changes.               *)
(***************************************************************************)
LEMMA SameGraph ==
    ASSUME cfg' = cfg
    PROVE  /\ Labels' = Labels /\ Count' = Count /\ IsGraph(cfg)' = IsGraph(cfg)
           /\ \A b : Body(b)' = Body(b) /\ PointsOf(b)' = PointsOf(b)
           /\ \A b : Use(b)' = Use(b) /\ Kill(b)' = Kill(b)
           /\ \A v, b, i : ReadBehind(v, b, i)' <=> ReadBehind(v, b, i)
           /\ \A v, b, i : KeptAfter(v, b, i)' <=> KeptAfter(v, b, i)
           /\ \A v, b : LiveAtEnd(v, b)' <=> LiveAtEnd(v, b)
           /\ \A v, b, i : LiveAfter(v, b, i)' <=> LiveAfter(v, b, i)
<1>1. Labels' = Labels /\ Count' = Count /\ \A b : Body(b)' = Body(b)
  BY DEF Labels, Count, Body
<1>2. \A b : PointsOf(b)' = PointsOf(b)
  BY <1>1 DEF PointsOf
<1>3. \A b : Use(b)' = Use(b) /\ Kill(b)' = Kill(b)
  BY <1>1 DEF Use, Kill
<1>4. /\ \A v, b, i : ReadBehind(v, b, i)' <=> ReadBehind(v, b, i)
      /\ \A v, b, i : KeptAfter(v, b, i)' <=> KeptAfter(v, b, i)
  BY <1>1 DEF ReadBehind, KeptAfter
<1>5. \A b, i : ArgumentsOf(b, i)' = ArgumentsOf(b, i)
  BY <1>1 DEF ArgumentsOf
<1>6. \A b, i : ReadsAt(b, i)' = ReadsAt(b, i)
  BY <1>1, <1>5 DEF ReadsAt
<1>7. \A v, b, i : ReadAfter(v, b, i)' <=> ReadAfter(v, b, i)
  BY <1>1, <1>6 DEF ReadAfter
<1>8. \A v, b, set : HoldsPaths(v, b, set)' <=> HoldsPaths(v, b, set)
  BY <1>4 DEF HoldsPaths
<1>9. \A v, b : ReachedWith(v, b)' = ReachedWith(v, b)
  BY <1>1, <1>8 DEF ReachedWith
<1>10. \A v, b : LiveAtEnd(v, b)' <=> LiveAtEnd(v, b)
  BY <1>7, <1>9 DEF LiveAtEnd
<1>11. \A v, b, i : LiveAfter(v, b, i)' <=> LiveAfter(v, b, i)
  BY <1>4, <1>7, <1>10 DEF LiveAfter
<1> QED BY <1>1, <1>2, <1>3, <1>4, <1>10, <1>11

-----------------------------------------------------------------------------
(***************************************************************************)
(* The rounds.  What a block passes on is live; and a turn that changes    *)
(* nothing leaves its own equations and all others as they are.            *)
(***************************************************************************)
LEMMA SolveBlockKeeps ==
    ASSUME RegAllocInvariant, SolveBlock PROVE RegAllocInvariant'
<1> DEFINE newOut == SuccessorsIn(turn)
           newIn  == Use(turn) \cup (newOut \ Kill(turn))
<1>1. Solving /\ LaidOut /\ IsGraph(cfg) /\ turn > 0
  BY DEF RegAllocInvariant, SolveBlock
<1>2. /\ at = 0 /\ turn \in 0 .. Count /\ changed \in BOOLEAN
      /\ DOMAIN liveIn \subseteq Labels /\ DOMAIN liveOut = DOMAIN liveIn
      /\ \A b \in DOMAIN liveIn :
            /\ \A v \in liveOut[b] : v \in VirtualRegs /\ LiveAtEnd(v, b)
            /\ \A v \in liveIn[b] : v \in VirtualRegs /\ LiveAfter(v, b, 0)
      /\ ~changed => \A b \in turn + 1 .. Count : Solved(b)
  BY <1>1 DEF Solving
<1>3. /\ cfg' = cfg /\ turn' = turn - 1 /\ phase' = phase /\ at' = at
      /\ starts' = starts /\ blocks' = blocks
      /\ liveOut' = Put(liveOut, turn, newOut) /\ liveIn' = Put(liveIn, turn, newIn)
      /\ changed' = (changed \/ ~Is(liveIn, turn, newIn) \/ ~Is(liveOut, turn, newOut))
  BY DEF SolveBlock, layoutVars
<1>4. /\ Labels = 1 .. Count /\ Count \in Nat /\ turn \in Labels /\ turn - 1 \in 0 .. Count
      /\ NoReg \notin VirtualRegs
  BY <1>1, <1>2, GraphFacts, RegAllocAssumption
<1>5. /\ DOMAIN liveIn' = DOMAIN liveIn \cup {turn} /\ liveIn'[turn] = newIn
      /\ DOMAIN liveOut' = DOMAIN liveIn \cup {turn} /\ liveOut'[turn] = newOut
      /\ \A b \in DOMAIN liveIn \ {turn} : liveIn'[b] = liveIn[b] /\ liveOut'[b] = liveOut[b]
  <2> HIDE DEF newIn, newOut
  <2> QED BY <1>2, <1>3 DEF Put
<1>6. \A v \in newOut : v \in VirtualRegs /\ LiveAtEnd(v, turn)
  <2>1. SUFFICES ASSUME NEW v \in newOut PROVE v \in VirtualRegs /\ LiveAtEnd(v, turn)
    OBVIOUS
  <2>2. PICK s \in ToSet(cfg.successors[turn]) \cap DOMAIN liveIn : v \in liveIn[s]
    BY <2>1 DEF SuccessorsIn
  <2>3. v \in VirtualRegs /\ LiveAfter(v, s, 0)
    BY <2>2, <1>2
  <2> QED BY <2>2, <2>3, <1>1, <1>4, LiveFromASuccessor
<1>7. \A v \in newIn : v \in VirtualRegs /\ LiveAfter(v, turn, 0)
  <2>1. SUFFICES ASSUME NEW v \in newIn PROVE v \in VirtualRegs /\ LiveAfter(v, turn, 0)
    OBVIOUS
  <2>2. CASE v \in Use(turn)
    <3>1. PICK i \in DOMAIN Body(turn) : v \in Body(turn)[i].reads
      BY <2>2 DEF Use
    <3>2. i \in PointsOf(turn)
      BY <3>1, <1>1, <1>4, GraphFacts
    <3>3. v \in VirtualRegs
      BY <3>1, <3>2, <1>1, <1>4, InstructionFacts
    <3> QED BY <2>2, <3>3, <1>1, <1>4, UseFacts DEF LiveAfter
  <2>3. CASE v \in newOut /\ v \notin Kill(turn)
    <3>1. v \in VirtualRegs /\ LiveAtEnd(v, turn)
      BY <2>3, <1>6
    <3> QED BY <2>3, <3>1, <1>1, <1>4, UseFacts DEF LiveAfter
  <2> QED BY <2>1, <2>2, <2>3
<1>8. changed' \in BOOLEAN /\ (~changed' => \A b \in turn .. Count : Solved(b)')
  <2>1. SUFFICES ASSUME ~changed', NEW b \in turn .. Count PROVE Solved(b)'
    BY <1>3
  <2>2. ~changed /\ Is(liveIn, turn, newIn) /\ Is(liveOut, turn, newOut)
    BY <2>1, <1>3
  <2>3. turn \in DOMAIN liveIn /\ liveIn[turn] = newIn /\ liveOut[turn] = newOut
    BY <2>2 DEF Is
  <2>4. DOMAIN liveIn' = DOMAIN liveIn
        /\ \A c \in DOMAIN liveIn : liveIn'[c] = liveIn[c] /\ liveOut'[c] = liveOut[c]
    <3> HIDE DEF newIn, newOut
    <3> QED BY <2>3, <1>5
  <2>5. Solved(b)
    <3>1. CASE b = turn
      BY <3>1, <2>3 DEF Solved
    <3>2. CASE b # turn
      <4>1. b \in turn + 1 .. Count
        BY <3>2, <2>1, <1>4
      <4> QED BY <4>1, <2>2, <1>2
    <3> QED BY <3>1, <3>2
  <2>6. SuccessorsIn(b)' = SuccessorsIn(b)
    BY <2>4, <1>3, ZenonT(40) DEF SuccessorsIn
  <2>7. Use(b)' = Use(b) /\ Kill(b)' = Kill(b)
    BY <1>3, SameGraph
  <2> HIDE DEF newIn, newOut
  <2> QED BY <2>4, <2>5, <2>6, <2>7 DEF Solved
<1>9. ASSUME NEW b \in DOMAIN liveIn'
      PROVE  /\ \A v \in liveOut'[b] : v \in VirtualRegs /\ LiveAtEnd(v, b)
             /\ \A v \in liveIn'[b] : v \in VirtualRegs /\ LiveAfter(v, b, 0)
  <2> HIDE DEF newIn, newOut
  <2>1. CASE b = turn
    BY <2>1, <1>5, <1>6, <1>7
  <2>2. CASE b # turn
    BY <2>2, <1>2, <1>5
  <2> QED BY <2>1, <2>2
<1>10. Solving'
  <2>1. ASSUME NEW b \in DOMAIN liveIn'
        PROVE  /\ \A v \in liveOut'[b] : v \in VirtualRegs /\ LiveAtEnd(v, b)'
               /\ \A v \in liveIn'[b] : v \in VirtualRegs /\ LiveAfter(v, b, 0)'
    BY <1>3, <1>9, SameGraph
  <2>2. turn' + 1 = turn /\ turn' \in 0 .. Count' /\ at' = 0 /\ Count' = Count /\ Labels' = Labels
    BY <1>2, <1>3, <1>4, SameGraph
  <2>3. DOMAIN liveIn' \subseteq Labels' /\ DOMAIN liveOut' = DOMAIN liveIn'
    <3> HIDE DEF newIn, newOut
    <3> QED BY <2>2, <1>2, <1>4, <1>5
  <2> HIDE DEF newIn, newOut
  <2> QED BY <2>1, <2>2, <2>3, <1>8 DEF Solving
<1>11. LaidOut'
  BY <1>1, <1>3, SameGraph DEF LaidOut
<1> HIDE DEF newIn, newOut
<1> QED BY <1>10, <1>11, <1>3 DEF RegAllocInvariant, SolveBlock, spanVars

LEMMA EndRoundKeeps ==
    ASSUME RegAllocInvariant, EndRound PROVE RegAllocInvariant'
<1>1. Solving /\ LaidOut /\ IsGraph(cfg) /\ turn = 0 /\ spans = <<>> /\ order = <<>>
  BY DEF RegAllocInvariant, EndRound
<1>2. /\ at = 0 /\ DOMAIN liveIn \subseteq Labels /\ DOMAIN liveOut = DOMAIN liveIn
      /\ \A b \in DOMAIN liveIn : \A v \in liveOut[b] : v \in VirtualRegs /\ LiveAtEnd(v, b)
      /\ ~changed => \A b \in 1 .. Count : Solved(b)
  BY <1>1 DEF Solving
<1>3. /\ cfg' = cfg /\ at' = at /\ starts' = starts /\ blocks' = blocks /\ changed' = FALSE
      /\ liveIn' = liveIn /\ liveOut' = liveOut /\ spans' = spans /\ order' = order
  BY DEF EndRound, layoutVars, spanVars
<1>4. /\ Labels = 1 .. Count /\ Count \in Nat /\ NoReg \notin VirtualRegs
      /\ Labels' = Labels /\ Count' = Count /\ IsGraph(cfg)'
  BY <1>1, <1>3, GraphFacts, SameGraph, RegAllocAssumption
<1>5. LaidOut'
  BY <1>1, <1>3, SameGraph DEF LaidOut
<1>6. CASE changed
  <2>1. turn' = Count /\ phase' = "dataflow"
    BY <1>6, <1>1 DEF EndRound, Count
  <2>2. Count + 1 .. Count = {} /\ Count \in 0 .. Count
    BY <1>4
  <2>3. \A b \in DOMAIN liveIn :
           /\ \A v \in liveOut[b] : v \in VirtualRegs /\ LiveAtEnd(v, b)'
           /\ \A v \in liveIn[b] : v \in VirtualRegs /\ LiveAfter(v, b, 0)'
    BY <1>1, <1>3, SameGraph DEF Solving
  <2>4. Solving'
    BY <1>2, <1>3, <1>4, <2>1, <2>2, <2>3 DEF Solving
  <2> QED BY <1>1, <1>3, <1>4, <1>5, <2>1, <2>4 DEF RegAllocInvariant
<1>7. CASE ~changed
  <2>1. turn' = Len(blocks) /\ phase' = "intervals"
    BY <1>7 DEF EndRound
  <2>2. Len(blocks) = Count
    BY <1>1 DEF LaidOut
  <2>3. \A b \in Labels : Solved(b)
    BY <1>2, <1>4, <1>7
  <2>4. DOMAIN liveOut = Labels
    BY <1>2, <2>3 DEF Solved
  <2>5. ASSUME NEW b \in Labels PROVE liveOut[b] = {v \in VirtualRegs : LiveAtEnd(v, b)}
    <3>1. \A v \in liveOut[b] : v \in VirtualRegs /\ LiveAtEnd(v, b)
      BY <1>2, <2>4
    <3>2. ASSUME NEW v \in VirtualRegs, LiveAtEnd(v, b) PROVE v \in liveOut[b]
      BY <1>1, <1>4, <2>3, <3>2, SolutionIsExact
    <3> QED BY <3>1, <3>2
  <2>6. LiveOutKnown'
    <3>1. \A v, b : LiveAtEnd(v, b)' <=> LiveAtEnd(v, b)
      BY <1>3, SameGraph
    <3> QED BY <1>3, <1>4, <2>4, <2>5, <3>1 DEF LiveOutKnown
  <2>7. Spanning'
    <3>1. DOMAIN spans' = {} /\ order' = <<>> /\ turn' = Count /\ at' = 0 /\ Len(blocks') = Count
      BY <1>1, <1>2, <1>3, <2>1, <2>2
    <3>2. \A b, i : ~Passed(b, i)'
      BY <3>1, <1>4 DEF Passed
    <3>3. SpanTypes' /\ OrderTypes'
      BY <3>1 DEF SpanTypes, OrderTypes, IsInjective
    <3> QED BY <3>1, <3>2, <3>3, <1>4 DEF Spanning
  <2> QED BY <1>3, <1>4, <1>5, <2>1, <2>6, <2>7 DEF RegAllocInvariant
<1> QED BY <1>6, <1>7

-----------------------------------------------------------------------------
(***************************************************************************)
(* Positions follow the order of the walk, and what the two operations do  *)
(* to a table of spans.                                                    *)
(***************************************************************************)
LEMMA PlaceOf ==
    ASSUME LaidOut, NEW b \in Labels
    PROVE  \E k \in 1 .. Len(blocks) : blocks[k] = b
  BY DEF LaidOut, ToSet

LEMMA PositionFacts ==
    ASSUME IsGraph(cfg), LaidOut, NEW b \in Labels, NEW i \in PointsOf(b)
    PROVE  /\ starts[b] \in Nat /\ PositionOf(b, i) \in Nat /\ starts[b] <= PositionOf(b, i)
           /\ \A j \in PointsOf(b) : i < j => PositionOf(b, i) < PositionOf(b, j)
           /\ \A k, l \in 1 .. Len(blocks) :
                 (blocks[k] = b /\ k < l /\ Body(blocks[l]) # <<>>) =>
                    PositionOf(b, i) < starts[blocks[l]]
<1>1. /\ starts[b] \in Nat /\ Len(Body(b)) \in Nat /\ i \in Nat /\ 1 <= i /\ i <= Len(Body(b))
      /\ \A j \in PointsOf(b) : j \in Nat
  BY GraphFacts DEF LaidOut, PointsOf
<1>2. ASSUME NEW k \in 1 .. Len(blocks), NEW l \in 1 .. Len(blocks),
             blocks[k] = b, k < l, Body(blocks[l]) # <<>>
      PROVE  PositionOf(b, i) < starts[blocks[l]]
  <2>1. starts[b] + Len(Body(b)) <= starts[blocks[l]]
    BY <1>2 DEF LaidOut
  <2>2. blocks[l] \in Labels /\ starts[blocks[l]] \in Nat
    BY DEF LaidOut
  <2> QED BY <1>1, <2>1, <2>2 DEF PositionOf
<1> QED BY <1>1, <1>2, SMTT(30), Zenon DEF PositionOf

IsSpans(table) ==
    \A v \in DOMAIN table :
       table[v] \in [start : Nat, end : Nat] /\ table[v].start <= table[v].end

EndsBehind(table, point) == \A v \in DOMAIN table : point <= table[v].end

Extended(table, new, vregs, from, to) ==
    /\ DOMAIN new = DOMAIN table \cup vregs /\ IsSpans(new)
    /\ \A v \in DOMAIN table : new[v].start <= table[v].start /\ table[v].end <= new[v].end
    /\ \A v \in vregs : new[v].start <= from /\ to <= new[v].end

Defined(table, new, vregs, point) ==
    /\ DOMAIN new = DOMAIN table \cup vregs /\ IsSpans(new)
    /\ \A v \in DOMAIN table : new[v].end = table[v].end
    /\ \A v \in DOMAIN table \ vregs : new[v].start = table[v].start
    /\ \A v \in vregs : new[v].start = point /\ point <= new[v].end

LEMMA ExtendFacts ==
    ASSUME NEW table, NEW vregs, NEW from \in Nat, NEW to \in Nat, from <= to, IsSpans(table)
    PROVE  Extended(table, Extend(table, vregs, from, to), vregs, from, to)
<1> DEFINE new == Extend(table, vregs, from, to)
<1>1. DOMAIN new = DOMAIN table \cup vregs
  BY DEF Extend
<1>2. ASSUME NEW v \in DOMAIN new
      PROVE  /\ new[v] \in [start : Nat, end : Nat] /\ new[v].start <= new[v].end
             /\ v \in DOMAIN table =>
                   new[v].start <= table[v].start /\ table[v].end <= new[v].end
             /\ v \in vregs => new[v].start <= from /\ to <= new[v].end
  <2>1. CASE v \notin vregs
    <3>1. v \in DOMAIN table /\ new[v] = table[v]
      BY <2>1, <1>1 DEF Extend
    <3>2. table[v] \in [start : Nat, end : Nat] /\ table[v].start <= table[v].end
      BY <3>1 DEF IsSpans
    <3> HIDE DEF new
    <3> QED BY <2>1, <3>1, <3>2
  <2>2. CASE v \in vregs /\ v \notin DOMAIN table
    <3>1. new[v] = [start |-> from, end |-> to]
      BY <2>2, <1>1 DEF Extend
    <3> HIDE DEF new
    <3> QED BY <2>2, <3>1
  <2>3. CASE v \in vregs /\ v \in DOMAIN table
    <3>1. new[v] = [start |-> Lower(table[v].start, from), end |-> Upper(table[v].end, to)]
      BY <2>3, <1>1 DEF Extend
    <3>2. PICK s \in Nat, e \in Nat : s = table[v].start /\ e = table[v].end /\ s <= e
      BY <2>3 DEF IsSpans
    <3>3. /\ Lower(s, from) \in Nat /\ Upper(e, to) \in Nat /\ Lower(s, from) <= Upper(e, to)
          /\ Lower(s, from) <= s /\ Lower(s, from) <= from
          /\ e <= Upper(e, to) /\ to <= Upper(e, to)
      BY <3>2 DEF Lower, Upper
    <3>4. new[v] = [start |-> Lower(s, from), end |-> Upper(e, to)]
      BY <3>1, <3>2
    <3> HIDE DEF new
    <3> QED BY <3>2, <3>3, <3>4
  <2> QED BY <2>1, <2>2, <2>3
<1>3. IsSpans(new)
  BY <1>2 DEF IsSpans
<1> HIDE DEF new
<1>4. Extended(table, new, vregs, from, to)
  BY <1>1, <1>2, <1>3 DEF Extended
<1> QED BY <1>4 DEF new

LEMMA DefineFacts ==
    ASSUME NEW table, NEW vregs, NEW point \in Nat, IsSpans(table), EndsBehind(table, point)
    PROVE  Defined(table, Define(table, vregs, point), vregs, point)
<1> DEFINE new == Define(table, vregs, point)
<1>1. DOMAIN new = DOMAIN table \cup vregs
  BY DEF Define
<1>2. ASSUME NEW v \in DOMAIN new
      PROVE  /\ new[v] \in [start : Nat, end : Nat] /\ new[v].start <= new[v].end
             /\ v \in DOMAIN table => new[v].end = table[v].end
             /\ v \notin vregs => new[v].start = table[v].start
             /\ v \in vregs => new[v].start = point /\ point <= new[v].end
  <2>1. CASE v \notin vregs
    <3>1. v \in DOMAIN table /\ new[v] = table[v]
      BY <2>1, <1>1 DEF Define
    <3>2. table[v] \in [start : Nat, end : Nat] /\ table[v].start <= table[v].end
      BY <3>1 DEF IsSpans
    <3> HIDE DEF new
    <3> QED BY <2>1, <3>1, <3>2
  <2>2. CASE v \in vregs /\ v \notin DOMAIN table
    <3>1. new[v] = [start |-> point, end |-> point]
      BY <2>2, <1>1 DEF Define
    <3> HIDE DEF new
    <3> QED BY <2>2, <3>1
  <2>3. CASE v \in vregs /\ v \in DOMAIN table
    <3>1. new[v] = [table[v] EXCEPT !.start = point]
      BY <2>3, <1>1 DEF Define
    <3>2. table[v] \in [start : Nat, end : Nat] /\ point <= table[v].end
      BY <2>3 DEF IsSpans, EndsBehind
    <3> HIDE DEF new
    <3> QED BY <2>3, <3>1, <3>2
  <2> QED BY <2>1, <2>2, <2>3
<1>3. IsSpans(new)
  BY <1>2 DEF IsSpans
<1> HIDE DEF new
<1>4. Defined(table, new, vregs, point)
  BY <1>1, <1>2, <1>3 DEF Defined
<1> QED BY <1>4 DEF new

-----------------------------------------------------------------------------
(***************************************************************************)
(* The walk enters a block: what is live out of it spans it.               *)
(***************************************************************************)
LEMMA SpanBlockKeeps ==
    ASSUME RegAllocInvariant, SpanBlock PROVE RegAllocInvariant'
<1>1. /\ IsGraph(cfg) /\ LaidOut /\ LiveOutKnown /\ Spanning
      /\ at = 0 /\ turn > 0 /\ phase = "intervals"
  BY DEF RegAllocInvariant, SpanBlock
<1>2. /\ turn \in 0 .. Count /\ SpanTypes /\ OrderTypes /\ order = <<>>
      /\ \A b \in Labels : \A i \in PointsOf(b) :
            IF Passed(b, i) THEN Covered(b, i)
            ELSE \A v \in DOMAIN spans : PositionOf(b, i) <= spans[v].end
  BY <1>1 DEF Spanning
<1>3. /\ cfg' = cfg /\ phase' = phase /\ starts' = starts /\ blocks' = blocks
      /\ liveOut' = liveOut /\ order' = order
  BY DEF SpanBlock, layoutVars, livenessVars
<1>4. /\ Labels = 1 .. Count /\ Count \in Nat /\ Labels' = Labels /\ Count' = Count /\ IsGraph(cfg)'
      /\ \A c : Body(c)' = Body(c) /\ PointsOf(c)' = PointsOf(c)
      /\ \A c, j : PositionOf(c, j)' = PositionOf(c, j)
  BY <1>1, <1>3, GraphFacts, SameGraph DEF PositionOf
<1>5. turn \in 1 .. Len(blocks) /\ Len(blocks) = Count /\ IsInjective(blocks) /\ DOMAIN blocks = 1 .. Len(blocks)
  BY <1>1, <1>2, <1>4 DEF LaidOut
<1>6. PICK b \in Labels : b = blocks[turn]
  BY <1>1, <1>5 DEF LaidOut
<1>7. \A k \in 1 .. Len(blocks) : blocks[k] = b => k = turn
  BY <1>5, <1>6 DEF IsInjective
<1>8. LaidOut' /\ LiveOutKnown'
  <2>1. \A v, c : LiveAtEnd(v, c)' <=> LiveAtEnd(v, c)
    BY <1>3, SameGraph
  <2> QED BY <1>1, <1>3, <1>4, <2>1 DEF LaidOut, LiveOutKnown
<1>9. Len(Body(b)) \in Nat /\ PointsOf(b) = 1 .. Len(Body(b)) /\ starts[b] \in Nat
  BY <1>1, <1>6, GraphFacts DEF PointsOf, LaidOut
<1>10. SUFFICES Spanning'
  BY <1>1, <1>3, <1>4, <1>8 DEF RegAllocInvariant, SpanBlock, livenessVars
<1>11. CASE Body(b) = <<>>
  <2>1. turn' = turn - 1 /\ at' = 0 /\ spans' = spans
    BY <1>1, <1>6, <1>11 DEF SpanBlock
  <2>2. ASSUME NEW c \in Labels, NEW i \in PointsOf(c) PROVE Passed(c, i)' <=> Passed(c, i)
    <3>1. c # b
      BY <1>9, <1>11, <2>2
    <3>2. \A k \in 1 .. Len(blocks) : blocks[k] = c => (k > turn - 1 <=> k > turn)
      BY <3>1, <1>2, <1>4, <1>5, <1>6
    <3> QED BY <3>2, <2>1, <1>1, <1>3 DEF Passed
  <2>3. ASSUME NEW c \in Labels, NEW i \in PointsOf(c), Covered(c, i) PROVE Covered(c, i)'
    BY <2>1, <2>3, <1>3, <1>4, SameGraph DEF Covered, Within
  <2>4. SpanTypes' /\ OrderTypes'
    BY <1>2, <1>3, <2>1 DEF SpanTypes, OrderTypes
  <2>5. turn' \in 0 .. Count
    BY <2>1, <1>1, <1>2, <1>4
  <2>6. \A c \in Labels : \A i \in PointsOf(c) :
           IF Passed(c, i)' THEN Covered(c, i)'
           ELSE \A v \in DOMAIN spans' : PositionOf(c, i) <= spans'[v].end
    BY <1>2, <2>1, <2>2, <2>3
  <2> QED BY <1>2, <1>3, <1>4, <2>1, <2>4, <2>5, <2>6 DEF Spanning
<1>12. CASE Body(b) # <<>>
  <2> DEFINE n == Len(Body(b))
             last == PositionOf(b, n)
  <2>1. turn' = turn /\ at' = n /\ spans' = Extend(spans, liveOut[b], starts[b], last) /\ n \in PointsOf(b)
    <3>1. n > 0
      BY <1>1, <1>12, GraphFacts
    <3> QED BY <3>1, <1>6, <1>9, <1>12 DEF SpanBlock, SpanLiveOut
  <2>2. last \in Nat /\ starts[b] <= last
    BY <2>1, <1>1, PositionFacts
  <2>3. IsSpans(spans) /\ DOMAIN spans \subseteq VirtualRegs
    BY <1>2 DEF SpanTypes, IsSpans
  <2>4. liveOut[b] = {v \in VirtualRegs : LiveAtEnd(v, b)}
    BY <1>1 DEF LiveOutKnown
  <2> HIDE DEF last
  <2>5. /\ DOMAIN spans' = DOMAIN spans \cup liveOut[b] /\ IsSpans(spans')
        /\ \A v \in DOMAIN spans : spans'[v].start <= spans[v].start /\ spans[v].end <= spans'[v].end
        /\ \A v \in liveOut[b] : spans'[v].start <= starts[b] /\ last <= spans'[v].end
    <3>1. Extended(spans, spans', liveOut[b], starts[b], last)
      BY <2>1, <2>2, <2>3, <1>9, ExtendFacts
    <3> QED BY <3>1 DEF Extended
  <2>6. SpanTypes' /\ OrderTypes'
    BY <1>2, <1>3, <2>3, <2>4, <2>5 DEF SpanTypes, OrderTypes, IsSpans
  <2>7. ASSUME NEW c \in Labels, NEW i \in PointsOf(c) PROVE Passed(c, i)' <=> Passed(c, i)
    <3>1. ~(i > n) \/ c # b
      BY <1>9, <2>7
    <3> QED BY <3>1, <2>1, <1>1, <1>3, <1>7, <1>6 DEF Passed
  <2>8. ASSUME NEW v, NEW point \in Nat, Within(v, point)
        PROVE  v \in DOMAIN spans' /\ spans'[v].start <= point /\ point <= spans'[v].end
    <3>1. v \in DOMAIN spans /\ v \in DOMAIN spans'
      BY <2>5, <2>8 DEF Within
    <3>2. spans[v].start \in Nat /\ spans[v].end \in Nat /\ spans'[v].start \in Nat /\ spans'[v].end \in Nat
      BY <3>1, <2>3, <2>5 DEF IsSpans
    <3> QED BY <3>1, <3>2, <2>5, <2>8 DEF Within
  <2>9. ASSUME NEW c \in Labels, NEW i \in PointsOf(c), Covered(c, i) PROVE Covered(c, i)'
    <3>1. PICK point \in Nat : point = PositionOf(c, i)
      BY <1>1, PositionFacts
    <3>2. point = PositionOf(c, i)'
      BY <3>1, <1>4
    <3>3. \A v : LiveAfter(v, c, i)' <=> LiveAfter(v, c, i)
      BY <1>3, SameGraph
    <3> QED BY <2>8, <2>9, <3>1, <3>2, <3>3, <1>4 DEF Covered, Within
  <2>10. ASSUME NEW c \in Labels, NEW i \in PointsOf(c), ~Passed(c, i), NEW v \in DOMAIN spans'
         PROVE  PositionOf(c, i) <= spans'[v].end
    <3>1. PositionOf(c, i) \in Nat /\ spans'[v].end \in Nat
      BY <1>1, <2>5, PositionFacts DEF IsSpans
    <3>2. CASE v \in DOMAIN spans
      <4>1. PositionOf(c, i) <= spans[v].end /\ spans[v].end \in Nat
        BY <3>2, <1>2, <2>3, <2>10 DEF IsSpans
      <4> QED BY <3>1, <3>2, <4>1, <2>5
    <3>3. CASE v \in liveOut[b]
      <4>1. PICK k \in 1 .. Len(blocks) : blocks[k] = c
        BY <1>1, PlaceOf
      <4>2. ~(k > turn)
        BY <4>1, <2>10 DEF Passed
      <4>3. PositionOf(c, i) <= last
        <5>1. CASE k = turn
          <6>1. c = b /\ (i = n \/ i < n)
            BY <5>1, <4>1, <1>6, <1>9
          <6>2. i < n => PositionOf(c, i) < last
            BY <6>1, <2>1, <1>1, PositionFacts DEF last
          <6> QED BY <6>1, <6>2, <3>1, <2>2 DEF last
        <5>2. CASE k < turn
          <6>1. PositionOf(c, i) < starts[b]
            BY <5>2, <4>1, <1>1, <1>5, <1>6, <1>12, PositionFacts
          <6> QED BY <6>1, <3>1, <2>2, <1>9
        <5> QED BY <5>1, <5>2, <4>2, <1>5
      <4>4. last <= spans'[v].end
        BY <3>3, <2>5
      <4> QED BY <4>3, <4>4, <3>1, <2>2
    <3> QED BY <3>2, <3>3, <2>5
  <2>11. ASSUME NEW v \in VirtualRegs, Awaited(v, b, n)'
         PROVE  v \in DOMAIN spans' /\ spans'[v].start <= starts[b]
    <3>1. ~ReadBehind(v, b, n)
      BY <1>9 DEF ReadBehind
    <3>2. ~ReadBehind(v, b, n)'
      BY <3>1, <1>3, SameGraph
    <3>3. v \in liveOut[b]
      BY <3>2, <2>11, <1>3 DEF Awaited
    <3> QED BY <3>3, <2>5
  <2>12. \A c \in Labels : \A i \in PointsOf(c) :
            IF Passed(c, i)' THEN Covered(c, i)'
            ELSE \A v \in DOMAIN spans' : PositionOf(c, i) <= spans'[v].end
    BY <1>2, <2>7, <2>9, <2>10
  <2>13. at' \in Nat /\ at' <= Len(Body(blocks'[turn'])) /\ blocks'[turn'] = b /\ turn' > 0
    BY <2>1, <1>1, <1>3, <1>6, <1>9
  <2> QED BY <1>2, <1>3, <1>4, <2>1, <2>6, <2>11, <2>12, <2>13 DEF Spanning
<1> QED BY <1>11, <1>12

(***************************************************************************)
(* The walk passes an instruction.  Its definition moves the start to the  *)
(* instruction, which no end lies before; what it reads reaches back to    *)
(* the start of the block; and what is live behind it and not written by   *)
(* it was covered from there before.                                       *)
(***************************************************************************)
LEMMA SpanNextKeeps ==
    ASSUME RegAllocInvariant, SpanNext PROVE RegAllocInvariant'
<1>1. /\ IsGraph(cfg) /\ LaidOut /\ LiveOutKnown /\ Spanning
      /\ at > 0 /\ phase = "intervals"
  BY DEF RegAllocInvariant, SpanNext
<1>2. /\ turn \in 0 .. Count /\ at \in Nat /\ SpanTypes /\ OrderTypes /\ order = <<>>
      /\ turn > 0 /\ at <= Len(Body(blocks[turn]))
      /\ \A b \in Labels : \A i \in PointsOf(b) :
            IF Passed(b, i) THEN Covered(b, i)
            ELSE \A v \in DOMAIN spans : PositionOf(b, i) <= spans[v].end
      /\ \A v \in VirtualRegs : Awaited(v, blocks[turn], at) =>
            v \in DOMAIN spans /\ spans[v].start <= starts[blocks[turn]]
  BY <1>1 DEF Spanning
<1>3. /\ cfg' = cfg /\ phase' = phase /\ starts' = starts /\ blocks' = blocks
      /\ liveOut' = liveOut /\ order' = order /\ at' = at - 1
      /\ turn' = IF at = 1 THEN turn - 1 ELSE turn
  BY DEF SpanNext, layoutVars, livenessVars
<1>4. /\ Labels = 1 .. Count /\ Count \in Nat /\ Labels' = Labels /\ Count' = Count /\ IsGraph(cfg)'
      /\ \A c : Body(c)' = Body(c) /\ PointsOf(c)' = PointsOf(c)
      /\ \A c, j : PositionOf(c, j)' = PositionOf(c, j)
  BY <1>1, <1>3, GraphFacts, SameGraph DEF PositionOf
<1>5. /\ turn \in 1 .. Len(blocks) /\ Len(blocks) = Count /\ IsInjective(blocks)
      /\ DOMAIN blocks = 1 .. Len(blocks)
  BY <1>1, <1>2, <1>4 DEF LaidOut
<1>6. PICK b \in Labels : b = blocks[turn]
  BY <1>1, <1>5 DEF LaidOut
<1>7. \A k \in 1 .. Len(blocks) : blocks[k] = b => k = turn
  BY <1>5, <1>6 DEF IsInjective
<1>8. LaidOut' /\ LiveOutKnown'
  <2>1. \A v, c : LiveAtEnd(v, c)' <=> LiveAtEnd(v, c)
    BY <1>3, SameGraph
  <2> QED BY <1>1, <1>3, <1>4, <2>1 DEF LaidOut, LiveOutKnown
<1>9. /\ Len(Body(b)) \in Nat /\ PointsOf(b) = 1 .. Len(Body(b)) /\ starts[b] \in Nat
      /\ at \in PointsOf(b) /\ Body(b) # <<>>
  BY <1>1, <1>2, <1>6, GraphFacts DEF PointsOf, LaidOut
<1>10. PICK i : i = at
  OBVIOUS
<1>11. PICK here \in Nat : here = PositionOf(b, i) /\ starts[b] <= here
  BY <1>1, <1>9, <1>10, PositionFacts
<1>12. PICK written : written = {Body(b)[i].writes} \ {NoReg}
  OBVIOUS
<1>13. PICK read : read = Body(b)[i].reads
  OBVIOUS
<1>14. written \subseteq VirtualRegs /\ read \subseteq VirtualRegs
  BY <1>1, <1>9, <1>10, <1>12, <1>13, InstructionFacts
<1>15. IsSpans(spans) /\ DOMAIN spans \subseteq VirtualRegs
  BY <1>2 DEF SpanTypes, IsSpans
<1>16. ASSUME NEW c \in Labels, NEW j \in PointsOf(c)
       PROVE  /\ PositionOf(c, j) \in Nat
              /\ ~Passed(c, j) => PositionOf(c, j) <= here
              /\ Passed(c, j) => here < PositionOf(c, j)
              /\ Passed(c, j)' <=> (Passed(c, j) \/ (c = b /\ j = i))
  <2>1. PICK k \in 1 .. Len(blocks) : blocks[k] = c
    BY <1>1, PlaceOf
  <2>2. \A l \in 1 .. Len(blocks) : blocks[l] = c => l = k
    BY <1>5, <2>1 DEF IsInjective
  <2>3. Passed(c, j) <=> (k > turn \/ (k = turn /\ j > at))
    BY <2>1, <2>2, <1>1 DEF Passed
  <2>4. PositionOf(c, j) \in Nat /\ j \in Nat /\ j >= 1
    <3>1. Len(Body(c)) \in Nat
      BY <1>1, GraphFacts
    <3> QED BY <3>1, <1>1, PositionFacts DEF PointsOf
  <2>5. Body(c) # <<>>
    BY <1>1, GraphFacts DEF PointsOf
  <2>6. Passed(c, j)' <=> (k > turn' \/ (k = turn' /\ at' > 0 /\ j > at'))
    BY <2>1, <2>2, <1>3 DEF Passed
  <2>7. Passed(c, j)' <=> (Passed(c, j) \/ (c = b /\ j = i))
    <3>1. c = b <=> k = turn
      BY <2>1, <1>6, <1>7
    <3>2. (k > turn' \/ (k = turn' /\ at' > 0 /\ j > at'))
             <=> (k > turn \/ (k = turn /\ j >= at))
      BY <2>4, <1>1, <1>2, <1>3, <1>5
    <3> QED BY <2>3, <2>4, <2>6, <3>1, <3>2, <1>2, <1>10
  <2>8. CASE k > turn
    <3>1. PositionOf(b, i) < starts[c]
      BY <2>1, <2>5, <2>8, <1>1, <1>5, <1>6, <1>9, <1>10, PositionFacts
    <3>2. starts[c] <= PositionOf(c, j) /\ starts[c] \in Nat
      BY <1>1, PositionFacts
    <3> QED BY <3>1, <3>2, <2>3, <2>4, <2>7, <2>8, <1>11
  <2>9. CASE k = turn
    <3>1. c = b
      BY <2>1, <2>9, <1>6
    <3>2. /\ j > i => PositionOf(b, i) < PositionOf(b, j)
          /\ j < i => PositionOf(b, j) < PositionOf(b, i)
      BY <3>1, <1>1, <1>9, <1>10, PositionFacts
    <3>3. i \in Nat /\ (j > i \/ j < i \/ j = i)
      BY <2>4, <1>2, <1>10
    <3> QED BY <2>3, <2>4, <2>7, <2>9, <3>1, <3>2, <3>3, <1>10, <1>11, <1>5
  <2>10. CASE k < turn
    <3>1. PositionOf(c, j) < starts[b]
      BY <2>1, <2>10, <1>1, <1>5, <1>6, <1>9, PositionFacts
    <3> QED BY <2>3, <2>4, <2>7, <2>10, <3>1, <1>5, <1>9, <1>11
  <2> QED BY <2>8, <2>9, <2>10, <1>5
<1>17. PICK mid : mid = Define(spans, written, here)
  OBVIOUS
<1>18. \A v \in DOMAIN spans : here <= spans[v].end
  <2>1. ~Passed(b, i)
    <3>1. ~(i > at)
      BY <1>2, <1>10
    <3> QED BY <3>1, <1>2, <1>5, <1>7 DEF Passed
  <2> QED BY <2>1, <1>2, <1>9, <1>10, <1>11
<1>19. /\ DOMAIN mid = DOMAIN spans \cup written /\ IsSpans(mid)
       /\ \A v \in DOMAIN spans : mid[v].end = spans[v].end
       /\ \A v \in DOMAIN spans \ written : mid[v].start = spans[v].start
       /\ \A v \in written : mid[v].start = here /\ here <= mid[v].end
  <2>1. IsSpans(spans)
    BY <1>15
  <2>2. EndsBehind(spans, here)
    BY <1>18 DEF EndsBehind
  <2>3. Defined(spans, mid, written, here)
    BY <2>1, <2>2, <1>11, <1>17, DefineFacts
  <2> QED BY <2>3 DEF Defined
<1>20. spans' = Extend(mid, read, starts[b], here)
  BY <1>6, <1>10, <1>11, <1>12, <1>13, <1>17 DEF SpanNext, SpanInstruction
<1>21. /\ DOMAIN spans' = DOMAIN mid \cup read /\ IsSpans(spans')
       /\ \A v \in DOMAIN mid : spans'[v].start <= mid[v].start /\ mid[v].end <= spans'[v].end
       /\ \A v \in read : spans'[v].start <= starts[b] /\ here <= spans'[v].end
  <2>1. IsSpans(mid) /\ starts[b] \in Nat
    BY <1>9, <1>19
  <2>2. Extended(mid, spans', read, starts[b], here)
    BY <2>1, <1>11, <1>20, ExtendFacts
  <2> QED BY <2>2 DEF Extended
<1>22. \A v \in DOMAIN spans' : spans'[v].start \in Nat /\ spans'[v].end \in Nat
  BY <1>21 DEF IsSpans
<1>23. \A v \in DOMAIN mid : mid[v].start \in Nat /\ mid[v].end \in Nat
  BY <1>19 DEF IsSpans
<1>24. \A v \in DOMAIN spans : spans[v].start \in Nat /\ spans[v].end \in Nat
  BY <1>15 DEF IsSpans
<1>25. SpanTypes' /\ OrderTypes'
  <2>1. DOMAIN spans' \subseteq VirtualRegs
    BY <1>14, <1>15, <1>19, <1>21
  <2>2. SpanTypes'
    BY <2>1, <1>21 DEF SpanTypes, IsSpans
  <2> QED BY <2>2, <1>2, <1>3 DEF OrderTypes
\* What covered a point behind this one still does.
<1>26. ASSUME NEW v, NEW point \in Nat, here <= point, Within(v, point)
       PROVE  v \in DOMAIN spans' /\ spans'[v].start <= point /\ point <= spans'[v].end
  <2>1. v \in DOMAIN spans /\ v \in DOMAIN mid /\ v \in DOMAIN spans'
        /\ spans[v].start <= point /\ point <= spans[v].end
    BY <1>19, <1>21, <1>26 DEF Within
  <2>2. mid[v].start <= point
    BY <2>1, <1>19, <1>26
  <2>3. point <= mid[v].end
    BY <2>1, <1>19
  <2> QED BY <2>1, <2>2, <2>3, <1>21, <1>22, <1>23
<1>27. ASSUME NEW c \in Labels, NEW j \in PointsOf(c), Passed(c, j) PROVE Covered(c, j)'
  <2>1. PICK point \in Nat : point = PositionOf(c, j) /\ here <= point
    BY <1>16, <1>27
  <2>2. point = PositionOf(c, j)'
    BY <2>1, <1>4
  <2>3. \A v : LiveAfter(v, c, j)' <=> LiveAfter(v, c, j)
    BY <1>3, SameGraph
  <2>4. Covered(c, j)
    BY <1>2, <1>27
  <2> QED BY <2>1, <2>2, <2>3, <2>4, <1>4, <1>26 DEF Covered, Within
\* A value that is not written here is where it was, or reaches further back.
<1>28. ASSUME NEW v \in DOMAIN spans
       PROVE  /\ v \in DOMAIN spans' /\ here <= spans'[v].end
              /\ spans[v].start <= here => spans'[v].start <= here
              /\ v \notin written => spans'[v].start <= spans[v].start
  <2>1. v \in DOMAIN mid /\ v \in DOMAIN spans'
    BY <1>19, <1>21
  <2>2. here <= mid[v].end
    BY <1>18, <1>19
  <2>3. spans[v].start <= here => mid[v].start <= here
    BY <1>11, <1>19
  <2> QED BY <2>1, <2>2, <2>3, <1>11, <1>19, <1>21, <1>22, <1>23, <1>24
<1>29. Covered(b, i)'
  <2>1. here = PositionOf(b, i)'
    BY <1>4, <1>11
  <2>2. ASSUME Body(b)[i].writes # NoReg, NEW v, v = Body(b)[i].writes
        PROVE  v \in DOMAIN spans' /\ spans'[v].start <= here /\ here <= spans'[v].end
    <3>1. v \in written /\ v \in DOMAIN mid /\ v \in DOMAIN spans'
      BY <2>2, <1>12, <1>19, <1>21
    <3>2. mid[v].start = here /\ here <= mid[v].end
      BY <3>1, <1>19
    <3> QED BY <3>1, <3>2, <1>11, <1>21, <1>22, <1>23
  <2>3. ASSUME NEW v \in read
        PROVE  v \in DOMAIN spans' /\ spans'[v].start <= here /\ here <= spans'[v].end
    BY <1>9, <1>11, <1>21, <1>22
  <2>4. ASSUME NEW v \in VirtualRegs, LiveAfter(v, b, i), Body(b)[i].op # "param"
        PROVE  v \in DOMAIN spans' /\ spans'[v].start <= here /\ here <= spans'[v].end
    <3>1. Awaited(v, b, i)
      <4>1. CASE ReadAfter(v, b, i)
        <5>1. i \in 0 .. Len(Body(b))
          BY <1>9, <1>10
        <5>2. ReadBehind(v, b, i)
          BY <2>4, <4>1, <5>1, <1>1, ReadAfterIsReadBehind
        <5> QED BY <5>2 DEF Awaited
      <4>2. CASE KeptAfter(v, b, i) /\ LiveAtEnd(v, b)
        BY <4>2, <1>1 DEF LiveOutKnown, Awaited
      <4> QED BY <2>4, <4>1, <4>2 DEF LiveAfter
    <3>2. v \in DOMAIN spans /\ spans[v].start <= starts[b]
      BY <3>1, <1>2, <1>6, <1>10
    <3>3. spans[v].start <= here
      BY <3>2, <1>9, <1>11, <1>24
    <3> QED BY <3>2, <3>3, <1>28
  <2>5. \A v : LiveAfter(v, b, i)' <=> LiveAfter(v, b, i)
    BY <1>3, SameGraph
  <2> QED BY <2>1, <2>2, <2>3, <2>4, <2>5, <1>4, <1>13 DEF Covered, Within
<1>30. ASSUME NEW c \in Labels, NEW j \in PointsOf(c), ~Passed(c, j), NEW v \in DOMAIN spans'
       PROVE  PositionOf(c, j) <= spans'[v].end
  <2>1. PositionOf(c, j) \in Nat /\ PositionOf(c, j) <= here
    BY <1>16, <1>30
  <2>2. here <= spans'[v].end
    <3>1. CASE v \in DOMAIN spans
      BY <3>1, <1>28
    <3>2. CASE v \in read
      BY <3>2, <1>21
    <3>3. CASE v \in written
      <4>1. v \in DOMAIN mid /\ here <= mid[v].end
        BY <3>3, <1>19
      <4> QED BY <4>1, <1>11, <1>21, <1>22, <1>23
    <3> QED BY <3>1, <3>2, <3>3, <1>19, <1>21
  <2> QED BY <2>1, <2>2, <1>11, <1>22
<1>31. ASSUME NEW v \in VirtualRegs, Awaited(v, b, i - 1)
       PROVE  v \in DOMAIN spans' /\ spans'[v].start <= starts[b]
  <2>1. i \in Nat /\ i - 1 + 1 = i
    BY <1>2, <1>10
  <2>2. CASE v \in read
    BY <2>2, <1>21
  <2>3. CASE v \notin read
    <3>1. v \notin written /\ Awaited(v, b, i)
      <4>1. CASE ReadBehind(v, b, i - 1)
        <5>1. PICK j \in i .. Len(Body(b)) :
                 v \in Body(b)[j].reads /\ \A k \in i .. j - 1 : Body(b)[k].writes # v
          BY <4>1, <2>1 DEF ReadBehind
        <5>2. j # i
          BY <5>1, <2>3, <1>13
        <5>3. j \in i + 1 .. Len(Body(b)) /\ i \in i .. j - 1
              /\ \A k \in i + 1 .. j - 1 : k \in i .. j - 1
          BY <5>1, <5>2, <2>1, <1>9
        <5>4. ReadBehind(v, b, i) /\ Body(b)[i].writes # v
          BY <5>1, <5>3 DEF ReadBehind
        <5> QED BY <5>4, <1>12 DEF Awaited
      <4>2. CASE KeptAfter(v, b, i - 1) /\ v \in liveOut[b]
        <5>1. i \in i .. Len(Body(b)) /\ \A k \in i + 1 .. Len(Body(b)) : k \in i .. Len(Body(b))
          BY <2>1, <1>9, <1>10
        <5>2. KeptAfter(v, b, i) /\ Body(b)[i].writes # v
          BY <4>2, <5>1, <2>1 DEF KeptAfter
        <5> QED BY <4>2, <5>2, <1>12 DEF Awaited
      <4> QED BY <1>31, <4>1, <4>2 DEF Awaited
    <3>2. v \in DOMAIN spans /\ spans[v].start <= starts[b]
      BY <3>1, <1>2, <1>6, <1>10
    <3>3. v \in DOMAIN spans' /\ spans'[v].start <= spans[v].start
      BY <3>1, <3>2, <1>28
    <3> QED BY <3>2, <3>3, <1>9, <1>22, <1>24
  <2> QED BY <2>2, <2>3
<1>32. Spanning'
  <2>1. turn' \in 0 .. Count /\ at' \in Nat /\ (at' > 0 => turn' > 0 /\ turn' = turn /\ at' <= Len(Body(b)))
    BY <1>1, <1>2, <1>3, <1>4, <1>6, <1>9
  <2>2. \A c \in Labels : \A j \in PointsOf(c) :
           IF Passed(c, j)' THEN Covered(c, j)'
           ELSE \A v \in DOMAIN spans' : PositionOf(c, j) <= spans'[v].end
    BY <1>16, <1>27, <1>29, <1>30
  <2>3. PICK before : before = i - 1
    OBVIOUS
  <2>4. ASSUME NEW v \in VirtualRegs, Awaited(v, b, before)'
        PROVE  v \in DOMAIN spans' /\ spans'[v].start <= starts[b]
    <3>1. Awaited(v, b, before)
      BY <2>4, <1>3, SameGraph DEF Awaited
    <3> QED BY <3>1, <2>3, <1>31
  <2>5. at' = before /\ (at' > 0 => turn' > 0 /\ blocks'[turn'] = b /\ at' <= Len(Body(blocks'[turn'])))
    BY <2>1, <2>3, <1>3, <1>6, <1>10
  <2> QED BY <2>1, <2>2, <2>4, <2>5, <1>2, <1>3, <1>4, <1>25, SMTT(30) DEF Spanning
<1> QED BY <1>1, <1>3, <1>4, <1>8, <1>32 DEF RegAllocInvariant, SpanNext, livenessVars

(***************************************************************************)
(* Sorting: what is still to come starts no earlier than what is sorted.   *)
(***************************************************************************)
LEMMA SortNextKeeps ==
    ASSUME RegAllocInvariant, SortNext PROVE RegAllocInvariant'
<1>1. /\ IsGraph(cfg) /\ LaidOut /\ LiveOutKnown /\ Spanning
      /\ at = 0 /\ turn = 0 /\ phase = "intervals"
  BY DEF RegAllocInvariant, SortNext, Spanned
<1>2. /\ SpanTypes /\ OrderTypes
      /\ \A k \in 1 .. Len(order) : \A u \in Unsorted : spans[order[k]].start <= spans[u].start
      /\ \A b \in Labels : \A i \in PointsOf(b) :
            IF Passed(b, i) THEN Covered(b, i)
            ELSE \A v \in DOMAIN spans : PositionOf(b, i) <= spans[v].end
  BY <1>1 DEF Spanning
<1>3. PICK v \in Unsorted : (\A u \in Unsorted : NoLater(v, u)) /\ order' = Append(order, v)
  BY DEF SortNext
<1>4. /\ cfg' = cfg /\ phase' = phase /\ turn' = turn /\ at' = at /\ starts' = starts
      /\ blocks' = blocks /\ liveOut' = liveOut /\ spans' = spans
  BY DEF SortNext, layoutVars, livenessVars
<1>5. /\ Labels' = Labels /\ Count' = Count /\ IsGraph(cfg)' /\ Count \in Nat
      /\ \A c : Body(c)' = Body(c) /\ PointsOf(c)' = PointsOf(c)
  BY <1>1, <1>4, GraphFacts, SameGraph
<1>6. LaidOut' /\ LiveOutKnown'
  <2>1. \A u, c : LiveAtEnd(u, c)' <=> LiveAtEnd(u, c)
    BY <1>4, SameGraph
  <2> QED BY <1>1, <1>4, <1>5, <2>1 DEF LaidOut, LiveOutKnown
<1>7. v \in DOMAIN spans /\ v \notin ToSet(order) /\ order \in Seq(DOMAIN spans) /\ IsInjective(order)
      /\ \A j, k \in 1 .. Len(order) : j < k => spans[order[j]].start <= spans[order[k]].start
  BY <1>2, <1>3 DEF Unsorted, OrderTypes
<1>8. /\ order' \in Seq(DOMAIN spans) /\ IsInjective(order') /\ ToSet(order') = ToSet(order) \cup {v}
      /\ Len(order') = Len(order) + 1 /\ Len(order) \in Nat
      /\ (\A k \in 1 .. Len(order) : order'[k] = order[k]) /\ order'[Len(order) + 1] = v
  BY <1>3, <1>7, AppendNew
<1>9. ASSUME NEW k \in 1 .. Len(order')
      PROVE  \/ k \in 1 .. Len(order) /\ order'[k] = order[k]
             \/ k = Len(order) + 1 /\ order'[k] = v
  <2>1. k \in 1 .. Len(order) \/ k = Len(order) + 1
    BY <1>8
  <2> QED BY <2>1, <1>8
<1>10. \A u \in Unsorted : spans[v].start <= spans[u].start
  <2>1. \A u \in Unsorted : spans[u].start \in Nat /\ spans[v].start \in Nat
    BY <1>2, <1>7 DEF SpanTypes, Unsorted
  <2> QED BY <2>1, <1>3 DEF NoLater
<1>11. OrderTypes'
  <2>1. ASSUME NEW j \in 1 .. Len(order'), NEW k \in 1 .. Len(order'), j < k
        PROVE  spans[order'[j]].start <= spans[order'[k]].start
    <3>1. j \in 1 .. Len(order) /\ order'[j] = order[j]
      BY <2>1, <1>8, <1>9
    <3> QED BY <2>1, <3>1, <1>2, <1>3, <1>7, <1>9
  <2> QED BY <2>1, <1>4, <1>8 DEF OrderTypes
<1>12. \A k \in 1 .. Len(order') : \A u \in Unsorted' : spans[order'[k]].start <= spans[u].start
  <2>1. Unsorted' \subseteq Unsorted
    BY <1>4, <1>8 DEF Unsorted
  <2> QED BY <2>1, <1>2, <1>9, <1>10
<1>13. ASSUME NEW b, NEW i
       PROVE  /\ Passed(b, i)' <=> Passed(b, i)
              /\ Covered(b, i) => Covered(b, i)'
  <2>1. \A u : LiveAfter(u, b, i)' <=> LiveAfter(u, b, i)
    BY <1>4, SameGraph
  <2> QED BY <2>1, <1>4, <1>5 DEF Passed, Covered, Within, PositionOf
<1>14. SpanTypes'
  BY <1>2, <1>4 DEF SpanTypes
<1>15. \A b \in Labels' : \A i \in PointsOf(b)' :
          IF Passed(b, i)' THEN Covered(b, i)'
          ELSE \A u \in DOMAIN spans' : PositionOf(b, i)' <= spans'[u].end
  BY <1>2, <1>4, <1>5, <1>13 DEF PositionOf
<1>16. Spanning'
  BY <1>1, <1>4, <1>5, <1>11, <1>12, <1>14, <1>15 DEF Spanning
<1> QED BY <1>1, <1>4, <1>5, <1>6, <1>16 DEF RegAllocInvariant, SortNext, livenessVars

-----------------------------------------------------------------------------
(***************************************************************************)
(* The allocator inside: what LinearScan's lemmas say of its state is said *)
(* of the same variables here.                                             *)
(***************************************************************************)
LEMMA AssumptionHolds == Proved!LinearScanAssumption
  BY RegAllocAssumption DEF Proved!LinearScanAssumption, Proved!Registers

LEMMA AllocatorStarts == Proved!NothingPlaced => Proved!IInv
  BY AssumptionHolds, Proved!StartEstablishes

LEMMA AllocatorStarted == Proved!NothingPlaced' => Proved!IInv'
  BY AllocatorStarts, PTL

LEMMA AllocatorKeeps == Proved!IInv /\ [Proved!Next]_(Proved!vars) => Proved!IInv'
  BY AssumptionHolds, Proved!StepKeeps

\* Where a register stands in the order of the intervals.
LEMMA RankFacts ==
    ASSUME NEW S, order \in Seq(S), IsInjective(order)
    PROVE  /\ \A v : RankOf(v) \in 0 .. Len(order)
           /\ \A v \in ToSet(order) : RankOf(v) \in 1 .. Len(order) /\ order[RankOf(v)] = v
           /\ \A k \in 1 .. Len(order) : RankOf(order[k]) = k
<1>1. Len(order) \in Nat /\ DOMAIN order = 1 .. Len(order)
  OBVIOUS
<1>2. ASSUME NEW k \in 1 .. Len(order) PROVE RankOf(order[k]) = k
  <2>1. Contains(order, order[k])
    BY <1>1 DEF Contains
  <2>2. \A j \in DOMAIN order : order[j] = order[k] => j = k
    BY <1>1 DEF IsInjective
  <2> QED BY <1>1, <2>1, <2>2 DEF RankOf
<1>3. ASSUME NEW v PROVE RankOf(v) \in 0 .. Len(order)
  <2>1. CASE Contains(order, v)
    <3>1. PICK k \in 1 .. Len(order) : order[k] = v
      BY <2>1, <1>1 DEF Contains
    <3> QED BY <3>1, <1>1, <1>2
  <2>2. CASE ~Contains(order, v)
    BY <2>2, <1>1 DEF RankOf
  <2> QED BY <2>1, <2>2
<1>4. ASSUME NEW v \in ToSet(order) PROVE RankOf(v) \in 1 .. Len(order) /\ order[RankOf(v)] = v
  <2>1. PICK k \in 1 .. Len(order) : order[k] = v
    BY <1>1 DEF ToSet
  <2> QED BY <2>1, <1>2
<1> QED BY <1>2, <1>3, <1>4

(***************************************************************************)
(* The intervals, sorted, and the calls are a workload.                    *)
(***************************************************************************)
LEMMA HandOverKeeps ==
    ASSUME RegAllocInvariant, HandOver PROVE RegAllocInvariant'
<1>1. /\ IsGraph(cfg) /\ LaidOut /\ LiveOutKnown /\ Spanning
      /\ at = 0 /\ turn = 0 /\ phase = "intervals" /\ Unsorted = {}
  BY DEF RegAllocInvariant, HandOver, Spanned
<1>2. /\ SpanTypes /\ OrderTypes
      /\ \A b \in Labels : \A i \in PointsOf(b) : Passed(b, i) => Covered(b, i)
  BY <1>1 DEF Spanning
<1>3. /\ cfg' = cfg /\ phase' = "scan" /\ starts' = starts /\ blocks' = blocks
      /\ liveOut' = liveOut /\ spans' = spans /\ order' = order
      /\ intervals' = [k \in DOMAIN order |-> spans[order[k]]]
      /\ callSites' = {SiteOf(c) : c \in CallPoints}
      /\ assignments' = [k \in DOMAIN order |-> Scan!Unassigned]
      /\ available' = [r \in Scan!Registers |-> TRUE]
      /\ cursor' = 1 /\ active' = <<>> /\ usedCalleeSaved' = {} /\ spillSlots' = 0
  BY DEF HandOver, layoutVars, livenessVars, spanVars
<1>4. /\ Labels' = Labels /\ Count' = Count /\ IsGraph(cfg)'
      /\ \A c : Body(c)' = Body(c) /\ PointsOf(c)' = PointsOf(c)
  BY <1>1, <1>3, SameGraph
<1>5. LaidOut' /\ LiveOutKnown'
  <2>1. \A u, c : LiveAtEnd(u, c)' <=> LiveAtEnd(u, c)
    BY <1>3, SameGraph
  <2> QED BY <1>1, <1>3, <1>4, <2>1 DEF LaidOut, LiveOutKnown
<1>6. SpanTypes' /\ OrderTypes'
  BY <1>2, <1>3 DEF SpanTypes, OrderTypes
<1>7. /\ order \in Seq(DOMAIN spans) /\ IsInjective(order) /\ Len(order) \in Nat
      /\ DOMAIN order = 1 .. Len(order)
      /\ \A j, k \in 1 .. Len(order) : j < k => spans[order[j]].start <= spans[order[k]].start
  BY <1>2 DEF OrderTypes
<1>8. ToSet(order) = DOMAIN spans
  <2>1. ToSet(order) \subseteq DOMAIN spans
    BY <1>7 DEF ToSet
  <2> QED BY <2>1, <1>1 DEF Unsorted
<1>9. ASSUME NEW b \in Labels, NEW i \in PointsOf(b) PROVE Covered(b, i)'
  <2>1. PICK k \in 1 .. Len(blocks) : blocks[k] = b
    BY <1>1, PlaceOf
  <2>2. k > turn
    BY <1>1, <2>1
  <2>3. Covered(b, i)
    BY <1>2, <2>1, <2>2 DEF Passed
  <2>4. \A u : LiveAfter(u, b, i)' <=> LiveAfter(u, b, i)
    BY <1>3, SameGraph
  <2> QED BY <2>3, <2>4, <1>3, <1>4 DEF Covered, Within, PositionOf
<1>10. /\ \A v : RankOf(v) \in 0 .. Len(order)
       /\ \A v : RankOf(v)' = RankOf(v)
  <2>1. \A v : RankOf(v)' = RankOf(v)
    BY <1>3 DEF RankOf
  <2> QED BY <2>1, <1>7, RankFacts
<1>11. CallPoints' = CallPoints
       /\ \A c \in CallPoints : c[1] \in Labels /\ c[2] \in PointsOf(c[1])
  <2>1. \A b \in Labels : PointsOf(b) = DOMAIN Body(b)
    BY <1>1, GraphFacts
  <2>2. Points' = Points
    BY <1>4 DEF Points
  <2> QED BY <2>1, <2>2, <1>4 DEF CallPoints, Points
<1>12. callSites' = {SiteOf(c)' : c \in CallPoints'}
  <2>1. \A c : SiteOf(c)' = SiteOf(c)
    BY <1>3 DEF SiteOf, PositionOf, Body, RankOf
  <2> QED BY <2>1, <1>3, <1>11
<1>13. Proved!IsWorkload(Proved!Input)'
  <2>1. /\ intervals' \in Seq([start : Nat, end : Nat]) /\ Len(intervals') = Len(order)
        /\ \A k \in 1 .. Len(order) : intervals'[k] = spans[order[k]]
    <3>1. \A k \in 1 .. Len(order) : spans[order[k]] \in [start : Nat, end : Nat]
      BY <1>2, <1>7 DEF SpanTypes
    <3> QED BY <3>1, <1>3, <1>7
  <2>2. ASSUME NEW k \in 1 .. Len(order)
        PROVE  /\ DOMAIN intervals'[k] = {"start", "end"}
               /\ intervals'[k].start \in Nat /\ intervals'[k].end \in Nat
               /\ intervals'[k].start <= intervals'[k].end
    <3>1. order[k] \in DOMAIN spans
      BY <1>7
    <3>2. spans[order[k]] \in [start : Nat, end : Nat] /\ spans[order[k]].start <= spans[order[k]].end
      BY <3>1, <1>2 DEF SpanTypes
    <3> QED BY <3>2, <2>1
  <2>3. ASSUME NEW call \in callSites'
        PROVE  call.position \in Nat /\ call.defines \in 0 .. Len(order)
    <3>1. PICK c \in CallPoints : call = [position |-> PositionOf(c[1], c[2]),
                                          defines  |-> RankOf(Body(c[1])[c[2]].writes)]
      BY <2>3, <1>3 DEF SiteOf
    <3>2. PositionOf(c[1], c[2]) \in Nat
      BY <1>1, <1>11, PositionFacts
    <3> QED BY <3>1, <3>2, <1>10
  <2>4. \A j, k \in 1 .. Len(order) : j < k => intervals'[j].start <= intervals'[k].start
    BY <2>1, <1>7
  <2> QED BY <2>1, <2>2, <2>3, <2>4 DEF Proved!IsWorkload, Proved!IsInterval, Proved!Input
<1>14. Proved!NothingPlaced'
  <2>1. DOMAIN order = Proved!VRegs'
    BY <1>3, <1>7 DEF Proved!VRegs
  <2>2. Scan!Unassigned = Proved!Unassigned /\ Scan!Registers = Proved!Registers
    BY DEF Scan!Unassigned, Proved!Unassigned, Scan!Registers, Proved!Registers
  <2> QED BY <2>1, <2>2, <1>3, <1>13 DEF Proved!NothingPlaced
<1>15. Proved!IInv'
  BY <1>14, AllocatorStarted
<1>16. Scanning'
  BY <1>3, <1>4, <1>6, <1>8, <1>9, <1>12, <1>15 DEF Scanning
<1> QED BY <1>3, <1>4, <1>5, <1>16 DEF RegAllocInvariant

-----------------------------------------------------------------------------
(***************************************************************************)
(* RegAlloc and the lemmas of LinearScanProofs each hold an instance of    *)
(* LinearScan; over the same variables the two say the same.               *)
(***************************************************************************)
LEMMA SameHomes ==
    /\ Scan!Registers = Proved!Registers /\ Scan!VRegs = Proved!VRegs
    /\ \A r : Scan!Register(r) = Proved!Register(r)
    /\ \A s : Scan!Spill(s) = Proved!Spill(s)
    /\ Scan!Unassigned = Proved!Unassigned
    /\ Scan!Entries = Proved!Entries /\ Scan!Homes = Proved!Homes
    /\ \A v : Scan!Permitted(v) = Proved!Permitted(v)
    /\ \A v : Scan!CrossesAnyCall(v) <=> Proved!CrossesAnyCall(v)
<1>1. /\ Scan!Registers = Proved!Registers /\ Scan!VRegs = Proved!VRegs
      /\ \A r : Scan!Register(r) = Proved!Register(r)
      /\ \A s : Scan!Spill(s) = Proved!Spill(s)
      /\ Scan!Unassigned = Proved!Unassigned
  BY DEF Scan!Registers, Proved!Registers, Scan!VRegs, Proved!VRegs, Scan!Register,
         Proved!Register, Scan!Spill, Proved!Spill, Scan!Unassigned, Proved!Unassigned
<1>2. Scan!Entries = Proved!Entries
  BY <1>1 DEF Scan!Entries, Proved!Entries
<1>3. Scan!Homes = Proved!Homes
  BY <1>1 DEF Scan!Homes, Proved!Homes
<1>4. \A v : Scan!CrossesAnyCall(v) <=> Proved!CrossesAnyCall(v)
  BY DEF Scan!CrossesAnyCall, Proved!CrossesAnyCall, Scan!CrossesCall, Proved!CrossesCall
<1>5. \A v : Scan!Permitted(v) = Proved!Permitted(v)
  BY <1>1, <1>4 DEF Scan!Permitted, Proved!Permitted
<1> QED BY <1>1, <1>2, <1>3, <1>4, <1>5

LEMMA SameInvariant == Scan!IInv <=> Proved!IInv
<1>1. Scan!TypeOK <=> Proved!TypeOK
  <2>1. \A w : Scan!IsWorkload(w) <=> Proved!IsWorkload(w)
    BY DEF Scan!IsWorkload, Proved!IsWorkload, Scan!IsInterval, Proved!IsInterval
  <2> QED BY <2>1, SameHomes DEF Scan!TypeOK, Proved!TypeOK
<1>2. /\ Scan!WellHeld(active, assignments, cursor) <=> Proved!WellHeld(active, assignments, cursor)
      /\ Scan!FreeIsFree(active, available) <=> Proved!FreeIsFree(active, available)
  BY SameHomes DEF Scan!WellHeld, Proved!WellHeld, Scan!FreeIsFree, Proved!FreeIsFree
<1>3. Scan!HeldOrOver(active, assignments, cursor) <=> Proved!HeldOrOver(active, assignments, cursor)
  BY SameHomes DEF Scan!HeldOrOver, Proved!HeldOrOver
<1>4. Scan!PlacedSoFar <=> Proved!PlacedSoFar
  BY SameHomes DEF Scan!PlacedSoFar, Proved!PlacedSoFar
<1>5. Scan!NoSharedHome <=> Proved!NoSharedHome
  BY SameHomes DEF Scan!NoSharedHome, Proved!NoSharedHome, Scan!Overlap, Proved!Overlap
<1>6. Scan!SafeAcrossCalls <=> Proved!SafeAcrossCalls
  BY SameHomes DEF Scan!SafeAcrossCalls, Proved!SafeAcrossCalls, Scan!InRegister, Proved!InRegister
<1> QED BY <1>1, <1>2, <1>3, <1>4, <1>5, <1>6 DEF Scan!IInv, Proved!IInv

LEMMA SameStep == Scan!PlaceNext => Proved!PlaceNext
<1>1. /\ \A n : Scan!Expires(n) <=> Proved!Expires(n)
      /\ \A n : Scan!StillActive(n) = Proved!StillActive(n)
      /\ \A n : Scan!FreeAfter(n) = Proved!FreeAfter(n)
  BY SameHomes DEF Scan!Expires, Proved!Expires, Scan!StillActive, Proved!StillActive,
                   Scan!FreeAfter, Proved!FreeAfter
<1>2. /\ \A free, r : Scan!Picks(free, r) <=> Proved!Picks(free, r)
      /\ \A free : Scan!NothingFree(free) <=> Proved!NothingFree(free)
      /\ \A held, k : Scan!Evicts(held, k) <=> Proved!Evicts(held, k)
      /\ \A held : Scan!NothingToEvict(held) <=> Proved!NothingToEvict(held)
  <2>1. /\ \A free, r : Scan!Picks(free, r) <=> Proved!Picks(free, r)
        /\ \A free : Scan!NothingFree(free) <=> Proved!NothingFree(free)
    BY SameHomes DEF Scan!Picks, Proved!Picks, Scan!NothingFree, Proved!NothingFree
  <2>2. \A held, k : Scan!Evicts(held, k) <=> Proved!Evicts(held, k)
    BY SameHomes DEF Scan!Evicts, Proved!Evicts
  <2>3. \A held : Scan!NothingToEvict(held) <=> Proved!NothingToEvict(held)
    BY <2>2 DEF Scan!NothingToEvict, Proved!NothingToEvict
  <2> QED BY <2>1, <2>2, <2>3
<1>3. \A held, r : Scan!InsertActive(held, r) <=> Proved!InsertActive(held, r)
  BY DEF Scan!InsertActive, Proved!InsertActive, Scan!InsertAt, Proved!InsertAt
<1>4. ASSUME NEW held, NEW free
      PROVE  Scan!TakeFreeRegister(held, free) => Proved!TakeFreeRegister(held, free)
  BY <1>2, <1>3, SameHomes DEF Scan!TakeFreeRegister, Proved!TakeFreeRegister
<1>5. ASSUME NEW held, NEW free
      PROVE  Scan!EvictLongerLived(held, free) => Proved!EvictLongerLived(held, free)
  <2>1. \A k : Scan!RemoveAt(held, k) = Proved!RemoveAt(held, k)
    BY DEF Scan!RemoveAt, Proved!RemoveAt
  <2> QED BY <2>1, <1>2, <1>3, SameHomes, ZenonT(60) DEF Scan!EvictLongerLived, Proved!EvictLongerLived
<1>6. ASSUME NEW held, NEW free
      PROVE  Scan!SpillCurrent(held, free) => Proved!SpillCurrent(held, free)
  BY <1>2, SameHomes DEF Scan!SpillCurrent, Proved!SpillCurrent
<1> QED BY <1>1, <1>4, <1>5, <1>6 DEF Scan!PlaceNext, Proved!PlaceNext

LEMMA PlaceIntervalKeeps ==
    ASSUME RegAllocInvariant, PlaceInterval PROVE RegAllocInvariant'
<1>1. /\ IsGraph(cfg) /\ LaidOut /\ LiveOutKnown /\ Scanning /\ phase = "scan"
  BY DEF RegAllocInvariant, PlaceInterval
<1>2. /\ cfg' = cfg /\ phase' = phase /\ starts' = starts /\ blocks' = blocks
      /\ liveOut' = liveOut /\ spans' = spans /\ order' = order
  BY DEF PlaceInterval, passVars, layoutVars, livenessVars, spanVars
<1>3. intervals' = intervals /\ callSites' = callSites
  BY DEF PlaceInterval, Scan!PlaceNext
<1>4. /\ Labels' = Labels /\ Count' = Count /\ IsGraph(cfg)'
      /\ \A c : Body(c)' = Body(c) /\ PointsOf(c)' = PointsOf(c)
  BY <1>1, <1>2, SameGraph
<1>5. LaidOut' /\ LiveOutKnown'
  <2>1. \A u, c : LiveAtEnd(u, c)' <=> LiveAtEnd(u, c)
    BY <1>2, SameGraph
  <2> QED BY <1>1, <1>2, <1>4, <2>1 DEF LaidOut, LiveOutKnown
<1>6. Proved!IInv'
  <2>1. Proved!Next
    BY SameStep DEF PlaceInterval, Proved!Next
  <2> QED BY <2>1, <1>1, AllocatorKeeps DEF Scanning
<1>7. ASSUME NEW b, NEW i, Covered(b, i) PROVE Covered(b, i)'
  <2>1. \A u : LiveAfter(u, b, i)' <=> LiveAfter(u, b, i)
    BY <1>2, SameGraph
  <2> QED BY <1>7, <2>1, <1>2, <1>4 DEF Covered, Within, PositionOf
<1>8. {SiteOf(c) : c \in CallPoints}' = {SiteOf(c) : c \in CallPoints}
  <2>1. \A c : SiteOf(c)' = SiteOf(c)
    BY <1>2 DEF SiteOf, PositionOf, Body, RankOf
  <2>2. CallPoints' = CallPoints
    BY <1>4 DEF CallPoints, Points
  <2> QED BY <2>1, <2>2
<1>9. SpanTypes' /\ OrderTypes'
  BY <1>1, <1>2 DEF Scanning, SpanTypes, OrderTypes
<1>10. Scanning'
  BY <1>1, <1>2, <1>3, <1>4, <1>6, <1>7, <1>8, <1>9 DEF Scanning
<1> QED BY <1>1, <1>2, <1>4, <1>5, <1>10 DEF RegAllocInvariant

LEMMA StutterKeeps ==
    ASSUME RegAllocInvariant, UNCHANGED vars PROVE RegAllocInvariant'
<1>1. /\ UNCHANGED passVars /\ UNCHANGED scanVars
  BY DEF vars
<1>2. /\ cfg' = cfg /\ phase' = phase /\ turn' = turn /\ at' = at
      /\ stack' = stack /\ visitOrder' = visitOrder
      /\ length' = length /\ starts' = starts /\ blocks' = blocks /\ emptyBlocks' = emptyBlocks
      /\ changed' = changed /\ liveIn' = liveIn /\ liveOut' = liveOut
      /\ spans' = spans /\ order' = order
  BY <1>1 DEF passVars, orderVars, layoutVars, livenessVars, spanVars
<1>3. UNCHANGED Proved!vars /\ intervals' = intervals /\ callSites' = callSites
  BY <1>1 DEF scanVars, Proved!vars
<1>4. /\ Labels' = Labels /\ Count' = Count /\ IsGraph(cfg)' = IsGraph(cfg)
      /\ \A c : Body(c)' = Body(c) /\ PointsOf(c)' = PointsOf(c)
      /\ \A c : Use(c)' = Use(c) /\ Kill(c)' = Kill(c)
      /\ \A v, c : LiveAtEnd(v, c)' <=> LiveAtEnd(v, c)
      /\ \A v, c, i : LiveAfter(v, c, i)' <=> LiveAfter(v, c, i)
      /\ \A v, c, i : ReadBehind(v, c, i)' <=> ReadBehind(v, c, i)
      /\ \A v, c, i : KeptAfter(v, c, i)' <=> KeptAfter(v, c, i)
  BY <1>2, SameGraph
<1>5. Ordering => Ordering'
  BY <1>2, <1>4 DEF Ordering, Visited
<1>6. LayingOut => LayingOut'
  <2>1. Laid' = Laid
    BY <1>2 DEF Laid
  <2>2. Apart(blocks) => Apart(blocks)'
    BY <1>2, <1>4 DEF Apart
  <2> QED BY <2>1, <2>2, <1>2, <1>4 DEF LayingOut
<1>7. (LaidOut => LaidOut') /\ (LiveOutKnown => LiveOutKnown')
  BY <1>2, <1>4 DEF LaidOut, LiveOutKnown
<1>8. Solving => Solving'
  <2>1. \A b : Solved(b)' <=> Solved(b)
    BY <1>2, <1>4 DEF Solved, SuccessorsIn
  <2> QED BY <2>1, <1>2, <1>4 DEF Solving
<1>9. /\ \A b, i : Covered(b, i)' <=> Covered(b, i)
      /\ \A b, i : Passed(b, i)' <=> Passed(b, i)
      /\ \A b, i : PositionOf(b, i)' = PositionOf(b, i)
      /\ SpanTypes => SpanTypes'
      /\ OrderTypes => OrderTypes'
  BY <1>2, <1>4 DEF Covered, Within, Passed, PositionOf, SpanTypes, OrderTypes
<1>10. Spanning => Spanning'
  <2>1. Unsorted' = Unsorted
    BY <1>2 DEF Unsorted
  <2>2. \A v, b, i : Awaited(v, b, i)' <=> Awaited(v, b, i)
    BY <1>2, <1>4 DEF Awaited
  <2>3. PICK b, i : b = blocks[turn] /\ i = at
    OBVIOUS
  <2>4. \A v : Awaited(v, b, i)' <=> Awaited(v, b, i)
    BY <2>2
  <2>5. b = blocks'[turn'] /\ i = at'
    BY <2>3, <1>2
  <2> QED BY <2>1, <2>3, <2>4, <2>5, <1>2, <1>4, <1>9 DEF Spanning
<1>11. Scanning => Scanning'
  <2>1. {SiteOf(c) : c \in CallPoints}' = {SiteOf(c) : c \in CallPoints}
    <3>1. \A c : SiteOf(c)' = SiteOf(c)
      BY <1>2 DEF SiteOf, PositionOf, Body, RankOf
    <3>2. CallPoints' = CallPoints
      BY <1>4 DEF CallPoints, Points
    <3> QED BY <3>1, <3>2
  <2>2. Proved!IInv => Proved!IInv'
    BY <1>3, AllocatorKeeps
  <2> QED BY <2>1, <2>2, <1>2, <1>3, <1>4, <1>9 DEF Scanning
<1> QED BY <1>2, <1>4, <1>5, <1>6, <1>7, <1>8, <1>10, <1>11 DEF RegAllocInvariant

-----------------------------------------------------------------------------
LEMMA StartHolds == Init => RegAllocInvariant
  BY InitHolds

LEMMA PassKeeps == RegAllocInvariant /\ [Next]_vars => RegAllocInvariant'
<1> SUFFICES ASSUME RegAllocInvariant, [Next]_vars PROVE RegAllocInvariant'
  OBVIOUS
<1>1. CASE VisitLabel
  BY <1>1, VisitLabelKeeps
<1>2. CASE PushSuccessor
  BY <1>2, PushSuccessorKeeps
<1>3. CASE AppendUnreached
  BY <1>3, AppendUnreachedKeeps
<1>4. CASE FinishOrder
  BY <1>4, FinishOrderKeeps
<1>5. CASE LayOutBlock
  BY <1>5, LayOutBlockKeeps
<1>6. CASE FinishLayout
  BY <1>6, FinishLayoutKeeps
<1>7. CASE SolveBlock
  BY <1>7, SolveBlockKeeps
<1>8. CASE EndRound
  BY <1>8, EndRoundKeeps
<1>9. CASE SpanBlock
  BY <1>9, SpanBlockKeeps
<1>10. CASE SpanNext
  BY <1>10, SpanNextKeeps
<1>11. CASE SortNext
  BY <1>11, SortNextKeeps
<1>12. CASE HandOver
  BY <1>12, HandOverKeeps
<1>13. CASE PlaceInterval
  BY <1>13, PlaceIntervalKeeps
<1>14. CASE Finished
  BY <1>14, StutterKeeps DEF Finished
<1>15. CASE UNCHANGED vars
  BY <1>15, StutterKeeps
<1> QED BY <1>1, <1>2, <1>3, <1>4, <1>5, <1>6, <1>7, <1>8, <1>9, <1>10, <1>11, <1>12,
           <1>13, <1>14, <1>15 DEF Next

(***************************************************************************)
(* What the passes maintain from the first label visited to the last       *)
(* interval placed, for every graph and every register file.               *)
(***************************************************************************)
THEOREM PassesInvariant == Spec => []RegAllocInvariant
  BY StartHolds, PassKeeps, PTL DEF Spec

(***************************************************************************)
(* The rounds of compute_live_out end at liveness as it is defined, over   *)
(* the paths of the graph, for every graph.                                *)
(***************************************************************************)
THEOREM RoundsEndAtLiveness == Spec => []LiveOutIsExact
<1>1. RegAllocInvariant => LiveOutIsExact
  BY DEF RegAllocInvariant, LiveOutKnown, LiveOutIsExact
<1> QED BY <1>1, PassesInvariant, PTL

(***************************************************************************)
(* linearize_cfg lays out every block once, the entry first, the empty     *)
(* ones last and the ranges in order, for every graph.                     *)
(***************************************************************************)
THEOREM EveryBlockIsLaidOut == Spec => []LayoutIsComplete
<1>1. RegAllocInvariant => LayoutIsComplete
  <2>1. SUFFICES ASSUME RegAllocInvariant, phase \notin {"order", "layout"} PROVE LaidOut
    <3>1. LaidOut => /\ ToSet(blocks) = Labels /\ Len(blocks) = Len(cfg.bodies)
                     /\ blocks[1] = cfg.entry
                     /\ DOMAIN blocks = 1 .. Len(blocks)
      BY DEF LaidOut, Count
    <3>2. LaidOut => \A k \in 1 .. Len(blocks), l \in 1 .. Len(blocks) :
             (k < l /\ Body(blocks[l]) # <<>>) =>
                /\ Body(blocks[k]) # <<>>
                /\ starts[blocks[k]] + Len(Body(blocks[k])) <= starts[blocks[l]]
      BY DEF LaidOut
    <3> QED BY <3>1, <3>2 DEF LayoutIsComplete
  <2> QED BY <2>1 DEF RegAllocInvariant
<1> QED BY <1>1, PassesInvariant, PTL

(***************************************************************************)
(* The intervals handed over: who has one, and what it covers.             *)
(***************************************************************************)
LEMMA IntervalFacts ==
    ASSUME IsGraph(cfg), LaidOut, Scanning
    PROVE  /\ order \in Seq(DOMAIN spans) /\ IsInjective(order) /\ ToSet(order) \subseteq VirtualRegs
           /\ Len(intervals) = Len(order) /\ Len(order) \in Nat
           /\ \A b \in Labels : \A i \in PointsOf(b) : \A v :
                 Within(v, PositionOf(b, i)) =>
                    /\ v \in ToSet(order) /\ RankOf(v) \in 1 .. Len(order)
                    /\ order[RankOf(v)] = v
                    /\ intervals[RankOf(v)].start <= PositionOf(b, i)
                    /\ PositionOf(b, i) <= intervals[RankOf(v)].end
<1>1. /\ order \in Seq(DOMAIN spans) /\ IsInjective(order) /\ ToSet(order) = DOMAIN spans
      /\ DOMAIN spans \subseteq VirtualRegs
      /\ intervals = [k \in DOMAIN order |-> spans[order[k]]]
  BY DEF Scanning, SpanTypes, OrderTypes
<1>2. Len(order) \in Nat /\ DOMAIN order = 1 .. Len(order) /\ Len(intervals) = Len(order)
  BY <1>1
<1>3. ASSUME NEW b, NEW i, NEW v, Within(v, PositionOf(b, i))
      PROVE  /\ v \in ToSet(order) /\ RankOf(v) \in 1 .. Len(order)
             /\ order[RankOf(v)] = v
             /\ intervals[RankOf(v)].start <= PositionOf(b, i)
             /\ PositionOf(b, i) <= intervals[RankOf(v)].end
  <2>1. v \in ToSet(order) /\ spans[v].start <= PositionOf(b, i) /\ PositionOf(b, i) <= spans[v].end
    BY <1>1, <1>3 DEF Within
  <2>2. RankOf(v) \in 1 .. Len(order) /\ order[RankOf(v)] = v
    BY <2>1, <1>1, RankFacts
  <2>3. intervals[RankOf(v)] = spans[v]
    BY <2>2, <1>1, <1>2
  <2> QED BY <2>1, <2>2, <2>3
<1> QED BY <1>1, <1>2, <1>3

(***************************************************************************)
(* liveness.rs hands linear_scan what it relies on: intervals in order of  *)
(* their start, one for every register an instruction names, around every  *)
(* call that defines one; and the allocator's invariant holds from there.  *)
(***************************************************************************)
THEOREM AWorkloadIsHandedOver == Spec => []HandsOverAWorkload
<1>1. RegAllocInvariant => HandsOverAWorkload
  <2> SUFFICES ASSUME RegAllocInvariant, phase = "scan" PROVE
        /\ Scan!IsWorkload([intervals |-> intervals, callSites |-> callSites])
        /\ Scan!IInv
        /\ \A b \in Labels : \A i \in PointsOf(b) :
              Body(b)[i].reads \cup ({Body(b)[i].writes} \ {NoReg}) \subseteq ToSet(order)
        /\ \A call \in callSites : \A k \in DOMAIN order :
              call.defines = k => intervals[k].start <= call.position
                                  /\ call.position <= intervals[k].end
    BY DEF HandsOverAWorkload
  <2>1. IsGraph(cfg) /\ LaidOut /\ Scanning
    BY DEF RegAllocInvariant
  <2>2. Scan!IInv
    BY <2>1, SameInvariant DEF Scanning
  <2>3. Scan!IsWorkload([intervals |-> intervals, callSites |-> callSites])
    BY <2>2 DEF Scan!IInv, Scan!TypeOK
  <2>4. ASSUME NEW b \in Labels, NEW i \in PointsOf(b)
        PROVE  Body(b)[i].reads \cup ({Body(b)[i].writes} \ {NoReg}) \subseteq ToSet(order)
    <3>1. Covered(b, i)
      BY <2>1 DEF Scanning
    <3>2. \A v : Within(v, PositionOf(b, i)) => v \in ToSet(order)
      BY <2>1, IntervalFacts
    <3> QED BY <3>1, <3>2 DEF Covered
  <2>5. ASSUME NEW call \in callSites, NEW k \in DOMAIN order, call.defines = k
        PROVE  intervals[k].start <= call.position /\ call.position <= intervals[k].end
    <3>1. PICK c \in CallPoints : call = SiteOf(c)
      BY <2>1 DEF Scanning
    <3>2. PICK b, i : b = c[1] /\ i = c[2]
      OBVIOUS
    <3>3. b \in Labels /\ i \in PointsOf(b)
      <4>1. \A d \in Labels : PointsOf(d) = DOMAIN Body(d)
        BY <2>1, GraphFacts
      <4> QED BY <4>1, <3>1, <3>2 DEF CallPoints, Points
    <3>4. call.position = PositionOf(b, i) /\ call.defines = RankOf(Body(b)[i].writes)
      BY <3>1, <3>2 DEF SiteOf
    <3>5. k \in 1 .. Len(order) /\ order \in Seq(DOMAIN spans) /\ ToSet(order) \subseteq VirtualRegs
      BY <2>1, <2>5, IntervalFacts
    <3>6. Contains(order, Body(b)[i].writes)
      BY <2>5, <3>4, <3>5 DEF RankOf
    <3>7. Body(b)[i].writes \in ToSet(order)
      BY <3>5, <3>6 DEF Contains, ToSet
    <3>8. Body(b)[i].writes # NoReg
      BY <3>5, <3>7, RegAllocAssumption
    <3>9. Within(Body(b)[i].writes, PositionOf(b, i))
      BY <2>1, <3>3, <3>8 DEF Scanning, Covered
    <3> QED BY <2>1, <2>5, <3>3, <3>4, <3>9, IntervalFacts
  <2> QED BY <2>2, <2>3, <2>4, <2>5
<1> QED BY <1>1, PassesInvariant, PTL

(***************************************************************************)
(* What the passes are for.  A value still to be read behind an            *)
(* instruction and the value the instruction writes both cover it, so they *)
(* overlap, and the allocator gives overlapping intervals different homes; *)
(* behind a call it covers the call and is no result of it, so the         *)
(* allocator left it where a callee does not write.                        *)
(***************************************************************************)
LEMMA LiveValuesSurvive ==
    ASSUME RegAllocInvariant, Allocated, NEW b \in Labels, NEW i \in PointsOf(b),
           NEW v \in VirtualRegs \ {Body(b)[i].writes}, LiveAfter(v, b, i)
    PROVE  /\ Body(b)[i].writes # NoReg => HomeOf(v) # HomeOf(Body(b)[i].writes)
           /\ (Body(b)[i].op = "call" /\ HomeOf(v).at = "register") =>
                 HomeOf(v).n \in CalleeSaved
<1>1. IsGraph(cfg) /\ LaidOut /\ Scanning /\ cursor > Len(intervals)
  BY DEF RegAllocInvariant, Allocated
<1>2. /\ Proved!PlacedSoFar /\ Proved!NoSharedHome /\ Proved!SafeAcrossCalls /\ Proved!TypeOK
      /\ Covered(b, i)
  BY <1>1 DEF Scanning, Proved!IInv
<1>3. CASE Body(b)[i].op = "param"
  BY <1>1, <1>3, InstructionFacts
<1>4. CASE Body(b)[i].op # "param"
  <2>1. Within(v, PositionOf(b, i)) /\ PositionOf(b, i) \in Nat
    BY <1>1, <1>2, <1>4, PositionFacts DEF Covered
  <2>2. PICK k \in 1 .. Len(order) :
           /\ k = RankOf(v) /\ order[k] = v
           /\ intervals[k].start <= PositionOf(b, i) /\ PositionOf(b, i) <= intervals[k].end
    BY <1>1, <2>1, IntervalFacts
  <2>3. /\ k \in Proved!VRegs /\ Proved!VRegs = 1 .. Len(order) /\ HomeOf(v) = assignments[k]
        /\ k < cursor
    <3>1. Len(intervals) = Len(order) /\ Len(order) \in Nat /\ cursor \in Nat
      BY <1>1, <1>2, IntervalFacts DEF Proved!TypeOK
    <3> QED BY <1>1, <2>2, <3>1 DEF Proved!VRegs, HomeOf
  <2>4. assignments[k] # Proved!Unassigned
    <3>1. ~(k >= cursor)
      BY <2>3, <1>1, <1>2, IntervalFacts DEF Proved!TypeOK
    <3> QED BY <2>3, <3>1, <1>2 DEF Proved!PlacedSoFar
  <2>5. ASSUME Body(b)[i].writes # NoReg PROVE HomeOf(v) # HomeOf(Body(b)[i].writes)
    <3>1. Within(Body(b)[i].writes, PositionOf(b, i))
      BY <1>2, <2>5 DEF Covered
    <3>2. PICK l \in 1 .. Len(order) :
             /\ l = RankOf(Body(b)[i].writes) /\ order[l] = Body(b)[i].writes
             /\ intervals[l].start <= PositionOf(b, i) /\ PositionOf(b, i) <= intervals[l].end
      BY <1>1, <3>1, IntervalFacts
    <3>3. l # k /\ l \in Proved!VRegs /\ HomeOf(Body(b)[i].writes) = assignments[l]
      BY <2>2, <2>3, <3>2 DEF HomeOf
    <3>4. /\ intervals[k].start \in Nat /\ intervals[k].end \in Nat
          /\ intervals[l].start \in Nat /\ intervals[l].end \in Nat
      BY <1>2, <2>3, <3>3 DEF Proved!TypeOK, Proved!IsWorkload, Proved!IsInterval, Proved!VRegs
    <3>5. Proved!Overlap(k, l)
      BY <2>1, <2>2, <3>2, <3>4, SMTT(30) DEF Proved!Overlap
    <3> QED BY <1>2, <2>3, <2>4, <3>3, <3>5 DEF Proved!NoSharedHome
  <2>6. ASSUME Body(b)[i].op = "call", HomeOf(v).at = "register"
        PROVE  HomeOf(v).n \in CalleeSaved
    <3>1. PICK r \in Proved!Registers : assignments[k] = Proved!Register(r)
      <4>1. assignments[k] \in Proved!Homes /\ assignments[k].at = "register"
        BY <1>2, <2>3, <2>6 DEF Proved!TypeOK
      <4> QED BY <4>1 DEF Proved!Homes, Proved!Spill, Proved!Unassigned
    <3>2. <<b, i>> \in CallPoints
      <4>1. i \in DOMAIN Body(b)
        BY <1>1, GraphFacts
      <4> QED BY <4>1, <2>6 DEF CallPoints, Points
    <3>3. PICK call \in callSites :
             call.position = PositionOf(b, i) /\ call.defines = RankOf(Body(b)[i].writes)
      <4>1. SiteOf(<<b, i>>) \in callSites
        BY <1>1, <3>2 DEF Scanning
      <4>2. /\ SiteOf(<<b, i>>).position = PositionOf(b, i)
            /\ SiteOf(<<b, i>>).defines = RankOf(Body(b)[i].writes)
        BY DEF SiteOf
      <4> QED BY <4>1, <4>2
    <3>4. call.defines # k
      <4>1. SUFFICES ASSUME RankOf(Body(b)[i].writes) = k PROVE FALSE
        BY <3>3
      <4>2. Contains(order, Body(b)[i].writes)
        BY <2>2, <4>1 DEF RankOf
      <4>3. Body(b)[i].writes \in ToSet(order) /\ order \in Seq(DOMAIN spans) /\ IsInjective(order)
        BY <4>2, <1>1, IntervalFacts DEF Contains, ToSet
      <4>4. order[k] = Body(b)[i].writes
        BY <4>1, <4>3, RankFacts
      <4> QED BY <4>4, <2>2
    <3>5. Proved!CrossesAnyCall(k)
      BY <2>2, <3>3, <3>4 DEF Proved!CrossesAnyCall, Proved!CrossesCall
    <3>6. r \in CalleeSaved
      BY <1>2, <2>3, <3>1, <3>5 DEF Proved!SafeAcrossCalls, Proved!InRegister
    <3> QED BY <2>3, <3>1, <3>6 DEF Proved!Register
  <2> QED BY <2>5, <2>6
<1> QED BY <1>3, <1>4

(***************************************************************************)
(* Nothing that is still to be read is destroyed, for every graph and      *)
(* every register file.                                                    *)
(***************************************************************************)
THEOREM LiveValuesKeepTheirHomes == Spec => []NothingLiveIsDestroyed
<1>1. RegAllocInvariant => NothingLiveIsDestroyed
  BY LiveValuesSurvive DEF NothingLiveIsDestroyed
<1> QED BY <1>1, PassesInvariant, PTL
-----------------------------------------------------------------------------
(***************************************************************************)
(* The frame the allocator's slots lie in.  Nothing in it overlaps, for    *)
(* any number of saved registers, spill slots, objects of any size and     *)
(* pinned variables.                                                       *)
(*                                                                         *)
(* The inductive invariant says that everything laid out so far is above   *)
(* the last slot reserved: what comes next is below all of it.             *)
(***************************************************************************)
CONSTANT Variables

VARIABLES toPlace, toPin

Frame == INSTANCE FrameLayout

-----------------------------------------------------------------------------
FrameShape ==
    /\ saved \in Nat /\ spilled \in Nat /\ slots \in Nat
    /\ spilled <= slots
    /\ sizes \in [DOMAIN sizes -> Nat]
    /\ toPlace \in Seq(DOMAIN sizes) /\ toPin \in Seq(Variables)
    /\ objects \in [DOMAIN objects -> Int] /\ DOMAIN objects \subseteq DOMAIN sizes
    /\ pinned \in [DOMAIN pinned -> Int]

\* What waits for a place has none, and waits once.
FrameFresh ==
    /\ Frame!AreDistinct(toPlace) /\ \A i \in DOMAIN toPlace : toPlace[i] \notin DOMAIN objects
    /\ Frame!AreDistinct(toPin)   /\ \A i \in DOMAIN toPin   : toPin[i] \notin DOMAIN pinned

FramePacked ==
    \A r \in Frame!Residents :
       /\ Frame!First(r) \in Int /\ Frame!Bytes(r) \in Nat
       /\ Frame!First(r) % Frame!WordSize = 0
       /\ Frame!OffsetOf(slots) <= Frame!First(r)
       /\ Frame!First(r) + Frame!Bytes(r) <= -(saved * Frame!WordSize)

FrameInvariant == FrameShape /\ FrameFresh /\ FramePacked /\ Frame!NeverMeet

-----------------------------------------------------------------------------
\* As many whole slots as an object needs hold all of it (div_ceil).
LEMMA SlotsHoldTheObject ==
    ASSUME NEW bytes \in Nat
    PROVE  Frame!SlotsFor(bytes) \in Nat /\ bytes <= Frame!SlotsFor(bytes) * Frame!WordSize
BY DEF Frame!SlotsFor, Frame!WordSize

\* align_up answers an aligned value that is not less.
LEMMA AlignUpAligns ==
    ASSUME NEW value \in Nat
    PROVE  /\ Frame!AlignUp(value) \in Nat /\ value <= Frame!AlignUp(value)
           /\ Frame!AlignUp(value) % Frame!StackAlignment = 0
BY DEF Frame!AlignUp, Frame!StackAlignment

\* The offset of a slot is aligned to a word (offset_of).
LEMMA OffsetsAreAligned ==
    ASSUME saved \in Nat, NEW slot \in Nat
    PROVE  Frame!OffsetOf(slot) \in Int /\ Frame!OffsetOf(slot) % Frame!WordSize = 0
BY DEF Frame!OffsetOf, Frame!WordSize

-----------------------------------------------------------------------------
\* When plan begins only spill slots are laid out, each below the one before
\* (FrameLayout::plan, up to the loops).
LEMMA StartsPacked ==
    Frame!Init => FrameInvariant
<1> SUFFICES ASSUME NEW registers \in Nat, NEW spills \in Nat, NEW known \in SUBSET Variables,
                    NEW places \in Seq(Variables), NEW pins \in Seq(Variables),
                    NEW bytes \in [known -> Nat],
                    \A i \in DOMAIN places : places[i] \in known,
                    Frame!AreDistinct(places), Frame!AreDistinct(pins),
                    Frame!Starts(registers, spills, bytes, places, pins)
             PROVE  FrameInvariant
  BY DEF Frame!Init
<1>1. FrameShape
  <2>1. places \in Seq(known)
    BY DEF Frame!AreDistinct
  <2>2. DOMAIN sizes = known
    BY DEF Frame!Starts
  <2>. QED  BY <2>1, <2>2 DEF Frame!Starts, FrameShape
<1>2. FrameFresh
  BY DEF Frame!Starts, FrameFresh
<1>3. \A r \in Frame!Residents : \E n \in 1 .. spilled : r = <<"spill", n>>
  BY DEF Frame!Starts, Frame!Residents
<1>4. \A n \in 1 .. spilled : Frame!First(<<"spill", n>>) = Frame!OffsetOf(n) /\ Frame!Bytes(<<"spill", n>>) = Frame!WordSize
  BY DEF Frame!First, Frame!Bytes
<1>5. FramePacked
  <2>. SUFFICES ASSUME NEW n \in 1 .. spilled
                PROVE  /\ Frame!OffsetOf(n) \in Int /\ Frame!WordSize \in Nat
                       /\ Frame!OffsetOf(n) % Frame!WordSize = 0
                       /\ Frame!OffsetOf(slots) <= Frame!OffsetOf(n)
                       /\ Frame!OffsetOf(n) + Frame!WordSize <= -(saved * Frame!WordSize)
    BY <1>3, <1>4 DEF FramePacked
  <2>1. Frame!OffsetOf(n) \in Int /\ Frame!OffsetOf(n) % Frame!WordSize = 0
    BY <1>1, OffsetsAreAligned, SMTT(30), Zenon DEF FrameShape
  <2>2. Frame!OffsetOf(slots) <= Frame!OffsetOf(n) /\ Frame!OffsetOf(n) + Frame!WordSize <= -(saved * Frame!WordSize)
    <3>1. saved \in Nat /\ slots \in Nat /\ n \in Nat /\ 1 <= n /\ n <= slots
      BY <1>1 DEF FrameShape
    <3>. QED  BY <3>1 DEF Frame!OffsetOf, Frame!WordSize
  <2>. QED  BY <2>1, <2>2 DEF Frame!WordSize
<1>6. Frame!NeverMeet
  <2>. SUFFICES ASSUME NEW n \in 1 .. spilled, NEW m \in 1 .. spilled, n # m
                PROVE  \/ Frame!OffsetOf(n) + Frame!WordSize <= Frame!OffsetOf(m)
                       \/ Frame!OffsetOf(m) + Frame!WordSize <= Frame!OffsetOf(n)
    BY <1>3, <1>4, SMTT(30) DEF Frame!NeverMeet
  <2>1. saved \in Nat /\ n \in Nat /\ m \in Nat /\ (n + 1 <= m \/ m + 1 <= n)
    BY <1>1 DEF FrameShape
  <2>. QED  BY <2>1 DEF Frame!OffsetOf, Frame!WordSize
<1>. QED  BY <1>1, <1>2, <1>5, <1>6 DEF FrameInvariant

-----------------------------------------------------------------------------
\* What is put below the last slot reserved, and is no larger than the slots
\* reserved for it, meets nothing (the two loops of FrameLayout::plan).
LEMMA BelowEverything ==
    ASSUME FrameInvariant, slots' \in Nat, slots <= slots', saved' = saved,
           NEW new, Frame!Residents' = Frame!Residents \cup {new},
           \A r \in Frame!Residents : Frame!First(r)' = Frame!First(r) /\ Frame!Bytes(r)' = Frame!Bytes(r),
           Frame!First(new)' = Frame!OffsetOf(slots'), Frame!Bytes(new)' \in Nat,
           Frame!Bytes(new)' <= (slots' - slots) * Frame!WordSize
    PROVE  FramePacked' /\ Frame!NeverMeet'
<1>. USE DEF FrameInvariant, FrameShape
<1>1. Frame!OffsetOf(slots)' = Frame!OffsetOf(slots')
  BY DEF Frame!OffsetOf
<1>2. /\ Frame!OffsetOf(slots') \in Int /\ Frame!OffsetOf(slots) \in Int
      /\ Frame!OffsetOf(slots') % Frame!WordSize = 0
      /\ Frame!OffsetOf(slots') <= Frame!OffsetOf(slots)
  <2>1. Frame!OffsetOf(slots') \in Int /\ Frame!OffsetOf(slots') % Frame!WordSize = 0
    BY OffsetsAreAligned
  <2>2. Frame!OffsetOf(slots) \in Int
    BY OffsetsAreAligned
  <2>3. Frame!OffsetOf(slots') <= Frame!OffsetOf(slots)
    BY SMTT(30) DEF Frame!OffsetOf, Frame!WordSize
  <2>. QED  BY <2>1, <2>2, <2>3
<1>3. Frame!First(new)' + Frame!Bytes(new)' <= Frame!OffsetOf(slots)
  <2>1. Frame!OffsetOf(slots') + (slots' - slots) * Frame!WordSize = Frame!OffsetOf(slots)
    BY SMTT(30) DEF Frame!OffsetOf, Frame!WordSize
  <2>. QED  BY <2>1, <1>2, SMTT(30) DEF Frame!WordSize
<1>4. Frame!OffsetOf(slots) <= -(saved * Frame!WordSize)
  BY SMTT(30) DEF Frame!OffsetOf, Frame!WordSize
<1>5. FramePacked'
  <2>. SUFFICES ASSUME NEW r \in Frame!Residents'
                PROVE  /\ Frame!First(r)' \in Int /\ Frame!Bytes(r)' \in Nat
                       /\ Frame!First(r)' % Frame!WordSize = 0
                       /\ Frame!OffsetOf(slots') <= Frame!First(r)'
                       /\ Frame!First(r)' + Frame!Bytes(r)' <= -(saved * Frame!WordSize)
    BY <1>1 DEF FramePacked, Frame!WordSize
  <2>1. CASE r = new
    BY <2>1, <1>2, <1>3, <1>4, SMTT(30) DEF Frame!WordSize
  <2>2. CASE r \in Frame!Residents
    <3>1. /\ Frame!First(r) \in Int /\ Frame!Bytes(r) \in Nat /\ Frame!First(r) % Frame!WordSize = 0
          /\ Frame!OffsetOf(slots) <= Frame!First(r) /\ Frame!First(r) + Frame!Bytes(r) <= -(saved * Frame!WordSize)
      BY <2>2 DEF FramePacked
    <3>2. Frame!First(r)' = Frame!First(r) /\ Frame!Bytes(r)' = Frame!Bytes(r)
      BY <2>2
    <3>3. Frame!OffsetOf(slots') <= Frame!First(r)
      BY <3>1, <1>2
    <3>. QED  BY <3>1, <3>2, <3>3
  <2>. QED  BY <2>1, <2>2
<1>6. Frame!NeverMeet'
  <2>. SUFFICES ASSUME NEW r \in Frame!Residents', NEW s \in Frame!Residents', r # s
                PROVE  \/ Frame!First(r)' + Frame!Bytes(r)' <= Frame!First(s)'
                       \/ Frame!First(s)' + Frame!Bytes(s)' <= Frame!First(r)'
    BY DEF Frame!NeverMeet
  <2>1. \A o \in Frame!Residents : Frame!First(new)' + Frame!Bytes(new)' <= Frame!First(o)'
    <3>. SUFFICES ASSUME NEW o \in Frame!Residents PROVE Frame!First(new)' + Frame!Bytes(new)' <= Frame!First(o)
      OBVIOUS
    <3>1. Frame!First(o) \in Int /\ Frame!OffsetOf(slots) <= Frame!First(o)
      BY DEF FramePacked
    <3>. QED  BY <3>1, <1>2, <1>3
  <2>2. CASE r = new
    BY <2>1, <2>2
  <2>3. CASE s = new
    BY <2>1, <2>3
  <2>4. CASE r \in Frame!Residents /\ s \in Frame!Residents
    BY <2>4 DEF Frame!NeverMeet
  <2>. QED  BY <2>2, <2>3, <2>4
<1>. QED  BY <1>5, <1>6

-----------------------------------------------------------------------------
\* What is left of a sequence without repetitions has none, and not its head.
LEMMA TailIsFresh ==
    ASSUME NEW S, NEW s \in Seq(S), s # <<>>, Frame!AreDistinct(s)
    PROVE  /\ Head(s) \in S /\ Tail(s) \in Seq(S)
           /\ Frame!AreDistinct(Tail(s))
           /\ \A i \in DOMAIN Tail(s) : Tail(s)[i] # Head(s) /\ \E j \in DOMAIN s : s[j] = Tail(s)[i]
<1>1. Head(s) \in S /\ Tail(s) \in Seq(S) /\ Len(s) \in Nat /\ 1 \in DOMAIN s /\ Head(s) = s[1]
  OBVIOUS
<1>2. \A i \in DOMAIN Tail(s) : i + 1 \in DOMAIN s /\ Tail(s)[i] = s[i + 1] /\ i \in Nat /\ i # 0
  OBVIOUS
<1>3. Frame!AreDistinct(Tail(s))
  <2>. SUFFICES ASSUME NEW i \in DOMAIN Tail(s), NEW j \in DOMAIN Tail(s), Tail(s)[i] = Tail(s)[j]
                PROVE  i = j
    BY DEF Frame!AreDistinct
  <2>1. i + 1 = j + 1
    BY <1>2 DEF Frame!AreDistinct
  <2>. QED  BY <2>1, <1>2
<1>4. ASSUME NEW i \in DOMAIN Tail(s)
      PROVE  Tail(s)[i] # Head(s)
  <2>1. i + 1 # 1
    BY <1>2
  <2>. QED  BY <2>1, <1>1, <1>2 DEF Frame!AreDistinct
<1>. QED  BY <1>1, <1>2, <1>3, <1>4

-----------------------------------------------------------------------------
\* An object goes below all that is there (plan's loop over the objects).
LEMMA ReservingKeepsTheInvariant ==
    FrameInvariant /\ Frame!ReserveObject => FrameInvariant'
<1>. SUFFICES ASSUME FrameInvariant, Frame!ReserveObject
              PROVE  FrameInvariant'
  OBVIOUS
<1>. PICK v : v = Head(toPlace)
  OBVIOUS
<1>. DEFINE new == <<"object", v>>
            n == Frame!SlotsFor(sizes[v])
<1>0. /\ saved' = saved /\ spilled' = spilled /\ sizes' = sizes /\ toPin' = toPin /\ pinned' = pinned
      /\ slots' = slots + n /\ toPlace' = Tail(toPlace)
      /\ objects' = Frame!Put(objects, v, Frame!OffsetOf(slots'))
  BY DEF Frame!ReserveObject
<1>1. /\ v \in DOMAIN sizes /\ Tail(toPlace) \in Seq(DOMAIN sizes) /\ Frame!AreDistinct(Tail(toPlace))
      /\ \A i \in DOMAIN Tail(toPlace) :
            Tail(toPlace)[i] # v /\ \E j \in DOMAIN toPlace : toPlace[j] = Tail(toPlace)[i]
  BY TailIsFresh DEF FrameInvariant, FrameShape, FrameFresh, Frame!ReserveObject
<1>2. v \notin DOMAIN objects
  <2>1. 1 \in DOMAIN toPlace /\ v = toPlace[1]
    BY DEF FrameInvariant, FrameShape, Frame!ReserveObject
  <2>. QED  BY <2>1 DEF FrameInvariant, FrameFresh
<1>3. sizes[v] \in Nat /\ n \in Nat /\ sizes[v] <= n * Frame!WordSize
  BY <1>1, SlotsHoldTheObject DEF FrameInvariant, FrameShape
<1>4. slots' \in Nat /\ slots <= slots' /\ slots' - slots = n
  BY <1>0, <1>3 DEF FrameInvariant, FrameShape
<1>5. Frame!OffsetOf(slots') \in Int
  BY <1>4, OffsetsAreAligned DEF FrameInvariant, FrameShape
<1>6. /\ objects' \in [DOMAIN objects \cup {v} -> Int] /\ DOMAIN objects' = DOMAIN objects \cup {v}
      /\ objects'[v] = Frame!OffsetOf(slots')
      /\ \A o \in DOMAIN objects : objects'[o] = objects[o]
  <2>1. objects \in [DOMAIN objects -> Int]
    BY DEF FrameInvariant, FrameShape
  <2>2. objects' = [o \in DOMAIN objects \cup {v} |-> IF o = v THEN Frame!OffsetOf(slots') ELSE objects[o]]
    BY <1>0 DEF Frame!Put
  <2>. QED  BY <2>1, <2>2, <1>2, <1>5
<1>7. FrameShape'
  BY <1>0, <1>1, <1>4, <1>6, SMTT(30) DEF FrameInvariant, FrameShape
<1>8. FrameFresh'
  BY <1>0, <1>1, <1>6 DEF FrameInvariant, FrameFresh
<1>9. Frame!Residents' = Frame!Residents \cup {new}
  BY <1>0, <1>6 DEF Frame!Residents
<1>10. \A r \in Frame!Residents : Frame!First(r)' = Frame!First(r) /\ Frame!Bytes(r)' = Frame!Bytes(r)
  <2>. SUFFICES ASSUME NEW r \in Frame!Residents
                PROVE  Frame!First(r)' = Frame!First(r) /\ Frame!Bytes(r)' = Frame!Bytes(r)
    OBVIOUS
  <2>1. Frame!Bytes(r)' = Frame!Bytes(r)
    BY <1>0 DEF Frame!Bytes
  <2>2. CASE r[1] = "object"
    <3>1. r[2] \in DOMAIN objects
      BY <2>2 DEF Frame!Residents
    <3>. QED  BY <2>1, <2>2, <3>1, <1>6 DEF Frame!First
  <2>3. CASE r[1] # "object"
    <3>1. Frame!OffsetOf(r[2])' = Frame!OffsetOf(r[2])
      BY <1>0 DEF Frame!OffsetOf
    <3>2. r[1] = "spill" \/ r[1] = "pinned"
      BY <2>3 DEF Frame!Residents
    <3>. QED  BY <2>1, <3>1, <3>2, <1>0 DEF Frame!First
  <2>. QED  BY <2>2, <2>3
<1>11. Frame!First(new)' = Frame!OffsetOf(slots') /\ Frame!Bytes(new)' = sizes[v]
  BY <1>0, <1>6 DEF Frame!First, Frame!Bytes
<1>12. FramePacked' /\ Frame!NeverMeet'
  BY <1>0, <1>3, <1>4, <1>9, <1>10, <1>11, BelowEverything
<1>. QED  BY <1>7, <1>8, <1>12 DEF FrameInvariant

\* So does the slot of a variable whose address is taken (plan's second loop).
LEMMA PinningKeepsTheInvariant ==
    FrameInvariant /\ Frame!PinVariable => FrameInvariant'
<1>. SUFFICES ASSUME FrameInvariant, Frame!PinVariable
              PROVE  FrameInvariant'
  OBVIOUS
<1>. PICK v : v = Head(toPin)
  OBVIOUS
<1>. DEFINE new == <<"pinned", v>>
<1>0. /\ saved' = saved /\ spilled' = spilled /\ sizes' = sizes /\ toPlace' = toPlace
      /\ objects' = objects /\ slots' = slots + 1 /\ toPin' = Tail(toPin)
      /\ pinned' = Frame!Put(pinned, v, Frame!OffsetOf(slots'))
  BY DEF Frame!PinVariable
<1>1. /\ v \in Variables /\ Tail(toPin) \in Seq(Variables) /\ Frame!AreDistinct(Tail(toPin))
      /\ \A i \in DOMAIN Tail(toPin) :
            Tail(toPin)[i] # v /\ \E j \in DOMAIN toPin : toPin[j] = Tail(toPin)[i]
  BY TailIsFresh DEF FrameInvariant, FrameShape, FrameFresh, Frame!PinVariable
<1>2. v \notin DOMAIN pinned
  <2>1. 1 \in DOMAIN toPin /\ v = toPin[1]
    BY DEF FrameInvariant, FrameShape, Frame!PinVariable
  <2>. QED  BY <2>1 DEF FrameInvariant, FrameFresh
<1>3. slots' \in Nat /\ slots <= slots' /\ slots' - slots = 1
  BY <1>0 DEF FrameInvariant, FrameShape
<1>4. Frame!OffsetOf(slots') \in Int
  BY <1>3, OffsetsAreAligned DEF FrameInvariant, FrameShape
<1>5. /\ pinned' \in [DOMAIN pinned \cup {v} -> Int] /\ DOMAIN pinned' = DOMAIN pinned \cup {v}
      /\ pinned'[v] = Frame!OffsetOf(slots')
      /\ \A o \in DOMAIN pinned : pinned'[o] = pinned[o]
  <2>1. pinned \in [DOMAIN pinned -> Int]
    BY DEF FrameInvariant, FrameShape
  <2>2. pinned' = [o \in DOMAIN pinned \cup {v} |-> IF o = v THEN Frame!OffsetOf(slots') ELSE pinned[o]]
    BY <1>0 DEF Frame!Put
  <2>. QED  BY <2>1, <2>2, <1>2, <1>4
<1>6. FrameShape'
  BY <1>0, <1>1, <1>3, <1>5 DEF FrameInvariant, FrameShape
<1>7. FrameFresh'
  BY <1>0, <1>1, <1>5 DEF FrameInvariant, FrameFresh
<1>8. Frame!Residents' = Frame!Residents \cup {new}
  BY <1>0, <1>5 DEF Frame!Residents
<1>9. \A r \in Frame!Residents : Frame!First(r)' = Frame!First(r) /\ Frame!Bytes(r)' = Frame!Bytes(r)
  <2>. SUFFICES ASSUME NEW r \in Frame!Residents
                PROVE  Frame!First(r)' = Frame!First(r) /\ Frame!Bytes(r)' = Frame!Bytes(r)
    OBVIOUS
  <2>1. Frame!Bytes(r)' = Frame!Bytes(r)
    BY <1>0 DEF Frame!Bytes
  <2>2. CASE r[1] = "pinned"
    <3>1. r[2] \in DOMAIN pinned
      BY <2>2 DEF Frame!Residents
    <3>. QED  BY <2>1, <2>2, <3>1, <1>5 DEF Frame!First
  <2>3. CASE r[1] # "pinned"
    <3>1. Frame!OffsetOf(r[2])' = Frame!OffsetOf(r[2])
      BY <1>0 DEF Frame!OffsetOf
    <3>2. r[1] = "spill" \/ r[1] = "object"
      BY <2>3 DEF Frame!Residents
    <3>. QED  BY <2>1, <3>1, <3>2, <1>0 DEF Frame!First
  <2>. QED  BY <2>2, <2>3
<1>10. Frame!First(new)' = Frame!OffsetOf(slots') /\ Frame!Bytes(new)' = Frame!WordSize
  BY <1>0, <1>5 DEF Frame!First, Frame!Bytes
<1>11. Frame!WordSize \in Nat /\ Frame!WordSize <= (slots' - slots) * Frame!WordSize
  BY <1>3 DEF Frame!WordSize
<1>12. FramePacked' /\ Frame!NeverMeet'
  BY <1>0, <1>3, <1>8, <1>9, <1>10, <1>11, BelowEverything
<1>. QED  BY <1>6, <1>7, <1>12 DEF FrameInvariant

-----------------------------------------------------------------------------
\* What is packed lies in the frame, and the frame is aligned (stack_adjust).
LEMMA PackedIsSound ==
    FrameInvariant => Frame!FrameIsSound
<1>. SUFFICES ASSUME FrameInvariant PROVE Frame!FrameIsSound
  OBVIOUS
<1>. DEFINE occupied == saved * Frame!WordSize + slots * Frame!WordSize
<1>1. occupied \in Nat /\ saved * Frame!WordSize \in Nat
  BY DEF FrameInvariant, FrameShape, Frame!WordSize
<1>2. Frame!AlignUp(occupied) \in Nat /\ occupied <= Frame!AlignUp(occupied) /\ Frame!AlignUp(occupied) % Frame!StackAlignment = 0
  BY <1>1, AlignUpAligns
<1>3. saved * Frame!WordSize + Frame!StackAdjust = Frame!AlignUp(occupied)
  <2>1. Frame!StackAdjust = Frame!AlignUp(occupied) - saved * Frame!WordSize
    BY DEF Frame!StackAdjust
  <2>. QED  BY <2>1, <1>1, <1>2
<1>4. Frame!OffsetOf(slots) = -occupied
  BY DEF Frame!OffsetOf
<1>5. Frame!LieInTheFrame
  <2>. SUFFICES ASSUME NEW r \in Frame!Residents
                PROVE  /\ Frame!First(r) % Frame!WordSize = 0
                       /\ -Frame!AlignUp(occupied) <= Frame!First(r)
                       /\ Frame!First(r) + Frame!Bytes(r) <= -(saved * Frame!WordSize)
    BY <1>3 DEF Frame!LieInTheFrame
  <2>1. /\ Frame!First(r) \in Int /\ Frame!First(r) % Frame!WordSize = 0 /\ -occupied <= Frame!First(r)
        /\ Frame!First(r) + Frame!Bytes(r) <= -(saved * Frame!WordSize)
    BY <1>4 DEF FrameInvariant, FramePacked
  <2>. QED  BY <2>1, <1>1, <1>2
<1>. QED  BY <1>2, <1>3, <1>5 DEF Frame!FrameIsSound, FrameInvariant

-----------------------------------------------------------------------------
\* No two things in a frame share a byte, each is aligned to a word between
\* the saved registers and the stack pointer, and the stack pointer is aligned
\* as a call wants it, whatever the function needs (FrameLayout::plan).
THEOREM FramesAreSound == Frame!Spec => []FrameIsSound
<1>1. Frame!Init => FrameInvariant
  BY StartsPacked
<1>2. FrameInvariant /\ [Frame!Next]_Frame!vars => FrameInvariant'
  <2>. SUFFICES ASSUME FrameInvariant, [Frame!Next]_Frame!vars PROVE FrameInvariant'
    OBVIOUS
  <2>1. CASE Frame!ReserveObject
    BY <2>1, ReservingKeepsTheInvariant
  <2>2. CASE Frame!PinVariable
    BY <2>2, PinningKeepsTheInvariant
  <2>3. CASE UNCHANGED Frame!vars
    BY <2>3 DEF Frame!vars, FrameInvariant, FrameShape, FrameFresh, FramePacked,
                Frame!NeverMeet, Frame!Residents, Frame!First, Frame!Bytes,
                Frame!OffsetOf
  <2>. QED  BY <2>1, <2>2, <2>3 DEF Frame!Next
<1>3. FrameInvariant => FrameIsSound
  <2>1. Frame!FrameIsSound => FrameIsSound
    BY Zenon DEF FrameIsSound, NeverMeet, LieInTheFrame, Residents, First, Bytes, OffsetOf,
                 StackAdjust, AlignUp, WordSize, StackAlignment,
                 Frame!FrameIsSound, Frame!NeverMeet, Frame!LieInTheFrame, Frame!Residents,
                 Frame!First, Frame!Bytes, Frame!OffsetOf, Frame!StackAdjust, Frame!AlignUp,
                 Frame!WordSize, Frame!StackAlignment
  <2>. QED  BY <2>1, PackedIsSound
<1>. QED  BY <1>1, <1>2, <1>3, PTL DEF Frame!Spec
=============================================================================
