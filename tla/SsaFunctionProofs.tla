------------------------- MODULE SsaFunctionProofs --------------------------
(***************************************************************************)
(* What follows from the shape of a function: what its parts are, what     *)
(* the blocks are that can be reached around another one, and how a run    *)
(* goes from state to state.  Then what the edits of ssa/mod.rs keep of    *)
(* what the verifier demands: reading words in place of values, making a   *)
(* jump of a branch, and deleting the blocks nothing reaches.  Last what   *)
(* they keep of the runs: the same states, under the numbers blocks have;  *)
(* and where a value is read, and what moves when blocks are deleted.      *)
(***************************************************************************)
EXTENDS SsaFunction, FiniteLemmas

(***************************************************************************)
(* The parts of a function, one type after the other.                      *)
(***************************************************************************)
LEMMA BlockTypes ==
    ASSUME NEW f, IsFunction(f)
    PROVE  /\ Len(f.blocks) \in Nat /\ BlockIds(f) = 1 .. Len(f.blocks) /\ 1 \in BlockIds(f)
           /\ \A b \in BlockIds(f) : f.blocks[b] \in BlocksAmong(BlockIds(f))
<1>1. f.blocks \in Seq(BlocksAmong(BlockIds(f))) /\ 1 \in BlockIds(f)
  BY DEF IsFunction
<1>2. PICK S : S = BlocksAmong(BlockIds(f))
  OBVIOUS
<1>3. f.blocks \in Seq(S)
  BY <1>1, <1>2
<1>4. Len(f.blocks) \in Nat /\ DOMAIN f.blocks = 1 .. Len(f.blocks)
      /\ \A b \in DOMAIN f.blocks : f.blocks[b] \in S
  BY <1>3
<1> QED BY <1>1, <1>2, <1>4 DEF BlockIds

LEMMA PartTypes ==
    ASSUME NEW f, IsFunction(f), NEW b \in BlockIds(f)
    PROVE  /\ f.blocks[b].preds \in Seq(BlockIds(f))
           /\ f.blocks[b].phis \in Seq([dest : Values, args : Seq(Operands)])
           /\ f.blocks[b].insts \in Seq([dest : Values \cup {NoValue}, op : PureOps \cup EffectOps,
                                         args : Seq(Operands)])
           /\ f.blocks[b].term.kind \in {"jump", "branch", "return"}
           /\ f.blocks[b].term.to \in Seq(BlockIds(f))
           /\ f.blocks[b].term.args \in Seq(Operands)
<1>1. PICK ids : ids = BlockIds(f)
  OBVIOUS
<1>2. f.blocks[b] \in BlocksAmong(ids)
  BY <1>1, BlockTypes
<1>3. /\ f.blocks[b].preds \in Seq(ids)
      /\ f.blocks[b].phis \in Seq([dest : Values, args : Seq(Operands)])
      /\ f.blocks[b].insts \in Seq([dest : Values \cup {NoValue}, op : PureOps \cup EffectOps,
                                    args : Seq(Operands)])
      /\ f.blocks[b].term \in [kind : {"jump", "branch", "return"}, to : Seq(ids),
                               args : Seq(Operands)]
  BY <1>2 DEF BlocksAmong
<1> QED BY <1>1, <1>3

LEMMA PhiTypes ==
    ASSUME NEW f, IsFunction(f), NEW b \in BlockIds(f)
    PROVE  /\ Len(f.blocks[b].phis) \in Nat
           /\ DOMAIN f.blocks[b].phis = 1 .. Len(f.blocks[b].phis)
           /\ \A p \in DOMAIN f.blocks[b].phis :
                 /\ f.blocks[b].phis[p].dest \in Values
                 /\ f.blocks[b].phis[p].args \in Seq(Operands)
<1>1. PICK S : S = [dest : Values, args : Seq(Operands)]
  OBVIOUS
<1>2. PICK phis : phis = f.blocks[b].phis
  OBVIOUS
<1>3. phis \in Seq(S)
  BY <1>1, <1>2, PartTypes
<1>4. Len(phis) \in Nat /\ DOMAIN phis = 1 .. Len(phis) /\ \A p \in DOMAIN phis : phis[p] \in S
  BY <1>3
<1>5. \A p \in DOMAIN phis : phis[p].dest \in Values /\ phis[p].args \in Seq(Operands)
  BY <1>1, <1>4
<1> QED BY <1>2, <1>4, <1>5

LEMMA InstTypes ==
    ASSUME NEW f, IsFunction(f), NEW b \in BlockIds(f)
    PROVE  /\ Len(f.blocks[b].insts) \in Nat
           /\ DOMAIN f.blocks[b].insts = 1 .. Len(f.blocks[b].insts)
           /\ \A i \in DOMAIN f.blocks[b].insts :
                 /\ f.blocks[b].insts[i].dest \in Values \cup {NoValue}
                 /\ f.blocks[b].insts[i].op \in PureOps \cup EffectOps
                 /\ f.blocks[b].insts[i].args \in Seq(Operands)
                 /\ HasItsOperands(f.blocks[b].insts[i])
<1>1. PICK S : S = [dest : Values \cup {NoValue}, op : PureOps \cup EffectOps, args : Seq(Operands)]
  OBVIOUS
<1>2. PICK insts : insts = f.blocks[b].insts
  OBVIOUS
<1>3. insts \in Seq(S)
  BY <1>1, <1>2, PartTypes
<1>4. Len(insts) \in Nat /\ DOMAIN insts = 1 .. Len(insts) /\ \A i \in DOMAIN insts : insts[i] \in S
  BY <1>3
<1>5. \A i \in DOMAIN insts :
         /\ insts[i].dest \in Values \cup {NoValue}
         /\ insts[i].op \in PureOps \cup EffectOps
         /\ insts[i].args \in Seq(Operands)
  BY <1>1, <1>4
<1>6. \A i \in DOMAIN insts : HasItsOperands(insts[i])
  BY <1>2 DEF IsFunction
<1> QED BY <1>2, <1>4, <1>5, <1>6

-----------------------------------------------------------------------------
(***************************************************************************)
(* ReachableAvoiding unfolds: there are the sets its definition speaks of. *)
(***************************************************************************)
LEMMA AvoidingUnfolds ==
    ASSUME NEW f, Len(f.blocks) \in Nat, NEW avoided
    PROVE  \E within :
              /\ within[0] = {1} \ avoided
              /\ \A n \in 1 .. Len(f.blocks) :
                    within[n] = within[n - 1]
                                \cup ((UNION {ToSet(Successors(f, b)) :
                                      b \in within[n - 1]}) \ avoided)
              /\ ReachableAvoiding(f, avoided) = within[Len(f.blocks)]
<1> DEFINE Further(S) == S \cup ((UNION {ToSet(Successors(f, b)) : b \in S}) \ avoided)
           within[n \in 0 .. Len(f.blocks)] ==
              IF n = 0 THEN {1} \ avoided
              ELSE LET closer == within[n - 1]
                   IN  closer \cup ((UNION {ToSet(Successors(f, b)) : b \in closer}) \ avoided)
<1>1. PICK N \in Nat : N = Len(f.blocks)
  OBVIOUS
<1>2. PICK start : start = {1} \ avoided
  OBVIOUS
<1>3. \E g : g = [n \in 0 .. N |-> IF n = 0 THEN start ELSE Further(g[n - 1])]
  <2> HIDE DEF Further, within
  <2> DEFINE Reached(m) == \E g : g = [n \in 0 .. m |-> IF n = 0 THEN start ELSE Further(g[n - 1])]
             T == {m \in 0 .. N : Reached(m)}
  <2>1. 0 \in T
    <3>1. PICK g : g = [n \in 0 .. 0 |-> start]
      OBVIOUS
    <3>2. g = [n \in 0 .. 0 |-> IF n = 0 THEN start ELSE Further(g[n - 1])]
      BY <3>1
    <3>3. Reached(0)
      BY <3>2
    <3> QED BY <3>3
  <2>2. ASSUME NEW m \in 0 .. N - 1, m \in T PROVE m + 1 \in T
    <3>1. PICK g : g = [n \in 0 .. m |-> IF n = 0 THEN start ELSE Further(g[n - 1])]
      BY <2>2
    <3>2. PICK h : h = [n \in 0 .. m + 1 |-> IF n <= m THEN g[n] ELSE Further(g[m])]
      OBVIOUS
    <3>3. ASSUME NEW n \in 0 .. m + 1 PROVE h[n] = IF n = 0 THEN start ELSE Further(h[n - 1])
      <4>1. CASE n = 0
        BY <4>1, <3>1, <3>2
      <4>2. CASE n \in 1 .. m
        <5>1. h[n] = g[n] /\ h[n - 1] = g[n - 1] /\ g[n] = Further(g[n - 1])
          BY <4>2, <3>1, <3>2
        <5> QED BY <4>2, <5>1
      <4>3. CASE n = m + 1
        <5>1. h[n] = Further(g[m]) /\ n - 1 = m /\ h[m] = g[m] /\ n # 0
          BY <4>3, <3>2
        <5> QED BY <5>1
      <4> QED BY <4>1, <4>2, <4>3
    <3>4. h = [n \in 0 .. m + 1 |-> IF n = 0 THEN start ELSE Further(h[n - 1])]
      BY <3>2, <3>3
    <3>5. Reached(m + 1)
      BY <3>4
    <3>6. m + 1 \in 0 .. N
      OBVIOUS
    <3> QED BY <3>5, <3>6
  <2>3. N \in T
    <3>1. \A k \in 0 .. N - 1 : k \in T => k + 1 \in T
      BY <2>2
    <3> HIDE DEF T
    <3>2. \A k \in 0 .. N : k \in T
      BY <2>1, <3>1, UpToBound
    <3> QED BY <3>2
  <2> QED BY <2>3
<1>4. PICK g : g = [n \in 0 .. N |-> IF n = 0 THEN start ELSE Further(g[n - 1])]
  BY <1>3
<1>5. g = [n \in 0 .. Len(f.blocks) |->
              IF n = 0 THEN {1} \ avoided
              ELSE LET closer == g[n - 1]
                   IN  closer \cup ((UNION {ToSet(Successors(f, b)) : b \in closer}) \ avoided)]
  BY <1>1, <1>2, <1>4
<1>6. within = [n \in 0 .. Len(f.blocks) |->
                  IF n = 0 THEN {1} \ avoided
                  ELSE LET closer == within[n - 1]
                       IN  closer \cup ((UNION {ToSet(Successors(f, b)) : b \in closer}) \ avoided)]
  BY <1>5
<1>7. ReachableAvoiding(f, avoided) = within[Len(f.blocks)]
  BY DEF ReachableAvoiding
<1>8. PICK w : w = within
  OBVIOUS
<1>9. w = [n \in 0 .. N |-> IF n = 0 THEN start ELSE Further(w[n - 1])]
  BY <1>1, <1>2, <1>6, <1>8
<1>10. w[0] = start /\ \A n \in 1 .. N : w[n] = Further(w[n - 1])
  <2> HIDE DEF Further, within
  <2>1. w[0] = start
    BY <1>9
  <2>2. ASSUME NEW n \in 1 .. N PROVE w[n] = Further(w[n - 1])
    <3>1. n \in 0 .. N /\ n # 0
      OBVIOUS
    <3> QED BY <3>1, <1>9
  <2> QED BY <2>1, <2>2
<1>11. w[0] = {1} \ avoided
  BY <1>10, <1>2
<1>12. \A n \in 1 .. Len(f.blocks) :
          w[n] = w[n - 1] \cup ((UNION {ToSet(Successors(f, b)) : b \in w[n - 1]}) \ avoided)
  BY <1>10, <1>1
<1>13. ReachableAvoiding(f, avoided) = w[Len(f.blocks)]
  BY <1>7, <1>8
<1> QED BY <1>11, <1>12, <1>13

(***************************************************************************)
(* What can be reached around some blocks is closed under edges: the       *)
(* rounds of ReachableAvoiding reach a new block each or no more at all,   *)
(* and there are as many rounds as blocks.                                 *)
(***************************************************************************)
LEMMA AvoidingFacts ==
    ASSUME NEW f, IsFunction(f), NEW avoided
    PROVE  /\ 1 \notin avoided => 1 \in ReachableAvoiding(f, avoided)
           /\ ReachableAvoiding(f, avoided) \subseteq BlockIds(f) \ avoided
           /\ \A b \in ReachableAvoiding(f, avoided) : \A c \in ToSet(Successors(f, b)) :
                 c \notin avoided => c \in ReachableAvoiding(f, avoided)
<1> DEFINE Ahead(S) == (UNION {ToSet(Successors(f, b)) : b \in S}) \ avoided
           Closed(S) == Ahead(S) \subseteq S
<1>1. PICK N \in Nat : N = Len(f.blocks)
  BY BlockTypes
<1>2. PICK w : /\ w[0] = {1} \ avoided
               /\ \A n \in 1 .. N : w[n] = w[n - 1] \cup Ahead(w[n - 1])
               /\ ReachableAvoiding(f, avoided) = w[N]
  <2>1. PICK w : /\ w[0] = {1} \ avoided
                 /\ \A n \in 1 .. Len(f.blocks) :
                       w[n] = w[n - 1]
                              \cup ((UNION {ToSet(Successors(f, b)) : b \in w[n - 1]}) \ avoided)
                 /\ ReachableAvoiding(f, avoided) = w[Len(f.blocks)]
    BY <1>1, AvoidingUnfolds
  <2>2. \A n \in 1 .. N : w[n] = w[n - 1] \cup Ahead(w[n - 1])
    BY <1>1, <2>1
  <2> HIDE DEF Ahead
  <2> QED BY <1>1, <2>1, <2>2
<1>3. BlockIds(f) = 1 .. N /\ 1 \in BlockIds(f) /\ IsFiniteSet(1 .. N) /\ Cardinality(1 .. N) = N
  <2>1. BlockIds(f) = 1 .. N /\ 1 \in BlockIds(f)
    BY <1>1, BlockTypes
  <2>2. IsFiniteSet(1 .. N) /\ Cardinality(1 .. N) = N
    BY FS_Interval
  <2> QED BY <2>1, <2>2
<1>4. \A S \in SUBSET BlockIds(f) : Ahead(S) \subseteq BlockIds(f) \ avoided
  <2>1. ASSUME NEW b \in BlockIds(f) PROVE ToSet(Successors(f, b)) \subseteq BlockIds(f)
    <3>1. Successors(f, b) \in Seq(BlockIds(f))
      BY PartTypes DEF Successors
    <3> QED BY <3>1 DEF ToSet
  <2> QED BY <2>1
<1>5. \A n \in 0 .. N : /\ w[n] \subseteq BlockIds(f) \ avoided /\ {1} \ avoided \subseteq w[n]
                        /\ Closed(w[n]) \/ Cardinality(w[n]) >= n + 1
  <2> HIDE DEF Ahead
  <2> DEFINE Good(n) == /\ w[n] \subseteq BlockIds(f) \ avoided /\ {1} \ avoided \subseteq w[n]
                        /\ Closed(w[n]) \/ Cardinality(w[n]) >= n + 1
             T == {n \in 0 .. N : Good(n)}
  <2>1. Good(0)
    <3>1. w[0] \subseteq BlockIds(f) \ avoided /\ {1} \ avoided \subseteq w[0]
      BY <1>2, <1>3
    <3>2. CASE 1 \in avoided
      <4>1. w[0] = {}
        BY <1>2, <3>2
      <4>2. Ahead({}) = {}
        BY DEF Ahead
      <4> QED BY <3>1, <4>1, <4>2
    <3>3. CASE 1 \notin avoided
      <4>1. w[0] = {1}
        BY <1>2, <3>3
      <4>2. Cardinality({1}) = 1
        BY FS_Singleton
      <4> QED BY <3>1, <4>1, <4>2
    <3> QED BY <3>2, <3>3
  <2>2. ASSUME NEW n \in 0 .. N - 1, Good(n) PROVE Good(n + 1)
    <3>1. PICK S, S2 : S = w[n] /\ S2 = w[n + 1]
      OBVIOUS
    <3>2. S2 = S \cup Ahead(S)
      <4>1. n + 1 \in 1 .. N /\ (n + 1) - 1 = n
        OBVIOUS
      <4>2. w[n + 1] = w[(n + 1) - 1] \cup Ahead(w[(n + 1) - 1])
        BY <1>2, <4>1
      <4> QED BY <3>1, <4>1, <4>2
    <3>3. S \subseteq BlockIds(f) \ avoided /\ {1} \ avoided \subseteq S
      BY <2>2, <3>1
    <3>4. S2 \subseteq BlockIds(f) \ avoided /\ {1} \ avoided \subseteq S2
      BY <3>2, <3>3, <1>4
    <3>5. CASE Closed(S)
      <4>1. S2 = S
        BY <3>2, <3>5
      <4> QED BY <3>1, <3>4, <3>5, <4>1
    <3>6. CASE ~Closed(S)
      <4>1. PICK c \in Ahead(S) : c \notin S
        BY <3>6
      <4>2. Cardinality(S) >= n + 1
        BY <2>2, <3>1, <3>6
      <4>3. IsFiniteSet(S) /\ IsFiniteSet(S2)
        BY <3>3, <3>4, <1>3, FS_Subset
      <4>4. IsFiniteSet(S \cup {c}) /\ Cardinality(S \cup {c}) = Cardinality(S) + 1
        BY <4>1, <4>3, FS_AddElement
      <4>5. S \cup {c} \subseteq S2
        BY <3>2, <4>1
      <4>6. Cardinality(S \cup {c}) <= Cardinality(S2)
        BY <4>3, <4>5, FS_Subset
      <4>7. Cardinality(S) \in Nat /\ Cardinality(S2) \in Nat
        BY <4>3, FS_CardinalityType
      <4>8. Cardinality(S2) >= (n + 1) + 1
        BY <4>2, <4>4, <4>6, <4>7
      <4> QED BY <3>1, <3>4, <4>8
    <3> QED BY <3>5, <3>6
  <2> HIDE DEF Good
  <2>3. 0 \in T /\ \A k \in 0 .. N - 1 : k \in T => k + 1 \in T
    BY <2>1, <2>2
  <2>4. \A n \in 0 .. N : n \in T
    <3> HIDE DEF T
    <3> QED BY <2>3, UpToBound
  <2> QED BY <2>4 DEF Good
<1>6. /\ w[N] \subseteq BlockIds(f) \ avoided /\ {1} \ avoided \subseteq w[N]
      /\ Closed(w[N]) \/ Cardinality(w[N]) >= N + 1
  <2>1. N \in 0 .. N
    OBVIOUS
  <2> HIDE DEF Closed
  <2> QED BY <1>5, <2>1
<1>7. Cardinality(w[N]) <= N /\ Cardinality(w[N]) \in Nat
  <2>1. IsFiniteSet(w[N])
    BY <1>3, <1>6, FS_Subset
  <2> QED BY <2>1, <1>3, <1>6, FS_Subset, FS_CardinalityType
<1>8. Closed(w[N])
  BY <1>6, <1>7
<1> QED BY <1>2, <1>6, <1>8

(***************************************************************************)
(* A block that dominates another one dominates what leads there, and only *)
(* the entry dominates the entry.                                          *)
(***************************************************************************)
LEMMA DominatesBefore ==
    ASSUME NEW f, IsFunction(f), NEW a \in BlockIds(f), NEW b \in BlockIds(f),
           NEW p \in BlockIds(f),
           Dominates(f, a, b), a # b, b \in ToSet(Successors(f, p))
    PROVE  Dominates(f, a, p)
  BY AvoidingFacts DEF Dominates

LEMMA NothingBeforeTheEntry ==
    ASSUME NEW f, IsFunction(f), NEW a, Dominates(f, a, 1)
    PROVE  a = 1
<1>1. 1 \notin {a} => 1 \in ReachableAvoiding(f, {a})
  BY AvoidingFacts, ZenonT(60)
<1> QED BY <1>1 DEF Dominates

-----------------------------------------------------------------------------
(***************************************************************************)
(* BlockDone unfolds: there are the states between the instructions.       *)
(***************************************************************************)
LEMMA BlockUnfolds ==
    ASSUME NEW f, NEW input, NEW s, Len(f.blocks[s.block].insts) \in Nat
    PROVE  \E after :
              /\ after[0] = PhisDone(f, s)
              /\ \A i \in 1 .. Len(f.blocks[s.block].insts) :
                    after[i] = Executed(f.blocks[s.block].insts[i], input, after[i - 1])
              /\ BlockDone(f, input, s) = after[Len(f.blocks[s.block].insts)]
<1> DEFINE Then(i, t) == Executed(f.blocks[s.block].insts[i], input, t)
           insts == f.blocks[s.block].insts
           after[i \in 0 .. Len(insts)] ==
              IF i = 0 THEN PhisDone(f, s) ELSE Executed(insts[i], input, after[i - 1])
<1>1. PICK N \in Nat : N = Len(insts)
  OBVIOUS
<1>2. PICK start : start = PhisDone(f, s)
  OBVIOUS
<1>3. \E g : g = [i \in 0 .. N |-> IF i = 0 THEN start ELSE Then(i, g[i - 1])]
  <2> HIDE DEF Then, after, insts
  <2> DEFINE Reached(m) == \E g : g = [i \in 0 .. m |-> IF i = 0 THEN start ELSE Then(i, g[i - 1])]
             T == {m \in 0 .. N : Reached(m)}
  <2>1. 0 \in T
    <3>1. PICK g : g = [i \in 0 .. 0 |-> start]
      OBVIOUS
    <3>2. g = [i \in 0 .. 0 |-> IF i = 0 THEN start ELSE Then(i, g[i - 1])]
      BY <3>1
    <3>3. Reached(0)
      BY <3>2
    <3> QED BY <3>3
  <2>2. ASSUME NEW m \in 0 .. N - 1, m \in T PROVE m + 1 \in T
    <3>1. PICK g : g = [i \in 0 .. m |-> IF i = 0 THEN start ELSE Then(i, g[i - 1])]
      BY <2>2
    <3>2. PICK h : h = [i \in 0 .. m + 1 |-> IF i <= m THEN g[i] ELSE Then(i, g[m])]
      OBVIOUS
    <3>3. ASSUME NEW i \in 0 .. m + 1 PROVE h[i] = IF i = 0 THEN start ELSE Then(i, h[i - 1])
      <4>1. CASE i = 0
        BY <4>1, <3>1, <3>2
      <4>2. CASE i \in 1 .. m
        <5>1. h[i] = g[i] /\ h[i - 1] = g[i - 1] /\ g[i] = Then(i, g[i - 1])
          BY <4>2, <3>1, <3>2
        <5> QED BY <4>2, <5>1
      <4>3. CASE i = m + 1
        <5>1. h[i] = Then(i, g[m]) /\ i - 1 = m /\ h[m] = g[m] /\ i # 0
          BY <4>3, <3>2
        <5> QED BY <5>1
      <4> QED BY <4>1, <4>2, <4>3
    <3>4. h = [i \in 0 .. m + 1 |-> IF i = 0 THEN start ELSE Then(i, h[i - 1])]
      BY <3>2, <3>3
    <3>5. Reached(m + 1)
      BY <3>4
    <3>6. m + 1 \in 0 .. N
      OBVIOUS
    <3> QED BY <3>5, <3>6
  <2>3. N \in T
    <3>1. \A k \in 0 .. N - 1 : k \in T => k + 1 \in T
      BY <2>2
    <3> HIDE DEF T
    <3>2. \A k \in 0 .. N : k \in T
      BY <2>1, <3>1, UpToBound
    <3> QED BY <3>2
  <2> QED BY <2>3
<1>4. PICK g : g = [i \in 0 .. N |-> IF i = 0 THEN start ELSE Then(i, g[i - 1])]
  BY <1>3
<1>5. g = [i \in 0 .. Len(insts) |->
              IF i = 0 THEN PhisDone(f, s) ELSE Executed(insts[i], input, g[i - 1])]
  BY <1>1, <1>2, <1>4, SMTT(30)
<1>6. after = [i \in 0 .. Len(insts) |->
                 IF i = 0 THEN PhisDone(f, s) ELSE Executed(insts[i], input, after[i - 1])]
  BY <1>5
<1>7. BlockDone(f, input, s) = after[Len(insts)]
  BY DEF BlockDone
<1>8. PICK w : w = after
  BY Zenon
<1>9. w = [i \in 0 .. N |-> IF i = 0 THEN start ELSE Then(i, w[i - 1])]
  BY <1>1, <1>2, <1>6, <1>8
<1>10. w[0] = start /\ \A i \in 1 .. N : w[i] = Then(i, w[i - 1])
  <2> HIDE DEF Then, after
  <2>1. w[0] = start
    BY <1>9
  <2>2. ASSUME NEW i \in 1 .. N PROVE w[i] = Then(i, w[i - 1])
    <3>1. i \in 0 .. N /\ i # 0
      OBVIOUS
    <3> QED BY <3>1, <1>9
  <2> QED BY <2>1, <2>2
<1>11. \A i \in 1 .. Len(insts) : w[i] = Executed(insts[i], input, w[i - 1])
  BY <1>10, <1>1
<1> QED BY <1>2, <1>7, <1>8, <1>10, <1>11

-----------------------------------------------------------------------------
(***************************************************************************)
(* RunOf unfolds: a run starts at the start, and each state but the last   *)
(* is running and is followed by the one its block and the transfer of     *)
(* that lead to.                                                           *)
(***************************************************************************)
NextOf(f, input, s) == Transferred(f.blocks[s.block].term, BlockDone(f, input, s))

IsRun(f, input, run) ==
    /\ \E S : run \in Seq(S)
    /\ Len(run) >= 1 /\ run[1] = Start(input)
    /\ \A n \in 1 .. Len(run) - 1 :
          run[n].status = "running" /\ run[n + 1] = NextOf(f, input, run[n])

Longer(f, input, run) ==
    IF Last(run).status # "running" THEN run ELSE Append(run, NextOf(f, input, Last(run)))

LEMMA LongerIsRun ==
    ASSUME NEW f, NEW input, NEW run, IsRun(f, input, run)
    PROVE  IsRun(f, input, Longer(f, input, run))
<1>1. PICK S : run \in Seq(S)
  BY DEF IsRun
<1>2. PICK s, t : s = Last(run) /\ t = NextOf(f, input, s)
  OBVIOUS
<1>3. PICK N \in Nat : N = Len(run) /\ N >= 1
  BY <1>1 DEF IsRun
<1>4. s = run[N]
  BY <1>1, <1>2, <1>3 DEF Last
<1>5. CASE s.status # "running"
  BY <1>2, <1>5 DEF Longer
<1>6. CASE s.status = "running"
  <2>1. PICK more : more = Append(run, t)
    OBVIOUS
  <2>2. Longer(f, input, run) = more
    BY <1>2, <1>6, <2>1 DEF Longer
  <2>3. run \in Seq(S \cup {t}) /\ t \in S \cup {t}
    BY <1>1
  <2>4. /\ more \in Seq(S \cup {t}) /\ Len(more) = N + 1
        /\ \A i \in 1 .. N + 1 : more[i] = IF i <= N THEN run[i] ELSE t
    BY <2>1, <2>3, <1>3, AppendFacts
  <2>5. more[1] = Start(input)
    BY <2>4, <1>3 DEF IsRun
  <2>6. ASSUME NEW n \in 1 .. N
        PROVE  more[n].status = "running" /\ more[n + 1] = NextOf(f, input, more[n])
    <3>1. CASE n = N
      <4>1. more[n] = s /\ more[n + 1] = t
        BY <3>1, <2>4, <1>3, <1>4
      <4> QED BY <4>1, <1>2, <1>6
    <3>2. CASE n # N
      <4>1. n \in 1 .. N - 1 /\ more[n] = run[n] /\ more[n + 1] = run[n + 1]
        BY <3>2, <2>4, <1>3
      <4> QED BY <4>1, <1>3 DEF IsRun
    <3> QED BY <3>1, <3>2
  <2>7. Len(more) - 1 = N /\ Len(more) >= 1
    BY <2>4, <1>3
  <2>8. IsRun(f, input, more)
    BY <2>4, <2>5, <2>6, <2>7, SMTT(30) DEF IsRun
  <2> QED BY <2>2, <2>8
<1> QED BY <1>5, <1>6

\* A run of so many blocks, unless it ended before.
RanFor(run, steps) ==
    Len(run) = steps + 1 \/ (Len(run) <= steps /\ run[Len(run)].status # "running")

LEMMA LongerRuns ==
    ASSUME NEW f, NEW input, NEW run, IsRun(f, input, run), NEW n \in Nat, RanFor(run, n)
    PROVE  RanFor(Longer(f, input, run), n + 1)
<1>1. PICK S : run \in Seq(S)
  BY DEF IsRun
<1>2. PICK s, t : s = Last(run) /\ t = NextOf(f, input, s)
  OBVIOUS
<1>3. PICK N \in Nat : N = Len(run) /\ N >= 1
  BY <1>1 DEF IsRun
<1>4. s = run[N]
  BY <1>1, <1>2, <1>3 DEF Last
<1>5. CASE s.status # "running"
  <2>1. Longer(f, input, run) = run
    BY <1>2, <1>5 DEF Longer
  <2>2. N <= n + 1 /\ run[N].status # "running"
    BY <1>3, <1>4, <1>5 DEF RanFor
  <2> QED BY <1>3, <2>1, <2>2 DEF RanFor
<1>6. CASE s.status = "running"
  <2>1. PICK more : more = Append(run, t)
    OBVIOUS
  <2>2. Longer(f, input, run) = more
    BY <1>2, <1>6, <2>1 DEF Longer
  <2>3. Len(more) = N + 1
    BY <1>1, <1>3, <2>1
  <2>4. N = n + 1
    BY <1>3, <1>4, <1>6 DEF RanFor
  <2> QED BY <2>2, <2>3, <2>4 DEF RanFor
<1> QED BY <1>5, <1>6

LEMMA RunUnfolds ==
    ASSUME NEW f, NEW input, NEW steps \in Nat
    PROVE  IsRun(f, input, RunOf(f, input, steps)) /\ RanFor(RunOf(f, input, steps), steps)
<1> DEFINE Then(run) == Longer(f, input, run)
           upTo[i \in 0 .. steps] ==
              IF i = 0 THEN <<Start(input)>>
              ELSE LET run == upTo[i - 1]
                       s   == Last(run)
                   IN  IF s.status # "running" THEN run
                       ELSE Append(run, Transferred(f.blocks[s.block].term, BlockDone(f, input, s)))
<1>1. PICK N \in Nat : N = steps
  OBVIOUS
<1>2. PICK start : start = <<Start(input)>>
  OBVIOUS
<1>3. \E g : g = [i \in 0 .. N |-> IF i = 0 THEN start ELSE Then(g[i - 1])]
  <2> HIDE DEF Then, upTo
  <2> DEFINE Reached(m) == \E g : g = [i \in 0 .. m |-> IF i = 0 THEN start ELSE Then(g[i - 1])]
             T == {m \in 0 .. N : Reached(m)}
  <2>1. 0 \in T
    <3>1. PICK g : g = [i \in 0 .. 0 |-> start]
      OBVIOUS
    <3>2. g = [i \in 0 .. 0 |-> IF i = 0 THEN start ELSE Then(g[i - 1])]
      BY <3>1
    <3>3. Reached(0)
      BY <3>2
    <3> QED BY <3>3
  <2>2. ASSUME NEW m \in 0 .. N - 1, m \in T PROVE m + 1 \in T
    <3>1. PICK g : g = [i \in 0 .. m |-> IF i = 0 THEN start ELSE Then(g[i - 1])]
      BY <2>2
    <3>2. PICK h : h = [i \in 0 .. m + 1 |-> IF i <= m THEN g[i] ELSE Then(g[m])]
      OBVIOUS
    <3>3. ASSUME NEW i \in 0 .. m + 1 PROVE h[i] = IF i = 0 THEN start ELSE Then(h[i - 1])
      <4>1. CASE i = 0
        BY <4>1, <3>1, <3>2
      <4>2. CASE i \in 1 .. m
        <5>1. h[i] = g[i] /\ h[i - 1] = g[i - 1] /\ g[i] = Then(g[i - 1])
          BY <4>2, <3>1, <3>2
        <5> QED BY <4>2, <5>1
      <4>3. CASE i = m + 1
        <5>1. h[i] = Then(g[m]) /\ i - 1 = m /\ h[m] = g[m] /\ i # 0
          BY <4>3, <3>2
        <5> QED BY <5>1
      <4> QED BY <4>1, <4>2, <4>3
    <3>4. h = [i \in 0 .. m + 1 |-> IF i = 0 THEN start ELSE Then(h[i - 1])]
      BY <3>2, <3>3
    <3>5. Reached(m + 1)
      BY <3>4
    <3>6. m + 1 \in 0 .. N
      OBVIOUS
    <3> QED BY <3>5, <3>6
  <2>3. N \in T
    <3>1. \A k \in 0 .. N - 1 : k \in T => k + 1 \in T
      BY <2>2
    <3> HIDE DEF T
    <3>2. \A k \in 0 .. N : k \in T
      BY <2>1, <3>1, UpToBound
    <3> QED BY <3>2
  <2> QED BY <2>3
<1>4. PICK g : g = [i \in 0 .. N |-> IF i = 0 THEN start ELSE Then(g[i - 1])]
  BY <1>3
<1>5. \A run : Then(run) = LET s == Last(run)
                          IN  IF s.status # "running" THEN run
                              ELSE Append(run, Transferred(f.blocks[s.block].term, BlockDone(f, input, s)))
  BY DEF Longer, NextOf
<1>6. g = [i \in 0 .. steps |->
              IF i = 0 THEN <<Start(input)>>
              ELSE LET run == g[i - 1]
                       s   == Last(run)
                   IN  IF s.status # "running" THEN run
                       ELSE Append(run, Transferred(f.blocks[s.block].term, BlockDone(f, input, s)))]
  BY <1>1, <1>2, <1>4, <1>5
<1>7. upTo = [i \in 0 .. steps |->
              IF i = 0 THEN <<Start(input)>>
              ELSE LET run == upTo[i - 1]
                       s   == Last(run)
                   IN  IF s.status # "running" THEN run
                       ELSE Append(run, Transferred(f.blocks[s.block].term, BlockDone(f, input, s)))]
  BY <1>6, Zenon
<1>8. RunOf(f, input, steps) = upTo[steps]
  BY Zenon DEF RunOf
<1>9. PICK w : w = upTo
  BY ZenonT(40)
<1>10. w = [i \in 0 .. N |-> IF i = 0 THEN start ELSE Then(w[i - 1])]
  BY <1>1, <1>2, <1>5, <1>7, <1>9, Zenon
<1>11. \A k \in 0 .. N : k \in {i \in 0 .. N : IsRun(f, input, w[i]) /\ RanFor(w[i], i)}
  <2> HIDE DEF Then, upTo
  <2> DEFINE T == {i \in 0 .. N : IsRun(f, input, w[i]) /\ RanFor(w[i], i)}
  <2>1. 0 \in T
    <3>1. w[0] = <<Start(input)>>
      BY <1>2, <1>10
    <3>2. <<Start(input)>> \in Seq({Start(input)}) /\ Len(<<Start(input)>>) = 1
          /\ <<Start(input)>>[1] = Start(input)
      OBVIOUS
    <3>3. PICK r : r = <<Start(input)>>
      OBVIOUS
    <3>4. \E S : r \in Seq(S)
      BY <3>2, <3>3
    <3>5. Len(r) = 1 /\ r[1] = Start(input) /\ \A n \in 1 .. Len(r) - 1 : FALSE
      BY <3>2, <3>3
    <3>6. IsRun(f, input, r)
      BY <3>4, <3>5 DEF IsRun
    <3>7. RanFor(r, 0)
      BY <3>5 DEF RanFor
    <3> QED BY <3>1, <3>3, <3>6, <3>7
  <2>2. ASSUME NEW i \in 0 .. N - 1, i \in T PROVE i + 1 \in T
    <3>1. IsRun(f, input, Then(w[i])) /\ RanFor(Then(w[i]), i + 1)
      BY <2>2, LongerIsRun, LongerRuns DEF Then
    <3>2. i + 1 \in 0 .. N /\ i + 1 # 0 /\ (i + 1) - 1 = i
      OBVIOUS
    <3>3. w[i + 1] = Then(w[i])
      BY <3>2, <1>10
    <3> QED BY <3>1, <3>2, <3>3
  <2>3. \A k \in 0 .. N - 1 : k \in T => k + 1 \in T
    BY <2>2
  <2> HIDE DEF T
  <2>4. \A k \in 0 .. N : k \in T
    BY <2>1, <2>3, UpToBound
  <2> QED BY <2>4 DEF T
<1>12. N \in 0 .. N
  OBVIOUS
<1>13. IsRun(f, input, w[N]) /\ RanFor(w[N], N)
  BY <1>11, <1>12
<1> QED BY <1>1, <1>8, <1>9, <1>13, Zenon

-----------------------------------------------------------------------------
(***************************************************************************)
(* A state of a run, and what its steps leave of it.                       *)
(***************************************************************************)
States(E, A) == [block : A, from : A, env : [Values -> E], memory : A, calls : A, status :
      A, result : A]

IsState(s) == \E E, A : s \in States(E, A)

LEMMA StartIsState ==
    ASSUME NEW input
    PROVE  /\ IsState(Start(input))
           /\ Start(input).block = 1 /\ Start(input).from = 0
<1>1. PICK A : A = {0, 1, input.memory, <<>>, "running"}
  OBVIOUS
<1>2. Start(input) \in States({0}, A)
  BY <1>1 DEF Start, States
<1>3. Start(input).block = 1 /\ Start(input).from = 0
  BY DEF Start
<1> QED BY <1>2, <1>3 DEF IsState

\* A state with another environment.
LEMMA EnvFacts ==
    ASSUME NEW s, IsState(s), NEW env, env = [v \in Values |-> env[v]]
    PROVE  /\ IsState([s EXCEPT !.env = env])
           /\ [s EXCEPT !.env = env].env = env
           /\ [s EXCEPT !.env = env].block = s.block /\ [s EXCEPT !.env = env].from = s.from
           /\ [s EXCEPT !.env = env].status = s.status
<1>1. PICK E, A : s \in States(E, A)
  BY DEF IsState
<1>2. PICK F : env \in [Values -> F]
  <2>1. env \in [Values -> {env[v] : v \in Values}]
    OBVIOUS
  <2> QED BY <2>1
<1>3. PICK t : t = [s EXCEPT !.env = env]
  OBVIOUS
<1>4. t \in States(F, A)
  BY <1>1, <1>2, <1>3 DEF States
<1>5. t.env = env /\ t.block = s.block /\ t.from = s.from /\ t.status = s.status
  BY <1>1, <1>3 DEF States
<1> QED BY <1>3, <1>4, <1>5 DEF IsState

(***************************************************************************)
(* The phis of a block are done at once: each value one of them defines    *)
(* becomes its argument along the way control came.                        *)
(***************************************************************************)
LEMMA PhisDoneFacts ==
    ASSUME NEW f, NEW s, IsState(s)
    PROVE  /\ IsState(PhisDone(f, s))
           /\ PhisDone(f, s).block = s.block /\ PhisDone(f, s).from = s.from
           /\ PhisDone(f, s).status = s.status
           /\ \A v \in Values :
                 (\A p \in DOMAIN f.blocks[s.block].phis : f.blocks[s.block].phis[p].dest # v)
                    => PhisDone(f, s).env[v] = s.env[v]
           /\ (\E k \in DOMAIN f.blocks[s.block].preds : f.blocks[s.block].preds[k] = s.from)
              => \E k \in DOMAIN f.blocks[s.block].preds :
                    /\ f.blocks[s.block].preds[k] = s.from
                    /\ \A v \in Values :
                          (\E p \in DOMAIN f.blocks[s.block].phis :
                                f.blocks[s.block].phis[p].dest = v)
                             => \E p \in DOMAIN f.blocks[s.block].phis :
                                   /\ f.blocks[s.block].phis[p].dest = v
                                   /\ PhisDone(f, s).env[v]
                                         = ValueIn(s.env, f.blocks[s.block].phis[p].args[k])
<1> DEFINE block == f.blocks[s.block]
           way == CHOOSE k \in DOMAIN block.preds : block.preds[k] = s.from
           written == {block.phis[p].dest : p \in DOMAIN block.phis}
           PhiOf(v) == CHOOSE p \in DOMAIN block.phis : block.phis[p].dest = v
           Arrived(v) == ValueIn(s.env, block.phis[PhiOf(v)].args[way])
           env == [v \in Values |-> IF v \in written THEN Arrived(v) ELSE s.env[v]]
           t == [s EXCEPT !.env = env]
<1>1. PhisDone(f, s) = t
  BY DEF PhisDone
<1>2. ASSUME NEW v \in Values, v \in written
      PROVE  PhiOf(v) \in DOMAIN block.phis /\ block.phis[PhiOf(v)].dest = v
  BY <1>2
<1>3. ASSUME NEW k \in DOMAIN block.preds, block.preds[k] = s.from
      PROVE  way \in DOMAIN block.preds /\ block.preds[way] = s.from
  BY <1>3
<1> HIDE DEF way, PhiOf
<1>4. ASSUME NEW v \in Values, v \in written
      PROVE  \E p \in DOMAIN block.phis :
                block.phis[p].dest = v /\ Arrived(v) = ValueIn(s.env, block.phis[p].args[way])
  BY <1>2, <1>4
<1> HIDE DEF Arrived
<1>5. /\ env = [v \in Values |-> env[v]]
      /\ \A v \in Values : env[v] = IF v \in written THEN Arrived(v) ELSE s.env[v]
  OBVIOUS
<1> HIDE DEF env
<1>6. IsState(t) /\ t.env = env /\ t.block = s.block /\ t.from = s.from /\ t.status = s.status
  BY <1>5, EnvFacts
<1> HIDE DEF t
<1>7. ASSUME NEW v \in Values, \A p \in DOMAIN block.phis : block.phis[p].dest # v
      PROVE  t.env[v] = s.env[v]
  BY <1>5, <1>6, <1>7
<1>8. ASSUME NEW v \in Values, \E p \in DOMAIN block.phis : block.phis[p].dest = v
      PROVE  \E p \in DOMAIN block.phis :
                block.phis[p].dest = v /\ t.env[v] = ValueIn(s.env, block.phis[p].args[way])
  <2>1. v \in written /\ t.env[v] = Arrived(v)
    BY <1>5, <1>6, <1>8
  <2> QED BY <2>1, <1>4
<1> QED BY <1>1, <1>3, <1>6, <1>7, <1>8, Zenon

(***************************************************************************)
(* An instruction defines at most the value it is there for.               *)
(***************************************************************************)
LEMMA ExecutedFacts ==
    ASSUME NEW inst, NEW input, NEW s, IsState(s)
    PROVE  /\ IsState(Executed(inst, input, s))
           /\ Executed(inst, input, s).block = s.block /\ Executed(inst, input, s).from = s.from
           /\ Executed(inst, input, s).status \in {s.status, "undefined"}
           /\ \A v \in Values : v # inst.dest => Executed(inst, input, s).env[v] = s.env[v]
<1> DEFINE Like(u) == /\ IsState(u) /\ u.block = s.block /\ u.from = s.from
                      /\ u.status \in {s.status, "undefined"}
                      /\ \A v \in Values : v # inst.dest => u.env[v] = s.env[v]
<1>1. PICK E, A : s \in States(E, A)
  BY DEF IsState
<1>2. ASSUME NEW value PROVE Like([s EXCEPT !.env[inst.dest] = value])
  <2>1. PICK u : u = [s EXCEPT !.env[inst.dest] = value]
    OBVIOUS
  <2>2. u \in States(E \cup {value}, A)
    BY <1>1, <2>1 DEF States
  <2>3. u.block = s.block /\ u.from = s.from /\ u.status = s.status
        /\ \A v \in Values : v # inst.dest => u.env[v] = s.env[v]
    BY <1>1, <2>1 DEF States
  <2> QED BY <2>1, <2>2, <2>3 DEF IsState
<1>3. Like(s)
  OBVIOUS
<1>4. Like([s EXCEPT !.status = "undefined"])
  <2>1. PICK u : u = [s EXCEPT !.status = "undefined"]
    OBVIOUS
  <2>2. u \in States(E, A \cup {"undefined"})
    BY <1>1, <2>1 DEF States
  <2>3. u.block = s.block /\ u.from = s.from /\ u.status = "undefined" /\ u.env = s.env
    BY <1>1, <2>1 DEF States
  <2> QED BY <2>1, <2>2, <2>3 DEF IsState
<1>5. ASSUME NEW value PROVE Like([s EXCEPT !.memory = value])
  <2>1. PICK u : u = [s EXCEPT !.memory = value]
    OBVIOUS
  <2>2. u \in States(E, A \cup {value})
    BY <1>1, <2>1 DEF States
  <2>3. u.block = s.block /\ u.from = s.from /\ u.status = s.status /\ u.env = s.env
    BY <1>1, <2>1 DEF States
  <2> QED BY <2>1, <2>2, <2>3 DEF IsState
<1>6. ASSUME NEW value, NEW call, NEW answer
      PROVE  Like([[s EXCEPT !.env[inst.dest] = value] EXCEPT !.calls = Append(@, call), !.memory = answer])
  <2>1. PICK u, calls : /\ u = [s EXCEPT !.env[inst.dest] = value]
                        /\ calls = Append(u.calls, call)
    OBVIOUS
  <2>2. Like(u)
    BY <1>2, <2>1
  <2>3. PICK F, B : u \in States(F, B)
    BY <2>2 DEF IsState
  <2>4. PICK w : w = [u EXCEPT !.calls = calls, !.memory = answer]
    OBVIOUS
  <2>5. w = [[s EXCEPT !.env[inst.dest] = value] EXCEPT !.calls = Append(@, call), !.memory = answer]
    BY <2>1, <2>4
  <2>6. w \in States(F, B \cup {calls, answer})
    BY <2>3, <2>4 DEF States
  <2>7. w.block = u.block /\ w.from = u.from /\ w.status = u.status /\ w.env = u.env
    BY <2>3, <2>4 DEF States
  <2>8. Like(w)
    BY <2>2, <2>6, <2>7 DEF IsState
  <2> QED BY <2>5, <2>8
<1> HIDE DEF Like
<1>7. Like(Executed(inst, input, s))
  BY <1>2, <1>3, <1>4, <1>5, <1>6 DEF Executed
<1> QED BY <1>7 DEF Like

(***************************************************************************)
(* What it defines, where it is not undefined.                             *)
(***************************************************************************)
LEMMA ExecutedDefines ==
    ASSUME NEW inst, NEW input, NEW s, IsState(s), inst.dest \in Values,
           Executed(inst, input, s).status # "undefined"
    PROVE  LET x == ValueIn(s.env, inst.args[1])
               y == ValueIn(s.env, inst.args[2])
               value == Executed(inst, input, s).env[inst.dest]
           IN  /\ s.status # "undefined"
               /\ inst.op = "copy" => value = x
               /\ inst.op = "undef" => value = 0
               /\ inst.op \in BinaryOps =>
                     value = Fold(inst.op, x, y) /\ ~(inst.op = "div" /\ y = 0)
<1>1. PICK E, A : s \in States(E, A)
  BY DEF IsState
<1>2. PICK x, y : x = ValueIn(s.env, inst.args[1]) /\ y = ValueIn(s.env, inst.args[2])
  OBVIOUS
<1>3. s.status # "undefined"
  BY DEF Executed
<1>4. ~(inst.op = "div" /\ y = 0)
  <2>1. [s EXCEPT !.status = "undefined"].status = "undefined"
    BY <1>1 DEF States
  <2> QED BY <1>2, <1>3, <2>1 DEF Executed
<1>5. ASSUME NEW value PROVE [s EXCEPT !.env[inst.dest] = value].env[inst.dest] = value
  BY <1>1 DEF States
<1>6. ASSUME inst.op = "copy" PROVE Executed(inst, input, s) = [s EXCEPT !.env[inst.dest] = x]
  BY <1>2, <1>3, <1>6 DEF Executed, BinaryOps
<1>7. ASSUME inst.op = "undef" PROVE Executed(inst, input, s) = [s EXCEPT !.env[inst.dest] = 0]
  BY <1>3, <1>7 DEF Executed, BinaryOps
<1>8. ASSUME inst.op \in BinaryOps
      PROVE  Executed(inst, input, s) = [s EXCEPT !.env[inst.dest] = Fold(inst.op, x, y)]
  BY <1>2, <1>3, <1>4, <1>8 DEF Executed, BinaryOps
<1> QED BY <1>2, <1>3, <1>4, <1>5, <1>6, <1>7, <1>8

(***************************************************************************)
(* The transfer at the end of a block goes to one of its targets.          *)
(***************************************************************************)
LEMMA TransferredFacts ==
    ASSUME NEW term, NEW s, IsState(s), Transferred(term, s).status = "running"
    PROVE  /\ IsState(Transferred(term, s)) /\ Transferred(term, s).env = s.env
           /\ Transferred(term, s).from = s.block /\ s.status = "running"
           /\ \/ term.kind = "jump" /\ Transferred(term, s).block = term.to[1]
              \/ /\ term.kind = "branch"
                 /\ Transferred(term, s).block
                       = IF ValueIn(s.env, term.args[1]) # 0 THEN term.to[1] ELSE term.to[2]
<1>1. PICK E, A : s \in States(E, A)
  BY DEF IsState
<1>2. PICK t : t = Transferred(term, s)
  OBVIOUS
<1>3. s.status # "undefined"
  BY DEF Transferred
<1>4. ASSUME NEW b, t = [s EXCEPT !.block = b, !.from = s.block]
      PROVE  IsState(t) /\ t.env = s.env /\ t.from = s.block /\ t.status = s.status /\ t.block = b
  <2>1. s.block \in A /\ t \in States(E, A \cup {b})
    BY <1>1, <1>4 DEF States
  <2>2. t.env = s.env /\ t.from = s.block /\ t.status = s.status /\ t.block = b
    BY <1>1, <1>4 DEF States
  <2> QED BY <2>1, <2>2 DEF IsState
<1>5. CASE term.kind = "jump"
  <2>1. t = [s EXCEPT !.block = term.to[1], !.from = s.block]
    BY <1>2, <1>3, <1>5 DEF Transferred
  <2> QED BY <2>1, <1>2, <1>4, <1>5
<1>6. CASE term.kind = "branch"
  <2>1. PICK b : b = IF ValueIn(s.env, term.args[1]) # 0 THEN term.to[1] ELSE term.to[2]
    OBVIOUS
  <2>2. t = [s EXCEPT !.block = b, !.from = s.block]
    BY <1>2, <1>3, <1>6, <2>1 DEF Transferred
  <2> QED BY <2>1, <2>2, <1>2, <1>4, <1>6
<1>7. CASE term.kind # "jump" /\ term.kind # "branch"
  <2>1. t = [s EXCEPT !.status = "returned", !.result = ValueIn(s.env, term.args[1])]
    BY <1>2, <1>3, <1>7 DEF Transferred
  <2>2. t.status = "returned"
    BY <1>1, <2>1 DEF States
  <2> QED BY <1>2, <2>2
<1> QED BY <1>5, <1>6, <1>7

-----------------------------------------------------------------------------
(***************************************************************************)
(* Where values are defined.                                               *)
(***************************************************************************)
LEMMA DefinitionFacts ==
    ASSUME NEW f, NEW v
    PROVE  /\ \A b \in BlockIds(f) : \A p \in DOMAIN f.blocks[b].phis :
                 f.blocks[b].phis[p].dest = v => <<b, 0>> \in Definitions(f, v)
           /\ \A b \in BlockIds(f) : \A i \in DOMAIN f.blocks[b].insts :
                 f.blocks[b].insts[i].dest = v => <<b, i>> \in Definitions(f, v)
           /\ \A d \in Definitions(f, v) :
                 /\ d[1] \in BlockIds(f) /\ d = <<d[1], d[2]>>
                 /\ \/ d[2] = 0 /\ \E p \in DOMAIN f.blocks[d[1]].phis :
                                      f.blocks[d[1]].phis[p].dest = v
                    \/ d[2] \in DOMAIN f.blocks[d[1]].insts /\ f.blocks[d[1]].insts[d[2]].dest = v
<1>1. ASSUME NEW b \in BlockIds(f), NEW p \in DOMAIN f.blocks[b].phis, f.blocks[b].phis[p].dest = v
      PROVE  <<b, 0>> \in Definitions(f, v)
  <2>1. <<b, p>> \in UNION {{c} \X DOMAIN f.blocks[c].phis : c \in BlockIds(f)}
    OBVIOUS
  <2>2. <<b, p>> \in PhiSites(f, v)
    BY <1>1, <2>1 DEF PhiSites
  <2> QED BY <2>2 DEF Definitions
<1>2. ASSUME NEW b \in BlockIds(f), NEW i \in DOMAIN f.blocks[b].insts, f.blocks[b].insts[i].dest = v
      PROVE  <<b, i>> \in Definitions(f, v)
  <2>1. <<b, i>> \in UNION {{c} \X DOMAIN f.blocks[c].insts : c \in BlockIds(f)}
    OBVIOUS
  <2>2. <<b, i>> \in InstSites(f, v)
    BY <1>2, <2>1 DEF InstSites
  <2> QED BY <2>2 DEF Definitions
<1>3. ASSUME NEW d \in Definitions(f, v)
      PROVE  /\ d[1] \in BlockIds(f) /\ d = <<d[1], d[2]>>
             /\ \/ d[2] = 0 /\ \E p \in DOMAIN f.blocks[d[1]].phis :
                                  f.blocks[d[1]].phis[p].dest = v
                \/ d[2] \in DOMAIN f.blocks[d[1]].insts /\ f.blocks[d[1]].insts[d[2]].dest = v
  <2>1. CASE d \in {<<s[1], 0>> : s \in PhiSites(f, v)}
    <3>1. PICK s \in PhiSites(f, v) : d = <<s[1], 0>>
      BY <2>1
    <3>2. s \in UNION {{c} \X DOMAIN f.blocks[c].phis : c \in BlockIds(f)}
          /\ f.blocks[s[1]].phis[s[2]].dest = v
      BY <3>1 DEF PhiSites
    <3>3. s[1] \in BlockIds(f) /\ s[2] \in DOMAIN f.blocks[s[1]].phis
      BY <3>2
    <3> QED BY <3>1, <3>2, <3>3
  <2>2. CASE d \in InstSites(f, v)
    <3>1. d \in UNION {{c} \X DOMAIN f.blocks[c].insts : c \in BlockIds(f)}
          /\ f.blocks[d[1]].insts[d[2]].dest = v
      BY <2>2 DEF InstSites
    <3>2. d[1] \in BlockIds(f) /\ d[2] \in DOMAIN f.blocks[d[1]].insts /\ d = <<d[1], d[2]>>
      BY <3>1
    <3> QED BY <3>1, <3>2
  <2> QED BY <2>1, <2>2 DEF Definitions
<1> QED BY <1>1, <1>2, <1>3

(***************************************************************************)
(* Where an edge leads, the block it comes from is among the predecessors. *)
(***************************************************************************)
LEMMA EdgeIsRecorded ==
    ASSUME NEW f, IsFunction(f), EdgesAgree(f), NEW a \in BlockIds(f), NEW b \in BlockIds(f),
           b \in ToSet(Successors(f, a))
    PROVE  \E k \in DOMAIN f.blocks[b].preds : f.blocks[b].preds[k] = a
<1>1. PICK out, back : /\ out = {k \in DOMAIN Successors(f, a) : Successors(f, a)[k] = b}
                       /\ back = {k \in DOMAIN f.blocks[b].preds : f.blocks[b].preds[k] = a}
  OBVIOUS
<1>2. Cardinality(back) = Cardinality(out)
  BY <1>1 DEF EdgesAgree, CountIn
<1>3. out # {}
  BY <1>1 DEF ToSet
<1>4. IsFiniteSet(out)
  <2>1. Successors(f, a) \in Seq(BlockIds(f))
    BY PartTypes DEF Successors
  <2>2. PICK n \in Nat : DOMAIN Successors(f, a) = 1 .. n
    BY <2>1
  <2>3. IsFiniteSet(1 .. n)
    BY FS_Interval
  <2> QED BY <1>1, <2>2, <2>3, FS_Subset
<1>5. Cardinality(out) # 0
  BY <1>3, <1>4, FS_EmptySet
<1>6. back # {}
  BY <1>2, <1>5, FS_EmptySet
<1> QED BY <1>1, <1>6

(***************************************************************************)
(* What a block reads is read by one of its parts.                         *)
(***************************************************************************)
LEMMA ReadIsDefined ==
    ASSUME NEW f, DefinedOnce(f), NEW b \in BlockIds(f), NEW v \in Values,
           \/ \E p \in DOMAIN f.blocks[b].phis : v \in ToSet(f.blocks[b].phis[p].args)
           \/ \E i \in DOMAIN f.blocks[b].insts : v \in ToSet(f.blocks[b].insts[i].args)
           \/ v \in ToSet(f.blocks[b].term.args)
    PROVE  Definitions(f, v) # {}
<1>1. v \in ValuesReadIn(f.blocks[b])
  <2>1. CASE \E p \in DOMAIN f.blocks[b].phis : v \in ToSet(f.blocks[b].phis[p].args)
    <3>1. PICK p \in DOMAIN f.blocks[b].phis : v \in ToSet(f.blocks[b].phis[p].args)
      BY <2>1
    <3>2. PICK phi : phi = f.blocks[b].phis[p]
      BY Zenon
    <3>3. phi \in ToSet(f.blocks[b].phis)
      BY <3>2 DEF ToSet
    <3>4. v \in ValuesRead(phi.args)
      BY <3>1, <3>2 DEF ValuesRead
    <3> QED BY <3>3, <3>4 DEF ValuesReadIn
  <2>2. CASE \E i \in DOMAIN f.blocks[b].insts : v \in ToSet(f.blocks[b].insts[i].args)
    <3>1. PICK i \in DOMAIN f.blocks[b].insts : v \in ToSet(f.blocks[b].insts[i].args)
      BY <2>2
    <3>2. PICK inst : inst = f.blocks[b].insts[i]
      BY Zenon
    <3>3. inst \in ToSet(f.blocks[b].insts)
      BY <3>2 DEF ToSet
    <3>4. v \in ValuesRead(inst.args)
      BY <3>1, <3>2 DEF ValuesRead
    <3> QED BY <3>3, <3>4 DEF ValuesReadIn
  <2>3. CASE v \in ToSet(f.blocks[b].term.args)
    BY <2>3 DEF ValuesReadIn, ValuesRead
  <2> QED BY <2>1, <2>2, <2>3
<1> QED BY <1>1 DEF DefinedOnce

-----------------------------------------------------------------------------
\* Sequences, element by element.
LEMMA LengthFacts ==
    ASSUME NEW S, NEW s \in Seq(S)
    PROVE  Len(s) \in Nat /\ DOMAIN s = 1 .. Len(s) /\ \A k \in 1 .. Len(s) : s[k] \in S
  OBVIOUS

LEMMA SequenceOf ==
    ASSUME NEW S, NEW n \in Nat, NEW s, s = [k \in 1 .. n |-> s[k]], \A k \in 1 .. n : s[k] \in S
    PROVE  s \in Seq(S) /\ Len(s) = n
  OBVIOUS

LEMMA ContainsIs ==
    ASSUME NEW S, NEW s \in Seq(S), NEW e
    PROVE  Contains(s, e) <=> e \in ToSet(s)
  BY DEF Contains, ToSet

-----------------------------------------------------------------------------
(***************************************************************************)
(* And it is the least such set.                                           *)
(***************************************************************************)
LEMMA AvoidingIsLeast ==
    ASSUME NEW f, IsFunction(f), NEW avoided, NEW S, 1 \notin avoided => 1 \in S,
           \A b \in S : \A c \in ToSet(Successors(f, b)) : c \notin avoided => c \in S
    PROVE  ReachableAvoiding(f, avoided) \subseteq S
<1>1. PICK N : N = Len(f.blocks)
  OBVIOUS
<1>2. N \in Nat
  BY <1>1, BlockTypes
<1>3. PICK w : /\ w[0] = {1} \ avoided
               /\ \A n \in 1 .. N :
                     w[n] = w[n - 1]
                            \cup ((UNION {ToSet(Successors(f, b)) : b \in w[n - 1]}) \ avoided)
               /\ ReachableAvoiding(f, avoided) = w[N]
  <2>1. Len(f.blocks) \in Nat
    BY BlockTypes
  <2>2. \E w : /\ w[0] = {1} \ avoided
               /\ \A n \in 1 .. Len(f.blocks) :
                     w[n] = w[n - 1]
                            \cup ((UNION {ToSet(Successors(f, b)) : b \in w[n - 1]}) \ avoided)
               /\ ReachableAvoiding(f, avoided) = w[Len(f.blocks)]
    BY <2>1, AvoidingUnfolds
  <2> QED BY <1>1, <2>2
<1> DEFINE T == {n \in 0 .. N : w[n] \subseteq S}
<1>4. 0 \in T
  BY <1>2, <1>3
<1>5. ASSUME NEW n \in 0 .. N - 1, n \in T PROVE n + 1 \in T
  <2>1. n + 1 \in 1 .. N /\ n + 1 - 1 = n
    BY <1>2
  <2>2. w[n + 1] = w[n] \cup ((UNION {ToSet(Successors(f, b)) : b \in w[n]}) \ avoided)
    BY <1>3, <2>1
  <2>3. w[n] \subseteq S
    BY <1>5
  <2>4. w[n + 1] \subseteq S
    BY <2>2, <2>3
  <2> QED BY <2>1, <2>4
<1> HIDE DEF T
<1>6. \A n \in 0 .. N : n \in T
  BY <1>2, <1>4, <1>5, UpToBound
<1>7. N \in T
  BY <1>2, <1>6
<1> QED BY <1>3, <1>7 DEF T

LEMMA ReachableFacts ==
    ASSUME NEW f, IsFunction(f)
    PROVE  /\ 1 \in Reachable(f) /\ Reachable(f) \subseteq BlockIds(f)
           /\ \A b \in Reachable(f) : \A c \in ToSet(Successors(f, b)) : c \in Reachable(f)
  BY AvoidingFacts DEF Reachable

\* What the entry does not reach is on no way anywhere.
LEMMA UnreachableDominatesNothing ==
    ASSUME NEW f, IsFunction(f), NEW a, a \notin Reachable(f), NEW b \in Reachable(f)
    PROVE  ~Dominates(f, a, b)
<1> DEFINE S == ReachableAvoiding(f, {a})
<1>1. a # 1
  BY ReachableFacts
<1>2. 1 \in S
  BY <1>1, AvoidingFacts
<1>3. ASSUME NEW n \in S, n \in Reachable(f), NEW c \in ToSet(Successors(f, n))
      PROVE  c \in S /\ c \in Reachable(f)
  <2>1. c \in Reachable(f)
    BY <1>3, ReachableFacts
  <2>2. c \notin {a}
    BY <2>1
  <2> QED BY <1>3, <2>1, <2>2, AvoidingFacts
<1> DEFINE T == S \cap Reachable(f)
<1>4. 1 \in T
  BY <1>2, ReachableFacts
<1>5. \A n \in T : \A c \in ToSet(Successors(f, n)) : c \notin {} => c \in T
  BY <1>3
<1> HIDE DEF T
<1>6. ReachableAvoiding(f, {}) \subseteq T
  BY <1>4, <1>5, AvoidingIsLeast
<1> QED BY <1>6 DEF Reachable, T, Dominates

-----------------------------------------------------------------------------
(***************************************************************************)
(* g is a part of f: its block n is what is left of f's block at[n].       *)
(* Nothing is defined or read that was not, in the same place, every edge  *)
(* is one of f, and a phi's argument arrives from where it did.  Blocks    *)
(* that are gone were on no way to those that are left.                    *)
(***************************************************************************)
IsPartOfBlock(g, f, at, n) ==
    LET is  == g.blocks[n]
        was == f.blocks[at[n]]
    IN  /\ DOMAIN is.phis = DOMAIN was.phis /\ DOMAIN is.insts = DOMAIN was.insts
        /\ \A p \in DOMAIN is.phis : is.phis[p].dest = was.phis[p].dest
        /\ \A i \in DOMAIN is.insts :
              /\ is.insts[i].dest = was.insts[i].dest
              /\ is.insts[i].op = "param" <=> was.insts[i].op = "param"
              /\ ValuesRead(is.insts[i].args) \subseteq ValuesRead(was.insts[i].args)
        /\ ValuesRead(is.term.args) \subseteq ValuesRead(was.term.args)
        /\ \A p \in DOMAIN is.phis : \A k \in DOMAIN is.phis[p].args :
              is.phis[p].args[k] \in Values =>
                 \E j \in DOMAIN was.phis[p].args :
                    was.phis[p].args[j] = is.phis[p].args[k] /\ was.preds[j] = at[is.preds[k]]
        /\ \A p \in DOMAIN is.phis : \A k \in DOMAIN is.phis[p].args : is.preds[k] \in BlockIds(g)
        /\ \A c \in ToSet(Successors(g, n)) : at[c] \in ToSet(Successors(f, at[n]))
        /\ Len(is.term.to) <= Len(was.term.to) /\ Len(is.preds) <= Len(was.preds)

IsPartOf(g, f, at) ==
    /\ at[1] = 1
    /\ \A n \in BlockIds(g) : at[n] \in BlockIds(f)
    /\ \A m, n \in BlockIds(g) : at[m] = at[n] => m = n
    /\ \A n \in BlockIds(g) : IsPartOfBlock(g, f, at, n)
    /\ \A v \in Values : \A n \in BlockIds(g) : \A p \in DOMAIN g.blocks[n].phis :
          f.site[v] = <<at[n], p>> => g.site[v] = <<n, p>>
    /\ \A v \in Values : f.site[v] = Removed => g.site[v] = Removed
    /\ \A b \in BlockIds(f) :
          (\A n \in BlockIds(g) : at[n] # b) => \A n \in BlockIds(g) : ~Dominates(f, b, at[n])

LEMMA PartDefinitions ==
    ASSUME NEW g, NEW f, NEW at, IsPartOf(g, f, at), NEW v
    PROVE  /\ \A d \in Definitions(g, v) : <<at[d[1]], d[2]>> \in Definitions(f, v)
           /\ \A d \in Definitions(f, v) : \A n \in BlockIds(g) :
                 d[1] = at[n] => <<n, d[2]>> \in Definitions(g, v)
<1>1. ASSUME NEW d \in Definitions(g, v) PROVE <<at[d[1]], d[2]>> \in Definitions(f, v)
  <2>1. d[1] \in BlockIds(g)
    BY DefinitionFacts
  <2>2. at[d[1]] \in BlockIds(f) /\ IsPartOfBlock(g, f, at, d[1])
    BY <2>1 DEF IsPartOf
  <2>3. CASE d[2] = 0 /\ \E p \in DOMAIN g.blocks[d[1]].phis : g.blocks[d[1]].phis[p].dest = v
    <3>1. \E p \in DOMAIN f.blocks[at[d[1]]].phis : f.blocks[at[d[1]]].phis[p].dest = v
      BY <2>2, <2>3, Zenon DEF IsPartOfBlock
    <3> QED BY <2>2, <2>3, <3>1, DefinitionFacts, Zenon
  <2>4. CASE d[2] \in DOMAIN g.blocks[d[1]].insts /\ g.blocks[d[1]].insts[d[2]].dest = v
    <3>1. /\ d[2] \in DOMAIN f.blocks[at[d[1]]].insts
          /\ f.blocks[at[d[1]]].insts[d[2]].dest = v
      BY <2>2, <2>4, Zenon DEF IsPartOfBlock
    <3> QED BY <2>2, <3>1, DefinitionFacts, Zenon
  <2> QED BY <2>3, <2>4, DefinitionFacts
<1>2. ASSUME NEW d \in Definitions(f, v), NEW n \in BlockIds(g), d[1] = at[n]
      PROVE  <<n, d[2]>> \in Definitions(g, v)
  <2>1. IsPartOfBlock(g, f, at, n)
    BY DEF IsPartOf
  <2>2. CASE d[2] = 0 /\ \E p \in DOMAIN f.blocks[d[1]].phis : f.blocks[d[1]].phis[p].dest = v
    <3>1. \E p \in DOMAIN g.blocks[n].phis : g.blocks[n].phis[p].dest = v
      BY <1>2, <2>1, <2>2, ZenonT(60) DEF IsPartOfBlock
    <3> QED BY <2>2, <3>1, DefinitionFacts, Zenon
  <2>3. CASE d[2] \in DOMAIN f.blocks[d[1]].insts /\ f.blocks[d[1]].insts[d[2]].dest = v
    <3>1. d[2] \in DOMAIN g.blocks[n].insts /\ g.blocks[n].insts[d[2]].dest = v
      BY <1>2, <2>1, <2>3, Zenon DEF IsPartOfBlock
    <3> QED BY <3>1, DefinitionFacts
  <2> QED BY <2>2, <2>3, DefinitionFacts
<1> QED BY <1>1, <1>2

LEMMA PartDominates ==
    ASSUME NEW g, IsFunction(g), NEW f, IsFunction(f), NEW at, IsPartOf(g, f, at),
           NEW a \in BlockIds(g), NEW b \in BlockIds(g), Dominates(f, at[a], at[b])
    PROVE  Dominates(g, a, b)
<1> DEFINE S == {n \in BlockIds(g) : at[n] \in ReachableAvoiding(f, {at[a]})}
<1>1. 1 \in BlockIds(g)
  BY BlockTypes
<1>2. 1 \notin {a} => 1 \in S
  <2>1. SUFFICES ASSUME a # 1 PROVE 1 \in S
    OBVIOUS
  <2>2. at[a] # 1
    BY <1>1, <2>1 DEF IsPartOf
  <2>3. at[1] \in ReachableAvoiding(f, {at[a]})
    BY <2>2, AvoidingFacts DEF IsPartOf
  <2> QED BY <1>1, <2>3
<1>3. ASSUME NEW n \in S, NEW c \in ToSet(Successors(g, n)), c \notin {a} PROVE c \in S
  <2>1. c \in BlockIds(g)
    BY PartTypes, SMTT(30) DEF Successors, ToSet
  <2>2. at[c] \in ToSet(Successors(f, at[n]))
    BY DEF IsPartOf, IsPartOfBlock
  <2>3. at[c] \notin {at[a]}
    BY <1>3, <2>1 DEF IsPartOf
  <2>4. at[c] \in ReachableAvoiding(f, {at[a]})
    BY <2>2, <2>3, AvoidingFacts
  <2> QED BY <2>1, <2>4
<1> HIDE DEF S
<1>4. ReachableAvoiding(g, {a}) \subseteq S
  BY <1>2, <1>3, AvoidingIsLeast
<1> QED BY <1>4 DEF Dominates, S

\* A block that dominates one that is left is left.
LEMMA DominatorsAreLeft ==
    ASSUME NEW g, NEW f, NEW at, IsPartOf(g, f, at),
           NEW a \in BlockIds(f), NEW n \in BlockIds(g), Dominates(f, a, at[n])
    PROVE  \E m \in BlockIds(g) : at[m] = a
  BY DEF IsPartOf

(***************************************************************************)
(* Whatever the verifier demands of f, a part of f has too.                *)
(***************************************************************************)
LEMMA DefinedBeforeStays ==
    ASSUME NEW g, IsFunction(g), NEW f, IsFunction(f), NEW at, IsPartOf(g, f, at),
           NEW n \in BlockIds(g), NEW v, NEW position, DefinedBefore(f, v, at[n], position)
    PROVE  DefinedBefore(g, v, n, position)
<1>1. SUFFICES ASSUME NEW d \in Definitions(g, v)
               PROVE  IF d[1] = n THEN d[2] < position ELSE Dominates(g, d[1], n)
  BY DEF DefinedBefore
<1>2. PICK e : e = <<at[d[1]], d[2]>>
  OBVIOUS
<1>3. e \in Definitions(f, v) /\ e[1] = at[d[1]] /\ e[2] = d[2]
  BY <1>2, PartDefinitions
<1>4. IF e[1] = at[n] THEN e[2] < position ELSE Dominates(f, e[1], at[n])
  BY <1>3 DEF DefinedBefore
<1>5. d[1] \in BlockIds(g)
  BY DefinitionFacts
<1>6. CASE d[1] = n
  BY <1>3, <1>4, <1>6
<1>7. CASE d[1] # n
  <2>1. at[d[1]] # at[n]
    BY <1>5, <1>7 DEF IsPartOf
  <2>2. Dominates(f, at[d[1]], at[n])
    BY <1>3, <1>4, <2>1
  <2> QED BY <1>5, <1>7, <2>2, PartDominates
<1> QED BY <1>6, <1>7

LEMMA DefinitionStays ==
    ASSUME NEW g, NEW f, NEW at, IsPartOf(g, f, at), NEW n \in BlockIds(g),
           NEW v, NEW d \in Definitions(f, v), d[1] = at[n] \/ Dominates(f, d[1], at[n])
    PROVE  Definitions(g, v) # {}
<1>1. d[1] \in BlockIds(f)
  BY DefinitionFacts
<1>2. PICK m \in BlockIds(g) : at[m] = d[1]
  BY <1>1, DominatorsAreLeft
<1> QED BY <1>2, PartDefinitions

\* The shape of a terminator's place.
LEMMA SameEnd ==
    ASSUME NEW g, IsFunction(g), NEW f, IsFunction(f), NEW at, IsPartOf(g, f, at),
           NEW n \in BlockIds(g)
    PROVE  Len(g.blocks[n].insts) = Len(f.blocks[at[n]].insts)
<1>1. at[n] \in BlockIds(f) /\ IsPartOfBlock(g, f, at, n)
  BY DEF IsPartOf
<1>2. PICK k, j : k = Len(g.blocks[n].insts) /\ j = Len(f.blocks[at[n]].insts)
  OBVIOUS
<1>3. k \in Nat /\ j \in Nat /\ 1 .. k = 1 .. j
  <2>1. DOMAIN g.blocks[n].insts = DOMAIN f.blocks[at[n]].insts
    BY <1>1, Zenon DEF IsPartOfBlock
  <2> QED BY <1>1, <1>2, <2>1, InstTypes
<1> QED BY <1>2, <1>3

LEMMA PartUsesDominated ==
    ASSUME NEW g, IsFunction(g), NEW f, IsFunction(f), NEW at, IsPartOf(g, f, at), UsesDominated(f)
    PROVE  UsesDominated(g)
<1>1. SUFFICES ASSUME NEW n \in BlockIds(g)
               PROVE  /\ \A i \in DOMAIN g.blocks[n].insts :
                            \A v \in ValuesRead(g.blocks[n].insts[i].args) :
                                  DefinedBefore(g, v, n, i)
                      /\ \A v \in ValuesRead(g.blocks[n].term.args) :
                            DefinedBefore(g, v, n, Len(g.blocks[n].insts) + 1)
  BY Zenon DEF UsesDominated
<1>2. at[n] \in BlockIds(f) /\ IsPartOfBlock(g, f, at, n)
  BY DEF IsPartOf
<1>3. ASSUME NEW i \in DOMAIN g.blocks[n].insts, NEW v \in ValuesRead(g.blocks[n].insts[i].args)
      PROVE  DefinedBefore(g, v, n, i)
  <2>1. i \in DOMAIN f.blocks[at[n]].insts /\ v \in ValuesRead(f.blocks[at[n]].insts[i].args)
    BY <1>2, Zenon DEF IsPartOfBlock
  <2>2. DefinedBefore(f, v, at[n], i)
    BY <1>2, <2>1 DEF UsesDominated
  <2> QED BY <2>2, DefinedBeforeStays
<1>4. ASSUME NEW v \in ValuesRead(g.blocks[n].term.args)
      PROVE  DefinedBefore(g, v, n, Len(g.blocks[n].insts) + 1)
  <2>1. v \in ValuesRead(f.blocks[at[n]].term.args)
    BY <1>2, Zenon DEF IsPartOfBlock
  <2>2. DefinedBefore(f, v, at[n], Len(f.blocks[at[n]].insts) + 1)
    BY <1>2, <2>1 DEF UsesDominated
  <2>3. PICK k : k = Len(g.blocks[n].insts)
    OBVIOUS
  <2>4. k = Len(f.blocks[at[n]].insts)
    BY <2>3, SameEnd
  <2>5. DefinedBefore(f, v, at[n], k + 1)
    BY <2>2, <2>4
  <2>6. DefinedBefore(g, v, n, k + 1)
    BY <2>5, DefinedBeforeStays, Zenon
  <2> QED BY <2>3, <2>6, Zenon
<1> QED BY <1>3, <1>4

\* Where an argument of a phi of g was in f.
LEMMA PartArgument ==
    ASSUME NEW g, IsFunction(g), NEW f, IsFunction(f), NEW at, IsPartOf(g, f, at),
           PhiArgumentsDominated(f), NEW n \in BlockIds(g),
           NEW p \in DOMAIN g.blocks[n].phis, NEW k \in DOMAIN g.blocks[n].phis[p].args,
           g.blocks[n].phis[p].args[k] \in Values
    PROVE  /\ g.blocks[n].preds[k] \in BlockIds(g)
           /\ p \in DOMAIN f.blocks[at[n]].phis
           /\ g.blocks[n].phis[p].args[k] \in ToSet(f.blocks[at[n]].phis[p].args)
           /\ \A d \in Definitions(f, g.blocks[n].phis[p].args[k]) :
                 Dominates(f, d[1], at[g.blocks[n].preds[k]])
<1>1. at[n] \in BlockIds(f) /\ IsPartOfBlock(g, f, at, n)
  BY Zenon DEF IsPartOf
<1>2. PICK j \in DOMAIN f.blocks[at[n]].phis[p].args :
           /\ f.blocks[at[n]].phis[p].args[j] = g.blocks[n].phis[p].args[k]
           /\ f.blocks[at[n]].preds[j] = at[g.blocks[n].preds[k]]
  BY <1>1, ZenonT(40) DEF IsPartOfBlock
<1>3. p \in DOMAIN f.blocks[at[n]].phis /\ g.blocks[n].preds[k] \in BlockIds(g)
  BY <1>1, Zenon DEF IsPartOfBlock
<1>4. \A d \in Definitions(f, f.blocks[at[n]].phis[p].args[j]) :
         Dominates(f, d[1], f.blocks[at[n]].preds[j])
  BY <1>1, <1>2, <1>3, Zenon DEF PhiArgumentsDominated
<1> QED BY <1>2, <1>3, <1>4, Zenon DEF ToSet

LEMMA PartPhiArguments ==
    ASSUME NEW g, IsFunction(g), NEW f, IsFunction(f), NEW at, IsPartOf(g, f, at),
           PhiArgumentsDominated(f)
    PROVE  PhiArgumentsDominated(g)
<1>1. SUFFICES ASSUME NEW n \in BlockIds(g), NEW p \in DOMAIN g.blocks[n].phis,
                      NEW k \in DOMAIN g.blocks[n].phis[p].args,
                      g.blocks[n].phis[p].args[k] \in Values,
                      NEW d \in Definitions(g, g.blocks[n].phis[p].args[k])
               PROVE  Dominates(g, d[1], g.blocks[n].preds[k])
  BY DEF PhiArgumentsDominated
<1>2. PICK v, b : v = g.blocks[n].phis[p].args[k] /\ b = g.blocks[n].preds[k]
  OBVIOUS
<1>3. b \in BlockIds(g) /\ \A e \in Definitions(f, v) : Dominates(f, e[1], at[b])
  BY <1>1, <1>2, PartArgument, Zenon
<1>4. <<at[d[1]], d[2]>> \in Definitions(f, v) /\ d[1] \in BlockIds(g)
  <2>1. d \in Definitions(g, v)
    BY <1>1, <1>2, ZenonT(60)
  <2>2. d[1] \in BlockIds(g)
    BY <2>1, DefinitionFacts
  <2>3. <<at[d[1]], d[2]>> \in Definitions(f, v)
    BY <2>1, PartDefinitions
  <2> QED BY <2>2, <2>3
<1>5. Dominates(f, at[d[1]], at[b])
  BY <1>3, <1>4
<1> QED BY <1>2, <1>3, <1>4, <1>5, PartDominates

LEMMA PartDefinedOnce ==
    ASSUME NEW g, IsFunction(g), NEW f, IsFunction(f), NEW at, IsPartOf(g, f, at),
           DefinedOnce(f), UsesDominated(f), PhiArgumentsDominated(f)
    PROVE  DefinedOnce(g)
<1>1. ASSUME NEW n \in BlockIds(g), NEW v \in ValuesReadIn(g.blocks[n])
      PROVE  Definitions(g, v) # {}
  <2>1. at[n] \in BlockIds(f) /\ IsPartOfBlock(g, f, at, n)
    BY DEF IsPartOf
  <2>2. v \in Values
    BY DEF ValuesReadIn, ValuesRead
  <2>3. CASE \E phi \in ToSet(g.blocks[n].phis) : v \in ValuesRead(phi.args)
    <3>1. PICK p \in DOMAIN g.blocks[n].phis : v \in ValuesRead(g.blocks[n].phis[p].args)
      BY <2>3 DEF ToSet
    <3>2. PICK k \in DOMAIN g.blocks[n].phis[p].args : g.blocks[n].phis[p].args[k] = v
      BY <3>1 DEF ValuesRead, ToSet
    <3>3. /\ g.blocks[n].preds[k] \in BlockIds(g) /\ p \in DOMAIN f.blocks[at[n]].phis
          /\ v \in ToSet(f.blocks[at[n]].phis[p].args)
          /\ \A d \in Definitions(f, v) : Dominates(f, d[1], at[g.blocks[n].preds[k]])
      BY <2>2, <3>2, PartArgument
    <3>4. PICK d : d \in Definitions(f, v)
      BY <2>1, <2>2, <3>3, ReadIsDefined
    <3> QED BY <3>3, <3>4, DefinitionStays
  <2>4. CASE \E inst \in ToSet(g.blocks[n].insts) : v \in ValuesRead(inst.args)
    <3>1. PICK i \in DOMAIN g.blocks[n].insts : v \in ValuesRead(g.blocks[n].insts[i].args)
      BY <2>4, Zenon DEF ToSet
    <3>2. i \in DOMAIN f.blocks[at[n]].insts /\ v \in ValuesRead(f.blocks[at[n]].insts[i].args)
      BY <2>1, <3>1, Zenon DEF IsPartOfBlock
    <3>3. PICK d : d \in Definitions(f, v)
      BY <2>1, <2>2, <3>2, ReadIsDefined DEF ValuesRead
    <3>4. d[1] = at[n] \/ Dominates(f, d[1], at[n])
      BY <2>1, <3>2, <3>3 DEF UsesDominated, DefinedBefore
    <3> QED BY <3>3, <3>4, DefinitionStays
  <2>5. CASE v \in ValuesRead(g.blocks[n].term.args)
    <3>1. v \in ValuesRead(f.blocks[at[n]].term.args)
      BY <2>1, <2>5 DEF IsPartOfBlock
    <3>2. PICK d : d \in Definitions(f, v)
      BY <2>1, <2>2, <3>1, ReadIsDefined DEF ValuesRead
    <3>3. d[1] = at[n] \/ Dominates(f, d[1], at[n])
      BY <2>1, <3>1, <3>2 DEF UsesDominated, DefinedBefore
    <3> QED BY <3>2, <3>3, DefinitionStays, Zenon
  <2> QED BY <2>3, <2>4, <2>5 DEF ValuesReadIn
<1>2. ASSUME NEW v \in Values, NEW d \in Definitions(g, v), NEW e \in Definitions(g, v)
      PROVE  d = e
  <2>1. d = <<d[1], d[2]>> /\ e = <<e[1], e[2]>> /\ d[1] \in BlockIds(g) /\ e[1] \in BlockIds(g)
    BY DefinitionFacts
  <2>2. <<at[d[1]], d[2]>> = <<at[e[1]], e[2]>>
    <3>1. PICK x, y : x = <<at[d[1]], d[2]>> /\ y = <<at[e[1]], e[2]>>
      OBVIOUS
    <3>2. x \in Definitions(f, v) /\ y \in Definitions(f, v)
      BY <3>1, PartDefinitions
    <3>3. x = y
      BY <3>2 DEF DefinedOnce
    <3> QED BY <3>1, <3>3
  <2>3. d[1] = e[1] /\ d[2] = e[2]
    BY <2>1, <2>2 DEF IsPartOf
  <2> QED BY <2>1, <2>3
<1>3. ASSUME NEW v \in Values, NEW s \in PhiSites(g, v) PROVE g.site[v] = s
  <2>1. PICK n \in BlockIds(g) : \E p \in DOMAIN g.blocks[n].phis :
               s = <<n, p>> /\ g.blocks[n].phis[p].dest = v
    BY DEF PhiSites
  <2>2. PICK p \in DOMAIN g.blocks[n].phis : s = <<n, p>> /\ g.blocks[n].phis[p].dest = v
    BY <2>1
  <2>3. at[n] \in BlockIds(f) /\ IsPartOfBlock(g, f, at, n)
    BY Zenon DEF IsPartOf
  <2>4. p \in DOMAIN f.blocks[at[n]].phis /\ f.blocks[at[n]].phis[p].dest = v
    BY <2>2, <2>3, Zenon DEF IsPartOfBlock
  <2>5. <<at[n], p>> \in PhiSites(f, v)
    BY <2>3, <2>4 DEF PhiSites
  <2>6. f.site[v] = <<at[n], p>>
    BY <2>5 DEF DefinedOnce
  <2> QED BY <2>2, <2>6 DEF IsPartOf
<1>4. ASSUME NEW v \in Values, NEW s \in InstSites(g, v) PROVE g.site[v] = Removed
  <2>1. PICK n \in BlockIds(g) : \E i \in DOMAIN g.blocks[n].insts :
               s = <<n, i>> /\ g.blocks[n].insts[i].dest = v
    BY DEF InstSites
  <2>2. PICK i \in DOMAIN g.blocks[n].insts : s = <<n, i>> /\ g.blocks[n].insts[i].dest = v
    BY <2>1
  <2>3. at[n] \in BlockIds(f) /\ IsPartOfBlock(g, f, at, n)
    BY Zenon DEF IsPartOf
  <2>4. i \in DOMAIN f.blocks[at[n]].insts /\ f.blocks[at[n]].insts[i].dest = v
    BY <2>2, <2>3, Zenon DEF IsPartOfBlock
  <2>5. <<at[n], i>> \in InstSites(f, v)
    BY <2>3, <2>4 DEF InstSites
  <2>6. f.site[v] = Removed
    BY <2>5, Zenon DEF DefinedOnce
  <2> QED BY <2>6 DEF IsPartOf
<1> QED BY <1>1, <1>2, <1>3, <1>4 DEF DefinedOnce

LEMMA PartParametersFirst ==
    ASSUME NEW g, IsFunction(g), NEW f, NEW at, IsPartOf(g, f, at), ParametersFirst(f)
    PROVE  ParametersFirst(g)
<1>1. SUFFICES ASSUME NEW n \in BlockIds(g), NEW i \in DOMAIN g.blocks[n].insts,
                      g.blocks[n].insts[i].op = "param"
               PROVE  n = 1 /\ \A j \in 1 .. i : g.blocks[n].insts[j].op = "param"
  BY DEF ParametersFirst
<1>2. at[n] \in BlockIds(f) /\ IsPartOfBlock(g, f, at, n)
  BY ZenonT(60) DEF IsPartOf
<1>3. i \in DOMAIN f.blocks[at[n]].insts /\ f.blocks[at[n]].insts[i].op = "param"
  BY <1>1, <1>2 DEF IsPartOfBlock
<1>4. at[n] = 1 /\ \A j \in 1 .. i : f.blocks[at[n]].insts[j].op = "param"
  BY <1>2, <1>3 DEF ParametersFirst
<1>5. n = 1
  BY <1>4, BlockTypes DEF IsPartOf
<1>6. \A j \in 1 .. i : j \in DOMAIN g.blocks[n].insts
  BY InstTypes
<1> QED BY <1>2, <1>4, <1>5, <1>6 DEF IsPartOfBlock

LEMMA PartNoCriticalEdge ==
    ASSUME NEW g, IsFunction(g), NEW f, IsFunction(f), NEW at, IsPartOf(g, f, at), NoCriticalEdge(f)
    PROVE  NoCriticalEdge(g)
<1>1. SUFFICES ASSUME NEW a \in BlockIds(g), NEW b \in BlockIds(g), Contains(Successors(g, a), b)
               PROVE  Len(Successors(g, a)) < 2 \/ Len(g.blocks[b].preds) < 2
  BY DEF NoCriticalEdge, EdgesOf
<1>2. /\ at[a] \in BlockIds(f) /\ IsPartOfBlock(g, f, at, a)
      /\ at[b] \in BlockIds(f) /\ IsPartOfBlock(g, f, at, b)
  BY DEF IsPartOf
<1>3. g.blocks[a].term.to \in Seq(BlockIds(g)) /\ f.blocks[at[a]].term.to \in Seq(BlockIds(f))
      /\ g.blocks[b].preds \in Seq(BlockIds(g)) /\ f.blocks[at[b]].preds \in Seq(BlockIds(f))
  BY <1>2, PartTypes
<1>4. b \in ToSet(Successors(g, a))
  BY <1>1, <1>3, SMTT(30) DEF Contains, ToSet, Successors
<1>5. at[b] \in ToSet(Successors(f, at[a]))
  BY <1>2, <1>4, Zenon DEF IsPartOfBlock
<1>6. Contains(Successors(f, at[a]), at[b])
  BY <1>3, <1>5, ContainsIs DEF Successors
<1>7. PICK e : e = <<at[a], at[b]>>
  OBVIOUS
<1>8. e \in EdgesOf(f) /\ e[1] = at[a] /\ e[2] = at[b]
  BY <1>2, <1>6, <1>7 DEF EdgesOf
<1>9. Len(f.blocks[at[a]].term.to) < 2 \/ Len(f.blocks[at[b]].preds) < 2
  BY <1>8 DEF NoCriticalEdge, Successors
<1>10. PICK k, l, m, n : /\ k = Len(g.blocks[a].term.to) /\ l = Len(f.blocks[at[a]].term.to)
                         /\ m = Len(g.blocks[b].preds) /\ n = Len(f.blocks[at[b]].preds)
  OBVIOUS
<1>11. k \in Nat /\ l \in Nat /\ m \in Nat /\ n \in Nat
  BY <1>3, <1>10, LengthFacts, Zenon
<1>12. k <= l /\ m <= n /\ (l < 2 \/ n < 2)
  BY <1>2, <1>9, <1>10, Zenon DEF IsPartOfBlock
<1>13. k < 2 \/ m < 2
  BY <1>11, <1>12
<1> QED BY <1>10, <1>13 DEF Successors

\* What the verifier wants of a function, short of every block being reachable.
Consistent(f) ==
    /\ IsFunction(f) /\ f.blocks[1].preds = <<>>
    /\ EdgesAgree(f) /\ DefinedOnce(f)
    /\ NoCriticalEdge(f) /\ ParametersFirst(f)
    /\ UsesDominated(f) /\ PhiArgumentsDominated(f)

LEMMA PartIsConsistent ==
    ASSUME NEW f, Consistent(f), NEW g, IsFunction(g), g.blocks[1].preds = <<>>, EdgesAgree(g),
           NEW at, IsPartOf(g, f, at)
    PROVE  Consistent(g)
  BY PartDefinedOnce, PartNoCriticalEdge, PartParametersFirst, PartUsesDominated, PartPhiArguments
     DEF Consistent

InPlace(f) == [b \in BlockIds(f) |-> b]

LEMMA PartInPlace ==
    ASSUME NEW f, IsFunction(f), NEW g, BlockIds(g) = BlockIds(f), g.site = f.site,
           \A b \in BlockIds(f) : IsPartOfBlock(g, f, InPlace(f), b)
    PROVE  IsPartOf(g, f, InPlace(f))
<1>1. \A b \in BlockIds(f) : InPlace(f)[b] = b
  BY DEF InPlace
<1>2. 1 \in BlockIds(f)
  BY BlockTypes
<1> QED BY <1>1, <1>2 DEF IsPartOf

-----------------------------------------------------------------------------
(***************************************************************************)
(* Reading constants in place of values.                                   *)
(***************************************************************************)
AreOperands(replacement) == \A v \in DOMAIN replacement : replacement[v] \in Operands

AreWords(replacement) == \A v \in DOMAIN replacement : replacement[v] \in Word

LEMMA WordsAreOperands ==
    ASSUME NEW r, AreWords(r)
    PROVE  AreOperands(r)
  BY DEF AreWords, AreOperands, Operands

LEMMA WithTypes ==
    ASSUME NEW r, AreOperands(r), NEW args \in Seq(Operands)
    PROVE  /\ With(r, args) \in Seq(Operands) /\ Len(With(r, args)) = Len(args)
           /\ DOMAIN With(r, args) = DOMAIN args
<1>1. PICK n \in Nat : DOMAIN args = 1 .. n /\ Len(args) = n /\ \A a \in 1 .. n :
                 args[a] \in Operands
  BY LengthFacts
<1>2. \A a \in 1 .. n : With(r, args)[a] \in Operands
  BY <1>1 DEF With, AreOperands
<1>3. DOMAIN With(r, args) = 1 .. n
  BY <1>1 DEF With
<1>4. PICK w : w = With(r, args)
  OBVIOUS
<1>5. w = [a \in 1 .. n |-> w[a]]
  BY <1>1, <1>4 DEF With
<1>6. w \in Seq(Operands) /\ Len(w) = n
  BY <1>2, <1>4, <1>5
<1> QED BY <1>1, <1>3, <1>4, <1>6

LEMMA WithFacts ==
    ASSUME NEW r, AreWords(r), NEW args \in Seq(Operands)
    PROVE  /\ With(r, args) \in Seq(Operands) /\ Len(With(r, args)) = Len(args)
           /\ DOMAIN With(r, args) = DOMAIN args
           /\ \A a \in DOMAIN args : With(r, args)[a] \in Values => With(r, args)[a] = args[a]
           /\ ValuesRead(With(r, args)) \subseteq ValuesRead(args)
<1>1. PICK w : w = With(r, args)
  OBVIOUS
<1>2. w \in Seq(Operands) /\ Len(w) = Len(args) /\ DOMAIN w = DOMAIN args
  BY <1>1, WordsAreOperands, WithTypes
<1>3. ASSUME NEW a \in DOMAIN args, w[a] \in Values PROVE w[a] = args[a]
  <2>1. w[a] \notin Word
    BY <1>3, SsaAssumption
  <2> QED BY <1>1, <2>1 DEF With, AreWords
<1>4. ValuesRead(w) \subseteq ValuesRead(args)
  BY <1>2, <1>3 DEF ValuesRead, ToSet
<1> QED BY <1>1, <1>2, <1>3, <1>4

LEMMA WithAllFacts ==
    ASSUME NEW r, AreOperands(r), NEW D, NEW O,
           NEW list \in Seq([dest : D, op : O, args : Seq(Operands)])
    PROVE  /\ WithAll(r, list) \in Seq([dest : D, op : O, args : Seq(Operands)])
           /\ DOMAIN WithAll(r, list) = DOMAIN list
           /\ \A k \in DOMAIN list :
                 /\ WithAll(r, list)[k].dest = list[k].dest /\ WithAll(r, list)[k].op = list[k].op
                 /\ WithAll(r, list)[k].args = With(r, list[k].args)
                 /\ list[k].args \in Seq(Operands)
<1> DEFINE S == [dest : D, op : O, args : Seq(Operands)]
<1>1. PICK n \in Nat : DOMAIN list = 1 .. n /\ \A k \in 1 .. n : list[k] \in S
  BY LengthFacts
<1>2. PICK w : w = WithAll(r, list)
  OBVIOUS
<1>3. w = [k \in 1 .. n |-> [list[k] EXCEPT !.args = With(r, @)]]
  BY <1>1, <1>2 DEF WithAll
<1>4. ASSUME NEW k \in 1 .. n
      PROVE  /\ w[k] \in S /\ w[k].dest = list[k].dest /\ w[k].op = list[k].op
             /\ w[k].args = With(r, list[k].args) /\ list[k].args \in Seq(Operands)
  <2>1. PICK x : x = list[k]
    OBVIOUS
  <2>2. x \in S
    BY <1>1, <2>1
  <2>3. PICK y : y = With(r, x.args)
    OBVIOUS
  <2>4. x.args \in Seq(Operands) /\ y \in Seq(Operands)
    BY <2>2, <2>3, WithTypes
  <2>5. w[k] = [x EXCEPT !.args = y]
    BY <1>3, <2>1, <2>3
  <2> QED BY <2>1, <2>2, <2>3, <2>4, <2>5
<1> HIDE DEF S
<1>5. w \in Seq(S)
  <2>1. w = [k \in 1 .. n |-> w[k]]
    BY <1>3
  <2> QED BY <1>4, <2>1, SequenceOf
<1> QED BY <1>1, <1>2, <1>3, <1>4, <1>5 DEF S

LEMMA WithAllPhis ==
    ASSUME NEW r, AreOperands(r), NEW list \in Seq([dest : Values, args : Seq(Operands)])
    PROVE  /\ WithAll(r, list) \in Seq([dest : Values, args : Seq(Operands)])
           /\ DOMAIN WithAll(r, list) = DOMAIN list
           /\ \A k \in DOMAIN list :
                 /\ WithAll(r, list)[k].dest = list[k].dest
                 /\ WithAll(r, list)[k].args = With(r, list[k].args)
                 /\ list[k].args \in Seq(Operands)
<1> DEFINE S == [dest : Values, args : Seq(Operands)]
<1>1. PICK n \in Nat : DOMAIN list = 1 .. n /\ \A k \in 1 .. n : list[k] \in S
  BY LengthFacts
<1>2. PICK w : w = WithAll(r, list)
  OBVIOUS
<1>3. w = [k \in 1 .. n |-> [list[k] EXCEPT !.args = With(r, @)]]
  BY <1>1, <1>2 DEF WithAll
<1>4. ASSUME NEW k \in 1 .. n
      PROVE  /\ w[k] \in S /\ w[k].dest = list[k].dest
             /\ w[k].args = With(r, list[k].args) /\ list[k].args \in Seq(Operands)
  <2>1. PICK x : x = list[k]
    OBVIOUS
  <2>2. x \in S
    BY <1>1, <2>1
  <2>3. PICK y : y = With(r, x.args)
    OBVIOUS
  <2>4. x.args \in Seq(Operands) /\ y \in Seq(Operands)
    BY <2>2, <2>3, WithTypes
  <2>5. w[k] = [x EXCEPT !.args = y]
    BY <1>3, <2>1, <2>3
  <2> QED BY <2>1, <2>2, <2>3, <2>4, <2>5
<1> HIDE DEF S
<1>5. w \in Seq(S)
  <2>1. w = [k \in 1 .. n |-> w[k]]
    BY <1>3
  <2> QED BY <1>4, <2>1, SequenceOf
<1> QED BY <1>1, <1>2, <1>3, <1>4, <1>5 DEF S

LEMMA WithBlockFacts ==
    ASSUME NEW r, AreOperands(r), NEW ids, NEW block \in BlocksAmong(ids)
    PROVE  /\ WithBlock(r, block) \in BlocksAmong(ids)
           /\ WithBlock(r, block).preds = block.preds
           /\ WithBlock(r, block).phis = WithAll(r, block.phis)
           /\ WithBlock(r, block).insts = WithAll(r, block.insts)
           /\ WithBlock(r, block).term.kind = block.term.kind
           /\ WithBlock(r, block).term.to = block.term.to
           /\ WithBlock(r, block).term.args = With(r, block.term.args)
           /\ block.term.args \in Seq(Operands)
<1> DEFINE Phis  == Seq([dest : Values, args : Seq(Operands)])
           Insts == Seq([dest : Values \cup {NoValue}, op : PureOps \cup EffectOps,
                         args : Seq(Operands)])
           Terms == [kind : {"jump", "branch", "return"}, to : Seq(ids), args : Seq(Operands)]
<1>1. BlocksAmong(ids) = [preds : Seq(ids), phis : Phis, insts : Insts, term : Terms]
  BY DEF BlocksAmong
<1>2. PICK phis, insts, term : /\ phis = WithAll(r, block.phis) /\ insts = WithAll(r, block.insts)
                               /\ term = [block.term EXCEPT !.args = With(r, @)]
  OBVIOUS
<1>3. block.phis \in Phis /\ block.insts \in Insts /\ block.term \in Terms
  BY <1>1
<1>4. phis \in Phis
  BY <1>2, <1>3, WithAllPhis
<1>5. insts \in Insts
  BY <1>2, <1>3, WithAllFacts
<1>6. /\ term \in Terms /\ term.kind = block.term.kind /\ term.to = block.term.to
      /\ term.args = With(r, block.term.args) /\ block.term.args \in Seq(Operands)
  <2>1. PICK x : x = block.term
    OBVIOUS
  <2>2. PICK y : y = With(r, x.args)
    OBVIOUS
  <2>3. x \in Terms /\ x.args \in Seq(Operands) /\ y \in Seq(Operands)
    BY <1>3, <2>1, <2>2, WithTypes
  <2>4. term = [x EXCEPT !.args = y]
    BY <1>2, <2>1, <2>2
  <2> QED BY <2>1, <2>2, <2>3, <2>4
<1>7. WithBlock(r, block) = [block EXCEPT !.phis = phis, !.insts = insts, !.term = term]
  BY <1>1, <1>2 DEF WithBlock
<1> HIDE DEF Phis, Insts, Terms
<1>8. PICK w : w = [block EXCEPT !.phis = phis, !.insts = insts, !.term = term]
  OBVIOUS
<1>9. /\ w \in BlocksAmong(ids) /\ w.preds = block.preds
      /\ w.phis = phis /\ w.insts = insts /\ w.term = term
  <2>1. block \in [preds : Seq(ids), phis : Phis, insts : Insts, term : Terms]
    BY <1>1
  <2>2. term \in Terms
    BY <1>6
  <2>3. w \in [preds : Seq(ids), phis : Phis, insts : Insts, term : Terms]
    BY <1>4, <1>5, <1>8, <2>1, <2>2
  <2>4. /\ w.preds = block.preds /\ w.phis = phis /\ w.insts = insts /\ w.term = term
    BY <1>4, <1>5, <1>8, <2>1, <2>2
  <2> QED BY <1>1, <2>3, <2>4
<1> QED BY <1>2, <1>6, <1>7, <1>8, <1>9

-----------------------------------------------------------------------------
(***************************************************************************)
(* substitute_operands with words: nothing new is read.                    *)
(***************************************************************************)
\* A function with other blocks of the same kinds.
LEMMA FunctionWith ==
    ASSUME NEW f, IsFunction(f), NEW blocks \in Seq(BlocksAmong(BlockIds(f))),
           DOMAIN blocks = BlockIds(f),
           \A b \in BlockIds(f) :
              /\ \A i \in DOMAIN blocks[b].insts : HasItsOperands(blocks[b].insts[i])
              /\ HasItsTargets(blocks[b].term),
           blocks[1].phis = <<>>,
           NEW g, g = [f EXCEPT !.blocks = blocks]
    PROVE  IsFunction(g) /\ g.blocks = blocks /\ g.site = f.site /\ BlockIds(g) = BlockIds(f)
<1>1. PICK S, P : S = BlocksAmong(BlockIds(f)) /\ P = [Values -> Nat \X Nat]
  OBVIOUS
<1>2. f \in [blocks : Seq(S), site : P] /\ blocks \in Seq(S)
  BY <1>1 DEF IsFunction
<1>3. g.blocks = blocks /\ g.site = f.site /\ g \in [blocks : Seq(S), site : P]
  BY <1>2
<1>4. BlockIds(g) = BlockIds(f)
  BY <1>3 DEF BlockIds
<1>5. 1 \in BlockIds(g)
  BY <1>4, BlockTypes
<1>6. S = BlocksAmong(BlockIds(g))
  BY <1>1, <1>4
<1>7. g \in [blocks : Seq(BlocksAmong(BlockIds(g))), site : [Values -> Nat \X Nat]]
  BY <1>1, <1>3, <1>6
<1> QED BY <1>3, <1>4, <1>5, <1>7 DEF IsFunction

LEMMA ShapeOf ==
    ASSUME NEW f, IsFunction(f), NEW b \in BlockIds(f)
    PROVE  /\ f.blocks[b] \in BlocksAmong(BlockIds(f))
           /\ \A i \in DOMAIN f.blocks[b].insts : HasItsOperands(f.blocks[b].insts[i])
           /\ HasItsTargets(f.blocks[b].term)
           /\ f.blocks[1].phis = <<>>
<1>1. /\ \A i \in DOMAIN f.blocks[b].insts : HasItsOperands(f.blocks[b].insts[i])
      /\ HasItsTargets(f.blocks[b].term) /\ f.blocks[1].phis = <<>>
  BY DEF IsFunction
<1> QED BY <1>1, BlockTypes

\* What reading operands in place of values makes of a function's parts.
LEMMA SubstitutedShape ==
    ASSUME NEW f, IsFunction(f), f.blocks[1].preds = <<>>, EdgesAgree(f),
           NEW r, AreOperands(r), NEW g, g = SubstituteOperands(f, r)
    PROVE  /\ IsFunction(g) /\ g.site = f.site /\ BlockIds(g) = BlockIds(f)
           /\ g.blocks[1].preds = <<>> /\ EdgesAgree(g)
           /\ \A b \in BlockIds(f) :
                 /\ g.blocks[b].preds = f.blocks[b].preds
                 /\ g.blocks[b].term.kind = f.blocks[b].term.kind
                 /\ g.blocks[b].term.to = f.blocks[b].term.to
                 /\ g.blocks[b].term.args = With(r, f.blocks[b].term.args)
                 /\ f.blocks[b].term.args \in Seq(Operands)
                 /\ DOMAIN g.blocks[b].phis = DOMAIN f.blocks[b].phis
                 /\ DOMAIN g.blocks[b].insts = DOMAIN f.blocks[b].insts
           /\ \A b \in BlockIds(f) : \A p \in DOMAIN f.blocks[b].phis :
                 /\ g.blocks[b].phis[p].dest = f.blocks[b].phis[p].dest
                 /\ g.blocks[b].phis[p].args = With(r, f.blocks[b].phis[p].args)
                 /\ f.blocks[b].phis[p].args \in Seq(Operands)
           /\ \A b \in BlockIds(f) : \A i \in DOMAIN f.blocks[b].insts :
                 /\ g.blocks[b].insts[i].dest = f.blocks[b].insts[i].dest
                 /\ g.blocks[b].insts[i].op = f.blocks[b].insts[i].op
                 /\ g.blocks[b].insts[i].args = With(r, f.blocks[b].insts[i].args)
                 /\ f.blocks[b].insts[i].args \in Seq(Operands)
<1>2. PICK blocks : blocks = [b \in BlockIds(f) |-> WithBlock(r, f.blocks[b])]
  OBVIOUS
<1>3. g = [f EXCEPT !.blocks = blocks]
  BY <1>2 DEF SubstituteOperands
<1>4. IsFunction(f)
  OBVIOUS
<1>5. ASSUME NEW b \in BlockIds(f)
      PROVE  /\ blocks[b] \in BlocksAmong(BlockIds(f)) /\ blocks[b].preds = f.blocks[b].preds
             /\ blocks[b].phis = WithAll(r, f.blocks[b].phis)
             /\ blocks[b].insts = WithAll(r, f.blocks[b].insts)
             /\ blocks[b].term.kind = f.blocks[b].term.kind
             /\ blocks[b].term.to = f.blocks[b].term.to
             /\ blocks[b].term.args = With(r, f.blocks[b].term.args)
             /\ f.blocks[b].term.args \in Seq(Operands)
  <2>1. PICK x : x = f.blocks[b]
    OBVIOUS
  <2>2. x \in BlocksAmong(BlockIds(f))
    BY <1>4, <2>1, ShapeOf
  <2>3. blocks[b] = WithBlock(r, x)
    BY <1>2, <2>1
  <2> QED BY <2>1, <2>2, <2>3, WithBlockFacts
<1>6. ASSUME NEW b \in BlockIds(f)
      PROVE  /\ DOMAIN blocks[b].phis = DOMAIN f.blocks[b].phis
             /\ \A p \in DOMAIN f.blocks[b].phis :
                   /\ blocks[b].phis[p].dest = f.blocks[b].phis[p].dest
                   /\ blocks[b].phis[p].args = With(r, f.blocks[b].phis[p].args)
                   /\ f.blocks[b].phis[p].args \in Seq(Operands)
  <2>1. PICK list : list = f.blocks[b].phis
    OBVIOUS
  <2>2. list \in Seq([dest : Values, args : Seq(Operands)]) /\ blocks[b].phis = WithAll(r, list)
    BY <1>4, <1>5, <2>1, PartTypes
  <2>3. /\ DOMAIN WithAll(r, list) = DOMAIN list
        /\ \A p \in DOMAIN list :
              /\ WithAll(r, list)[p].dest = list[p].dest
              /\ WithAll(r, list)[p].args = With(r, list[p].args)
              /\ list[p].args \in Seq(Operands)
    BY <2>2, WithAllPhis
  <2> QED BY <2>1, <2>2, <2>3
<1>7. ASSUME NEW b \in BlockIds(f)
      PROVE  /\ DOMAIN blocks[b].insts = DOMAIN f.blocks[b].insts
             /\ \A i \in DOMAIN f.blocks[b].insts :
                   /\ blocks[b].insts[i].dest = f.blocks[b].insts[i].dest
                   /\ blocks[b].insts[i].op = f.blocks[b].insts[i].op
                   /\ blocks[b].insts[i].args = With(r, f.blocks[b].insts[i].args)
                   /\ f.blocks[b].insts[i].args \in Seq(Operands)
  <2>1. PICK list : list = f.blocks[b].insts
    OBVIOUS
  <2>2. /\ list \in Seq([dest : Values \cup {NoValue}, op : PureOps \cup EffectOps,
                         args : Seq(Operands)])
        /\ blocks[b].insts = WithAll(r, list)
    BY <1>4, <1>5, <2>1, PartTypes
  <2>3. /\ DOMAIN WithAll(r, list) = DOMAIN list
        /\ \A i \in DOMAIN list :
              /\ WithAll(r, list)[i].dest = list[i].dest /\ WithAll(r, list)[i].op = list[i].op
              /\ WithAll(r, list)[i].args = With(r, list[i].args)
              /\ list[i].args \in Seq(Operands)
    <3>1. PICK D, O : D = Values \cup {NoValue} /\ O = PureOps \cup EffectOps
      OBVIOUS
    <3>2. list \in Seq([dest : D, op : O, args : Seq(Operands)])
      BY <2>2, <3>1
    <3> QED BY <3>2, WithAllFacts
  <2> QED BY <2>1, <2>2, <2>3
<1>8. ASSUME NEW b \in BlockIds(f)
      PROVE  /\ \A i \in DOMAIN blocks[b].insts : HasItsOperands(blocks[b].insts[i])
             /\ HasItsTargets(blocks[b].term)
  <2>1. ASSUME NEW i \in DOMAIN blocks[b].insts PROVE HasItsOperands(blocks[b].insts[i])
    <3>1. HasItsOperands(f.blocks[b].insts[i])
      BY <1>4, <1>7, ShapeOf
    <3>2. Len(blocks[b].insts[i].args) = Len(f.blocks[b].insts[i].args)
      BY <1>7, WithTypes
    <3> QED BY <1>7, <3>1, <3>2 DEF HasItsOperands
  <2>2. HasItsTargets(blocks[b].term)
    <3>1. HasItsTargets(f.blocks[b].term)
      BY <1>4, ShapeOf
    <3>2. Len(blocks[b].term.args) = Len(f.blocks[b].term.args)
      BY <1>5, WithTypes
    <3> QED BY <1>5, <3>1, <3>2 DEF HasItsTargets
  <2> QED BY <2>1, <2>2
<1>9. 1 \in BlockIds(f) /\ blocks[1].phis = <<>>
  <2>1. 1 \in BlockIds(f)
    BY <1>4, BlockTypes
  <2>2. f.blocks[1].phis = <<>>
    BY <1>4 DEF IsFunction
  <2>3. blocks[1].phis = WithAll(r, <<>>)
    BY <1>5, <2>1, <2>2
  <2> QED BY <2>1, <2>3 DEF WithAll
<1>10. IsFunction(g) /\ g.blocks = blocks /\ g.site = f.site /\ BlockIds(g) = BlockIds(f)
  <2>1. PICK n \in Nat : BlockIds(f) = 1 .. n
    BY <1>4, BlockTypes
  <2>2. blocks = [b \in 1 .. n |-> blocks[b]]
    BY <1>2, <2>1
  <2>3. blocks \in Seq(BlocksAmong(BlockIds(f)))
    BY <1>5, <2>1, <2>2, SequenceOf
  <2>4. DOMAIN blocks = BlockIds(f)
    BY <1>2
  <2> QED BY <1>3, <1>4, <1>8, <1>9, <2>3, <2>4, FunctionWith
<1>11. g.blocks[1].preds = <<>>
  BY <1>5, <1>9, <1>10
<1>12. EdgesAgree(g)
  <2>1. SUFFICES ASSUME NEW b \in BlockIds(f)
                 PROVE  /\ ToSet(blocks[b].preds) \subseteq BlockIds(f)
                        /\ \A a \in BlockIds(f) :
                              CountIn(blocks[b].preds, a) = CountIn(blocks[a].term.to, b)
                        /\ \A p \in DOMAIN blocks[b].phis :
                              Len(blocks[b].phis[p].args) = Len(blocks[b].preds)
    BY <1>10 DEF EdgesAgree, Successors
  <2>2. /\ ToSet(f.blocks[b].preds) \subseteq BlockIds(f)
        /\ \A a \in BlockIds(f) : CountIn(f.blocks[b].preds, a) = CountIn(f.blocks[a].term.to, b)
        /\ \A p \in DOMAIN f.blocks[b].phis :
              Len(f.blocks[b].phis[p].args) = Len(f.blocks[b].preds)
    BY DEF EdgesAgree, Successors
  <2>3. ASSUME NEW p \in DOMAIN blocks[b].phis
        PROVE  Len(blocks[b].phis[p].args) = Len(blocks[b].preds)
    <3>1. Len(blocks[b].phis[p].args) = Len(f.blocks[b].phis[p].args)
      BY <1>6, WithTypes
    <3> QED BY <1>5, <1>6, <2>2, <3>1
  <2> QED BY <1>5, <2>2, <2>3
<1> QED BY <1>5, <1>6, <1>7, <1>10, <1>11, <1>12

LEMMA SubstitutionIsConsistent ==
    ASSUME NEW f, Consistent(f), NEW r, AreWords(r)
    PROVE  Consistent(SubstituteOperands(f, r))
<1>1. PICK g : g = SubstituteOperands(f, r)
  OBVIOUS
<1>2. IsFunction(f) /\ f.blocks[1].preds = <<>> /\ EdgesAgree(f) /\ AreOperands(r)
  BY WordsAreOperands DEF Consistent
<1>10. IsFunction(g) /\ g.site = f.site /\ BlockIds(g) = BlockIds(f)
  BY <1>1, <1>2, SubstitutedShape
<1>11. g.blocks[1].preds = <<>>
  BY <1>1, <1>2, SubstitutedShape
<1>12. EdgesAgree(g)
  BY <1>1, <1>2, SubstitutedShape
<1>5. ASSUME NEW b \in BlockIds(f)
      PROVE  /\ g.blocks[b].preds = f.blocks[b].preds
             /\ g.blocks[b].term.kind = f.blocks[b].term.kind
             /\ g.blocks[b].term.to = f.blocks[b].term.to
             /\ g.blocks[b].term.args = With(r, f.blocks[b].term.args)
             /\ f.blocks[b].term.args \in Seq(Operands)
  BY <1>1, <1>2, SubstitutedShape
<1>6. ASSUME NEW b \in BlockIds(f)
      PROVE  /\ DOMAIN g.blocks[b].phis = DOMAIN f.blocks[b].phis
             /\ \A p \in DOMAIN f.blocks[b].phis :
                   /\ g.blocks[b].phis[p].dest = f.blocks[b].phis[p].dest
                   /\ g.blocks[b].phis[p].args = With(r, f.blocks[b].phis[p].args)
                   /\ f.blocks[b].phis[p].args \in Seq(Operands)
  BY <1>1, <1>2, SubstitutedShape, SMTT(30)
<1>7. ASSUME NEW b \in BlockIds(f)
      PROVE  /\ DOMAIN g.blocks[b].insts = DOMAIN f.blocks[b].insts
             /\ \A i \in DOMAIN f.blocks[b].insts :
                   /\ g.blocks[b].insts[i].dest = f.blocks[b].insts[i].dest
                   /\ g.blocks[b].insts[i].op = f.blocks[b].insts[i].op
                   /\ g.blocks[b].insts[i].args = With(r, f.blocks[b].insts[i].args)
                   /\ f.blocks[b].insts[i].args \in Seq(Operands)
  BY <1>1, <1>2, SubstitutedShape, SMTT(30)
<1>13. ASSUME NEW b \in BlockIds(f) PROVE IsPartOfBlock(g, f, InPlace(f), b)
  <2> DEFINE is == g.blocks[b]
             was == f.blocks[b]
  <2>1. g.blocks[b] = is /\ f.blocks[InPlace(f)[b]] = was /\ InPlace(f)[b] = b
    BY <1>10 DEF InPlace
  <2>2. /\ DOMAIN is.phis = DOMAIN was.phis /\ DOMAIN is.insts = DOMAIN was.insts
        /\ \A p \in DOMAIN is.phis : is.phis[p].dest = was.phis[p].dest
    BY <1>6, <1>7
  <2>3. ASSUME NEW i \in DOMAIN is.insts
        PROVE  /\ is.insts[i].dest = was.insts[i].dest /\ is.insts[i].op = was.insts[i].op
               /\ ValuesRead(is.insts[i].args) \subseteq ValuesRead(was.insts[i].args)
    BY <1>7, WithFacts
  <2>4. ValuesRead(is.term.args) \subseteq ValuesRead(was.term.args)
    BY <1>5, WithFacts
  <2>5. ASSUME NEW p \in DOMAIN is.phis, NEW k \in DOMAIN is.phis[p].args
        PROVE  /\ k \in DOMAIN was.phis[p].args
               /\ is.phis[p].args[k] \in Values => was.phis[p].args[k] = is.phis[p].args[k]
               /\ is.preds[k] = was.preds[k] /\ is.preds[k] \in BlockIds(f)
    <3>1. PICK args : args = was.phis[p].args
      OBVIOUS
    <3>2. args \in Seq(Operands) /\ is.phis[p].args = With(r, args)
      BY <1>6, <3>1
    <3>3. k \in DOMAIN args /\ (With(r, args)[k] \in Values => args[k] = With(r, args)[k])
      BY <3>2, WithFacts
    <3>4. Len(args) = Len(was.preds)
      BY <1>2, <1>6, <3>1 DEF EdgesAgree
    <3>5. was.preds \in Seq(BlockIds(f))
      BY <1>2, PartTypes
    <3>6. k \in 1 .. Len(was.preds)
      BY <3>2, <3>3, <3>4, LengthFacts
    <3>7. was.preds[k] \in BlockIds(f)
      BY <3>5, <3>6, LengthFacts
    <3> QED BY <1>5, <3>1, <3>2, <3>3, <3>7
  <2>6. Successors(g, b) = Successors(f, b)
    BY <1>5, <1>10 DEF Successors
  <2>7. \A c \in ToSet(Successors(f, b)) : InPlace(f)[c] = c
    BY <1>2, PartTypes DEF InPlace, Successors, ToSet
  <2>8. Len(is.term.to) <= Len(was.term.to) /\ Len(is.preds) <= Len(was.preds)
    <3>1. PICK m, n : m = Len(was.term.to) /\ n = Len(was.preds)
      OBVIOUS
    <3>2. m \in Nat /\ n \in Nat
      BY <1>2, <3>1, PartTypes, LengthFacts
    <3>3. is.term.to = was.term.to /\ is.preds = was.preds
      BY <1>5
    <3>4. m <= m /\ n <= n
      BY <3>2
    <3> HIDE DEF is, was
    <3> QED BY <3>1, <3>3, <3>4, Zenon
  <2> DEFINE old == f.blocks[InPlace(f)[b]]
  <2>9. old = was
    BY <2>1
  <2> HIDE DEF is, was, old
  <2>10. /\ DOMAIN is.phis = DOMAIN old.phis /\ DOMAIN is.insts = DOMAIN old.insts
         /\ \A p \in DOMAIN is.phis : is.phis[p].dest = old.phis[p].dest
    BY <2>2, <2>9
  <2>11. \A i \in DOMAIN is.insts :
            /\ is.insts[i].dest = old.insts[i].dest
            /\ is.insts[i].op = "param" <=> old.insts[i].op = "param"
            /\ ValuesRead(is.insts[i].args) \subseteq ValuesRead(old.insts[i].args)
    BY <2>3, <2>9
  <2>12. /\ ValuesRead(is.term.args) \subseteq ValuesRead(old.term.args)
         /\ Len(is.term.to) <= Len(old.term.to) /\ Len(is.preds) <= Len(old.preds)
    BY <2>4, <2>8, <2>9
  <2>13. ASSUME NEW p \in DOMAIN is.phis, NEW k \in DOMAIN is.phis[p].args
         PROVE  /\ is.phis[p].args[k] \in Values =>
                      \E j \in DOMAIN old.phis[p].args :
                         /\ old.phis[p].args[j] = is.phis[p].args[k]
                         /\ old.preds[j] = InPlace(f)[is.preds[k]]
                /\ is.preds[k] \in BlockIds(g)
    <3>1. is.preds[k] \in BlockIds(g) /\ InPlace(f)[is.preds[k]] = is.preds[k]
      BY <1>10, <2>5 DEF InPlace
    <3> QED BY <2>5, <2>9, <3>1
  <2>14. \A c \in ToSet(Successors(g, b)) : InPlace(f)[c] \in ToSet(Successors(f, InPlace(f)[b]))
    BY <2>1, <2>6, <2>7
  <2> QED BY <2>10, <2>11, <2>12, <2>13, <2>14, Zenon DEF IsPartOfBlock, is, old
<1>14. IsPartOf(g, f, InPlace(f))
  BY <1>2, <1>10, <1>13, PartInPlace
<1> QED BY <1>1, <1>10, <1>11, <1>12, <1>14, PartIsConsistent

-----------------------------------------------------------------------------
(***************************************************************************)
(* A branch that becomes a jump.                                           *)
(***************************************************************************)
LEMMA OnlyOne ==
    ASSUME NEW x
    PROVE  /\ RemoveFirst(<<x>>, x) = <<>>
           /\ \A y : Contains(<<x>>, y) <=> y = x
           /\ \A y : ~Contains(<<>>, y)
<1>1. Len(<<x>>) = 1 /\ <<x>>[1] = x /\ Len(<<>>) = 0
  OBVIOUS
<1>2. SelectInSeq(<<x>>, LAMBDA v : v = x) = 1
  <2>1. {i \in 1 .. Len(<<x>>) : <<x>>[i] = x} = {1}
    BY <1>1
  <2>2. Min({1}) = 1
    BY DEF Min
  <2> QED BY <2>1, <2>2 DEF SelectInSeq
<1>3. RemoveAt(<<x>>, 1) = <<>>
  BY DEF RemoveAt
<1>4. \E i \in 1 .. Len(<<x>>) : <<x>>[i] = x
  BY <1>1
<1>5. RemoveFirst(<<x>>, x) = RemoveAt(<<x>>, SelectInSeq(<<x>>, LAMBDA v : v = x))
  BY <1>4 DEF RemoveFirst
<1>6. RemoveFirst(<<x>>, x) = <<>>
  BY <1>2, <1>3, <1>5
<1>7. \A y : Contains(<<x>>, y) <=> y = x
  BY <1>1 DEF Contains
<1>8. \A y : ~Contains(<<>>, y)
  BY <1>1 DEF Contains
<1> QED BY <1>6, <1>7, <1>8

LEMMA BranchToJump ==
    ASSUME NEW f, NEW b, NEW x, NEW y, x # y, Successors(f, b) = <<x, y>>,
           NEW t, NEW o, (t = x /\ o = y) \/ (t = y /\ o = x)
    PROVE  SetTerminator(f, b, Jump(t)) = [RemoveEdge(f, b, o) EXCEPT !.blocks[b].term = Jump(t)]
<1> DEFINE old == Successors(f, b)
           term == Jump(t)
           matched[k \in 0 .. Len(old)] ==
              IF k = 0 THEN [f |-> f, added |-> term.to]
              ELSE LET before == matched[k - 1]
                   IN  IF Contains(before.added, old[k])
                       THEN [before EXCEPT !.added = RemoveFirst(@, old[k])]
                       ELSE [before EXCEPT !.f = RemoveEdge(@, b, old[k])]
           rest  == matched[Len(old)]
           added == rest.added
           entered[k \in 0 .. Len(added)] ==
              IF k = 0 THEN rest.f
              ELSE LET before == entered[k - 1]
                   IN  [before EXCEPT !.blocks[added[k]].preds = Append(@, b)]
<1>1. SetTerminator(f, b, term) = [entered[Len(added)] EXCEPT !.blocks[b].term = term]
  BY DEF SetTerminator
<1>2. Len(old) = 2 /\ old[1] = x /\ old[2] = y /\ term.to = <<t>>
  BY DEF Jump
<1> DEFINE Next1(before, s) == IF Contains(before.added, s)
                               THEN [before EXCEPT !.added = RemoveFirst(@, s)]
                               ELSE [before EXCEPT !.f = RemoveEdge(@, b, s)]
<1>3. PICK g : g = RemoveEdge(f, b, o)
  OBVIOUS
<1>4. PICK m0, m1, m2 : /\ m0 = [f |-> f, added |-> <<t>>]
                        /\ m1 = Next1(m0, x) /\ m2 = Next1(m1, y)
  OBVIOUS
<1>5. m2 = [f |-> g, added |-> <<>>]
  <2>1. m0.f = f /\ m0.added = <<t>>
    BY <1>4
  <2>2. CASE t = x /\ o = y
    <3>1. m1 = [f |-> f, added |-> <<>>]
      <4>1. Contains(m0.added, x) /\ RemoveFirst(m0.added, x) = <<>>
        BY <2>1, <2>2, OnlyOne
      <4>2. m1 = [m0 EXCEPT !.added = <<>>]
        BY <1>4, <4>1
      <4> QED BY <1>4, <4>2
    <3>2. ~Contains(m1.added, y) /\ RemoveEdge(m1.f, b, y) = g
      BY <1>3, <2>2, <3>1, OnlyOne
    <3>3. m2 = [m1 EXCEPT !.f = g]
      BY <1>4, <3>2
    <3> QED BY <3>1, <3>3
  <2>3. CASE t = y /\ o = x
    <3>1. m1 = [f |-> g, added |-> <<t>>]
      <4>1. ~Contains(m0.added, x) /\ RemoveEdge(m0.f, b, x) = g
        BY <1>3, <2>1, <2>3, OnlyOne
      <4>2. m1 = [m0 EXCEPT !.f = g]
        BY <1>4, <4>1
      <4> QED BY <1>4, <4>2
    <3>2. Contains(m1.added, y) /\ RemoveFirst(m1.added, y) = <<>>
      BY <2>3, <3>1, OnlyOne
    <3>3. m2 = [m1 EXCEPT !.added = <<>>]
      BY <1>4, <3>2
    <3> QED BY <3>1, <3>3
  <2> QED BY <2>2, <2>3
<1>6. matched[Len(old)] = m2
  <2>1. PICK h : h = [k \in 0 .. 2 |-> IF k = 0 THEN m0 ELSE IF k = 1 THEN m1 ELSE m2]
    OBVIOUS
  <2>2. h[0] = m0 /\ h[1] = m1 /\ h[2] = m2
    BY <2>1
  <2>3. ASSUME NEW w, w = [k \in 0 .. Len(old) |->
                             IF k = 0 THEN [f |-> f, added |-> term.to]
                             ELSE LET before == w[k - 1]
                                  IN  IF Contains(before.added, old[k])
                                      THEN [before EXCEPT !.added = RemoveFirst(@, old[k])]
                                      ELSE [before EXCEPT !.f = RemoveEdge(@, b, old[k])]]
        PROVE  w[0] = m0 /\ w[1] = m1 /\ w[2] = m2
    <3> HIDE DEF old, term, matched, rest, added, entered
    <3>1. w[0] = [f |-> f, added |-> term.to]
      BY <1>2, <2>3
    <3>2. w[0] = m0
      BY <1>2, <1>4, <3>1, Zenon
    <3>3. ASSUME NEW k \in 1 .. 2 PROVE w[k] = Next1(w[k - 1], old[k])
      <4>1. k \in 0 .. Len(old) /\ k # 0
        BY <1>2
      <4> QED BY <2>3, <4>1
    <3> HIDE DEF Next1
    <3>4. w[1] = Next1(w[1 - 1], old[1]) /\ w[2] = Next1(w[2 - 1], old[2])
      BY <3>3
    <3>5. 1 - 1 = 0 /\ 2 - 1 = 1
      OBVIOUS
    <3>6. w[1] = m1
      BY <1>2, <1>4, <3>2, <3>4, <3>5
    <3>7. w[2] = m2
      BY <1>2, <1>4, <3>4, <3>5, <3>6
    <3> QED BY <3>2, <3>6, <3>7
  <2>4. h = [k \in 0 .. Len(old) |->
               IF k = 0 THEN [f |-> f, added |-> term.to]
               ELSE LET before == h[k - 1]
                    IN  IF Contains(before.added, old[k])
                        THEN [before EXCEPT !.added = RemoveFirst(@, old[k])]
                        ELSE [before EXCEPT !.f = RemoveEdge(@, b, old[k])]]
    <3> HIDE DEF old, term, matched, rest, added, entered, Next1
    <3>1. m0 = [f |-> f, added |-> term.to]
      BY <1>2, <1>4
    <3>2. ASSUME NEW k \in 0 .. Len(old)
          PROVE  h[k] = IF k = 0 THEN m0 ELSE Next1(h[k - 1], old[k])
      <4>1. k = 0 \/ k = 1 \/ k = 2
        BY <1>2
      <4>2. CASE k = 0
        BY <2>2, <4>2
      <4>3. CASE k = 1
        <5>1. h[k] = m1 /\ h[k - 1] = m0 /\ old[k] = x
          BY <1>2, <2>2, <4>3
        <5> QED BY <1>4, <4>3, <5>1
      <4>4. CASE k = 2
        <5>1. h[k] = m2 /\ h[k - 1] = m1 /\ old[k] = y
          BY <1>2, <2>2, <4>4
        <5> QED BY <1>4, <4>4, <5>1
      <4> QED BY <4>1, <4>2, <4>3, <4>4
    <3>3. h = [k \in 0 .. Len(old) |-> h[k]]
      BY <1>2, <2>1
    <3>4. h = [k \in 0 .. Len(old) |-> IF k = 0 THEN m0 ELSE Next1(h[k - 1], old[k])]
      BY <3>2, <3>3
    <3> QED BY <3>1, <3>4 DEF Next1
  <2>5. matched = [k \in 0 .. Len(old) |->
                     IF k = 0 THEN [f |-> f, added |-> term.to]
                     ELSE LET before == matched[k - 1]
                          IN  IF Contains(before.added, old[k])
                              THEN [before EXCEPT !.added = RemoveFirst(@, old[k])]
                              ELSE [before EXCEPT !.f = RemoveEdge(@, b, old[k])]]
    BY <2>4, Zenon
  <2>6. PICK w : w = matched
    BY SMTT(30)
  <2>7. w[2] = m2
    BY <2>3, <2>5, <2>6, Zenon
  <2> QED BY <1>2, <2>6, <2>7
<1>7. rest.f = g /\ added = <<>>
  <2>1. rest = m2
    BY <1>6
  <2> HIDE DEF rest
  <2>2. rest.f = g /\ rest.added = <<>>
    BY <1>5, <2>1
  <2> QED BY <2>2
<1>8. entered[Len(added)] = g
  <2> HIDE DEF rest
  <2>1. Len(added) = 0
    BY <1>7
  <2> HIDE DEF added
  <2>2. PICK h : h = [k \in 0 .. 0 |-> g]
    OBVIOUS
  <2>3. h = [k \in 0 .. Len(added) |->
              IF k = 0 THEN rest.f
              ELSE LET before == h[k - 1]
                   IN  [before EXCEPT !.blocks[added[k]].preds = Append(@, b)]]
    BY <1>7, <2>1, <2>2
  <2>4. entered = [k \in 0 .. Len(added) |->
                     IF k = 0 THEN rest.f
                     ELSE LET before == entered[k - 1]
                          IN  [before EXCEPT !.blocks[added[k]].preds = Append(@, b)]]
    BY <2>3, Zenon
  <2>5. entered[0] = rest.f
    BY <2>1, <2>4
  <2> QED BY <1>7, <2>1, <2>5
<1> HIDE DEF entered, added, rest, matched
<1> QED BY <1>1, <1>3, <1>8

LEMMA CountFacts ==
    ASSUME NEW x, NEW y, NEW e
    PROVE  /\ CountIn(<<>>, e) = 0
           /\ CountIn(<<x>>, e) = IF e = x THEN 1 ELSE 0
           /\ x # y => CountIn(<<x, y>>, e) = IF e = x \/ e = y THEN 1 ELSE 0
           /\ CountIn(<<x, x>>, x) = 2
<1>1. /\ Cardinality({}) = 0 /\ Cardinality({1}) = 1 /\ Cardinality({2}) = 1
      /\ Cardinality(1 .. 2) = 2
  <2>1. Cardinality({}) = 0
    BY FS_EmptySet
  <2>2. Cardinality({1}) = 1 /\ Cardinality({2}) = 1
    BY FS_Singleton
  <2>3. Cardinality(1 .. 2) = 2
    <3>1. PICK m \in Int, n \in Int : m = 1 /\ n = 2
      OBVIOUS
    <3>2. Cardinality(m .. n) = IF m > n THEN 0 ELSE n - m + 1
      BY FS_Interval
    <3>3. (IF m > n THEN 0 ELSE n - m + 1) = 2
      BY <3>1
    <3>4. Cardinality(m .. n) = 2
      BY <3>2, <3>3
    <3> QED BY <3>1, <3>4
  <2> QED BY <2>1, <2>2, <2>3
<1>2. CountIn(<<>>, e) = 0
  <2>1. {k \in DOMAIN <<>> : <<>>[k] = e} = {}
    OBVIOUS
  <2> QED BY <1>1, <2>1 DEF CountIn
<1>3. CountIn(<<x>>, e) = IF e = x THEN 1 ELSE 0
  <2>1. {k \in DOMAIN <<x>> : <<x>>[k] = e} = IF e = x THEN {1} ELSE {}
    OBVIOUS
  <2> QED BY <1>1, <2>1 DEF CountIn
<1>4. x # y => CountIn(<<x, y>>, e) = IF e = x \/ e = y THEN 1 ELSE 0
  <2>1. x # y => {k \in DOMAIN <<x, y>> : <<x, y>>[k] = e}
                    = IF e = x THEN {1} ELSE IF e = y THEN {2} ELSE {}
    OBVIOUS
  <2> QED BY <1>1, <2>1 DEF CountIn
<1>5. CountIn(<<x, x>>, x) = 2
  <2>1. {k \in DOMAIN <<x, x>> : <<x, x>>[k] = x} = 1 .. 2
    OBVIOUS
  <2> QED BY <1>1, <2>1 DEF CountIn
<1> QED BY <1>2, <1>3, <1>4, <1>5

LEMMA CountInPair ==
    ASSUME NEW x, NEW y, x # y, NEW e
    PROVE  /\ e = x \/ e = y => CountIn(<<x, y>>, e) = 1
           /\ e # x /\ e # y => CountIn(<<x, y>>, e) = 0
<1>1. Cardinality({}) = 0 /\ Cardinality({1}) = 1 /\ Cardinality({2}) = 1
  BY FS_EmptySet, FS_Singleton
<1>2. /\ e = x => {k \in DOMAIN <<x, y>> : <<x, y>>[k] = e} = {1}
      /\ e = y => {k \in DOMAIN <<x, y>> : <<x, y>>[k] = e} = {2}
      /\ e # x /\ e # y => {k \in DOMAIN <<x, y>> : <<x, y>>[k] = e} = {}
  OBVIOUS
<1> QED BY <1>1, <1>2 DEF CountIn

LEMMA CountIsBounded ==
    ASSUME NEW S, NEW s \in Seq(S), NEW e
    PROVE  CountIn(s, e) \in Nat /\ CountIn(s, e) <= Len(s)
<1>1. PICK n \in Nat : Len(s) = n /\ DOMAIN s = 1 .. n
  BY LengthFacts
<1>2. PICK T : T = {k \in DOMAIN s : s[k] = e}
  OBVIOUS
<1>3. IsFiniteSet(1 .. n) /\ Cardinality(1 .. n) = n
  BY FS_Interval
<1>4. T \subseteq 1 .. n
  BY <1>1, <1>2
<1>5. Cardinality(T) \in Nat /\ Cardinality(T) <= n
  BY <1>3, <1>4, FS_Subset, FS_CardinalityType
<1> QED BY <1>1, <1>2, <1>5 DEF CountIn

(***************************************************************************)
(* The targets of a branch are two blocks, and nothing else leads there.   *)
(***************************************************************************)
LEMMA BranchTargets ==
    ASSUME NEW f, Consistent(f), NEW b \in BlockIds(f), f.blocks[b].term.kind = "branch"
    PROVE  \E x, y \in BlockIds(f) :
              /\ x # y /\ Successors(f, b) = <<x, y>>
              /\ f.blocks[x].preds = <<b>> /\ f.blocks[y].preds = <<b>>
              /\ x # 1 /\ y # 1
<1>1. IsFunction(f) /\ EdgesAgree(f) /\ NoCriticalEdge(f) /\ f.blocks[1].preds = <<>>
  BY DEF Consistent
<1>2. PICK to : to = f.blocks[b].term.to
  OBVIOUS
<1>3. to \in Seq(BlockIds(f)) /\ Len(to) = 2 /\ Successors(f, b) = to
  <2>1. HasItsTargets(f.blocks[b].term)
    BY <1>1, ShapeOf
  <2> QED BY <1>1, <1>2, <2>1, PartTypes DEF HasItsTargets, Successors
<1>4. PICK x, y : x = to[1] /\ y = to[2]
  OBVIOUS
<1>5. x \in BlockIds(f) /\ y \in BlockIds(f) /\ to = <<x, y>>
  <2>1. DOMAIN to = 1 .. 2 /\ \A k \in 1 .. 2 : to[k] \in BlockIds(f)
    BY <1>3, LengthFacts
  <2> QED BY <1>3, <1>4, <2>1
<1>6. ASSUME NEW z \in {x, y} PROVE Len(f.blocks[z].preds) < 2
  <2>1. PICK e : e = <<b, z>>
    OBVIOUS
  <2>2. Contains(to, z)
    BY <1>3, <1>4 DEF Contains
  <2>3. e \in EdgesOf(f) /\ e[1] = b /\ e[2] = z
    BY <1>3, <1>5, <2>1, <2>2 DEF EdgesOf
  <2>4. Len(Successors(f, e[1])) < 2 \/ Len(f.blocks[e[2]].preds) < 2
    BY <1>1, <2>3 DEF NoCriticalEdge
  <2>5. ~(2 < 2)
    OBVIOUS
  <2> QED BY <1>3, <2>3, <2>4, <2>5
<1>7. ASSUME NEW z \in {x, y}
      PROVE  f.blocks[z].preds \in Seq(BlockIds(f)) /\ CountIn(f.blocks[z].preds, b) = CountIn(to, z)
  BY <1>1, <1>3, <1>5, PartTypes DEF EdgesAgree
<1>8. x # y
  <2>1. SUFFICES ASSUME x = y PROVE FALSE
    OBVIOUS
  <2>2. CountIn(to, x) = 2
    BY <1>5, <2>1, CountFacts
  <2>3. PICK preds : preds = f.blocks[x].preds
    OBVIOUS
  <2>4. preds \in Seq(BlockIds(f)) /\ CountIn(preds, b) = 2 /\ Len(preds) < 2
    BY <1>6, <1>7, <2>2, <2>3
  <2>5. PICK m, n : m = CountIn(preds, b) /\ n = Len(preds)
    OBVIOUS
  <2>6. m <= n /\ m = 2 /\ n < 2 /\ n \in Nat
    BY <2>4, <2>5, CountIsBounded, LengthFacts
  <2> QED BY <2>6
<1>9. ASSUME NEW z \in {x, y} PROVE f.blocks[z].preds = <<b>> /\ z # 1
  <2>1. z \in BlockIds(f) /\ z \in ToSet(Successors(f, b))
    BY <1>3, <1>4, <1>5 DEF ToSet
  <2>2. PICK k \in DOMAIN f.blocks[z].preds : f.blocks[z].preds[k] = b
    BY <1>1, <2>1, EdgeIsRecorded
  <2>3. PICK preds : preds = f.blocks[z].preds
    OBVIOUS
  <2>4. preds \in Seq(BlockIds(f)) /\ k \in DOMAIN preds /\ preds[k] = b /\ Len(preds) < 2
    BY <1>6, <1>7, <2>2, <2>3
  <2>5. preds = <<b>>
    <3>1. PICK n \in Nat : n = Len(preds) /\ DOMAIN preds = 1 .. n
      BY <2>4, LengthFacts
    <3>2. n = 1 /\ k = 1
      BY <2>4, <3>1
    <3> QED BY <2>4, <3>1, <3>2
  <2>6. <<b>> # <<>>
    OBVIOUS
  <2> QED BY <1>1, <2>3, <2>5, <2>6
<1> QED BY <1>3, <1>5, <1>8, <1>9

LEMMA DroppedFacts ==
    ASSUME NEW phis \in Seq([dest : Values, args : Seq(Operands)]),
           \A p \in DOMAIN phis : Len(phis[p].args) = 1
    PROVE  /\ DropArgument(1, phis) \in Seq([dest : Values, args : Seq(Operands)])
           /\ DOMAIN DropArgument(1, phis) = DOMAIN phis
           /\ \A p \in DOMAIN phis : /\ DropArgument(1, phis)[p].dest = phis[p].dest
                                     /\ DropArgument(1, phis)[p].args = <<>>
<1> DEFINE S == [dest : Values, args : Seq(Operands)]
<1>1. PICK n \in Nat : DOMAIN phis = 1 .. n /\ \A k \in 1 .. n : phis[k] \in S
  BY LengthFacts
<1>2. PICK w : w = DropArgument(1, phis)
  OBVIOUS
<1>3. w = [p \in 1 .. n |-> [phis[p] EXCEPT !.args = RemoveAt(@, 1)]]
  BY <1>1, <1>2 DEF DropArgument
<1>4. ASSUME NEW p \in 1 .. n PROVE w[p] \in S /\ w[p].dest = phis[p].dest /\ w[p].args = <<>>
  <2>1. PICK x : x = phis[p]
    OBVIOUS
  <2>2. PICK args : args = x.args
    OBVIOUS
  <2>3. x \in S /\ args \in Seq(Operands) /\ Len(args) = 1
    BY <1>1, <2>1, <2>2
  <2>4. RemoveAt(args, 1) = <<>>
    <3>1. 1 \in 1 .. Len(args) /\ Len(args) - 1 = 0
      BY <2>3
    <3>2. RemoveAt(args, 1) \in Seq(Operands) /\ Len(RemoveAt(args, 1)) = Len(args) - 1
      BY <2>3, <3>1, RemoveAtFacts
    <3> QED BY <3>1, <3>2
  <2>5. w[p] = [x EXCEPT !.args = <<>>]
    BY <1>3, <2>1, <2>2, <2>4
  <2>6. <<>> \in Seq(Operands)
    OBVIOUS
  <2> QED BY <2>1, <2>3, <2>5, <2>6
<1> HIDE DEF S
<1>5. w \in Seq(S)
  <2>1. w = [k \in 1 .. n |-> w[k]]
    BY <1>3
  <2> QED BY <1>4, <2>1, SequenceOf
<1> QED BY <1>1, <1>2, <1>3, <1>4, <1>5 DEF S

\* What is left of block c when b's branch becomes a jump to t, and not to o.
Jumping(f, b, t, o, c) ==
    [preds |-> IF c = o THEN <<>> ELSE f.blocks[c].preds,
     phis  |-> IF c = o THEN DropArgument(1, f.blocks[c].phis) ELSE f.blocks[c].phis,
     insts |-> f.blocks[c].insts,
     term  |-> IF c = b THEN Jump(t) ELSE f.blocks[c].term]

JumpBlocks(f, b, t, o) == [c \in BlockIds(f) |-> Jumping(f, b, t, o, c)]

\* And the function whose blocks these are.
Jumped(f, b, t, o) == [RemoveEdge(f, b, o) EXCEPT !.blocks[b].term = Jump(t)]

LEMMA JumpingBlocks ==
    ASSUME NEW f, IsFunction(f), NEW b \in BlockIds(f), NEW t, NEW o \in BlockIds(f),
           f.blocks[o].preds = <<b>>
    PROVE  Jumped(f, b, t, o) = [f EXCEPT !.blocks = JumpBlocks(f, b, t, o)]
<1>0. PICK g : g = Jumped(f, b, t, o)
  OBVIOUS
<1>1. SelectInSeq(<<b>>, LAMBDA pred : pred = b) = 1
  <2>1. {i \in 1 .. Len(<<b>>) : <<b>>[i] = b} = {1}
    OBVIOUS
  <2>2. Min({1}) = 1
    BY DEF Min
  <2> QED BY <2>1, <2>2 DEF SelectInSeq
<1>2. SelectInSeq(f.blocks[o].preds, LAMBDA pred : pred = b) = 1
  BY <1>1
<1>3. RemoveAt(f.blocks[o].preds, 1) = <<>>
  BY DEF RemoveAt
<1>4. PICK phis : phis = DropArgument(1, f.blocks[o].phis)
  OBVIOUS
<1>5. RemoveEdge(f, b, o) = [f EXCEPT !.blocks[o].preds = <<>>, !.blocks[o].phis = phis]
  BY <1>2, <1>3, <1>4 DEF RemoveEdge
<1>6. PICK n \in Nat : BlockIds(f) = 1 .. n
  BY BlockTypes
<1>7. PICK S, P : S = BlocksAmong(BlockIds(f)) /\ P = [Values -> Nat \X Nat]
  OBVIOUS
<1>8. f \in [blocks : Seq(S), site : P] /\ DOMAIN f.blocks = BlockIds(f)
      /\ f = [blocks |-> f.blocks, site |-> f.site]
  BY <1>7 DEF IsFunction, BlockIds
<1>9. PICK old : old = f.blocks
  OBVIOUS
<1>10. \A c \in BlockIds(f) :
          old[c] = [preds |-> old[c].preds, phis |-> old[c].phis, insts |-> old[c].insts,
                    term |-> old[c].term]
  BY <1>9, ShapeOf DEF BlocksAmong
<1>11. old = [c \in BlockIds(f) |-> old[c]]
  BY <1>6, <1>7, <1>8, <1>9
<1>12. PICK blocks : blocks = [old EXCEPT ![o].preds = <<>>, ![o].phis = phis, ![b].term = Jump(t)]
  OBVIOUS
<1>13. g = [f EXCEPT !.blocks = blocks]
  BY <1>0, <1>5, <1>8, <1>9, <1>12 DEF Jumped
<1>14. ASSUME NEW c \in BlockIds(f) PROVE blocks[c] = Jumping(f, b, t, o, c)
  <2>1. PICK ps, hs, is, end : /\ ps = old[c].preds /\ hs = old[c].phis
                               /\ is = old[c].insts /\ end = old[c].term
    OBVIOUS
  <2>2. old[c] = [preds |-> ps, phis |-> hs, insts |-> is, term |-> end]
    BY <1>10, <2>1
  <2>3. PICK less : less = [old EXCEPT ![o].preds = <<>>]
    OBVIOUS
  <2>4. less = [k \in BlockIds(f) |-> less[k]]
        /\ less[c] = [preds |-> IF c = o THEN <<>> ELSE ps, phis |-> hs, insts |-> is, term |-> end]
    BY <1>11, <2>2, <2>3
  <2>5. PICK fewer : fewer = [less EXCEPT ![o].phis = phis]
    OBVIOUS
  <2>6. /\ fewer = [k \in BlockIds(f) |-> fewer[k]]
        /\ fewer[c] = [preds |-> IF c = o THEN <<>> ELSE ps, phis |-> IF c = o THEN phis ELSE hs,
                       insts |-> is, term |-> end]
    BY <2>4, <2>5
  <2>7. blocks = [fewer EXCEPT ![b].term = Jump(t)]
    BY <1>12, <2>3, <2>5
  <2>8. blocks[c] = [preds |-> IF c = o THEN <<>> ELSE ps, phis |-> IF c = o THEN phis ELSE hs,
                     insts |-> is, term |-> IF c = b THEN Jump(t) ELSE end]
    BY <2>6, <2>7
  <2>9. c = o => phis = DropArgument(1, f.blocks[c].phis)
    BY <1>4
  <2> QED BY <1>9, <2>1, <2>8, <2>9 DEF Jumping
<1>15. blocks = [c \in BlockIds(f) |-> blocks[c]]
  BY <1>11, <1>12
<1>16. blocks = JumpBlocks(f, b, t, o)
  BY <1>14, <1>15 DEF JumpBlocks
<1> QED BY <1>0, <1>13, <1>16

(***************************************************************************)
(* The other target loses its only predecessor and the first argument of   *)
(* every phi; all else stays.                                              *)
(***************************************************************************)
LEMMA JumpIsConsistent ==
    ASSUME NEW f, Consistent(f), NEW b \in BlockIds(f), f.blocks[b].term.kind = "branch",
           NEW t \in ToSet(Successors(f, b))
    PROVE  /\ Consistent(SetTerminator(f, b, Jump(t)))
           /\ BlockIds(SetTerminator(f, b, Jump(t))) = BlockIds(f)
<1>1. IsFunction(f) /\ EdgesAgree(f) /\ f.blocks[1].preds = <<>> /\ 1 \in BlockIds(f)
  BY BlockTypes DEF Consistent
<1>2. PICK x \in BlockIds(f), y \in BlockIds(f) :
           /\ x # y /\ Successors(f, b) = <<x, y>>
           /\ f.blocks[x].preds = <<b>> /\ f.blocks[y].preds = <<b>>
           /\ x # 1 /\ y # 1
  BY BranchTargets
<1>3. t = x \/ t = y
  BY <1>2 DEF ToSet
<1>4. PICK o \in BlockIds(f) : (t = x /\ o = y) \/ (t = y /\ o = x)
  BY <1>2, <1>3
<1>5. PICK g : g = SetTerminator(f, b, Jump(t))
  OBVIOUS
<1>6. g = Jumped(f, b, t, o)
  BY <1>2, <1>4, <1>5, BranchToJump DEF Jumped
<1>7. PICK blocks : blocks = JumpBlocks(f, b, t, o)
  OBVIOUS
<1>8. g = [f EXCEPT !.blocks = blocks]
  <2>1. f.blocks[o].preds = <<b>>
    BY <1>2, <1>4
  <2>2. Jumped(f, b, t, o) = [f EXCEPT !.blocks = JumpBlocks(f, b, t, o)]
    BY <1>1, <2>1, JumpingBlocks
  <2> QED BY <1>6, <1>7, <2>2
<1>9. t \in BlockIds(f) /\ t # o /\ o # 1 /\ f.blocks[o].preds = <<b>>
  BY <1>2, <1>4
<1>10. ASSUME NEW c \in BlockIds(f)
       PROVE  /\ blocks[c].preds = IF c = o THEN <<>> ELSE f.blocks[c].preds
              /\ blocks[c].phis = IF c = o THEN DropArgument(1, f.blocks[c].phis) ELSE f.blocks[c].phis
              /\ blocks[c].insts = f.blocks[c].insts
              /\ blocks[c].term = IF c = b THEN Jump(t) ELSE f.blocks[c].term
              /\ blocks[c] = [preds |-> blocks[c].preds, phis |-> blocks[c].phis,
                              insts |-> blocks[c].insts, term |-> blocks[c].term]
  BY <1>7 DEF Jumping, JumpBlocks
<1>11. /\ Jump(t).kind = "jump" /\ Jump(t).to = <<t>> /\ Jump(t).args = <<>>
       /\ Jump(t) \in [kind : {"jump", "branch", "return"}, to : Seq(BlockIds(f)), args :
                Seq(Operands)]
  BY <1>9 DEF Jump
<1>12. ASSUME NEW c \in BlockIds(f)
       PROVE  /\ blocks[c].phis \in Seq([dest : Values, args : Seq(Operands)])
              /\ DOMAIN blocks[c].phis = DOMAIN f.blocks[c].phis
              /\ \A p \in DOMAIN f.blocks[c].phis :
                    /\ blocks[c].phis[p].dest = f.blocks[c].phis[p].dest
                    /\ blocks[c].phis[p].args = IF c = o THEN <<>> ELSE f.blocks[c].phis[p].args
  <2>1. CASE c = o
    <3>1. PICK phis : phis = f.blocks[c].phis
      OBVIOUS
    <3>2. phis \in Seq([dest : Values, args : Seq(Operands)])
      BY <1>1, <3>1, PartTypes
    <3>3. \A p \in DOMAIN phis : Len(phis[p].args) = 1
      <4>1. Len(f.blocks[c].preds) = 1
        BY <1>9, <2>1
      <4> QED BY <1>1, <3>1, <4>1 DEF EdgesAgree
    <3>4. blocks[c].phis = DropArgument(1, phis)
      BY <1>10, <2>1, <3>1
    <3>5. /\ DropArgument(1, phis) \in Seq([dest : Values, args : Seq(Operands)])
          /\ DOMAIN DropArgument(1, phis) = DOMAIN phis
          /\ \A p \in DOMAIN phis : /\ DropArgument(1, phis)[p].dest = phis[p].dest
                                    /\ DropArgument(1, phis)[p].args = <<>>
      BY <3>2, <3>3, DroppedFacts
    <3> QED BY <2>1, <3>1, <3>4, <3>5
  <2>2. CASE c # o
    <3>1. blocks[c].phis = f.blocks[c].phis
      BY <1>10, <2>2
    <3> QED BY <1>1, <2>2, <3>1, PartTypes
  <2> QED BY <2>1, <2>2
<1>13. ASSUME NEW c \in BlockIds(f)
       PROVE  /\ blocks[c] \in BlocksAmong(BlockIds(f))
              /\ \A i \in DOMAIN blocks[c].insts : HasItsOperands(blocks[c].insts[i])
              /\ HasItsTargets(blocks[c].term)
  <2>1. PICK is, end, ps, hs : /\ is = blocks[c].insts /\ end = blocks[c].term
                               /\ ps = blocks[c].preds /\ hs = blocks[c].phis
    OBVIOUS
  <2>2. /\ is \in Seq([dest : Values \cup {NoValue}, op : PureOps \cup EffectOps, args :
                 Seq(Operands)])
        /\ ps \in Seq(BlockIds(f)) /\ hs \in Seq([dest : Values, args : Seq(Operands)])
    <3>1. <<>> \in Seq(BlockIds(f))
      OBVIOUS
    <3> QED BY <1>1, <1>10, <1>12, <2>1, <3>1, PartTypes
  <2>3. end \in [kind : {"jump", "branch", "return"}, to : Seq(BlockIds(f)), args : Seq(Operands)]
    <3>1. CASE c = b
      BY <1>10, <1>11, <2>1, <3>1
    <3>2. CASE c # b
      <4>1. end = f.blocks[c].term
        BY <1>10, <2>1, <3>2
      <4>2. f.blocks[c] \in BlocksAmong(BlockIds(f))
        BY <1>1, ShapeOf
      <4> QED BY <4>1, <4>2 DEF BlocksAmong
    <3> QED BY <3>1, <3>2
  <2>4. blocks[c] = [preds |-> ps, phis |-> hs, insts |-> is, term |-> end]
    BY <1>10, <2>1
  <2>5. blocks[c] \in BlocksAmong(BlockIds(f))
    BY <2>2, <2>3, <2>4 DEF BlocksAmong
  <2>6. \A i \in DOMAIN blocks[c].insts : HasItsOperands(blocks[c].insts[i])
    BY <1>1, <1>10, ShapeOf, ZenonT(40)
  <2>7. HasItsTargets(blocks[c].term)
    <3>1. CASE c = b
      <4>1. Len(<<t>>) = 1
        OBVIOUS
      <4> QED BY <1>10, <1>11, <3>1, <4>1 DEF HasItsTargets
    <3>2. CASE c # b
      BY <1>1, <1>10, <3>2, ShapeOf
    <3> QED BY <3>1, <3>2
  <2> QED BY <2>5, <2>6, <2>7
<1>14. IsFunction(g) /\ g.blocks = blocks /\ g.site = f.site /\ BlockIds(g) = BlockIds(f)
  <2>1. PICK n \in Nat : BlockIds(f) = 1 .. n
    BY <1>1, BlockTypes
  <2>2. blocks = [c \in 1 .. n |-> blocks[c]]
    BY <1>7, <2>1 DEF JumpBlocks
  <2>3. blocks \in Seq(BlocksAmong(BlockIds(f)))
    BY <1>13, <2>1, <2>2, SequenceOf
  <2>4. DOMAIN blocks = BlockIds(f)
    BY <1>7 DEF JumpBlocks
  <2>5. blocks[1].phis = <<>>
    BY <1>1, <1>9, <1>10 DEF IsFunction
  <2> QED BY <1>1, <1>8, <1>13, <2>3, <2>4, <2>5, FunctionWith
<1>15. g.blocks[1].preds = <<>>
  BY <1>1, <1>9, <1>10, <1>14
<1>16. ASSUME NEW c \in BlockIds(f)
       PROVE  Successors(g, c) = IF c = b THEN <<t>> ELSE Successors(f, c)
  BY <1>10, <1>11, <1>14 DEF Successors
<1>17. EdgesAgree(g)
  <2>1. SUFFICES ASSUME NEW c \in BlockIds(f)
                 PROVE  /\ ToSet(blocks[c].preds) \subseteq BlockIds(f)
                        /\ \A a \in BlockIds(f) :
                              CountIn(blocks[c].preds, a) = CountIn(Successors(g, a), c)
                        /\ \A p \in DOMAIN blocks[c].phis :
                              Len(blocks[c].phis[p].args) = Len(blocks[c].preds)
    BY <1>14 DEF EdgesAgree
  <2>2. /\ ToSet(f.blocks[c].preds) \subseteq BlockIds(f)
        /\ \A a \in BlockIds(f) : CountIn(f.blocks[c].preds, a) = CountIn(Successors(f, a), c)
        /\ \A p \in DOMAIN f.blocks[c].phis :
              Len(f.blocks[c].phis[p].args) = Len(f.blocks[c].preds)
    BY <1>1 DEF EdgesAgree
  <2>3. ToSet(blocks[c].preds) \subseteq BlockIds(f)
    <3>1. ToSet(<<>>) = {}
      BY DEF ToSet
    <3>2. CASE c = o
      BY <1>10, <3>1, <3>2
    <3>3. CASE c # o
      BY <1>10, <2>2, <3>3
    <3> QED BY <3>2, <3>3
  <2>4. \A p \in DOMAIN blocks[c].phis : Len(blocks[c].phis[p].args) = Len(blocks[c].preds)
    BY <1>10, <1>12, <2>2, ZenonT(40)
  <2>5. ASSUME NEW a \in BlockIds(f)
        PROVE  CountIn(blocks[c].preds, a) = CountIn(Successors(g, a), c)
    <3>1. CASE a # b /\ c # o
      BY <1>10, <1>16, <2>2, <3>1
    <3>2. CASE a # b /\ c = o
      <4>1. CountIn(<<b>>, a) = 0 /\ CountIn(<<>>, a) = 0
        BY <3>2, CountFacts
      <4> QED BY <1>9, <1>10, <1>16, <2>2, <3>2, <4>1
    <3>3. CASE a = b /\ c = o
      <4>1. CountIn(<<>>, a) = 0 /\ CountIn(<<t>>, c) = 0
        BY <1>9, <3>3, CountFacts
      <4> QED BY <1>10, <1>16, <3>3, <4>1
    <3>4. CASE a = b /\ c # o
      <4>1. x # y
        BY <1>2
      <4>2. CASE c = t
        <5>1. c = x \/ c = y
          BY <1>4, <4>2
        <5>2. CountIn(<<x, y>>, c) = 1
          BY <4>1, <5>1, CountInPair
        <5>3. CountIn(<<t>>, c) = 1
          BY <4>2, CountFacts
        <5> QED BY <1>2, <1>10, <1>16, <2>2, <3>4, <5>2, <5>3
      <4>3. CASE c # t
        <5>1. c # x /\ c # y
          BY <1>4, <3>4, <4>3
        <5>2. CountIn(<<x, y>>, c) = 0
          BY <4>1, <5>1, CountInPair
        <5>3. CountIn(<<t>>, c) = 0
          BY <4>3, CountFacts
        <5> QED BY <1>2, <1>10, <1>16, <2>2, <3>4, <5>2, <5>3
      <4> QED BY <4>2, <4>3
    <3> QED BY <3>1, <3>2, <3>3, <3>4
  <2> QED BY <2>3, <2>4, <2>5
<1>18. ASSUME NEW c \in BlockIds(f) PROVE IsPartOfBlock(g, f, InPlace(f), c)
  <2> DEFINE is == blocks[c]
             was == f.blocks[c]
  <2>1. g.blocks[c] = is /\ InPlace(f)[c] = c
    BY <1>14 DEF InPlace
  <2>2. /\ DOMAIN is.phis = DOMAIN was.phis /\ DOMAIN is.insts = DOMAIN was.insts
        /\ \A p \in DOMAIN is.phis : is.phis[p].dest = was.phis[p].dest
    BY <1>10, <1>12, ZenonT(40)
  <2>3. \A i \in DOMAIN is.insts :
           /\ is.insts[i].dest = was.insts[i].dest /\ is.insts[i].op = was.insts[i].op
           /\ ValuesRead(is.insts[i].args) \subseteq ValuesRead(was.insts[i].args)
    BY <1>10
  <2>4. ValuesRead(is.term.args) \subseteq ValuesRead(was.term.args)
    <3>1. ValuesRead(<<>>) = {}
      BY DEF ValuesRead, ToSet
    <3> QED BY <1>10, <1>11, <3>1
  <2>5. ASSUME NEW p \in DOMAIN is.phis, NEW k \in DOMAIN is.phis[p].args
        PROVE  /\ k \in DOMAIN was.phis[p].args /\ was.phis[p].args[k] = is.phis[p].args[k]
               /\ is.preds[k] = was.preds[k] /\ is.preds[k] \in BlockIds(f)
    <3>1. c # o
      BY <1>12, <2>5
    <3>2. is.phis[p].args = was.phis[p].args /\ is.preds = was.preds
      BY <1>10, <1>12, <3>1
    <3>3. PICK args : args = was.phis[p].args
      OBVIOUS
    <3>4. p \in DOMAIN was.phis
      BY <1>12
    <3>5. args \in Seq(Operands)
      BY <1>1, <3>3, <3>4, PhiTypes
    <3>6. Len(args) = Len(was.preds)
      BY <1>1, <3>3, <3>4 DEF EdgesAgree
    <3>7. was.preds \in Seq(BlockIds(f))
      BY <1>1, PartTypes
    <3>8. k \in DOMAIN args
      BY <3>2, <3>3
    <3>9. k \in 1 .. Len(was.preds)
      BY <3>5, <3>6, <3>8, LengthFacts
    <3>10. was.preds[k] \in BlockIds(f)
      BY <3>7, <3>9, LengthFacts
    <3> QED BY <3>2, <3>3, <3>8, <3>10
  <2>6. \A d \in ToSet(Successors(g, c)) :
           InPlace(f)[d] = d /\ d \in ToSet(Successors(f, c))
    <3>1. \A d \in ToSet(Successors(f, c)) : d \in BlockIds(f)
      BY <1>1, PartTypes DEF Successors, ToSet
    <3>2. ToSet(Successors(g, c)) \subseteq ToSet(Successors(f, c))
      <4>1. ToSet(<<t>>) = {t}
        BY DEF ToSet
      <4> QED BY <1>16, <4>1
    <3> QED BY <3>1, <3>2 DEF InPlace
  <2>7. Len(is.term.to) <= Len(was.term.to) /\ Len(is.preds) <= Len(was.preds)
    <3>1. PICK m, n : m = Len(was.term.to) /\ n = Len(was.preds)
      OBVIOUS
    <3>2. m \in Nat /\ n \in Nat
      BY <1>1, <3>1, PartTypes, LengthFacts
    <3>3. Len(<<>>) = 0 /\ Len(<<t>>) = 1
      OBVIOUS
    <3>4. Len(is.preds) <= n
      <4>1. CASE c = o
        <5>1. is.preds = <<>>
          BY <1>10, <4>1
        <5> QED BY <3>2, <3>3, <5>1
      <4>2. CASE c # o
        <5>1. is.preds = was.preds
          BY <1>10, <4>2
        <5> QED BY <3>1, <3>2, <5>1
      <4> QED BY <4>1, <4>2
    <3>5. c = b => m = 2
      <4>1. Len(<<x, y>>) = 2
        OBVIOUS
      <4> QED BY <1>2, <3>1, <4>1 DEF Successors
    <3>6. Len(is.term.to) <= m
      <4>1. CASE c = b
        <5>1. is.term.to = <<t>>
          BY <1>10, <1>11, <4>1
        <5> QED BY <3>3, <3>5, <4>1, <5>1
      <4>2. CASE c # b
        <5>1. is.term = was.term
          BY <1>10, <4>2
        <5> QED BY <3>1, <3>2, <5>1
      <4> QED BY <4>1, <4>2
    <3> QED BY <3>1, <3>4, <3>6
  <2> HIDE DEF is, was
  <2>8. \A p \in DOMAIN is.phis : \A k \in DOMAIN is.phis[p].args :
           /\ is.preds[k] \in BlockIds(g) /\ InPlace(f)[is.preds[k]] = is.preds[k]
           /\ is.phis[p].args[k] \in Values =>
                 \E j \in DOMAIN was.phis[p].args :
                    /\ was.phis[p].args[j] = is.phis[p].args[k]
                    /\ was.preds[j] = InPlace(f)[is.preds[k]]
    BY <1>14, <2>5 DEF InPlace
  <2>9. g.blocks[c] = is /\ f.blocks[InPlace(f)[c]] = was /\ InPlace(f)[c] = c
    BY <2>1 DEF was
  <2>10. PICK at : at = InPlace(f)
    OBVIOUS
  <2>11. g.blocks[c] = is /\ f.blocks[at[c]] = was
    BY <2>9, <2>10
  <2>12. \A p \in DOMAIN is.phis : \A k \in DOMAIN is.phis[p].args :
            /\ is.preds[k] \in BlockIds(g)
            /\ is.phis[p].args[k] \in Values =>
                  \E j \in DOMAIN was.phis[p].args :
                     was.phis[p].args[j] = is.phis[p].args[k] /\ was.preds[j] = at[is.preds[k]]
    BY <2>8, <2>10
  <2>13. \A d \in ToSet(Successors(g, c)) : at[d] \in ToSet(Successors(f, at[c]))
    BY <2>6, <2>9, <2>10
  <2>14. IsPartOfBlock(g, f, at, c)
    BY <2>2, <2>3, <2>4, <2>7, <2>11, <2>12, <2>13, ZenonT(40) DEF IsPartOfBlock
  <2> QED BY <2>10, <2>14
<1>19. IsPartOf(g, f, InPlace(f))
  BY <1>1, <1>14, <1>18, PartInPlace
<1> QED BY <1>5, <1>14, <1>15, <1>17, <1>19, PartIsConsistent

-----------------------------------------------------------------------------
(***************************************************************************)
(* The numbers that the members of a set get, in their order.              *)
(***************************************************************************)
LEMMA RenumberedFacts ==
    ASSUME NEW K, K \subseteq Nat, IsFiniteSet(K)
    PROVE  /\ Cardinality(K) \in Nat
           /\ \A b \in K : Renumbered(K, b) \in 1 .. Cardinality(K)
           /\ \A a, b \in K : a < b => Renumbered(K, a) < Renumbered(K, b)
           /\ \A a, b \in K : Renumbered(K, a) = Renumbered(K, b) => a = b
           /\ \A n \in 1 .. Cardinality(K) : \E b \in K : Renumbered(K, b) = n
<1> DEFINE UpTo(b) == {c \in K : c <= b}
<1>1. PICK N \in Nat : N = Cardinality(K)
  BY FS_CardinalityType
<1>2. ASSUME NEW b \in K
      PROVE  IsFiniteSet(UpTo(b)) /\ Renumbered(K, b) = Cardinality(UpTo(b))
             /\ Renumbered(K, b) \in 1 .. N
  <2>1. Renumbered(K, b) = Cardinality(UpTo(b))
    BY DEF Renumbered
  <2>2. UpTo(b) \in SUBSET K /\ b \in UpTo(b)
    OBVIOUS
  <2> HIDE DEF UpTo
  <2>3. IsFiniteSet(UpTo(b)) /\ Cardinality(UpTo(b)) <= N
    BY <1>1, <2>2, FS_Subset
  <2>4. Cardinality(UpTo(b)) \in Nat /\ Cardinality(UpTo(b)) # 0
    BY <2>2, <2>3, FS_CardinalityType, FS_EmptySet
  <2> QED BY <2>1, <2>3, <2>4
<1>3. ASSUME NEW a \in K, NEW b \in K, a < b PROVE Renumbered(K, a) < Renumbered(K, b)
  <2>1. a \in Nat /\ b \in Nat
    OBVIOUS
  <2>2. UpTo(a) \in SUBSET UpTo(b) /\ b \in UpTo(b) /\ b \notin UpTo(a)
    <3>1. \A c \in K : c <= a => c <= b
      <4>1. SUFFICES ASSUME NEW c \in K, c <= a PROVE c <= b
        OBVIOUS
      <4>2. c \in Nat
        OBVIOUS
      <4> QED BY <1>3, <2>1, <4>1, <4>2
    <3>2. b <= b /\ ~(b <= a)
      BY <1>3, <2>1
    <3> QED BY <3>1, <3>2
  <2> HIDE DEF UpTo
  <2>3. Cardinality(UpTo(a)) <= Cardinality(UpTo(b)) /\ Cardinality(UpTo(a)) # Cardinality(UpTo(b))
    BY <1>2, <2>2, FS_Subset
  <2> QED BY <1>2, <2>3
<1>4. ASSUME NEW a \in K, NEW b \in K, Renumbered(K, a) = Renumbered(K, b) PROVE a = b
  <2>1. PICK m \in 1 .. N : m = Renumbered(K, a) /\ m = Renumbered(K, b)
    BY <1>2, <1>4
  <2>2. ~(m < m)
    OBVIOUS
  <2>3. ~(a < b)
    BY <1>3, <2>1, <2>2
  <2>4. ~(b < a)
    BY <1>3, <2>1, <2>2
  <2>5. a \in Nat /\ b \in Nat
    OBVIOUS
  <2> QED BY <2>3, <2>4, <2>5
<1> DEFINE number == [b \in K |-> Renumbered(K, b)]
<1>5. number \in Injection(K, 1 .. N)
  BY <1>2, <1>4 DEF Injection, IsInjective
<1>6. IsFiniteSet(1 .. N) /\ Cardinality(1 .. N) = N
  <2>1. PICK m \in Int, n \in Int : m = 1 /\ n = N
    OBVIOUS
  <2>2. IsFiniteSet(m .. n) /\ Cardinality(m .. n) = IF m > n THEN 0 ELSE n - m + 1
    BY FS_Interval
  <2>3. (IF m > n THEN 0 ELSE n - m + 1) = N
    BY <2>1
  <2> QED BY <2>1, <2>2, <2>3
<1>7. \A n \in 1 .. N : \E b \in K : Renumbered(K, b) = n
  <2> HIDE DEF number
  <2>1. number \in Surjection(K, 1 .. N)
    BY <1>1, <1>5, <1>6, FS_Injection
  <2>2. \A n \in 1 .. N : \E b \in K : number[b] = n
    BY <2>1 DEF Surjection
  <2> QED BY <2>2 DEF number
<1> QED BY <1>1, <1>2, <1>3, <1>4, <1>7

LEMMA AscendingFacts ==
    ASSUME NEW K, K \subseteq Nat, IsFiniteSet(K),
           NEW order, order = Ascending(K), NEW M, M = Cardinality(K)
    PROVE  /\ M \in Nat /\ DOMAIN order = 1 .. M
           /\ \A n \in 1 .. M : order[n] \in K /\ Renumbered(K, order[n]) = n
           /\ \A b \in K : Renumbered(K, b) \in 1 .. M /\ order[Renumbered(K, b)] = b
<1>1. \A n \in 1 .. M : \E b \in K : Renumbered(K, b) = n
  BY RenumberedFacts
<1>2. DOMAIN order = 1 .. M /\ \A n \in 1 .. M : order[n] = CHOOSE b \in K : Renumbered(K, b) = n
  BY DEF Ascending
<1>3. ASSUME NEW n \in 1 .. M PROVE order[n] \in K /\ Renumbered(K, order[n]) = n
  BY <1>1, <1>2
<1>4. ASSUME NEW b \in K PROVE Renumbered(K, b) \in 1 .. M /\ order[Renumbered(K, b)] = b
  <2>1. Renumbered(K, b) \in 1 .. M
    BY RenumberedFacts
  <2>2. order[Renumbered(K, b)] \in K
        /\ Renumbered(K, order[Renumbered(K, b)]) = Renumbered(K, b)
    BY <1>3, <2>1
  <2> QED BY <2>1, <2>2, RenumberedFacts
<1> QED BY <1>2, <1>3, <1>4, RenumberedFacts

\* The positions of a block's predecessors that are kept, in order.
KeptPositions(K, preds) == {k \in DOMAIN preds : preds[k] \in K}

\* s is a list of n things.
Listed(s, n) == s = [k \in 1 .. n |-> s[k]]

LEMMA ListedIs ==
    ASSUME NEW S, NEW n \in Nat, NEW s, Listed(s, n), \A k \in 1 .. n : s[k] \in S
    PROVE  s \in Seq(S) /\ Len(s) = n /\ DOMAIN s = 1 .. n
  BY DEF Listed

LEMMA SequenceIsListed ==
    ASSUME NEW S, NEW s \in Seq(S), NEW n, DOMAIN s = 1 .. n
    PROVE  Listed(s, n)
  BY DEF Listed

LEMMA PositionFacts ==
    ASSUME NEW ids, NEW K, NEW preds \in Seq(ids),
           NEW P, P = KeptPositions(K, preds), NEW at, at = Ascending(P),
           NEW m, m = Cardinality(P)
    PROVE  /\ P \subseteq Nat /\ IsFiniteSet(P)
           /\ m \in Nat /\ m <= Len(preds) /\ DOMAIN at = 1 .. m
           /\ \A k \in 1 .. m : at[k] \in DOMAIN preds /\ preds[at[k]] \in K
           /\ \A j \in DOMAIN preds :
                 preds[j] \in K => \E k \in 1 .. m : at[k] = j
           /\ \A j, k \in 1 .. m : at[j] = at[k] => j = k
<1>1. PICK n \in Nat : n = Len(preds) /\ DOMAIN preds = 1 .. n
  BY LengthFacts
<1>3. P \subseteq 1 .. n /\ P = {k \in DOMAIN preds : preds[k] \in K}
  BY <1>1 DEF KeptPositions
<1>4. IsFiniteSet(1 .. n) /\ Cardinality(1 .. n) = n
  <2>1. PICK a \in Int, b \in Int : a = 1 /\ b = n
    OBVIOUS
  <2>2. IsFiniteSet(a .. b) /\ Cardinality(a .. b) = IF a > b THEN 0 ELSE b - a + 1
    BY FS_Interval
  <2>3. (IF a > b THEN 0 ELSE b - a + 1) = n
    BY <2>1
  <2> QED BY <2>1, <2>2, <2>3
<1>5. P \subseteq Nat /\ IsFiniteSet(P) /\ Cardinality(P) <= n
  BY <1>3, <1>4, FS_Subset
<1>7. m \in Nat
  BY <1>5, FS_CardinalityType
<1>8. /\ DOMAIN at = 1 .. m
      /\ \A k \in 1 .. m : at[k] \in P /\ Renumbered(P, at[k]) = k
      /\ \A j \in P : Renumbered(P, j) \in 1 .. m /\ at[Renumbered(P, j)] = j
  BY <1>5, AscendingFacts
<1>9. \A k \in 1 .. m : at[k] \in DOMAIN preds /\ preds[at[k]] \in K
  BY <1>3, <1>8
<1>10. \A j \in DOMAIN preds : preds[j] \in K => \E k \in 1 .. m : at[k] = j
  BY <1>3, <1>8
<1>11. \A j, k \in 1 .. m : at[j] = at[k] => j = k
  BY <1>8
<1> QED BY <1>1, <1>5, <1>7, <1>8, <1>9, <1>10, <1>11

(***************************************************************************)
(* A kept block has the same edges from and to kept blocks as before,      *)
(* under their new numbers.                                                *)
(***************************************************************************)
LEMMA KeptCount ==
    ASSUME NEW ids, NEW K \in SUBSET Nat, IsFiniteSet(K), NEW preds \in Seq(ids),
           NEW P, P = KeptPositions(K, preds), NEW m \in Nat, m = Cardinality(P),
           NEW at, at = Ascending(P),
           NEW moved, DOMAIN moved = 1 .. m,
           \A k \in 1 .. m : moved[k] = Renumbered(K, preds[at[k]]),
           NEW c \in K
    PROVE  CountIn(moved, Renumbered(K, c)) = CountIn(preds, c)
<1>1. PICK n \in Nat : DOMAIN preds = 1 .. n
  BY LengthFacts
<1>2. /\ \A k \in 1 .. m : at[k] \in DOMAIN preds /\ preds[at[k]] \in K
      /\ \A j \in DOMAIN preds :
            preds[j] \in K => \E k \in 1 .. m : at[k] = j
      /\ \A j, k \in 1 .. m : at[j] = at[k] => j = k
  BY PositionFacts
<1> DEFINE New == {k \in 1 .. m : moved[k] = Renumbered(K, c)}
           Old == {j \in DOMAIN preds : preds[j] = c}
           g   == [k \in New |-> at[k]]
<1>3. CountIn(moved, Renumbered(K, c)) = Cardinality(New) /\ CountIn(preds, c) = Cardinality(Old)
  BY DEF CountIn
<1>0. \A a, b \in K : Renumbered(K, a) = Renumbered(K, b) => a = b
  BY RenumberedFacts
<1>4. ASSUME NEW k \in 1 .. m PROVE moved[k] = Renumbered(K, c) <=> preds[at[k]] = c
  <2>1. PICK d : d = preds[at[k]]
    OBVIOUS
  <2>2. d \in K /\ moved[k] = Renumbered(K, d)
    BY <1>2, <2>1
  <2> QED BY <1>0, <2>1, <2>2
<1>5. g \in [New -> Old] /\ \A k \in New : g[k] = at[k]
  BY <1>2, <1>4
<1>6. \A j, k \in New : g[j] = g[k] => j = k
  BY <1>2, <1>5
<1>7. ASSUME NEW j \in Old PROVE \E k \in New : g[k] = j
  <2>1. j \in DOMAIN preds /\ preds[j] = c
    OBVIOUS
  <2>2. PICK k \in 1 .. m : at[k] = j
    BY <1>2, <2>1
  <2>3. k \in New
    BY <1>4, <2>1, <2>2
  <2> QED BY <1>5, <2>2, <2>3
<1>8. New \subseteq 1 .. m
  OBVIOUS
<1> HIDE DEF New, Old, g
<1>9. IsFiniteSet(New)
  <2>1. PICK a \in Int, b \in Int : a = 1 /\ b = m
    OBVIOUS
  <2>2. IsFiniteSet(1 .. m)
    BY <2>1, FS_Interval
  <2> QED BY <1>8, <2>2, FS_Subset
<1>10. g \in Bijection(New, Old)
  BY <1>5, <1>6, <1>7 DEF Bijection, Injection, IsInjective, Surjection
<1>11. Cardinality(Old) = Cardinality(New)
  BY <1>9, <1>10, FS_Bijection DEF ExistsBijection
<1> QED BY <1>3, <1>11

LEMMA MovedCount ==
    ASSUME NEW K, K \subseteq Nat, IsFiniteSet(K), NEW s \in Seq(K), NEW c \in K,
           NEW moved, DOMAIN moved = DOMAIN s, \A k \in DOMAIN s : moved[k] = Renumbered(K, s[k])
    PROVE  CountIn(moved, Renumbered(K, c)) = CountIn(s, c)
<1>1. PICK n \in Nat : DOMAIN s = 1 .. n /\ \A k \in 1 .. n : s[k] \in K
  BY LengthFacts
<1>0. \A a, b \in K : Renumbered(K, a) = Renumbered(K, b) => a = b
  BY RenumberedFacts
<1>2. \A k \in 1 .. n : moved[k] = Renumbered(K, c) <=> s[k] = c
  BY <1>0, <1>1
<1>3. {k \in DOMAIN moved : moved[k] = Renumbered(K, c)} = {k \in DOMAIN s : s[k] = c}
  BY <1>1, <1>2
<1> QED BY <1>3 DEF CountIn

(***************************************************************************)
(* A block that is left: everything it names is left too, under its new    *)
(* number.                                                                 *)
(***************************************************************************)
IsKept(K, is, was) ==
    /\ is \in BlocksAmong(1 .. Cardinality(K))
    /\ is.insts = was.insts /\ is.term.kind = was.term.kind /\ is.term.args = was.term.args
    /\ HasItsTargets(is.term) /\ Len(is.term.to) = Len(was.term.to)
    /\ Len(is.preds) <= Len(was.preds)
    /\ DOMAIN is.phis = DOMAIN was.phis
    /\ \A p \in DOMAIN is.phis :
          is.phis[p].dest = was.phis[p].dest /\ Len(is.phis[p].args) = Len(is.preds)
    /\ \A p \in DOMAIN is.phis : \A k \in DOMAIN is.phis[p].args :
          \E j \in DOMAIN was.phis[p].args :
             /\ was.phis[p].args[j] = is.phis[p].args[k]
             /\ was.preds[j] \in K /\ is.preds[k] = Renumbered(K, was.preds[j])
    /\ \A c \in K : CountIn(is.preds, Renumbered(K, c)) = CountIn(was.preds, c)
    /\ \A c \in K : CountIn(is.term.to, Renumbered(K, c)) = CountIn(was.term.to, c)
    /\ \A d \in ToSet(is.term.to) : \E c \in ToSet(was.term.to) : c \in K /\ d = Renumbered(K, c)
    /\ \A c \in ToSet(was.term.to) : Renumbered(K, c) \in ToSet(is.term.to)

LEMMA KeptBlock ==
    ASSUME NEW f, IsFunction(f), EdgesAgree(f), NEW b \in Reachable(f)
    PROVE  IsKept(Reachable(f), Rebuilt(Reachable(f), f.blocks[b]), f.blocks[b])
<1>0. PICK K, is, was : K = Reachable(f) /\ was = f.blocks[b] /\ is = Rebuilt(K, was)
  OBVIOUS
<1>1. PICK ids : ids = BlockIds(f)
  OBVIOUS
<1>2. K \subseteq ids /\ b \in ids /\ \A c \in ToSet(was.term.to) : c \in K
  BY <1>0, <1>1, ReachableFacts DEF Successors
<1>3. K \subseteq Nat /\ IsFiniteSet(K)
  <2>1. PICK n \in Nat : ids = 1 .. n
    BY <1>1, BlockTypes
  <2>2. PICK x \in Int, y \in Int : x = 1 /\ y = n
    OBVIOUS
  <2>3. IsFiniteSet(1 .. n)
    BY <2>2, FS_Interval
  <2>4. K \in SUBSET (1 .. n)
    BY <1>2, <2>1
  <2>5. IsFiniteSet(K)
    BY <2>3, <2>4, FS_Subset
  <2> QED BY <2>4, <2>5
<1>4. PICK M \in Nat : M = Cardinality(K)
  BY <1>3, RenumberedFacts
<1>5. \A c \in K : Renumbered(K, c) \in 1 .. M
  BY <1>3, <1>4, RenumberedFacts
<1>6. was \in BlocksAmong(ids) /\ was.preds \in Seq(ids) /\ was.term.to \in Seq(ids)
      /\ was.phis \in Seq([dest : Values, args : Seq(Operands)])
      /\ HasItsTargets(was.term)
  BY <1>0, <1>1, <1>2, ShapeOf, PartTypes
<1>7. PICK P : P = KeptPositions(K, was.preds)
  OBVIOUS
<1>8. PICK at : at = Ascending(P)
  OBVIOUS
<1>9. PICK m \in Nat : m = Cardinality(P)
  <2>1. PICK preds : preds = was.preds
    OBVIOUS
  <2>2. P \subseteq Nat /\ IsFiniteSet(P)
    BY <1>6, <1>7, <2>1, PositionFacts
  <2> QED BY <2>2, FS_CardinalityType
<1>10. /\ m \in Nat /\ m <= Len(was.preds) /\ DOMAIN at = 1 .. m
       /\ \A k \in 1 .. m : at[k] \in DOMAIN was.preds /\ was.preds[at[k]] \in K
  BY <1>6, <1>7, <1>8, <1>9, PositionFacts
<1>13. PICK e \in Nat : DOMAIN was.term.to = 1 .. e /\ Len(was.term.to) = e
  BY <1>6, LengthFacts
<1>15. PICK h \in Nat : DOMAIN was.phis = 1 .. h
                        /\ \A p \in 1 .. h : was.phis[p].dest \in Values
                                             /\ was.phis[p].args \in Seq(Operands)
  BY <1>0, <1>1, <1>2, PhiTypes
<1>11. /\ Listed(is.preds, m) /\ Listed(is.phis, h) /\ Listed(is.term.to, e)
       /\ \A k \in 1 .. m : is.preds[k] = Renumbered(K, was.preds[at[k]])
       /\ \A p \in 1 .. h :
             /\ is.phis[p] = [dest |-> was.phis[p].dest, args |-> is.phis[p].args]
             /\ Listed(is.phis[p].args, m)
             /\ \A k \in 1 .. m : is.phis[p].args[k] = was.phis[p].args[at[k]]
       /\ is.insts = was.insts
       /\ is.term.kind = was.term.kind /\ is.term.args = was.term.args
       /\ \A k \in 1 .. e : is.term.to[k] = Renumbered(K, was.term.to[k])
       /\ is = [preds |-> is.preds, phis |-> is.phis, insts |-> was.insts, term |-> is.term]
       /\ is.term = [was.term EXCEPT !.to = is.term.to]
  <2>1. PICK moved : moved = [k \in 1 .. m |-> Renumbered(K, was.preds[at[k]])]
    OBVIOUS
  <2>2. PICK fewer : fewer = [p \in DOMAIN was.phis |->
                                [dest |-> was.phis[p].dest,
                                 args |-> [k \in 1 .. m |-> was.phis[p].args[at[k]]]]]
    OBVIOUS
  <2>3. PICK next : next = [k \in DOMAIN was.term.to |-> Renumbered(K, was.term.to[k])]
    OBVIOUS
  <2>5. Ascending({k \in DOMAIN was.preds : was.preds[k] \in K}) = at
    BY <1>7, <1>8 DEF KeptPositions
  <2> DEFINE Only(list)  == [k \in DOMAIN at |-> list[at[k]]]
             Moved(list) == [k \in DOMAIN list |-> Renumbered(K, list[k])]
  <2>6. Rebuilt(K, was) = Block(Moved(Only(was.preds)),
                [p \in DOMAIN was.phis |-> Phi(was.phis[p].dest, Only(was.phis[p].args))],
                was.insts, [was.term EXCEPT !.to = Moved(was.term.to)])
    BY <2>5 DEF Rebuilt
  <2>7. Moved(Only(was.preds)) = moved
    BY <1>10, <2>1
  <2>8. [p \in DOMAIN was.phis |-> Phi(was.phis[p].dest, Only(was.phis[p].args))] = fewer
    BY <1>10, <2>2 DEF Phi
  <2>9. Moved(was.term.to) = next
    BY <2>3
  <2>10. PICK end : end = [was.term EXCEPT !.to = next]
    OBVIOUS
  <2> HIDE DEF Only, Moved
  <2>11. is = [preds |-> moved, phis |-> fewer, insts |-> was.insts, term |-> end]
    BY <1>0, <2>6, <2>7, <2>8, <2>9, <2>10 DEF Block
  <2>12. /\ is.preds = moved /\ is.phis = fewer /\ is.insts = was.insts /\ is.term = end
    BY <2>11
  <2>13. end.kind = was.term.kind /\ end.args = was.term.args /\ end.to = next
    <3>1. PICK S : S = Seq(ids)
      OBVIOUS
    <3>2. was.term \in [kind : {"jump", "branch", "return"}, to : S, args : Seq(Operands)]
      BY <1>6, <3>1 DEF BlocksAmong
    <3> QED BY <2>10, <3>2
  <2>14. Listed(moved, m) /\ Listed(fewer, h) /\ Listed(next, e)
    BY <1>13, <1>15, <2>1, <2>2, <2>3 DEF Listed
  <2>15. ASSUME NEW p \in 1 .. h
         PROVE  /\ fewer[p] = [dest |-> was.phis[p].dest, args |-> fewer[p].args]
                /\ Listed(fewer[p].args, m)
                /\ \A k \in 1 .. m : fewer[p].args[k] = was.phis[p].args[at[k]]
    BY <1>15, <2>2 DEF Listed
  <2>16. /\ \A k \in 1 .. m : moved[k] = Renumbered(K, was.preds[at[k]])
         /\ \A k \in 1 .. e : next[k] = Renumbered(K, was.term.to[k])
    BY <1>13, <2>1, <2>3
  <2> QED BY <2>10, <2>11, <2>12, <2>13, <2>14, <2>15, <2>16
<1>12. is.preds \in Seq(1 .. M) /\ Len(is.preds) = m
  <2>1. PICK s : s = is.preds
    OBVIOUS
  <2>2. Listed(s, m)
    BY <1>11, <2>1
  <2>4. ASSUME NEW k \in 1 .. m PROVE s[k] \in 1 .. M
    <3>1. was.preds[at[k]] \in K
      BY <1>10
    <3>2. s[k] = Renumbered(K, was.preds[at[k]])
      BY <1>11, <2>1
    <3> QED BY <1>5, <3>1, <3>2
  <2>3. s \in Seq(1 .. M) /\ Len(s) = m
    BY <2>2, <2>4, ListedIs
  <2> QED BY <2>1, <2>3
<1>14. is.term.to \in Seq(1 .. M) /\ Len(is.term.to) = e /\ DOMAIN is.term.to = 1 .. e
       /\ was.term.to \in Seq(K)
  <2>1. PICK s, t : s = is.term.to /\ t = was.term.to
    OBVIOUS
  <2>2. \A k \in 1 .. e : t[k] \in K
    BY <1>2, <1>13, <2>1 DEF ToSet
  <2>3. Listed(s, e)
    BY <1>11, <2>1
  <2>4. \A k \in 1 .. e : s[k] \in 1 .. M
    BY <1>5, <1>11, <2>1, <2>2
  <2>5. s \in Seq(1 .. M) /\ Len(s) = e /\ DOMAIN s = 1 .. e
    BY <2>3, <2>4, ListedIs
  <2>6. Listed(t, e)
    BY <1>6, <1>13, <2>1, SequenceIsListed
  <2>7. t \in Seq(K)
    BY <2>2, <2>6, ListedIs
  <2> QED BY <2>1, <2>5, <2>7
<1>16. ASSUME NEW p \in 1 .. h
       PROVE  DOMAIN was.phis[p].args = DOMAIN was.preds
  <2>1. PICK args, preds : args = was.phis[p].args /\ preds = was.preds
    OBVIOUS
  <2>2. Len(args) = Len(preds) /\ args \in Seq(Operands) /\ preds \in Seq(ids)
    BY <1>0, <1>1, <1>2, <1>6, <1>15, <2>1 DEF EdgesAgree
  <2>3. DOMAIN args = 1 .. Len(args) /\ DOMAIN preds = 1 .. Len(preds)
    BY <2>2, LengthFacts
  <2> QED BY <2>1, <2>2, <2>3
<1>17. ASSUME NEW p \in 1 .. h
       PROVE  /\ is.phis[p].dest = was.phis[p].dest
              /\ is.phis[p].args \in Seq(Operands) /\ Len(is.phis[p].args) = m
              /\ DOMAIN is.phis[p].args = 1 .. m
              /\ \A k \in 1 .. m : is.phis[p].args[k] = was.phis[p].args[at[k]]
              /\ is.phis[p] = [dest |-> was.phis[p].dest, args |-> is.phis[p].args]
  <2>1. PICK args, old : args = is.phis[p].args /\ old = was.phis[p].args
    OBVIOUS
  <2>2. Listed(args, m) /\ \A k \in 1 .. m : args[k] = old[at[k]]
    BY <1>11, <2>1
  <2>3. old \in Seq(Operands) /\ \A k \in 1 .. m : at[k] \in DOMAIN old
    BY <1>10, <1>15, <1>16, <2>1
  <2>4. \A k \in 1 .. m : args[k] \in Operands
    BY <2>2, <2>3, LengthFacts
  <2>6. args \in Seq(Operands) /\ Len(args) = m /\ DOMAIN args = 1 .. m
    BY <1>10, <2>2, <2>4, ListedIs
  <2>7. is.phis[p] = [dest |-> was.phis[p].dest, args |-> args]
    BY <1>11, <2>1
  <2> QED BY <2>1, <2>2, <2>6, <2>7
<1>18. DOMAIN is.phis = 1 .. h
  BY <1>11 DEF Listed
<1>19. is \in BlocksAmong(1 .. M)
  <2>1. PICK hs, S : hs = is.phis /\ S = [dest : Values, args : Seq(Operands)]
    OBVIOUS
  <2>2. Listed(hs, h)
    BY <1>11, <2>1
  <2>3. ASSUME NEW p \in 1 .. h PROVE hs[p] \in S
    <3>1. PICK d, args : d = was.phis[p].dest /\ args = is.phis[p].args
      OBVIOUS
    <3>2. hs[p] = [dest |-> d, args |-> args] /\ d \in Values /\ args \in Seq(Operands)
      BY <1>15, <1>17, <2>1, <3>1
    <3> QED BY <2>1, <3>2
  <2>4. hs \in Seq(S)
    BY <2>2, <2>3, ListedIs
  <2>5. PICK T : T = Seq(1 .. M)
    OBVIOUS
  <2>6. PICK end : end = is.term
    OBVIOUS
  <2>7. end \in [kind : {"jump", "branch", "return"}, to : T, args : Seq(Operands)]
    <3>1. PICK old, next, O, R : old = was.term /\ next = is.term.to /\ O = Seq(ids) /\ R = Seq(Operands)
      OBVIOUS
    <3>2. old \in [kind : {"jump", "branch", "return"}, to : O, args : R]
      BY <1>6, <3>1 DEF BlocksAmong
    <3>3. end = [old EXCEPT !.to = next] /\ next \in T
      BY <1>11, <1>14, <2>5, <2>6, <3>1
    <3>4. end \in [kind : {"jump", "branch", "return"}, to : T, args : R]
      BY <3>2, <3>3
    <3> QED BY <3>1, <3>4
  <2>8. was.insts \in Seq([dest : Values \cup {NoValue}, op : PureOps \cup EffectOps,
                           args : Seq(Operands)])
    BY <1>0, <1>1, <1>2, PartTypes
  <2>9. is = [preds |-> is.preds, phis |-> hs, insts |-> was.insts, term |-> end]
    BY <1>11, <2>1, <2>6
  <2>10. is.preds \in T
    BY <1>12, <2>5
  <2> QED BY <2>1, <2>4, <2>5, <2>7, <2>8, <2>9, <2>10 DEF BlocksAmong
<1>20. HasItsTargets(is.term)
  BY <1>6, <1>11, <1>13, <1>14 DEF HasItsTargets
<1>21. ASSUME NEW p \in DOMAIN is.phis, NEW k \in DOMAIN is.phis[p].args
       PROVE  \E j \in DOMAIN was.phis[p].args :
                 /\ was.phis[p].args[j] = is.phis[p].args[k]
                 /\ was.preds[j] \in K /\ is.preds[k] = Renumbered(K, was.preds[j])
  <2>1. p \in 1 .. h /\ k \in 1 .. m
    BY <1>17, <1>18
  <2>2. at[k] \in DOMAIN was.phis[p].args /\ was.preds[at[k]] \in K
    BY <1>10, <1>16, <2>1
  <2>3. is.preds[k] = Renumbered(K, was.preds[at[k]])
    BY <1>11, <2>1
  <2>4. was.phis[p].args[at[k]] = is.phis[p].args[k]
    BY <1>17, <2>1
  <2> QED BY <2>2, <2>3, <2>4
<1>22. ASSUME NEW c \in K
       PROVE  /\ CountIn(is.preds, Renumbered(K, c)) = CountIn(was.preds, c)
              /\ CountIn(is.term.to, Renumbered(K, c)) = CountIn(was.term.to, c)
  <2>1. PICK moved : moved = is.preds
    OBVIOUS
  <2>2. CountIn(moved, Renumbered(K, c)) = CountIn(was.preds, c)
    <3>1. DOMAIN moved = 1 .. m /\ \A k \in 1 .. m : moved[k] = Renumbered(K, was.preds[at[k]])
      BY <1>11, <2>1 DEF Listed
    <3>2. PICK preds : preds = was.preds
      OBVIOUS
    <3>3. preds \in Seq(ids) /\ P = KeptPositions(K, preds) /\ DOMAIN moved = 1 .. m
          /\ \A k \in 1 .. m : moved[k] = Renumbered(K, preds[at[k]])
      BY <1>6, <1>7, <3>1, <3>2
    <3>4. K \in SUBSET Nat
      BY <1>3
    <3>5. CountIn(moved, Renumbered(K, c)) = CountIn(preds, c)
      BY <1>3, <1>8, <1>9, <3>3, <3>4, KeptCount
    <3> QED BY <3>2, <3>5
  <2>3. PICK next, to : next = is.term.to /\ to = was.term.to
    OBVIOUS
  <2>4. CountIn(next, Renumbered(K, c)) = CountIn(to, c)
    <3>1. DOMAIN next = DOMAIN to /\ \A k \in DOMAIN to : next[k] = Renumbered(K, to[k])
      BY <1>11, <1>13, <1>14, <2>3
    <3> QED BY <1>3, <1>14, <2>3, <3>1, MovedCount
  <2> QED BY <2>1, <2>2, <2>3, <2>4
<1>23. ASSUME NEW d \in ToSet(is.term.to)
       PROVE  \E c \in ToSet(was.term.to) : c \in K /\ d = Renumbered(K, c)
  <2>1. PICK k \in 1 .. e : d = is.term.to[k]
    BY <1>14 DEF ToSet
  <2>2. d = Renumbered(K, was.term.to[k]) /\ was.term.to[k] \in ToSet(was.term.to)
    BY <1>11, <1>13, <2>1 DEF ToSet
  <2> QED BY <1>2, <2>2
<1>24. ASSUME NEW c \in ToSet(was.term.to) PROVE Renumbered(K, c) \in ToSet(is.term.to)
  <2>1. PICK k \in 1 .. e : c = was.term.to[k]
    BY <1>13 DEF ToSet
  <2>2. is.term.to[k] = Renumbered(K, c)
    BY <1>11, <1>13, <2>1
  <2> QED BY <1>14, <2>2 DEF ToSet
<1>25. \A p \in DOMAIN is.phis :
          is.phis[p].dest = was.phis[p].dest /\ Len(is.phis[p].args) = Len(is.preds)
  BY <1>12, <1>17, <1>18
<1>26. /\ Len(is.term.to) = Len(was.term.to) /\ Len(is.preds) <= Len(was.preds)
       /\ DOMAIN is.phis = DOMAIN was.phis
  BY <1>10, <1>12, <1>13, <1>14, <1>15, <1>18
<1>27. is \in BlocksAmong(1 .. Cardinality(K)) /\ is.insts = was.insts
       /\ is.term.kind = was.term.kind /\ is.term.args = was.term.args
  BY <1>4, <1>11, <1>19
<1>28. IsKept(K, is, was)
  BY <1>20, <1>21, <1>22, <1>23, <1>24, <1>25, <1>26, <1>27 DEF IsKept
<1> QED BY <1>0, <1>28

(***************************************************************************)
(* What retain_reachable makes of the function, if it does anything.       *)
(***************************************************************************)
IsRetained(f, g, K, order, M) ==
    /\ K = Reachable(f) /\ K \in SUBSET Nat /\ IsFiniteSet(K) /\ K \subseteq BlockIds(f)
    /\ order = Ascending(K) /\ M = Cardinality(K) /\ M \in Nat
    /\ BlockIds(g) = 1 .. M
    /\ \A n \in 1 .. M : order[n] \in K /\ Renumbered(K, order[n]) = n
                         /\ g.blocks[n] = Rebuilt(K, f.blocks[order[n]])
                         /\ IsKept(K, g.blocks[n], f.blocks[order[n]])
    /\ \A b \in K : Renumbered(K, b) \in 1 .. M /\ order[Renumbered(K, b)] = b
    /\ \A v \in Values : g.site[v] = SiteMoves(K, f.site[v])

LEMMA RetainedIs ==
    ASSUME NEW f, IsFunction(f), EdgesAgree(f), f.blocks[1].preds = <<>>,
           Reachable(f) # BlockIds(f)
    PROVE  /\ IsFunction(RetainReachable(f)) /\ RetainReachable(f).blocks[1].preds = <<>>
           /\ \E K, order, M : IsRetained(f, RetainReachable(f), K, order, M)
<1>1. PICK g : g = RetainReachable(f)
  OBVIOUS
<1>2. PICK K, order, M : K = Reachable(f) /\ order = Ascending(K) /\ M = Cardinality(K)
  OBVIOUS
<1>3. K \in SUBSET Nat /\ IsFiniteSet(K) /\ K \subseteq BlockIds(f) /\ 1 \in K
  <2>1. PICK n \in Nat : BlockIds(f) = 1 .. n
    BY BlockTypes
  <2>2. PICK x \in Int, y \in Int : x = 1 /\ y = n
    OBVIOUS
  <2>3. IsFiniteSet(1 .. n)
    BY <2>2, FS_Interval
  <2>4. K \in SUBSET (1 .. n) /\ 1 \in K
    BY <1>2, <2>1, ReachableFacts
  <2>5. IsFiniteSet(K)
    BY <2>3, <2>4, FS_Subset
  <2> QED BY <2>1, <2>4, <2>5
<1>4. /\ M \in Nat /\ DOMAIN order = 1 .. M
      /\ \A n \in 1 .. M : order[n] \in K /\ Renumbered(K, order[n]) = n
      /\ \A b \in K : Renumbered(K, b) \in 1 .. M /\ order[Renumbered(K, b)] = b
  BY <1>2, <1>3, AscendingFacts
<1>5. PICK blocks : blocks = [n \in 1 .. M |-> Rebuilt(K, f.blocks[order[n]])]
  OBVIOUS
<1>6. PICK site : site = [v \in DOMAIN f.site |-> SiteMoves(K, f.site[v])]
  OBVIOUS
<1>7. g = [blocks |-> blocks, site |-> site]
  BY <1>1, <1>2, <1>4, <1>5, <1>6 DEF RetainReachable
<1>8. g.blocks = blocks /\ g.site = site /\ BlockIds(g) = 1 .. M
  BY <1>5, <1>7 DEF BlockIds
<1>9. ASSUME NEW n \in 1 .. M
      PROVE  blocks[n] = Rebuilt(K, f.blocks[order[n]])
             /\ IsKept(K, blocks[n], f.blocks[order[n]])
  <2>1. blocks[n] = Rebuilt(K, f.blocks[order[n]])
    BY <1>5
  <2>2. PICK b \in Reachable(f) : b = order[n]
    BY <1>2, <1>4
  <2>3. IsKept(Reachable(f), Rebuilt(Reachable(f), f.blocks[b]), f.blocks[b])
    BY KeptBlock
  <2> QED BY <1>2, <2>1, <2>2, <2>3
<1>10. DOMAIN f.site = Values /\ \A v \in Values : f.site[v] \in Nat \X Nat
  <2>1. PICK S, T : S = Seq(BlocksAmong(BlockIds(f))) /\ T = Nat \X Nat
    OBVIOUS
  <2>2. f \in [blocks : S, site : [Values -> T]]
    BY <2>1 DEF IsFunction
  <2> QED BY <2>1, <2>2
<1>11. \A v \in Values : site[v] = SiteMoves(K, f.site[v])
  BY <1>6, <1>10
<1>12. site \in [Values -> Nat \X Nat]
  <2>1. ASSUME NEW v \in Values PROVE site[v] \in Nat \X Nat
    <3>1. PICK was : was = f.site[v]
      OBVIOUS
    <3>2. was \in Nat \X Nat
      BY <1>10, <3>1
    <3>3. site[v] = SiteMoves(K, was)
      BY <1>11, <3>1
    <3>4. CASE was = Removed \/ was[1] \notin K
      <4>1. site[v] = <<0, 0>>
        BY <3>3, <3>4 DEF SiteMoves, Removed
      <4> QED BY <4>1
    <3>5. CASE was # Removed /\ was[1] \in K
      <4>1. site[v] = <<Renumbered(K, was[1]), was[2]>>
        BY <3>3, <3>5 DEF SiteMoves
      <4>2. Renumbered(K, was[1]) \in Nat /\ was[2] \in Nat
        BY <1>4, <3>2, <3>5
      <4> QED BY <4>1, <4>2
    <3> QED BY <3>4, <3>5
  <2> QED BY <1>6, <1>10, <2>1
<1>13. blocks \in Seq(BlocksAmong(1 .. M))
  <2>1. PICK S : S = BlocksAmong(1 .. M)
    OBVIOUS
  <2>2. \A n \in 1 .. M : blocks[n] \in S
    BY <1>2, <1>9, <2>1 DEF IsKept
  <2>3. Listed(blocks, M)
    BY <1>5 DEF Listed
  <2>4. blocks \in Seq(S)
    BY <1>4, <2>2, <2>3, ListedIs
  <2> QED BY <2>1, <2>4
<1>14. Renumbered(K, 1) = 1 /\ 1 \in 1 .. M /\ order[1] = 1
  <2>1. {c \in K : c <= 1} = {1}
    <3>1. \A c \in K : c \in BlockIds(f)
      BY <1>3
    <3>2. PICK n \in Nat : BlockIds(f) = 1 .. n
      BY BlockTypes
    <3>3. \A c \in K : c <= 1 <=> c = 1
      <4>1. SUFFICES ASSUME NEW c \in K PROVE c <= 1 <=> c = 1
        OBVIOUS
      <4>2. c \in 1 .. n
        BY <3>1, <3>2
      <4> QED BY <4>2
    <3> QED BY <1>3, <3>3
  <2>2. Renumbered(K, 1) = 1
    BY <2>1, FS_Singleton DEF Renumbered
  <2> QED BY <1>3, <1>4, <2>2
<1>15. f.blocks[1].phis = <<>>
  BY DEF IsFunction
<1>16. blocks[1].phis = <<>> /\ blocks[1].preds = <<>>
  <2>1. PICK is, was : is = blocks[1] /\ was = f.blocks[1]
    OBVIOUS
  <2>2. IsKept(K, is, was)
    BY <1>9, <1>14, <2>1
  <2>3. is \in BlocksAmong(1 .. M)
    BY <1>2, <2>2 DEF IsKept
  <2>4. is.phis \in Seq([dest : Values, args : Seq(Operands)]) /\ is.preds \in Seq(1 .. M)
    BY <2>3 DEF BlocksAmong
  <2>5. DOMAIN is.phis = DOMAIN was.phis /\ Len(is.preds) <= Len(was.preds)
    BY <2>2 DEF IsKept
  <2>6. was.phis = <<>> /\ was.preds = <<>>
    BY <1>15, <2>1
  <2>7. is.phis = <<>>
    <3>1. PICK S, s : S = [dest : Values, args : Seq(Operands)] /\ s = is.phis
      OBVIOUS
    <3>2. s \in Seq(S) /\ DOMAIN s = {}
      BY <2>4, <2>5, <2>6, <3>1
    <3>3. s = <<>>
      BY <3>2
    <3> QED BY <3>1, <3>3
  <2>8. is.preds = <<>>
    <3>1. PICK s : s = is.preds
      OBVIOUS
    <3>2. s \in Seq(1 .. M) /\ Len(s) <= 0
      BY <2>4, <2>5, <2>6, <3>1
    <3>3. s = <<>>
      BY <3>2
    <3> QED BY <3>1, <3>3
  <2> QED BY <2>1, <2>7, <2>8
<1>17. ASSUME NEW n \in 1 .. M
       PROVE  /\ \A i \in DOMAIN blocks[n].insts : HasItsOperands(blocks[n].insts[i])
              /\ HasItsTargets(blocks[n].term)
  <2>1. PICK is, was : is = blocks[n] /\ was = f.blocks[order[n]]
    OBVIOUS
  <2>2. IsKept(K, is, was)
    BY <1>9, <2>1
  <2>3. is.insts = was.insts /\ HasItsTargets(is.term)
    BY <2>2 DEF IsKept
  <2>4. order[n] \in BlockIds(f)
    BY <1>3, <1>4
  <2>5. \A i \in DOMAIN was.insts : HasItsOperands(was.insts[i])
    BY <2>1, <2>4, ShapeOf
  <2> QED BY <2>1, <2>3, <2>5
<1>18. IsFunction(g)
  <2>1. g \in [blocks : Seq(BlocksAmong(BlockIds(g))), site : [Values -> Nat \X Nat]]
    <3>1. PICK S, T : S = Seq(BlocksAmong(BlockIds(g))) /\ T = [Values -> Nat \X Nat]
      OBVIOUS
    <3>2. blocks \in S /\ site \in T
      BY <1>8, <1>12, <1>13, <3>1
    <3>3. g \in [blocks : S, site : T]
      BY <1>7, <3>2
    <3> QED BY <3>1, <3>3
  <2> QED BY <1>8, <1>14, <1>16, <1>17, <2>1 DEF IsFunction
<1>19. IsRetained(f, g, K, order, M)
  BY <1>2, <1>3, <1>4, <1>8, <1>9, <1>11 DEF IsRetained
<1> QED BY <1>1, <1>8, <1>16, <1>18, <1>19

(***************************************************************************)
(* Edges agree as before, and the rest holds because what is left is a     *)
(* part of the function.                                                   *)
(***************************************************************************)
LEMMA RetainedEdgesAgree ==
    ASSUME NEW f, IsFunction(f), EdgesAgree(f), NEW g, IsFunction(g), NEW K, NEW order, NEW M,
           IsRetained(f, g, K, order, M)
    PROVE  EdgesAgree(g)
<1>1. /\ BlockIds(g) = 1 .. M /\ K \subseteq BlockIds(f)
      /\ \A n \in 1 .. M : order[n] \in K /\ Renumbered(K, order[n]) = n
                           /\ IsKept(K, g.blocks[n], f.blocks[order[n]])
  BY DEF IsRetained
<1>2. SUFFICES ASSUME NEW n \in BlockIds(g)
               PROVE  /\ ToSet(g.blocks[n].preds) \subseteq BlockIds(g)
                      /\ \A a \in BlockIds(g) :
                            CountIn(g.blocks[n].preds, a) = CountIn(Successors(g, a), n)
                      /\ \A p \in DOMAIN g.blocks[n].phis :
                            Len(g.blocks[n].phis[p].args) = Len(g.blocks[n].preds)
  BY DEF EdgesAgree
<1>3. PICK b \in K : b = order[n] /\ n = Renumbered(K, b) /\ IsKept(K, g.blocks[n], f.blocks[b])
  BY <1>1
<1>4. ToSet(g.blocks[n].preds) \subseteq BlockIds(g)
  <2>1. PICK preds, ids : preds = g.blocks[n].preds /\ ids = BlockIds(g)
    OBVIOUS
  <2>2. preds \in Seq(ids)
    BY <2>1, PartTypes
  <2>3. \A k \in DOMAIN preds : preds[k] \in ids
    BY <2>2
  <2> QED BY <2>1, <2>3 DEF ToSet
<1>5. ASSUME NEW a \in BlockIds(g)
      PROVE  CountIn(g.blocks[n].preds, a) = CountIn(Successors(g, a), n)
  <2>1. PICK c \in K : c = order[a] /\ a = Renumbered(K, c) /\ IsKept(K, g.blocks[a], f.blocks[c])
    BY <1>1, Zenon
  <2>2. CountIn(g.blocks[n].preds, a) = CountIn(f.blocks[b].preds, c)
    BY <1>3, <2>1, ZenonT(40) DEF IsKept
  <2>3. CountIn(g.blocks[a].term.to, n) = CountIn(f.blocks[c].term.to, b)
    BY <1>3, <2>1, ZenonT(40) DEF IsKept
  <2>4. CountIn(f.blocks[b].preds, c) = CountIn(f.blocks[c].term.to, b)
    <3>1. b \in BlockIds(f) /\ c \in BlockIds(f)
      BY <1>1
    <3> QED BY <3>1 DEF EdgesAgree, Successors
  <2> QED BY <2>2, <2>3, <2>4 DEF Successors
<1>6. \A p \in DOMAIN g.blocks[n].phis : Len(g.blocks[n].phis[p].args) = Len(g.blocks[n].preds)
  BY <1>3, Zenon DEF IsKept
<1> QED BY <1>4, <1>5, <1>6

LEMMA RetainedBlockIsPart ==
    ASSUME NEW f, IsFunction(f), NEW g, IsFunction(g), NEW K, NEW order, NEW M,
           IsRetained(f, g, K, order, M), NEW n \in BlockIds(g)
    PROVE  IsPartOfBlock(g, f, order, n)
<1>1. /\ BlockIds(g) = 1 .. M
      /\ \A m \in 1 .. M : order[m] \in K /\ IsKept(K, g.blocks[m], f.blocks[order[m]])
      /\ \A b \in K : Renumbered(K, b) \in 1 .. M /\ order[Renumbered(K, b)] = b
  BY DEF IsRetained
<1>2. PICK is, was : is = g.blocks[n] /\ was = f.blocks[order[n]]
  OBVIOUS
<1>3. IsKept(K, is, was)
  BY <1>1, <1>2
<1>4. /\ is.insts = was.insts /\ is.term.kind = was.term.kind /\ is.term.args = was.term.args
      /\ HasItsTargets(is.term) /\ Len(is.term.to) = Len(was.term.to)
      /\ Len(is.preds) <= Len(was.preds)
      /\ DOMAIN is.phis = DOMAIN was.phis
      /\ \A p \in DOMAIN is.phis :
            is.phis[p].dest = was.phis[p].dest /\ Len(is.phis[p].args) = Len(is.preds)
  BY <1>3 DEF IsKept
<1>5. Len(is.term.to) <= Len(was.term.to)
  <2>1. PICK to, ids : to = is.term.to /\ ids = BlockIds(g)
    OBVIOUS
  <2>2. to \in Seq(ids)
    BY <1>2, <2>1, PartTypes
  <2>3. Len(to) \in Nat
    BY <2>2
  <2> QED BY <1>4, <2>1, <2>3
<1>6. ASSUME NEW p \in DOMAIN is.phis, NEW k \in DOMAIN is.phis[p].args
      PROVE  /\ \E j \in DOMAIN was.phis[p].args :
                   was.phis[p].args[j] = is.phis[p].args[k] /\ was.preds[j] = order[is.preds[k]]
             /\ is.preds[k] \in BlockIds(g)
  <2>1. PICK j \in DOMAIN was.phis[p].args :
             /\ was.phis[p].args[j] = is.phis[p].args[k]
             /\ was.preds[j] \in K /\ is.preds[k] = Renumbered(K, was.preds[j])
    BY <1>3 DEF IsKept
  <2>2. order[is.preds[k]] = was.preds[j] /\ is.preds[k] \in 1 .. M
    BY <1>1, <2>1
  <2> QED BY <1>1, <2>1, <2>2
<1>7. ASSUME NEW c \in ToSet(Successors(g, n)) PROVE order[c] \in ToSet(Successors(f, order[n]))
  <2>1. c \in ToSet(is.term.to)
    BY <1>2 DEF Successors
  <2>2. PICK d \in ToSet(was.term.to) : d \in K /\ c = Renumbered(K, d)
    BY <1>3, <2>1 DEF IsKept
  <2>3. order[c] = d
    BY <1>1, <2>2
  <2> QED BY <1>2, <2>2, <2>3 DEF Successors
<1>8. \A i \in DOMAIN is.insts :
         /\ is.insts[i].dest = was.insts[i].dest /\ is.insts[i].op = was.insts[i].op
         /\ ValuesRead(is.insts[i].args) \subseteq ValuesRead(was.insts[i].args)
  BY <1>4
<1>9. /\ DOMAIN is.insts = DOMAIN was.insts
      /\ ValuesRead(is.term.args) \subseteq ValuesRead(was.term.args)
  BY <1>4
<1>10. g.blocks[n] = is /\ f.blocks[order[n]] = was
  BY <1>2
<1> QED BY <1>4, <1>5, <1>6, <1>7, <1>8, <1>9, <1>10 DEF IsPartOfBlock

LEMMA RetainedIsPart ==
    ASSUME NEW f, IsFunction(f), NEW g, IsFunction(g), NEW K, NEW order, NEW M,
           IsRetained(f, g, K, order, M)
    PROVE  IsPartOf(g, f, order) /\ Reachable(g) = BlockIds(g)
<1>1. /\ BlockIds(g) = 1 .. M /\ K = Reachable(f) /\ K \subseteq BlockIds(f) /\ M \in Nat
      /\ \A n \in 1 .. M : order[n] \in K /\ Renumbered(K, order[n]) = n
      /\ \A b \in K : Renumbered(K, b) \in 1 .. M /\ order[Renumbered(K, b)] = b
      /\ \A v \in Values : g.site[v] = SiteMoves(K, f.site[v])
      /\ K \in SUBSET Nat /\ IsFiniteSet(K)
  BY DEF IsRetained
<1>2. 1 \in K /\ Renumbered(K, 1) = 1 /\ order[1] = 1
  <2>1. 1 \in K
    BY <1>1, ReachableFacts
  <2>2. PICK n \in Nat : BlockIds(f) = 1 .. n
    BY BlockTypes
  <2>3. \A c \in K : c <= 1 <=> c = 1
    <3>1. SUFFICES ASSUME NEW c \in K PROVE c <= 1 <=> c = 1
      OBVIOUS
    <3>2. c \in 1 .. n
      BY <1>1, <2>2
    <3> QED BY <3>2
  <2>4. {c \in K : c <= 1} = {1}
    BY <2>1, <2>3
  <2>5. Renumbered(K, 1) = 1
    BY <2>4, FS_Singleton DEF Renumbered
  <2> QED BY <1>1, <2>1, <2>5
<1>3. \A n \in BlockIds(g) : order[n] \in BlockIds(f)
  BY <1>1
<1>4. \A m, n \in BlockIds(g) : order[m] = order[n] => m = n
  BY <1>1
<1>5. \A n \in BlockIds(g) : IsPartOfBlock(g, f, order, n)
  BY RetainedBlockIsPart
<1>6. ASSUME NEW v \in Values, NEW n \in BlockIds(g), NEW p \in DOMAIN g.blocks[n].phis,
             f.site[v] = <<order[n], p>>
      PROVE  g.site[v] = <<n, p>>
  <2>1. order[n] \in K /\ Renumbered(K, order[n]) = n
    BY <1>1
  <2>2. order[n] # 0
    <3>1. PICK m \in Nat : BlockIds(f) = 1 .. m
      BY BlockTypes
    <3>2. order[n] \in 1 .. m
      BY <1>3, <3>1
    <3> QED BY <3>2
  <2>3. <<order[n], p>> # Removed
    BY <2>2 DEF Removed
  <2>4. SiteMoves(K, <<order[n], p>>) = <<n, p>>
    BY <2>1, <2>3 DEF SiteMoves
  <2> QED BY <1>1, <1>6, <2>4
<1>7. ASSUME NEW b \in BlockIds(f), \A n \in BlockIds(g) : order[n] # b,
             NEW n \in BlockIds(g)
      PROVE  ~Dominates(f, b, order[n])
  <2>1. b \notin Reachable(f)
    BY <1>1, <1>7
  <2>2. order[n] \in Reachable(f)
    BY <1>1
  <2> QED BY <2>1, <2>2, UnreachableDominatesNothing
<1>10. \A v \in Values : f.site[v] = Removed => g.site[v] = Removed
  BY <1>1 DEF SiteMoves
<1>8. IsPartOf(g, f, order)
  BY <1>2, <1>3, <1>4, <1>5, <1>6, <1>7, <1>10 DEF IsPartOf
<1>9. Reachable(g) = BlockIds(g)
  <2> DEFINE S == {b \in K : Renumbered(K, b) \in Reachable(g)}
  <2>1. 1 \in S
    BY <1>2, ReachableFacts
  <2>2. ASSUME NEW b \in S, NEW c \in ToSet(Successors(f, b)) PROVE c \in S
    <3>1. c \in K
      BY <1>1, ReachableFacts
    <3>2. PICK n \in 1 .. M : n = Renumbered(K, b) /\ order[n] = b
      BY <1>1
    <3>3. IsKept(K, g.blocks[n], f.blocks[b])
      BY <3>2 DEF IsRetained
    <3>4. Renumbered(K, c) \in ToSet(g.blocks[n].term.to)
      BY <3>3 DEF IsKept, Successors
    <3>5. Renumbered(K, c) \in Reachable(g)
      BY <3>2, <3>4, ReachableFacts DEF Successors
    <3> QED BY <3>1, <3>5
  <2> HIDE DEF S
  <2>3. ReachableAvoiding(f, {}) \subseteq S
    BY <2>1, <2>2, AvoidingIsLeast
  <2>4. K \subseteq S
    BY <1>1, <2>3 DEF Reachable
  <2>5. \A n \in BlockIds(g) : n \in Reachable(g)
    BY <1>1, <2>4 DEF S
  <2> QED BY <2>5, ReachableFacts
<1> QED BY <1>8, <1>9

\* And every block of it is reached, which was all that was missing.
LEMMA RetainingIsWellFormed ==
    ASSUME NEW f, Consistent(f)
    PROVE  IsFunction(RetainReachable(f)) /\ WellFormed(RetainReachable(f))
<1>1. IsFunction(f) /\ EdgesAgree(f) /\ f.blocks[1].preds = <<>>
  BY DEF Consistent
<1>2. CASE Reachable(f) = BlockIds(f)
  <2>1. RetainReachable(f) = f
    BY <1>2 DEF RetainReachable
  <2> QED BY <1>1, <1>2, <2>1 DEF Consistent, WellFormed, AllReachable
<1>3. CASE Reachable(f) # BlockIds(f)
  <2>1. PICK g : g = RetainReachable(f)
    OBVIOUS
  <2>2. IsFunction(g) /\ g.blocks[1].preds = <<>>
        /\ \E K, order, M : IsRetained(f, g, K, order, M)
    BY <1>1, <1>3, <2>1, RetainedIs
  <2>3. PICK K, order, M : IsRetained(f, g, K, order, M)
    BY <2>2
  <2>4. EdgesAgree(g)
    BY <1>1, <2>2, <2>3, RetainedEdgesAgree
  <2>5. IsPartOf(g, f, order) /\ Reachable(g) = BlockIds(g)
    BY <1>1, <2>2, <2>3, RetainedIsPart
  <2>6. Consistent(g)
    BY <2>2, <2>4, <2>5, PartIsConsistent
  <2> QED BY <2>1, <2>2, <2>5, <2>6 DEF Consistent, WellFormed, AllReachable
<1> QED BY <1>2, <1>3

-----------------------------------------------------------------------------
(***************************************************************************)
(* Two runs in step: if what g does next from the image of a state is the  *)
(* image of what f does next, all of g's run is the image of f's.          *)
(***************************************************************************)
LEMMA RunsInStep ==
    ASSUME NEW f, NEW g, NEW input, NEW steps \in Nat,
           NEW ofF, ofF = RunOf(f, input, steps), NEW ofG, ofG = RunOf(g, input, steps),
           NEW image, image[1] = Start(input),
           \A n \in 1 .. Len(ofF) : image[n].status = ofF[n].status,
           \A n \in 1 .. Len(ofF) - 1 :
              ofF[n].status = "running" => image[n + 1] = NextOf(g, input, image[n])
    PROVE  /\ Len(ofF) \in Nat /\ Len(ofF) >= 1 /\ Len(ofG) = Len(ofF)
           /\ \A n \in 1 .. Len(ofF) : ofG[n] = image[n]
<1>1. /\ IsRun(f, input, ofF) /\ RanFor(ofF, steps) /\ IsRun(g, input, ofG) /\ RanFor(ofG, steps)
  BY RunUnfolds
<1>2. PICK N \in Nat : N = Len(ofF) /\ N >= 1
  BY <1>1 DEF IsRun
<1>3. PICK M \in Nat : M = Len(ofG) /\ M >= 1
  BY <1>1 DEF IsRun
<1>4. /\ \A n \in 1 .. N - 1 : ofF[n].status = "running"
      /\ N = steps + 1 \/ (N <= steps /\ ofF[N].status # "running")
  BY <1>1, <1>2 DEF IsRun, RanFor
<1>5. /\ ofG[1] = Start(input)
      /\ \A n \in 1 .. M - 1 : ofG[n].status = "running" /\ ofG[n + 1] = NextOf(g, input, ofG[n])
      /\ M = steps + 1 \/ (M <= steps /\ ofG[M].status # "running")
  BY <1>1, <1>3 DEF IsRun, RanFor
<1> DEFINE Same(n) == n + 1 <= M /\ ofG[n + 1] = image[n + 1]
           T == {n \in 0 .. N - 1 : Same(n)}
<1>6. 0 \in T
  BY <1>2, <1>3, <1>5
<1>7. ASSUME NEW n \in 0 .. N - 1 - 1, n \in T PROVE n + 1 \in T
  <2>1. PICK m : m = n + 1
    OBVIOUS
  <2>2. m \in 1 .. N - 1 /\ m \in 1 .. N /\ m <= M /\ ofG[m] = image[m]
    BY <1>7, <2>1
  <2>3. ofG[m].status = "running"
    BY <1>2, <1>4, <2>2
  <2>4. m < M
    <3>1. SUFFICES ASSUME m = M PROVE FALSE
      BY <1>3, <2>2
    <3>2. M = steps + 1
      BY <1>5, <2>3, <3>1
    <3> QED BY <1>4, <2>2, <3>1, <3>2
  <2>5. ofG[m + 1] = NextOf(g, input, ofG[m])
    BY <1>5, <2>2, <2>4
  <2>6. image[m + 1] = NextOf(g, input, image[m])
    BY <1>2, <1>4, <2>2
  <2>7. m + 1 <= M /\ m \in 0 .. N - 1
    BY <1>3, <2>2, <2>4
  <2> QED BY <2>1, <2>2, <2>5, <2>6, <2>7
<1>8. \A n \in 0 .. N - 1 : n \in T
  <2>1. N - 1 \in Nat
    BY <1>2
  <2> HIDE DEF T
  <2> QED BY <1>6, <1>7, <2>1, UpToBound
<1>9. \A n \in 1 .. N : n <= M /\ ofG[n] = image[n]
  <2>1. ASSUME NEW n \in 1 .. N PROVE n <= M /\ ofG[n] = image[n]
    <3>1. n - 1 \in 0 .. N - 1 /\ (n - 1) + 1 = n
      OBVIOUS
    <3>2. n - 1 \in T
      BY <1>8, <3>1
    <3> QED BY <3>1, <3>2
  <2> QED BY <2>1
<1>10. M = N
  <2>1. SUFFICES ASSUME N < M PROVE FALSE
    BY <1>2, <1>3, <1>9
  <2>2. ofG[N] = image[N] /\ ofG[N].status = "running"
    BY <1>2, <1>5, <1>9, <2>1
  <2>3. ofF[N].status = "running"
    BY <1>2, <2>2
  <2>4. N = steps + 1
    BY <1>4, <2>3
  <2> QED BY <1>5, <2>1, <2>4
<1> QED BY <1>2, <1>3, <1>9, <1>10

(***************************************************************************)
(* And the same run, if it is the same step from every state of it.        *)
(***************************************************************************)
LEMMA RunsAreTheSame ==
    ASSUME NEW f, NEW g, NEW input, NEW steps \in Nat,
           NEW states, states = RunOf(f, input, steps),
           \A n \in 1 .. Len(states) - 1 :
              states[n].status = "running"
                 => NextOf(g, input, states[n]) = NextOf(f, input, states[n])
    PROVE  RunOf(g, input, steps) = RunOf(f, input, steps)
<1>1. PICK r, q : r = RunOf(f, input, steps) /\ q = RunOf(g, input, steps)
  OBVIOUS
<1>2. /\ IsRun(f, input, r) /\ IsRun(g, input, q)
  BY <1>1, RunUnfolds
<1>3. PICK S, R : r \in Seq(S) /\ q \in Seq(R)
  BY <1>2 DEF IsRun
<1>4. PICK N \in Nat : N = Len(r) /\ DOMAIN r = 1 .. N
  BY <1>3
<1>5. r[1] = Start(input)
      /\ \A n \in 1 .. N - 1 : r[n].status = "running" /\ r[n + 1] = NextOf(f, input, r[n])
  BY <1>2, <1>4 DEF IsRun
<1>6. ASSUME NEW n \in 1 .. N - 1 PROVE r[n + 1] = NextOf(g, input, r[n])
  <2>1. states = r
    BY <1>1
  <2> QED BY <1>4, <1>5, <2>1
<1>7. Len(q) = N /\ \A n \in 1 .. N : q[n] = r[n]
  <2>1. \A n \in 1 .. Len(r) - 1 : r[n].status = "running" => r[n + 1] = NextOf(g, input, r[n])
    BY <1>4, <1>6
  <2>2. /\ Len(r) \in Nat /\ Len(r) >= 1 /\ Len(q) = Len(r)
        /\ \A n \in 1 .. Len(r) : q[n] = r[n]
    BY <1>1, <1>5, <2>1, RunsInStep
  <2> QED BY <1>4, <2>2
<1>8. q = r
  BY <1>3, <1>4, <1>7
<1> QED BY <1>1, <1>8

-----------------------------------------------------------------------------
(***************************************************************************)
(* No block is entered twice from the same one: the edge would be critical.*)
(***************************************************************************)
LEMMA EnteredOnce ==
    ASSUME NEW f, Consistent(f), NEW b \in BlockIds(f),
           NEW j \in DOMAIN f.blocks[b].preds, NEW k \in DOMAIN f.blocks[b].preds,
           f.blocks[b].preds[j] = f.blocks[b].preds[k]
    PROVE  j = k
<1>1. SUFFICES ASSUME j # k PROVE FALSE
  OBVIOUS
<1>2. IsFunction(f) /\ EdgesAgree(f)
  BY DEF Consistent
<1>3. PICK preds, a : preds = f.blocks[b].preds /\ a = preds[j]
  OBVIOUS
<1>4. preds \in Seq(BlockIds(f)) /\ a \in BlockIds(f)
  BY <1>2, <1>3, PartTypes, LengthFacts
<1>5. PICK to : to = f.blocks[a].term.to
  OBVIOUS
<1>6. to \in Seq(BlockIds(f)) /\ to = Successors(f, a)
  BY <1>2, <1>4, <1>5, PartTypes DEF Successors
<1>7. CountIn(preds, a) = CountIn(to, b)
  BY <1>2, <1>3, <1>4, <1>6 DEF EdgesAgree
<1>8. CountIn(preds, a) >= 2
  <2>1. PICK n \in Nat : n = Len(preds) /\ DOMAIN preds = 1 .. n
    BY <1>4, LengthFacts
  <2>2. PICK T : T = {m \in DOMAIN preds : preds[m] = a}
    OBVIOUS
  <2>3. IsFiniteSet(T)
    <3>1. IsFiniteSet(1 .. n)
      BY FS_Interval
    <3>2. T \subseteq 1 .. n
      BY <2>1, <2>2
    <3> QED BY <3>1, <3>2, FS_Subset
  <2>4. {j, k} \subseteq T
    BY <1>3, <2>2
  <2>5. Cardinality({j, k}) = 2
    <3>1. PICK W : W = {j}
      OBVIOUS
    <3>2. IsFiniteSet(W) /\ Cardinality(W) = 1
      BY <3>1, FS_Singleton
    <3>3. k \notin W /\ W \cup {k} = {j, k}
      BY <1>1, <3>1
    <3>4. Cardinality(W \cup {k}) = Cardinality(W) + 1
      BY <3>2, <3>3, FS_AddElement
    <3> QED BY <3>2, <3>3, <3>4
  <2>6. Cardinality({j, k}) <= Cardinality(T) /\ Cardinality(T) \in Nat
    BY <2>3, <2>4, FS_Subset, FS_CardinalityType
  <2>7. CountIn(preds, a) = Cardinality(T)
    BY <2>2 DEF CountIn
  <2>8. PICK c : c = Cardinality(T)
    OBVIOUS
  <2>9. 2 <= c /\ c \in Nat
    BY <2>5, <2>6, <2>8
  <2> QED BY <2>7, <2>8, <2>9
<1>9. CountIn(to, b) \in Nat /\ CountIn(to, b) <= Len(to) /\ Len(to) \in Nat
  BY <1>6, CountIsBounded, LengthFacts
<1>10. f.blocks[a].term.kind = "branch"
  <2>1. HasItsTargets(f.blocks[a].term) /\ f.blocks[a].term.kind \in {"jump", "branch", "return"}
    BY <1>2, <1>4, ShapeOf, PartTypes
  <2>2. PICK c, n : c = CountIn(to, b) /\ n = Len(to)
    OBVIOUS
  <2>3. c >= 2 /\ c \in Nat /\ n \in Nat /\ c <= n
    BY <1>7, <1>8, <1>9, <2>2
  <2>4. n # 0 /\ n # 1
    BY <2>3
  <2> QED BY <1>5, <2>1, <2>2, <2>4 DEF HasItsTargets
<1>11. PICK x, y \in BlockIds(f) :
          /\ x # y /\ Successors(f, a) = <<x, y>>
          /\ f.blocks[x].preds = <<a>> /\ f.blocks[y].preds = <<a>>
  BY <1>4, <1>10, BranchTargets
<1>12. b = x \/ b = y
  <2>1. SUFFICES ASSUME b # x, b # y PROVE FALSE
    OBVIOUS
  <2>2. CountIn(to, b) = 0
    BY <1>6, <1>11, <2>1, CountInPair
  <2> QED BY <1>7, <1>8, <2>2
<1>13. preds = <<a>>
  BY <1>3, <1>11, <1>12
<1>14. DOMAIN <<a>> = {1}
  OBVIOUS
<1> QED BY <1>1, <1>3, <1>13, <1>14

-----------------------------------------------------------------------------
(***************************************************************************)
(* Two blocks whose phis define the same values, and give them the same    *)
(* where control came from, leave the same environment.                    *)
(***************************************************************************)
SamePhis(was, s, is, t) ==
    /\ t.env = s.env /\ DOMAIN is.phis = DOMAIN was.phis
    /\ \A p \in DOMAIN was.phis : is.phis[p].dest = was.phis[p].dest
    /\ DOMAIN was.phis # {} =>
          \E j \in DOMAIN was.preds, k \in DOMAIN is.preds :
             /\ was.preds[j] = s.from
             /\ \A i \in DOMAIN was.preds : was.preds[i] = s.from => i = j
             /\ is.preds[k] = t.from
             /\ \A i \in DOMAIN is.preds : is.preds[i] = t.from => i = k
             /\ \A p \in DOMAIN was.phis :
                   ValueIn(s.env, is.phis[p].args[k]) = ValueIn(s.env, was.phis[p].args[j])

WithEnv(s, env) == [s EXCEPT !.env = env]

LEMMA SamePhisDone ==
    ASSUME NEW f, NEW s, NEW g, NEW t, SamePhis(f.blocks[s.block], s, g.blocks[t.block], t)
    PROVE  \E env : /\ env = [v \in Values |-> env[v]]
                    /\ PhisDone(f, s) = WithEnv(s, env) /\ PhisDone(g, t) = WithEnv(t, env)
<1> DEFINE P == f.blocks[s.block]
           R == g.blocks[t.block]
           written == {P.phis[p].dest : p \in DOMAIN P.phis}
           also == {R.phis[p].dest : p \in DOMAIN R.phis}
           way == CHOOSE k \in DOMAIN P.preds : P.preds[k] = s.from
           road == CHOOSE k \in DOMAIN R.preds : R.preds[k] = t.from
           PhiOf(v) == CHOOSE p \in DOMAIN P.phis : P.phis[p].dest = v
           PhiAt(v) == CHOOSE p \in DOMAIN R.phis : R.phis[p].dest = v
           env == [v \in Values |-> IF v \in written THEN ValueIn(s.env, P.phis[PhiOf(v)].args[way])
                                    ELSE s.env[v]]
           envG == [v \in Values |-> IF v \in also THEN ValueIn(t.env, R.phis[PhiAt(v)].args[road])
                                     ELSE t.env[v]]
<1>3. PhisDone(f, s) = WithEnv(s, env)
  BY DEF PhisDone, WithEnv
<1>4. PhisDone(g, t) = WithEnv(t, envG)
  BY DEF PhisDone, WithEnv
<1>1. /\ DOMAIN P.phis # {} =>
            \E j \in DOMAIN P.preds, k \in DOMAIN R.preds :
               /\ P.preds[j] = s.from /\ \A i \in DOMAIN P.preds : P.preds[i] = s.from => i = j
               /\ R.preds[k] = t.from /\ \A i \in DOMAIN R.preds : R.preds[i] = t.from => i = k
               /\ \A p \in DOMAIN P.phis :
                     ValueIn(s.env, R.phis[p].args[k]) = ValueIn(s.env, P.phis[p].args[j])
  BY DEF SamePhis
<1>2. /\ t.env = s.env /\ DOMAIN R.phis = DOMAIN P.phis
      /\ \A p \in DOMAIN P.phis : R.phis[p].dest = P.phis[p].dest
  BY DEF SamePhis
<1> HIDE DEF P, R
<1>5. also = written
  BY <1>2
<1>6. ASSUME NEW v PROVE PhiAt(v) = PhiOf(v)
  BY <1>2, Zenon
<1>7. ASSUME NEW v \in written PROVE PhiOf(v) \in DOMAIN P.phis
  OBVIOUS
<1>8. ASSUME NEW v \in Values, v \in written
      PROVE  ValueIn(s.env, R.phis[PhiAt(v)].args[road]) = ValueIn(s.env, P.phis[PhiOf(v)].args[way])
  <2>1. DOMAIN P.phis # {}
    BY <1>8
  <2>2. PICK j \in DOMAIN P.preds, k \in DOMAIN R.preds :
           /\ P.preds[j] = s.from /\ \A i \in DOMAIN P.preds : P.preds[i] = s.from => i = j
           /\ R.preds[k] = t.from /\ \A i \in DOMAIN R.preds : R.preds[i] = t.from => i = k
           /\ \A p \in DOMAIN P.phis :
                 ValueIn(s.env, R.phis[p].args[k]) = ValueIn(s.env, P.phis[p].args[j])
    BY <1>1, <2>1, Zenon
  <2>3. way = j
    BY <2>2
  <2>4. road = k
    BY <2>2
  <2> HIDE DEF way, road, PhiOf, PhiAt, written
  <2>5. PhiOf(v) \in DOMAIN P.phis /\ PhiAt(v) = PhiOf(v)
    BY <1>6, <1>7, <1>8
  <2> QED BY <2>2, <2>3, <2>4, <2>5
<1>9. envG = env
  <2> HIDE DEF way, road, PhiOf, PhiAt
  <2>1. ASSUME NEW v \in Values
        PROVE  (IF v \in also THEN ValueIn(t.env, R.phis[PhiAt(v)].args[road]) ELSE t.env[v])
               = (IF v \in written THEN ValueIn(s.env, P.phis[PhiOf(v)].args[way]) ELSE s.env[v])
    <3> HIDE DEF written, also
    <3> QED BY <1>2, <1>5, <1>8
  <2> QED BY <2>1
<1>10. env = [v \in Values |-> env[v]]
  OBVIOUS
<1> HIDE DEF env, envG
<1> QED BY <1>3, <1>4, <1>9, <1>10

-----------------------------------------------------------------------------
(***************************************************************************)
(* Operands that stand for the same values.                                *)
(***************************************************************************)
ReadTheSame(env, args, others) ==
    /\ args \in Seq(Operands) /\ others \in Seq(Operands) /\ Len(others) = Len(args)
    /\ \A a \in 1 .. Len(args) : ValueIn(env, others[a]) = ValueIn(env, args[a])

LEMMA SameExecuted ==
    ASSUME NEW inst, NEW other, NEW input, NEW s, HasItsOperands(inst),
           inst.op \in PureOps \cup EffectOps,
           other.op = inst.op, other.dest = inst.dest, ReadTheSame(s.env, inst.args, other.args)
    PROVE  Executed(other, input, s) = Executed(inst, input, s)
<1>1. PICK n \in Nat : n = Len(inst.args)
  BY DEF ReadTheSame
<1>2. \A a \in 1 .. n : ValueIn(s.env, other.args[a]) = ValueIn(s.env, inst.args[a])
  BY <1>1 DEF ReadTheSame
<1>3. CASE inst.op \in BinaryOps
  <2>1. n = 2
    BY <1>1, <1>3 DEF HasItsOperands
  <2>2. ValueIn(s.env, other.args[1]) = ValueIn(s.env, inst.args[1])
        /\ ValueIn(s.env, other.args[2]) = ValueIn(s.env, inst.args[2])
    BY <1>2, <2>1
  <2> QED BY <2>2 DEF Executed
<1>4. CASE inst.op \in {"copy", "store", "call"}
  <2>1. n = 1
    BY <1>1, <1>4 DEF HasItsOperands
  <2>2. ValueIn(s.env, other.args[1]) = ValueIn(s.env, inst.args[1])
    BY <1>2, <2>1
  <2>3. inst.op # "div" /\ inst.op \notin BinaryOps
    BY <1>4 DEF BinaryOps
  <2>4. CASE inst.op = "copy"
    BY <2>2, <2>3, <2>4 DEF Executed
  <2>5. CASE inst.op = "store"
    BY <2>2, <2>3, <2>5 DEF Executed
  <2>6. CASE inst.op = "call"
    BY <2>2, <2>3, <2>6 DEF Executed
  <2> QED BY <1>4, <2>4, <2>5, <2>6
<1>5. CASE inst.op \in {"undef", "param", "load", "addr"}
  <2>1. inst.op # "div" /\ inst.op \notin BinaryOps
    BY <1>5 DEF BinaryOps
  <2>2. CASE inst.op = "undef"
    BY <2>1, <2>2 DEF Executed
  <2>3. CASE inst.op = "param"
    BY <2>1, <2>3 DEF Executed
  <2>4. CASE inst.op = "load"
    BY <2>1, <2>4 DEF Executed
  <2>5. CASE inst.op = "addr"
    BY <2>1, <2>5 DEF Executed
  <2> QED BY <1>5, <2>2, <2>3, <2>4, <2>5
<1> QED BY <1>3, <1>4, <1>5 DEF PureOps, EffectOps

LEMMA SameTransferred ==
    ASSUME NEW term, NEW other, NEW s, HasItsTargets(term),
           term.kind \in {"jump", "branch", "return"},
           other.kind = term.kind, other.to = term.to, ReadTheSame(s.env, term.args, other.args)
    PROVE  Transferred(other, s) = Transferred(term, s)
<1>1. PICK n \in Nat : n = Len(term.args)
  BY DEF ReadTheSame
<1>2. \A a \in 1 .. n : ValueIn(s.env, other.args[a]) = ValueIn(s.env, term.args[a])
  BY <1>1 DEF ReadTheSame
<1>3. CASE term.kind = "jump"
  BY <1>3 DEF Transferred
<1>4. CASE term.kind # "jump"
  <2>1. ValueIn(s.env, other.args[1]) = ValueIn(s.env, term.args[1])
    <3>1. CASE n = 0
      <4>1. PICK x, y : x = term.args /\ y = other.args
        OBVIOUS
      <4>2. x \in Seq(Operands) /\ y \in Seq(Operands) /\ Len(x) = 0 /\ Len(y) = 0
        BY <1>1, <3>1, <4>1 DEF ReadTheSame
      <4>3. x = <<>> /\ y = <<>>
        BY <4>2
      <4> QED BY <4>1, <4>3
    <3>2. CASE n # 0
      BY <1>2, <3>2
    <3> QED BY <3>1, <3>2
  <2> QED BY <2>1 DEF Transferred
<1> QED BY <1>3, <1>4

-----------------------------------------------------------------------------
\* What substitute_operands makes of a block, part by part.
SubstitutedBlock(r, is, was) ==
    /\ is.preds = was.preds /\ DOMAIN is.phis = DOMAIN was.phis
    /\ DOMAIN is.insts = DOMAIN was.insts
    /\ \A p \in DOMAIN was.phis :
          /\ is.phis[p].dest = was.phis[p].dest
          /\ is.phis[p].args = With(r, was.phis[p].args)
    /\ \A i \in DOMAIN was.insts :
          /\ is.insts[i].dest = was.insts[i].dest /\ is.insts[i].op = was.insts[i].op
          /\ is.insts[i].args = With(r, was.insts[i].args)
    /\ is.term.kind = was.term.kind /\ is.term.to = was.term.to
    /\ is.term.args = With(r, was.term.args)

LEMMA SubstitutedIs ==
    ASSUME NEW f, IsFunction(f), NEW r, AreWords(r), NEW b \in BlockIds(f)
    PROVE  SubstitutedBlock(r, SubstituteOperands(f, r).blocks[b], f.blocks[b])
<1>1. PICK was, is : was = f.blocks[b] /\ is = SubstituteOperands(f, r).blocks[b]
  OBVIOUS
<1>2. was \in BlocksAmong(BlockIds(f))
  BY <1>1, ShapeOf
<1>3. is = WithBlock(r, was)
  <2>1. f \in [blocks : Seq(BlocksAmong(BlockIds(f))), site : [Values -> Nat \X Nat]]
    BY DEF IsFunction
  <2>2. SubstituteOperands(f, r).blocks = [c \in BlockIds(f) |-> WithBlock(r, f.blocks[c])]
    BY <2>1 DEF SubstituteOperands
  <2> QED BY <1>1, <2>2
<1>4. /\ is.preds = was.preds /\ is.phis = WithAll(r, was.phis) /\ is.insts = WithAll(r, was.insts)
      /\ is.term.kind = was.term.kind /\ is.term.to = was.term.to
      /\ is.term.args = With(r, was.term.args)
  BY <1>2, <1>3, WordsAreOperands, WithBlockFacts
<1>5. /\ was.phis \in Seq([dest : Values, args : Seq(Operands)])
      /\ was.insts \in Seq([dest : Values \cup {NoValue}, op : PureOps \cup EffectOps,
                            args : Seq(Operands)])
  BY <1>1, PartTypes
<1>6. /\ DOMAIN is.phis = DOMAIN was.phis
      /\ \A p \in DOMAIN was.phis : /\ is.phis[p].dest = was.phis[p].dest
                                    /\ is.phis[p].args = With(r, was.phis[p].args)
  <2>0. PICK list : list = was.phis
    OBVIOUS
  <2>1. list \in Seq([dest : Values, args : Seq(Operands)]) /\ is.phis = WithAll(r, list)
    BY <1>4, <1>5, <2>0
  <2>2. /\ DOMAIN WithAll(r, list) = DOMAIN list
        /\ \A p \in DOMAIN list : /\ WithAll(r, list)[p].dest = list[p].dest
                                  /\ WithAll(r, list)[p].args = With(r, list[p].args)
                                  /\ list[p].args \in Seq(Operands)
    BY <2>1, WordsAreOperands, WithAllPhis
  <2> QED BY <2>0, <2>1, <2>2
<1>7. /\ DOMAIN is.insts = DOMAIN was.insts
      /\ \A i \in DOMAIN was.insts :
            /\ is.insts[i].dest = was.insts[i].dest /\ is.insts[i].op = was.insts[i].op
            /\ is.insts[i].args = With(r, was.insts[i].args)
  <2>0. PICK list, D, O : list = was.insts /\ D = Values \cup {NoValue} /\ O = PureOps \cup EffectOps
    OBVIOUS
  <2>1. list \in Seq([dest : D, op : O, args : Seq(Operands)])
    BY <1>5, <2>0
  <2>3. is.insts = WithAll(r, list)
    BY <1>4, <2>0
  <2>2. /\ DOMAIN WithAll(r, list) = DOMAIN list
        /\ \A i \in DOMAIN list :
              /\ WithAll(r, list)[i].dest = list[i].dest /\ WithAll(r, list)[i].op = list[i].op
              /\ WithAll(r, list)[i].args = With(r, list[i].args)
              /\ list[i].args \in Seq(Operands)
    BY <2>1, WordsAreOperands, WithAllFacts
  <2> QED BY <2>0, <2>2, <2>3
<1> QED BY <1>1, <1>4, <1>6, <1>7 DEF SubstitutedBlock

-----------------------------------------------------------------------------
(***************************************************************************)
(* A state a run can be in: the calls made so far are a sequence, and the  *)
(* block it is in was reached, along an edge if it is not the entry.       *)
(***************************************************************************)
IsObservable(s) ==
    s.status \in {"running", "returned", "undefined"} /\ \E S : s.calls \in Seq(S)

ArrivedAt(f, s) ==
    /\ s.block \in Reachable(f)
    /\ \/ s.from = 0 /\ s.block = 1
       \/ s.from \in Reachable(f) /\ s.block \in ToSet(Successors(f, s.from))

IsReached(f, s) ==
    IsState(s) /\ IsObservable(s) /\ (s.status = "running" => ArrivedAt(f, s))

LEMMA StartIsReached ==
    ASSUME NEW f, IsFunction(f), NEW input
    PROVE  IsReached(f, Start(input))
<1>1. IsState(Start(input)) /\ Start(input).block = 1 /\ Start(input).from = 0
  BY StartIsState
<1>2. Start(input).calls = <<>> /\ Start(input).status = "running"
  BY DEF Start
<1>3. <<>> \in Seq({})
  OBVIOUS
<1>4. IsObservable(Start(input))
  BY <1>2, <1>3 DEF IsObservable
<1>5. 1 \in Reachable(f)
  BY ReachableFacts
<1> QED BY <1>1, <1>4, <1>5 DEF IsReached, ArrivedAt

LEMMA ExecutedIsObservable ==
    ASSUME NEW inst, NEW input, NEW s, IsState(s), IsObservable(s)
    PROVE  IsObservable(Executed(inst, input, s))
<1>1. PICK E, A : s \in States(E, A)
  BY DEF IsState
<1>2. ASSUME NEW value PROVE IsObservable([s EXCEPT !.env[inst.dest] = value])
  <2>1. [s EXCEPT !.env[inst.dest] = value].calls = s.calls
    BY <1>1 DEF States
  <2> QED BY <2>1 DEF IsObservable
<1>3. IsObservable([s EXCEPT !.status = "undefined"])
  <2>1. [s EXCEPT !.status = "undefined"].calls = s.calls
    BY <1>1 DEF States
  <2> QED BY <2>1 DEF IsObservable
<1>4. ASSUME NEW value PROVE IsObservable([s EXCEPT !.memory = value])
  <2>1. [s EXCEPT !.memory = value].calls = s.calls
    BY <1>1 DEF States
  <2> QED BY <2>1 DEF IsObservable
<1>5. ASSUME NEW value, NEW call, NEW answer
      PROVE  IsObservable([[s EXCEPT !.env[inst.dest] = value]
                          EXCEPT !.calls = Append(@, call), !.memory = answer])
  <2>1. PICK u, calls : /\ u = [s EXCEPT !.env[inst.dest] = value]
                        /\ calls = Append(u.calls, call)
    OBVIOUS
  <2>2. u \in States(E \cup {value}, A) /\ u.calls = s.calls /\ u.status = s.status
    BY <1>1, <2>1 DEF States
  <2>3. PICK S : s.calls \in Seq(S)
    BY DEF IsObservable
  <2>4. calls \in Seq(S \cup {call})
    <3>1. PICK c : c = s.calls
      OBVIOUS
    <3>2. c \in Seq(S \cup {call}) /\ call \in S \cup {call}
      BY <2>3, <3>1
    <3>3. Append(c, call) \in Seq(S \cup {call})
      BY <3>2, AppendFacts
    <3> QED BY <2>1, <2>2, <3>1, <3>3
  <2>5. PICK w : w = [u EXCEPT !.calls = calls, !.memory = answer]
    OBVIOUS
  <2>6. w = [[s EXCEPT !.env[inst.dest] = value] EXCEPT !.calls = Append(@, call), !.memory = answer]
    BY <2>1, <2>5
  <2>7. w.calls = calls /\ w.status = s.status
    BY <2>2, <2>5 DEF States
  <2>8. IsObservable(w)
    BY <2>4, <2>7 DEF IsObservable
  <2> QED BY <2>6, <2>8
<1> HIDE DEF IsObservable
<1> QED BY <1>2, <1>3, <1>4, <1>5 DEF Executed

LEMMA BlockKeepsState ==
    ASSUME NEW f, NEW input, NEW s, IsState(s), IsObservable(s), Len(f.blocks[s.block].insts) \in Nat
    PROVE  /\ IsState(BlockDone(f, input, s)) /\ IsObservable(BlockDone(f, input, s))
           /\ BlockDone(f, input, s).block = s.block /\ BlockDone(f, input, s).from = s.from
           /\ BlockDone(f, input, s).status \in {s.status, "undefined"}
<1>1. PICK N \in Nat : N = Len(f.blocks[s.block].insts)
  OBVIOUS
<1>2. PICK after :
         /\ after[0] = PhisDone(f, s)
         /\ \A i \in 1 .. N : after[i] = Executed(f.blocks[s.block].insts[i], input, after[i - 1])
         /\ BlockDone(f, input, s) = after[N]
  BY <1>1, BlockUnfolds
<1> DEFINE Right(i) == /\ IsState(after[i]) /\ IsObservable(after[i])
                       /\ after[i].block = s.block /\ after[i].from = s.from
                       /\ after[i].status \in {s.status, "undefined"}
           T == {i \in 0 .. N : Right(i)}
<1>3. Right(0)
  <2>1. /\ IsState(after[0])
        /\ after[0].block = s.block
        /\ after[0].from = s.from
        /\ after[0].status = s.status
    BY <1>2, PhisDoneFacts
  <2>2. after[0].calls = s.calls
    <3>1. PICK E, A : s \in States(E, A)
      BY DEF IsState
    <3>2. \E env : PhisDone(f, s) = [s EXCEPT !.env = env]
      BY Zenon DEF PhisDone
    <3>3. PICK env : PhisDone(f, s) = [s EXCEPT !.env = env]
      BY <3>2
    <3>4. [s EXCEPT !.env = env].calls = s.calls
      BY <3>1 DEF States
    <3> QED BY <1>2, <3>3, <3>4
  <2> QED BY <2>1, <2>2 DEF IsObservable
<1>4. ASSUME NEW i \in 0 .. N - 1, Right(i) PROVE Right(i + 1)
  <2>1. PICK u, w, inst : /\ u = after[i] /\ w = after[i + 1]
                          /\ inst = f.blocks[s.block].insts[i + 1]
    OBVIOUS
  <2>2. i + 1 \in 1 .. N /\ (i + 1) - 1 = i
    OBVIOUS
  <2>3. w = Executed(inst, input, u)
    BY <1>2, <2>1, <2>2
  <2>4. /\ IsState(u) /\ IsObservable(u) /\ u.block = s.block /\ u.from = s.from
        /\ u.status \in {s.status, "undefined"}
    BY <1>4, <2>1
  <2>5. /\ IsState(w) /\ IsObservable(w) /\ w.block = s.block /\ w.from = s.from
        /\ w.status \in {s.status, "undefined"}
    BY <2>3, <2>4, ExecutedFacts, ExecutedIsObservable
  <2> QED BY <2>1, <2>5
<1>5. \A i \in 0 .. N : i \in T
  <2> HIDE DEF Right
  <2>1. 0 \in T /\ \A k \in 0 .. N - 1 : k \in T => k + 1 \in T
    BY <1>3, <1>4
  <2> HIDE DEF T
  <2> QED BY <2>1, UpToBound
<1>6. Right(N)
  <2>1. N \in 0 .. N
    OBVIOUS
  <2> HIDE DEF Right
  <2> QED BY <1>5, <2>1
<1> QED BY <1>2, <1>6

LEMMA TransferredIsObservable ==
    ASSUME NEW term, NEW s, IsState(s), IsObservable(s)
    PROVE  IsState(Transferred(term, s)) /\ IsObservable(Transferred(term, s))
<1>1. PICK E, A : s \in States(E, A)
  BY DEF IsState
<1>2. ASSUME NEW b
      PROVE  IsState([s EXCEPT !.block = b, !.from = s.block])
             /\ IsObservable([s EXCEPT !.block = b, !.from = s.block])
  <2>1. PICK t : t = [s EXCEPT !.block = b, !.from = s.block]
    OBVIOUS
  <2>2. t \in States(E, A \cup {b}) /\ t.calls = s.calls
    BY <1>1, <2>1 DEF States
  <2> QED BY <2>1, <2>2 DEF IsState, IsObservable
<1>3. ASSUME NEW v
      PROVE  IsState([s EXCEPT !.status = "returned", !.result = v])
             /\ IsObservable([s EXCEPT !.status = "returned", !.result = v])
  <2>1. PICK t : t = [s EXCEPT !.status = "returned", !.result = v]
    OBVIOUS
  <2>2. t \in States(E, A \cup {"returned", v}) /\ t.calls = s.calls
    BY <1>1, <2>1 DEF States
  <2> QED BY <2>1, <2>2 DEF IsState, IsObservable
<1> HIDE DEF IsObservable, IsState
<1> QED BY <1>2, <1>3 DEF Transferred

LEMMA NextIsReached ==
    ASSUME NEW f, IsFunction(f), NEW input, NEW s, IsReached(f, s), s.status = "running"
    PROVE  IsReached(f, NextOf(f, input, s))
<1>1. PICK b, done, term, next :
         /\ b = s.block /\ done = BlockDone(f, input, s) /\ term = f.blocks[b].term
         /\ next = Transferred(term, done)
  OBVIOUS
<1>2. next = NextOf(f, input, s)
  BY <1>1 DEF NextOf
<1>3. b \in Reachable(f) /\ b \in BlockIds(f)
  BY <1>1, ReachableFacts DEF IsReached, ArrivedAt
<1>4. IsState(done) /\ IsObservable(done) /\ done.block = b
  BY <1>1, <1>3, InstTypes, BlockKeepsState DEF IsReached
<1>5. IsState(next) /\ IsObservable(next)
  BY <1>1, <1>4, TransferredIsObservable
<1>6. ASSUME next.status = "running" PROVE ArrivedAt(f, next)
  <2>1. /\ next.from = b
        /\ \/ term.kind = "jump" /\ next.block = term.to[1]
           \/ term.kind = "branch" /\ (next.block = term.to[1] \/ next.block = term.to[2])
    BY <1>1, <1>4, <1>6, TransferredFacts
  <2>2. HasItsTargets(term) /\ term.to \in Seq(BlockIds(f)) /\ term.to = Successors(f, b)
    BY <1>1, <1>3, PartTypes, ShapeOf DEF Successors
  <2>3. DOMAIN term.to = 1 .. Len(term.to)
    BY <2>2
  <2>4. next.block \in ToSet(term.to)
    <3>1. CASE term.kind = "jump"
      <4>1. 1 \in DOMAIN term.to /\ next.block = term.to[1]
        BY <2>1, <2>2, <2>3, <3>1 DEF HasItsTargets
      <4> QED BY <4>1 DEF ToSet
    <3>2. CASE term.kind = "branch"
      <4>1. 1 \in DOMAIN term.to /\ 2 \in DOMAIN term.to
        BY <2>2, <2>3, <3>2 DEF HasItsTargets
      <4>2. next.block = term.to[1] \/ next.block = term.to[2]
        BY <2>1, <3>2
      <4> QED BY <4>1, <4>2 DEF ToSet
    <3> QED BY <2>1, <3>1, <3>2
  <2>5. next.block \in Reachable(f)
    BY <1>3, <2>2, <2>4, ReachableFacts
  <2> QED BY <1>3, <2>1, <2>2, <2>4, <2>5 DEF ArrivedAt
<1> QED BY <1>2, <1>5, <1>6 DEF IsReached

(***************************************************************************)
(* Every state of a run is such a state.                                   *)
(***************************************************************************)
LEMMA RunIsReached ==
    ASSUME NEW f, IsFunction(f), NEW input, NEW steps \in Nat,
           NEW states, states = RunOf(f, input, steps)
    PROVE  /\ Len(states) \in Nat /\ Len(states) >= 1 /\ DOMAIN states = 1 .. Len(states)
           /\ Last(states) = states[Len(states)]
           /\ \A n \in 1 .. Len(states) : IsReached(f, states[n])
<1>1. IsRun(f, input, states)
  BY RunUnfolds
<1>2. PICK S : states \in Seq(S)
  BY <1>1 DEF IsRun
<1>3. PICK L \in Nat : L = Len(states) /\ L >= 1 /\ DOMAIN states = 1 .. L
  BY <1>1, <1>2 DEF IsRun
<1>4. /\ states[1] = Start(input)
      /\ \A k \in 1 .. L - 1 : states[k].status = "running" /\ states[k + 1] = NextOf(f, input, states[k])
  BY <1>1, <1>3 DEF IsRun
<1>5. Last(states) = states[L]
  BY <1>2, <1>3 DEF Last
<1> DEFINE Right(k) == IsReached(f, states[k + 1])
           T == {k \in 0 .. L - 1 : Right(k)}
<1>6. 0 \in T
  BY <1>3, <1>4, StartIsReached
<1>7. ASSUME NEW k \in 0 .. (L - 1) - 1, k \in T PROVE k + 1 \in T
  <2>1. PICK t, u : t = states[k + 1] /\ u = states[(k + 1) + 1]
    OBVIOUS
  <2>2. k + 1 \in 1 .. L - 1 /\ k + 1 \in 0 .. L - 1
    BY <1>3
  <2>3. t.status = "running" /\ u = NextOf(f, input, t)
    BY <1>4, <2>1, <2>2
  <2>4. IsReached(f, t)
    BY <1>7, <2>1
  <2>5. IsReached(f, u)
    BY <2>3, <2>4, NextIsReached
  <2> QED BY <2>1, <2>2, <2>5
<1>8. \A k \in 0 .. L - 1 : k \in T
  <2>1. L - 1 \in Nat
    BY <1>3
  <2> HIDE DEF T
  <2> QED BY <1>6, <1>7, <2>1, UpToBound
<1>9. ASSUME NEW n \in 1 .. L PROVE IsReached(f, states[n])
  <2>1. n - 1 \in 0 .. L - 1 /\ (n - 1) + 1 = n
    OBVIOUS
  <2>2. n - 1 \in T
    BY <1>8, <2>1
  <2> QED BY <2>1, <2>2
<1> QED BY <1>3, <1>5, <1>9

-----------------------------------------------------------------------------
(***************************************************************************)
(* A branch becomes a jump where every run left it along that edge: the    *)
(* other target was entered from nowhere else, so no run is ever in it,    *)
(* and all other blocks are what they were.                                *)
(***************************************************************************)
JumpedBlocks(f, b, t, o, g) ==
    /\ BlockIds(g) = BlockIds(f) /\ o # 1 /\ f.blocks[o].preds = <<b>> /\ o # t
    /\ ToSet(Successors(f, b)) = {t, o}
    /\ \A c \in BlockIds(f) :
          /\ g.blocks[c].insts = f.blocks[c].insts
          /\ c # b => g.blocks[c].term = f.blocks[c].term
          /\ c # o => /\ g.blocks[c].preds = f.blocks[c].preds
                      /\ g.blocks[c].phis = f.blocks[c].phis
    /\ g.blocks[b].term = Jump(t)

LEMMA JumpedIs ==
    ASSUME NEW f, Consistent(f), NEW b \in BlockIds(f), f.blocks[b].term.kind = "branch",
           NEW t \in ToSet(Successors(f, b)),
           NEW g, g = SetTerminator(f, b, Jump(t))
    PROVE  \E o \in BlockIds(f) : JumpedBlocks(f, b, t, o, g)
<1>1. IsFunction(f)
  BY DEF Consistent
<1>2. PICK x \in BlockIds(f), y \in BlockIds(f) :
           /\ x # y /\ Successors(f, b) = <<x, y>>
           /\ f.blocks[x].preds = <<b>> /\ f.blocks[y].preds = <<b>>
           /\ x # 1 /\ y # 1
  BY BranchTargets
<1>3. t = x \/ t = y
  BY <1>2 DEF ToSet
<1>4. PICK o \in BlockIds(f) : (t = x /\ o = y) \/ (t = y /\ o = x)
  BY <1>2, <1>3
<1>5. g = Jumped(f, b, t, o)
  BY <1>2, <1>4, BranchToJump DEF Jumped
<1>6. PICK blocks : blocks = JumpBlocks(f, b, t, o)
  OBVIOUS
<1>7. g = [f EXCEPT !.blocks = blocks]
  <2>1. f.blocks[o].preds = <<b>>
    BY <1>2, <1>4
  <2>2. Jumped(f, b, t, o) = [f EXCEPT !.blocks = JumpBlocks(f, b, t, o)]
    BY <1>1, <2>1, JumpingBlocks
  <2> QED BY <1>5, <1>6, <2>2
<1>8. g.blocks = blocks /\ DOMAIN blocks = BlockIds(f)
  <2>1. PICK P, Q : f \in [blocks : P, site : Q]
    BY <1>1 DEF IsFunction
  <2>2. g.blocks = blocks
    BY <1>7, <2>1
  <2> QED BY <1>6, <2>2 DEF JumpBlocks
<1>9. \A c \in BlockIds(f) :
         /\ g.blocks[c].insts = f.blocks[c].insts
         /\ c # b => g.blocks[c].term = f.blocks[c].term
         /\ c = b => g.blocks[c].term = Jump(t)
         /\ c # o => g.blocks[c].preds = f.blocks[c].preds /\ g.blocks[c].phis = f.blocks[c].phis
  BY <1>6, <1>8 DEF Jumping, JumpBlocks
<1>10. ToSet(Successors(f, b)) = {t, o}
  <2>1. ToSet(<<x, y>>) = {x, y}
    BY DEF ToSet
  <2> QED BY <1>2, <1>4, <2>1
<1>11. o # 1 /\ f.blocks[o].preds = <<b>> /\ o # t /\ BlockIds(g) = BlockIds(f)
  BY <1>2, <1>4, <1>8 DEF BlockIds
<1> QED BY <1>9, <1>10, <1>11 DEF JumpedBlocks

LEMMA JumpKeepsRuns ==
    ASSUME NEW f, Consistent(f), NEW b \in BlockIds(f), f.blocks[b].term.kind = "branch",
           NEW t \in ToSet(Successors(f, b)),
           NEW g, g = SetTerminator(f, b, Jump(t)),
           NEW input, NEW steps \in Nat, NEW states, states = RunOf(f, input, steps),
           \A n \in 1 .. Len(states) :
              states[n].status = "running" /\ states[n].from = b => states[n].block = t
    PROVE  RunOf(g, input, steps) = RunOf(f, input, steps)
<1>1. IsFunction(f) /\ EdgesAgree(f)
  BY DEF Consistent
<1>2. PICK o \in BlockIds(f) : JumpedBlocks(f, b, t, o, g)
  BY JumpedIs
<1>3. PICK N \in Nat : N = Len(states) /\ \A n \in 1 .. N : IsReached(f, states[n])
  BY <1>1, RunIsReached
<1>4. \A n \in 1 .. N - 1 : states[n + 1] = NextOf(f, input, states[n])
  BY <1>3, RunUnfolds DEF IsRun
<1>5. ASSUME NEW n \in 1 .. N - 1, states[n].status = "running"
      PROVE  NextOf(g, input, states[n]) = NextOf(f, input, states[n])
  <2>1. PICK s, c, w : s = states[n] /\ c = s.block /\ w = states[n + 1]
    OBVIOUS
  <2>2. n \in 1 .. N /\ n + 1 \in 1 .. N
    BY <1>3
  <2>3. /\ IsState(s) /\ IsObservable(s) /\ ArrivedAt(f, s)
        /\ s.status = "running" /\ (s.from = b => s.block = t)
        /\ (w.status = "running" /\ w.from = b => w.block = t)
    BY <1>3, <1>5, <2>1, <2>2 DEF IsReached
  <2>4. c \in BlockIds(f)
    BY <1>1, <2>1, <2>3, ReachableFacts DEF ArrivedAt
  <2>5. c # o
    <3>1. SUFFICES ASSUME c = o PROVE FALSE
      OBVIOUS
    <3>2. s.from \in Reachable(f) /\ o \in ToSet(Successors(f, s.from))
      BY <1>2, <2>1, <2>3, <3>1 DEF ArrivedAt, JumpedBlocks
    <3>3. PICK k \in DOMAIN f.blocks[o].preds : f.blocks[o].preds[k] = s.from
      BY <1>1, <3>2, EdgeIsRecorded, ReachableFacts
    <3>4. s.from = b
      <4>1. f.blocks[o].preds = <<b>>
        BY <1>2 DEF JumpedBlocks
      <4> QED BY <3>3, <4>1
    <3> QED BY <1>2, <2>1, <2>3, <3>1, <3>4 DEF JumpedBlocks
  <2>6. /\ g.blocks[c].insts = f.blocks[c].insts /\ g.blocks[c].preds = f.blocks[c].preds
        /\ g.blocks[c].phis = f.blocks[c].phis
    BY <1>2, <2>4, <2>5 DEF JumpedBlocks
  <2>7. PhisDone(g, s) = PhisDone(f, s)
    BY <2>1, <2>6 DEF PhisDone
  <2>8. BlockDone(g, input, s) = BlockDone(f, input, s)
    BY <2>1, <2>6, <2>7 DEF BlockDone
  <2>9. PICK done : done = BlockDone(f, input, s)
    OBVIOUS
  <2>10. Transferred(g.blocks[c].term, done) = Transferred(f.blocks[c].term, done)
    <3>1. CASE c # b
      BY <1>2, <2>4, <3>1 DEF JumpedBlocks
    <3>2. CASE c = b
      <4>1. /\ IsState(done) /\ done.block = b /\ done.status \in {"running", "undefined"}
        <5>1. Len(f.blocks[s.block].insts) \in Nat
          BY <1>1, <2>1, <2>4, InstTypes
        <5>2. /\ IsState(BlockDone(f, input, s)) /\ BlockDone(f, input, s).block = s.block
              /\ BlockDone(f, input, s).status \in {s.status, "undefined"}
          BY <2>3, <5>1, BlockKeepsState
        <5> QED BY <2>1, <2>3, <2>9, <3>2, <5>2
      <4>2. PICK term, end : term = f.blocks[b].term /\ end = Jump(t)
        OBVIOUS
      <4>3. g.blocks[c].term = end
        BY <1>2, <3>2, <4>2 DEF JumpedBlocks
      <4>4. end.kind = "jump" /\ end.to[1] = t
        BY <4>2 DEF Jump
      <4>5. w = Transferred(term, done)
        BY <1>4, <2>1, <2>9, <3>2, <4>2 DEF NextOf
      <4>6. CASE done.status = "undefined"
        BY <3>2, <4>2, <4>3, <4>6 DEF Transferred
      <4>7. CASE done.status = "running"
        <5>1. PICK to : w = [done EXCEPT !.block = to, !.from = b]
          BY <4>1, <4>2, <4>5, <4>7 DEF Transferred
        <5>2. w.status = "running" /\ w.from = b /\ w.block = to
          <6>1. PICK E, A : done \in States(E, A)
            BY <4>1 DEF IsState
          <6> QED BY <4>7, <5>1, <6>1 DEF States
        <5>3. to = t
          BY <2>3, <5>2
        <5>4. Transferred(end, done) = [done EXCEPT !.block = t, !.from = b]
          BY <4>1, <4>4, <4>7 DEF Transferred
        <5> QED BY <3>2, <4>2, <4>3, <4>5, <5>1, <5>3, <5>4
      <4> QED BY <4>1, <4>6, <4>7
    <3> QED BY <3>1, <3>2
  <2>11. NextOf(g, input, s) = NextOf(f, input, s)
    BY <2>1, <2>8, <2>9, <2>10 DEF NextOf
  <2> QED BY <2>1, <2>11
<1>6. \A n \in 1 .. Len(states) - 1 :
         states[n].status = "running" => NextOf(g, input, states[n]) = NextOf(f, input, states[n])
  BY <1>3, <1>5
<1> QED BY <1>6, RunsAreTheSame

-----------------------------------------------------------------------------
(***************************************************************************)
(* retain_reachable gives the blocks new numbers, and a run goes through   *)
(* them as it went through the old ones.                                   *)
(***************************************************************************)
Moved(K, s) == [s EXCEPT !.block = Renumbered(K, @), !.from = Renumbered(K, @)]

IsMovedTo(f, g, K) ==
    /\ Consistent(f) /\ Consistent(g) /\ K = Reachable(f)
    /\ Renumbered(K, 0) = 0 /\ Renumbered(K, 1) = 1
    /\ \A b, c \in K : Renumbered(K, b) = Renumbered(K, c) => b = c
    /\ \A b \in K :
          /\ Renumbered(K, b) \in BlockIds(g)
          /\ IsKept(K, g.blocks[Renumbered(K, b)], f.blocks[b])
          /\ \A k \in DOMAIN f.blocks[b].term.to :
                g.blocks[Renumbered(K, b)].term.to[k] = Renumbered(K, f.blocks[b].term.to[k])

LEMMA RebuiltLeaves ==
    ASSUME NEW K, NEW ids, NEW was \in BlocksAmong(ids), NEW k \in DOMAIN was.term.to
    PROVE  Rebuilt(K, was).term.to[k] = Renumbered(K, was.term.to[k])
<1>1. PICK term : term = was.term
  OBVIOUS
<1>2. term \in [kind : {"jump", "branch", "return"}, to : Seq(ids), args : Seq(Operands)]
  BY <1>1 DEF BlocksAmong
<1>3. PICK moved : moved = [j \in DOMAIN term.to |-> Renumbered(K, term.to[j])]
  OBVIOUS
<1>4. Rebuilt(K, was).term = [term EXCEPT !.to = moved]
  BY <1>1, <1>3 DEF Rebuilt, Block
<1>5. [term EXCEPT !.to = moved].to = moved
  BY <1>2
<1> QED BY <1>1, <1>3, <1>4, <1>5

LEMMA RetainedIsMoved ==
    ASSUME NEW f, Consistent(f), Reachable(f) # BlockIds(f), NEW g, g = RetainReachable(f)
    PROVE  IsMovedTo(f, g, Reachable(f))
<1>1. IsFunction(f) /\ EdgesAgree(f) /\ f.blocks[1].preds = <<>>
  BY DEF Consistent
<1>2. PICK K, order, M : IsRetained(f, g, K, order, M)
  BY <1>1, RetainedIs
<1>3. Consistent(g)
  BY RetainingIsWellFormed DEF Consistent, WellFormed, AllReachable
<1>4. /\ K = Reachable(f) /\ K \in SUBSET Nat /\ IsFiniteSet(K) /\ K \subseteq BlockIds(f)
      /\ BlockIds(g) = 1 .. M
      /\ \A b \in K : Renumbered(K, b) \in 1 .. M /\ order[Renumbered(K, b)] = b
  BY <1>2 DEF IsRetained
<1>5. \A n \in 1 .. M : g.blocks[n] = Rebuilt(K, f.blocks[order[n]])
                         /\ IsKept(K, g.blocks[n], f.blocks[order[n]])
  BY <1>2 DEF IsRetained
<1>6. 1 \in K
  BY <1>1, <1>4, ReachableFacts
<1>7. Renumbered(K, 0) = 0 /\ Renumbered(K, 1) = 1
  <2>1. PICK n \in Nat : BlockIds(f) = 1 .. n
    BY <1>1, BlockTypes
  <2>2. {c \in K : c <= 0} = {} /\ {c \in K : c <= 1} = {1}
    BY <1>4, <1>6, <2>1
  <2>3. Cardinality({}) = 0 /\ Cardinality({1}) = 1
    BY FS_EmptySet, FS_Singleton
  <2> QED BY <2>2, <2>3 DEF Renumbered
<1>8. \A b, c \in K : Renumbered(K, b) = Renumbered(K, c) => b = c
  BY <1>4
<1>9. ASSUME NEW b \in K
      PROVE  /\ Renumbered(K, b) \in BlockIds(g)
             /\ IsKept(K, g.blocks[Renumbered(K, b)], f.blocks[b])
             /\ \A k \in DOMAIN f.blocks[b].term.to :
                   g.blocks[Renumbered(K, b)].term.to[k] = Renumbered(K, f.blocks[b].term.to[k])
  <2>1. PICK n : n = Renumbered(K, b)
    OBVIOUS
  <2>2. n \in 1 .. M /\ order[n] = b
    BY <1>4, <2>1
  <2>3. g.blocks[n] = Rebuilt(K, f.blocks[b]) /\ IsKept(K, g.blocks[n], f.blocks[b])
    BY <1>5, <2>2
  <2>4. f.blocks[b] \in BlocksAmong(BlockIds(f))
    BY <1>1, <1>4, ShapeOf
  <2>5. \A k \in DOMAIN f.blocks[b].term.to :
           g.blocks[n].term.to[k] = Renumbered(K, f.blocks[b].term.to[k])
    BY <2>3, <2>4, RebuiltLeaves
  <2> QED BY <1>4, <2>1, <2>2, <2>3, <2>5
<1> QED BY <1>3, <1>4, <1>7, <1>8, <1>9 DEF IsMovedTo
-----------------------------------------------------------------------------
\* A state moved.
LEMMA MovedIs ==
    ASSUME NEW K, NEW s, IsState(s)
    PROVE  /\ Moved(K, s).block = Renumbered(K, s.block)
           /\ Moved(K, s).from = Renumbered(K, s.from)
           /\ Moved(K, s).env = s.env /\ Moved(K, s).memory = s.memory
           /\ Moved(K, s).calls = s.calls /\ Moved(K, s).status = s.status
           /\ Moved(K, s).result = s.result
<1>1. PICK E, A : s \in States(E, A)
  BY DEF IsState
<1> QED BY <1>1 DEF States, Moved

\* What a call leaves.
Answered(s, v, answer, call) ==
    [[s EXCEPT !.env[v] = answer] EXCEPT !.calls = Append(@, call), !.memory = answer]

\* A state moved can be changed as it was, and be moved afterwards.
MovesWith(K, s, t) ==
    /\ \A env : [t EXCEPT !.env = env] = Moved(K, [s EXCEPT !.env = env])
    /\ \A v, x : [t EXCEPT !.env[v] = x] = Moved(K, [s EXCEPT !.env[v] = x])
    /\ \A x : [t EXCEPT !.status = x] = Moved(K, [s EXCEPT !.status = x])
    /\ \A x : [t EXCEPT !.memory = x] = Moved(K, [s EXCEPT !.memory = x])
    /\ \A v, x, c : Answered(t, v, x, c) = Moved(K, Answered(s, v, x, c))
    /\ \A x : [t EXCEPT !.status = "returned", !.result = x]
                 = Moved(K, [s EXCEPT !.status = "returned", !.result = x])
    /\ \A b, c : c = Renumbered(K, b) =>
          [t EXCEPT !.block = c, !.from = t.block]
             = Moved(K, [s EXCEPT !.block = b, !.from = s.block])

LEMMA MovedStays ==
    ASSUME NEW K, NEW s, IsState(s)
    PROVE  MovesWith(K, s, Moved(K, s))
<1>1. PICK E, A : s \in States(E, A)
  BY DEF IsState
<1>2. PICK n, m : n = Renumbered(K, s.block) /\ m = Renumbered(K, s.from)
  OBVIOUS
<1>3. PICK t : t = [s EXCEPT !.block = n, !.from = m]
  OBVIOUS
<1>4. Moved(K, s) = t
  BY <1>2, <1>3 DEF Moved
<1>5. ASSUME NEW u, u.block = s.block, u.from = s.from
      PROVE  Moved(K, u) = [u EXCEPT !.block = n, !.from = m]
  BY <1>2, <1>5 DEF Moved
<1>6. ASSUME NEW env PROVE [t EXCEPT !.env = env] = Moved(K, [s EXCEPT !.env = env])
  <2>1. PICK u : u = [s EXCEPT !.env = env]
    OBVIOUS
  <2>2. /\ u.block = s.block /\ u.from = s.from
        /\ [t EXCEPT !.env = env] = [u EXCEPT !.block = n, !.from = m]
    BY <1>1, <1>3, <2>1 DEF States
  <2> QED BY <1>5, <2>1, <2>2
<1>7. ASSUME NEW v, NEW x PROVE [t EXCEPT !.env[v] = x] = Moved(K, [s EXCEPT !.env[v] = x])
  <2>1. PICK u : u = [s EXCEPT !.env[v] = x]
    OBVIOUS
  <2>2. /\ u.block = s.block /\ u.from = s.from
        /\ [t EXCEPT !.env[v] = x] = [u EXCEPT !.block = n, !.from = m]
    BY <1>1, <1>3, <2>1 DEF States
  <2> QED BY <1>5, <2>1, <2>2
<1>8. ASSUME NEW x PROVE [t EXCEPT !.status = x] = Moved(K, [s EXCEPT !.status = x])
  <2>1. PICK u : u = [s EXCEPT !.status = x]
    OBVIOUS
  <2>2. /\ u.block = s.block /\ u.from = s.from
        /\ [t EXCEPT !.status = x] = [u EXCEPT !.block = n, !.from = m]
    BY <1>1, <1>3, <2>1 DEF States
  <2> QED BY <1>5, <2>1, <2>2
<1>9. ASSUME NEW x PROVE [t EXCEPT !.memory = x] = Moved(K, [s EXCEPT !.memory = x])
  <2>1. PICK u : u = [s EXCEPT !.memory = x]
    OBVIOUS
  <2>2. /\ u.block = s.block /\ u.from = s.from
        /\ [t EXCEPT !.memory = x] = [u EXCEPT !.block = n, !.from = m]
    BY <1>1, <1>3, <2>1 DEF States
  <2> QED BY <1>5, <2>1, <2>2
<1>10. ASSUME NEW v, NEW x, NEW c
       PROVE  Answered(t, v, x, c) = Moved(K, Answered(s, v, x, c))
  <2>1. PICK calls, u, w : /\ calls = Append(s.calls, c)
                           /\ u = [s EXCEPT !.env[v] = x] /\ w = [t EXCEPT !.env[v] = x]
    OBVIOUS
  <2>2. /\ w = [u EXCEPT !.block = n, !.from = m] /\ u.calls = s.calls /\ w.calls = s.calls
        /\ u.block = s.block /\ u.from = s.from
    BY <1>1, <1>3, <2>1 DEF States
  <2>3. u \in States(E \cup {x}, A)
    BY <1>1, <2>1 DEF States
  <2>4. /\ Answered(s, v, x, c) = [u EXCEPT !.calls = calls, !.memory = x]
        /\ Answered(t, v, x, c) = [w EXCEPT !.calls = calls, !.memory = x]
    BY <2>1, <2>2 DEF Answered
  <2>5. PICK z : z = [u EXCEPT !.calls = calls, !.memory = x]
    OBVIOUS
  <2>6. z.block = s.block /\ z.from = s.from
        /\ [w EXCEPT !.calls = calls, !.memory = x] = [z EXCEPT !.block = n, !.from = m]
    BY <2>2, <2>3, <2>5 DEF States
  <2> QED BY <1>5, <2>4, <2>5, <2>6
<1>11. ASSUME NEW x
       PROVE  [t EXCEPT !.status = "returned", !.result = x]
                 = Moved(K, [s EXCEPT !.status = "returned", !.result = x])
  <2>1. PICK u : u = [s EXCEPT !.status = "returned", !.result = x]
    OBVIOUS
  <2>2. /\ u.block = s.block /\ u.from = s.from
        /\ [t EXCEPT !.status = "returned", !.result = x] = [u EXCEPT !.block = n, !.from = m]
    BY <1>1, <1>3, <2>1 DEF States
  <2> QED BY <1>5, <2>1, <2>2
<1>12. ASSUME NEW b, NEW c, c = Renumbered(K, b)
       PROVE  [t EXCEPT !.block = c, !.from = t.block]
                 = Moved(K, [s EXCEPT !.block = b, !.from = s.block])
  <2>1. PICK u : u = [s EXCEPT !.block = b, !.from = s.block]
    OBVIOUS
  <2>2. u.block = b /\ u.from = s.block /\ t.block = n
    BY <1>1, <1>3, <2>1 DEF States
  <2>3. Moved(K, u) = [u EXCEPT !.block = c, !.from = n]
    BY <1>2, <1>12, <2>2 DEF Moved
  <2>4. [t EXCEPT !.block = c, !.from = n] = [u EXCEPT !.block = c, !.from = n]
    BY <1>1, <1>3, <2>1 DEF States
  <2> QED BY <2>1, <2>2, <2>3, <2>4
<1>13. MovesWith(K, s, t)
  BY <1>6, <1>7, <1>8, <1>9, <1>10, <1>11, <1>12 DEF MovesWith
<1> QED BY <1>4, <1>13

LEMMA MovedExecuted ==
    ASSUME NEW K, NEW inst, inst.op \in PureOps \cup EffectOps, NEW input, NEW s, IsState(s)
    PROVE  Executed(inst, input, Moved(K, s)) = Moved(K, Executed(inst, input, s))
<1>1. PICK t : t = Moved(K, s)
  OBVIOUS
<1>2. t.env = s.env /\ t.memory = s.memory /\ t.calls = s.calls /\ t.status = s.status
  BY <1>1, MovedIs
<1>3. MovesWith(K, s, t)
  BY <1>1, MovedStays, Zenon
<1>4. /\ \A v, x : [t EXCEPT !.env[v] = x] = Moved(K, [s EXCEPT !.env[v] = x])
      /\ \A x : [t EXCEPT !.status = x] = Moved(K, [s EXCEPT !.status = x])
      /\ \A x : [t EXCEPT !.memory = x] = Moved(K, [s EXCEPT !.memory = x])
      /\ \A v, x, c : Answered(t, v, x, c) = Moved(K, Answered(s, v, x, c))
  BY <1>3 DEF MovesWith
<1>5. PICK x, y, answer : /\ x = ValueIn(s.env, inst.args[1]) /\ y = ValueIn(s.env, inst.args[2])
                          /\ answer = (input.answer + Len(s.calls)) % 2^Width
  OBVIOUS
<1>6. /\ x = ValueIn(t.env, inst.args[1]) /\ y = ValueIn(t.env, inst.args[2])
      /\ answer = (input.answer + Len(t.calls)) % 2^Width
  BY <1>2, <1>5
<1>7. Executed(inst, input, t) = Moved(K, Executed(inst, input, s))
  <2>1. CASE s.status = "undefined"
    BY <1>1, <1>2, <2>1 DEF Executed
  <2>2. CASE s.status # "undefined" /\ inst.op = "div" /\ y = 0
    <3>1. /\ Executed(inst, input, s) = [s EXCEPT !.status = "undefined"]
          /\ Executed(inst, input, t) = [t EXCEPT !.status = "undefined"]
      BY <1>2, <1>5, <1>6, <2>2 DEF Executed
    <3> QED BY <1>4, <3>1
  <2>3. CASE s.status # "undefined" /\ ~(inst.op = "div" /\ y = 0) /\ inst.op \in BinaryOps
    <3>1. PICK value : value = Fold(inst.op, x, y)
      OBVIOUS
    <3>2. /\ Executed(inst, input, s) = [s EXCEPT !.env[inst.dest] = value]
          /\ Executed(inst, input, t) = [t EXCEPT !.env[inst.dest] = value]
      BY <1>2, <1>5, <1>6, <2>3, <3>1 DEF Executed, BinaryOps
    <3>3. [t EXCEPT !.env[inst.dest] = value] = Moved(K, [s EXCEPT !.env[inst.dest] = value])
      BY <1>4, Zenon
    <3> QED BY <3>2, <3>3
  <2>4. CASE s.status # "undefined" /\ inst.op \in {"copy", "undef", "addr", "param", "load"}
    <3>1. inst.op # "div" /\ inst.op \notin BinaryOps
      BY <2>4 DEF BinaryOps
    <3>2. PICK value :
             /\ Executed(inst, input, s) = [s EXCEPT !.env[inst.dest] = value]
             /\ Executed(inst, input, t) = [t EXCEPT !.env[inst.dest] = value]
      <4>1. CASE inst.op = "copy"
        BY <1>2, <2>4, <3>1, <4>1 DEF Executed
      <4>2. CASE inst.op = "undef"
        BY <1>2, <2>4, <3>1, <4>2 DEF Executed
      <4>3. CASE inst.op = "addr"
        BY <1>2, <2>4, <3>1, <4>3 DEF Executed
      <4>4. CASE inst.op = "param"
        BY <1>2, <2>4, <3>1, <4>4 DEF Executed
      <4>5. CASE inst.op = "load"
        <5>1. PICK value : value = s.memory /\ value = t.memory
          BY <1>2
        <5>2. /\ Executed(inst, input, s) = [s EXCEPT !.env[inst.dest] = value]
              /\ Executed(inst, input, t) = [t EXCEPT !.env[inst.dest] = value]
          BY <1>2, <2>4, <3>1, <4>5, <5>1 DEF Executed
        <5> QED BY <5>2
      <4> QED BY <2>4, <4>1, <4>2, <4>3, <4>4, <4>5
    <3>3. [t EXCEPT !.env[inst.dest] = value] = Moved(K, [s EXCEPT !.env[inst.dest] = value])
      BY <1>4, Zenon
    <3> QED BY <3>2, <3>3
  <2>5. CASE s.status # "undefined" /\ inst.op = "store"
    <3>1. inst.op # "div" /\ inst.op \notin BinaryOps
      BY <2>5 DEF BinaryOps
    <3>2. /\ Executed(inst, input, s) = [s EXCEPT !.memory = x]
          /\ Executed(inst, input, t) = [t EXCEPT !.memory = x]
      BY <1>2, <1>5, <1>6, <2>5, <3>1 DEF Executed
    <3> QED BY <1>4, <3>2, Zenon
  <2>6. CASE s.status # "undefined" /\ inst.op = "call"
    <3>1. inst.op # "div" /\ inst.op \notin BinaryOps
      BY <2>6 DEF BinaryOps
    <3>2. /\ Executed(inst, input, s) = Answered(s, inst.dest, answer, x)
          /\ Executed(inst, input, t) = Answered(t, inst.dest, answer, x)
      BY <1>2, <1>5, <1>6, <2>6, <3>1 DEF Executed, Answered
    <3> QED BY <1>4, <3>2
  <2> QED BY <2>1, <2>2, <2>3, <2>4, <2>5, <2>6 DEF PureOps, EffectOps
<1> QED BY <1>1, <1>7

LEMMA MovedTransferred ==
    ASSUME NEW K, NEW term, NEW other, HasItsTargets(term),
           NEW ids, term.to \in Seq(ids),
           other.kind = term.kind, other.args = term.args,
           \A k \in DOMAIN term.to : other.to[k] = Renumbered(K, term.to[k]),
           NEW s, IsState(s)
    PROVE  Transferred(other, Moved(K, s)) = Moved(K, Transferred(term, s))
<1>1. PICK t : t = Moved(K, s)
  OBVIOUS
<1>2. t.env = s.env /\ t.status = s.status
  BY <1>1, MovedIs
<1>3. MovesWith(K, s, t)
  BY <1>1, MovedStays, ZenonT(60)
<1>4. /\ \A x : [t EXCEPT !.status = "returned", !.result = x]
                   = Moved(K, [s EXCEPT !.status = "returned", !.result = x])
      /\ \A b, c : c = Renumbered(K, b) =>
            [t EXCEPT !.block = c, !.from = t.block]
               = Moved(K, [s EXCEPT !.block = b, !.from = s.block])
  BY <1>3 DEF MovesWith
<1>5. /\ term.kind = "jump" => other.to[1] = Renumbered(K, term.to[1])
      /\ term.kind = "branch" =>
            other.to[1] = Renumbered(K, term.to[1]) /\ other.to[2] = Renumbered(K, term.to[2])
  <2>1. DOMAIN term.to = 1 .. Len(term.to)
    OBVIOUS
  <2> QED BY <2>1 DEF HasItsTargets
<1>6. Transferred(other, t) = Moved(K, Transferred(term, s))
  <2>1. CASE s.status = "undefined"
    BY <1>1, <1>2, <2>1, Zenon DEF Transferred
  <2>2. CASE s.status # "undefined" /\ term.kind \in {"jump", "branch"}
    <3>1. \E b, c : /\ c = Renumbered(K, b)
                    /\ Transferred(term, s) = [s EXCEPT !.block = b, !.from = s.block]
                    /\ Transferred(other, t) = [t EXCEPT !.block = c, !.from = t.block]
      <4>1. CASE term.kind = "jump"
        BY <1>2, <1>5, <2>2, <4>1 DEF Transferred
      <4>2. CASE term.kind = "branch"
        <5>1. PICK value : value = ValueIn(s.env, term.args[1]) /\ value = ValueIn(t.env, other.args[1])
          BY <1>2
        <5>2. CASE value # 0
          BY <1>2, <1>5, <2>2, <4>2, <5>1, <5>2 DEF Transferred
        <5>3. CASE value = 0
          BY <1>2, <1>5, <2>2, <4>2, <5>1, <5>3 DEF Transferred
        <5> QED BY <5>2, <5>3
      <4> QED BY <2>2, <4>1, <4>2
    <3> QED BY <1>4, <3>1
  <2>3. CASE s.status # "undefined" /\ term.kind \notin {"jump", "branch"}
    <3>1. PICK value : value = ValueIn(s.env, term.args[1]) /\ value = ValueIn(t.env, other.args[1])
      BY <1>2
    <3>2. /\ Transferred(term, s) = [s EXCEPT !.status = "returned", !.result = value]
          /\ Transferred(other, t) = [t EXCEPT !.status = "returned", !.result = value]
      BY <1>2, <2>3, <3>1 DEF Transferred
    <3> QED BY <1>4, <3>2
  <2> QED BY <2>1, <2>2, <2>3
<1> QED BY <1>1, <1>6

LEMMA MovedPhis ==
    ASSUME NEW f, NEW g, NEW K, IsMovedTo(f, g, K), NEW s, IsReached(f, s), s.status = "running"
    PROVE  SamePhis(f.blocks[s.block], s, g.blocks[Moved(K, s).block], Moved(K, s))
<1>1. PICK t, b, a : t = Moved(K, s) /\ b = s.block /\ a = s.from
  OBVIOUS
<1>2. /\ Consistent(f) /\ Consistent(g) /\ K = Reachable(f)
      /\ \A c, d \in K : Renumbered(K, c) = Renumbered(K, d) => c = d
  BY DEF IsMovedTo
<1>3. IsState(s) /\ ArrivedAt(f, s)
  BY DEF IsReached
<1>4. t.block = Renumbered(K, b) /\ t.from = Renumbered(K, a) /\ t.env = s.env
  BY <1>1, <1>3, MovedIs
<1>5. b \in K /\ K \subseteq BlockIds(f)
  BY <1>1, <1>2, <1>3, ReachableFacts DEF ArrivedAt, Consistent
<1>6. PICK is, was : is = g.blocks[t.block] /\ was = f.blocks[b]
  OBVIOUS
<1>7. t.block \in BlockIds(g) /\ IsKept(K, is, was)
  BY <1>4, <1>5, <1>6 DEF IsMovedTo
<1>8. DOMAIN is.phis = DOMAIN was.phis /\ \A p \in DOMAIN was.phis :
            is.phis[p].dest = was.phis[p].dest
  BY <1>7 DEF IsKept
<1>9. ASSUME DOMAIN was.phis # {}
      PROVE  \E j \in DOMAIN was.preds, k \in DOMAIN is.preds :
                /\ was.preds[j] = s.from
                /\ \A i \in DOMAIN was.preds : was.preds[i] = s.from => i = j
                /\ is.preds[k] = t.from
                /\ \A i \in DOMAIN is.preds : is.preds[i] = t.from => i = k
                /\ \A p \in DOMAIN was.phis :
                      ValueIn(s.env, is.phis[p].args[k]) = ValueIn(s.env, was.phis[p].args[j])
  <2>1. b # 1
    <3>1. DOMAIN <<>> = {}
      OBVIOUS
    <3>2. f.blocks[1].phis = <<>>
      BY <1>2 DEF Consistent, IsFunction
    <3> QED BY <1>6, <1>9, <3>1, <3>2
  <2>2. a \in K /\ b \in ToSet(Successors(f, a))
    BY <1>1, <1>2, <1>3, <2>1 DEF ArrivedAt
  <2>3. PICK j \in DOMAIN was.preds : was.preds[j] = a
    BY <1>2, <1>5, <1>6, <2>2, EdgeIsRecorded DEF Consistent
  <2>4. \A i \in DOMAIN was.preds : was.preds[i] = a => i = j
    BY <1>2, <1>5, <1>6, <2>3, EnteredOnce
  <2>5. PICK n : n = t.from
    OBVIOUS
  <2>6. n \in BlockIds(g) /\ IsKept(K, g.blocks[n], f.blocks[a]) /\ n = Renumbered(K, a)
    BY <1>4, <2>2, <2>5, Zenon DEF IsMovedTo
  <2>7. t.block \in ToSet(Successors(g, n))
    BY <1>4, <2>2, <2>6 DEF IsKept, Successors
  <2>8. PICK k \in DOMAIN is.preds : is.preds[k] = n
    BY <1>2, <1>6, <1>7, <2>6, <2>7, EdgeIsRecorded DEF Consistent
  <2>9. \A i \in DOMAIN is.preds : is.preds[i] = n => i = k
    BY <1>2, <1>6, <1>7, <2>8, EnteredOnce
  <2>10. ASSUME NEW p \in DOMAIN was.phis PROVE is.phis[p].args[k] = was.phis[p].args[j]
    <3>1. p \in DOMAIN is.phis /\ Len(is.phis[p].args) = Len(is.preds)
      BY <1>7, <1>8 DEF IsKept
    <3>2. k \in DOMAIN is.phis[p].args
      <4>1. PICK args, preds : args = is.phis[p].args /\ preds = is.preds
        OBVIOUS
      <4>2. args \in Seq(Operands) /\ preds \in Seq(BlockIds(g))
        BY <1>2, <1>6, <1>7, <3>1, <4>1, PhiTypes, PartTypes DEF Consistent
      <4> QED BY <2>8, <3>1, <4>1, <4>2
    <3>3. PICK i \in DOMAIN was.phis[p].args :
             /\ was.phis[p].args[i] = is.phis[p].args[k]
             /\ was.preds[i] \in K /\ is.preds[k] = Renumbered(K, was.preds[i])
      BY <1>7, <3>1, <3>2 DEF IsKept
    <3>4. was.preds[i] = a
      BY <1>2, <2>2, <2>6, <2>8, <3>3
    <3>5. i \in DOMAIN was.preds
      <4>1. PICK args, preds : args = was.phis[p].args /\ preds = was.preds
        OBVIOUS
      <4>2. args \in Seq(Operands) /\ preds \in Seq(BlockIds(f))
        BY <1>2, <1>5, <1>6, <4>1, PhiTypes, PartTypes DEF Consistent
      <4>3. Len(args) = Len(preds)
        BY <1>2, <1>5, <1>6, <4>1 DEF Consistent, EdgesAgree
      <4> QED BY <3>3, <4>1, <4>2, <4>3
    <3>6. i = j
      BY <2>4, <3>4, <3>5
    <3> QED BY <3>3, <3>6
  <2> QED BY <1>1, <2>3, <2>4, <2>5, <2>8, <2>9, <2>10
<1>10. SamePhis(was, s, is, t)
  BY <1>4, <1>8, <1>9 DEF SamePhis
<1> QED BY <1>1, <1>6, <1>10

LEMMA MovedPhisDone ==
    ASSUME NEW f, NEW g, NEW K, IsMovedTo(f, g, K), NEW s, IsReached(f, s), s.status = "running"
    PROVE  PhisDone(g, Moved(K, s)) = Moved(K, PhisDone(f, s))
<1>1. PICK t : t = Moved(K, s)
  OBVIOUS
<1>2. SamePhis(f.blocks[s.block], s, g.blocks[t.block], t)
  BY <1>1, MovedPhis
<1>3. PICK env : PhisDone(f, s) = WithEnv(s, env) /\ PhisDone(g, t) = WithEnv(t, env)
  BY <1>2, SamePhisDone, SMTT(30)
<1>4. MovesWith(K, s, t)
  BY <1>1, MovedStays DEF IsReached
<1>5. WithEnv(t, env) = Moved(K, WithEnv(s, env))
  BY <1>4 DEF MovesWith, WithEnv
<1> QED BY <1>1, <1>3, <1>5

LEMMA MovedBlockDone ==
    ASSUME NEW f, NEW g, NEW K, IsMovedTo(f, g, K), NEW input,
           NEW s, IsReached(f, s), s.status = "running"
    PROVE  BlockDone(g, input, Moved(K, s)) = Moved(K, BlockDone(f, input, s))
<1>1. PICK t, b : t = Moved(K, s) /\ b = s.block
  OBVIOUS
<1>2. IsState(s) /\ b \in K /\ K \subseteq BlockIds(f) /\ IsFunction(f)
  BY <1>1, ReachableFacts DEF IsReached, ArrivedAt, IsMovedTo, Consistent
<1>3. t.block = Renumbered(K, b)
  BY <1>1, <1>2, MovedIs
<1>4. g.blocks[t.block].insts = f.blocks[b].insts
  BY <1>2, <1>3 DEF IsMovedTo, IsKept
<1>5. PICK insts : insts = f.blocks[b].insts
  OBVIOUS
<1>6. PICK N \in Nat : N = Len(insts)
  BY <1>2, <1>5, InstTypes
<1>7. \A i \in 1 .. N : insts[i].op \in PureOps \cup EffectOps
  BY <1>2, <1>5, <1>6, InstTypes
<1>8. PICK after :
         /\ after[0] = PhisDone(f, s)
         /\ \A i \in 1 .. N : after[i] = Executed(insts[i], input, after[i - 1])
         /\ BlockDone(f, input, s) = after[N]
  BY <1>1, <1>5, <1>6, BlockUnfolds
<1>9. PICK later :
         /\ later[0] = PhisDone(g, t)
         /\ \A i \in 1 .. N : later[i] = Executed(insts[i], input, later[i - 1])
         /\ BlockDone(g, input, t) = later[N]
  <2>1. g.blocks[t.block].insts = insts
    BY <1>4, <1>5
  <2>2. Len(g.blocks[t.block].insts) \in Nat
    BY <1>6, <2>1
  <2>3. PICK later :
           /\ later[0] = PhisDone(g, t)
           /\ \A i \in 1 .. Len(g.blocks[t.block].insts) :
                 later[i] = Executed(g.blocks[t.block].insts[i], input, later[i - 1])
           /\ BlockDone(g, input, t) = later[Len(g.blocks[t.block].insts)]
    BY <2>2, BlockUnfolds
  <2> QED BY <1>6, <2>1, <2>3
<1> DEFINE Same(i) == IsState(after[i]) /\ later[i] = Moved(K, after[i])
           T == {i \in 0 .. N : Same(i)}
<1>10. 0 \in T
  <2>1. IsState(after[0])
    BY <1>2, <1>8, PhisDoneFacts
  <2>2. later[0] = Moved(K, after[0])
    BY <1>1, <1>8, <1>9, MovedPhisDone
  <2> QED BY <2>1, <2>2
<1>11. ASSUME NEW i \in 0 .. N - 1, i \in T PROVE i + 1 \in T
  <2>1. PICK u, w, x, y, inst : /\ u = after[i] /\ w = after[i + 1]
                                /\ x = later[i] /\ y = later[i + 1] /\ inst = insts[i + 1]
    OBVIOUS
  <2>2. i + 1 \in 1 .. N /\ (i + 1) - 1 = i /\ i + 1 \in 0 .. N
    OBVIOUS
  <2>3. w = Executed(inst, input, u) /\ y = Executed(inst, input, x)
    BY <1>8, <1>9, <2>1, <2>2
  <2>4. IsState(u) /\ x = Moved(K, u) /\ inst.op \in PureOps \cup EffectOps
    BY <1>7, <1>11, <2>1, <2>2
  <2>5. IsState(w) /\ y = Moved(K, w)
    BY <2>3, <2>4, ExecutedFacts, MovedExecuted
  <2> QED BY <2>1, <2>2, <2>5
<1>12. \A i \in 0 .. N : i \in T
  <2> HIDE DEF T
  <2> QED BY <1>10, <1>11, UpToBound
<1>13. later[N] = Moved(K, after[N])
  BY <1>12
<1> QED BY <1>1, <1>8, <1>9, <1>13

LEMMA MovedNext ==
    ASSUME NEW f, NEW g, NEW K, IsMovedTo(f, g, K), NEW input,
           NEW s, IsReached(f, s), s.status = "running"
    PROVE  NextOf(g, input, Moved(K, s)) = Moved(K, NextOf(f, input, s))
<1>1. PICK t, b, done : t = Moved(K, s) /\ b = s.block /\ done = BlockDone(f, input, s)
  OBVIOUS
<1>2. /\ IsState(s) /\ IsObservable(s) /\ b \in K /\ K \subseteq BlockIds(f) /\ IsFunction(f)
  BY <1>1, ReachableFacts DEF IsReached, ArrivedAt, IsMovedTo, Consistent
<1>3. t.block = Renumbered(K, b)
  BY <1>1, <1>2, MovedIs
<1>4. BlockDone(g, input, t) = Moved(K, done)
  BY <1>1, MovedBlockDone
<1>5. IsState(done)
  <2>1. Len(f.blocks[s.block].insts) \in Nat
    BY <1>1, <1>2, InstTypes
  <2> QED BY <1>1, <1>2, <2>1, BlockKeepsState
<1>6. PICK term, other : term = f.blocks[b].term /\ other = g.blocks[t.block].term
  OBVIOUS
<1>7. HasItsTargets(term) /\ term.to \in Seq(BlockIds(f))
  BY <1>2, <1>6, ShapeOf, PartTypes
<1>8. IsKept(K, g.blocks[t.block], f.blocks[b])
      /\ \A k \in DOMAIN term.to : other.to[k] = Renumbered(K, term.to[k])
  BY <1>2, <1>3, <1>6, ZenonT(60) DEF IsMovedTo
<1>9. other.kind = term.kind /\ other.args = term.args
  BY <1>6, <1>8, Zenon DEF IsKept
<1>10. Transferred(other, Moved(K, done)) = Moved(K, Transferred(term, done))
  BY <1>5, <1>7, <1>8, <1>9, MovedTransferred
<1> QED BY <1>1, <1>4, <1>6, <1>10 DEF NextOf

-----------------------------------------------------------------------------
(***************************************************************************)
(* Two functions that do the same for every input: their runs end the same *)
(* way, with the same result after the same calls.                         *)
(***************************************************************************)
Mirrors(g, f, steps) ==
    \A input \in Inputs :
       LET one   == Last(RunOf(f, input, steps))
           other == Last(RunOf(g, input, steps))
       IN  other.status = one.status /\ other.result = one.result /\ other.calls = one.calls

LEMMA RetainingMirrors ==
    ASSUME NEW f, Consistent(f), NEW steps \in Nat
    PROVE  Mirrors(RetainReachable(f), f, steps)
<1>1. CASE Reachable(f) = BlockIds(f)
  BY <1>1 DEF RetainReachable, Mirrors
<1>2. CASE Reachable(f) # BlockIds(f)
  <2>1. PICK g, K : g = RetainReachable(f) /\ K = Reachable(f)
    OBVIOUS
  <2>2. IsMovedTo(f, g, K) /\ IsFunction(f) /\ IsFunction(g)
    BY <1>2, <2>1, RetainedIsMoved DEF IsMovedTo, Consistent
  <2>3. ASSUME NEW input \in Inputs
        PROVE  LET one   == Last(RunOf(f, input, steps))
                   other == Last(RunOf(g, input, steps))
               IN  other.status = one.status /\ other.result = one.result /\ other.calls = one.calls
    <3>1. PICK ofF, ofG : ofF = RunOf(f, input, steps) /\ ofG = RunOf(g, input, steps)
      OBVIOUS
    <3>2. PICK N \in Nat : /\ N = Len(ofF) /\ N >= 1 /\ Last(ofF) = ofF[N]
                           /\ \A n \in 1 .. N : IsReached(f, ofF[n])
      BY <2>2, <3>1, RunIsReached
    <3>3. Last(ofG) = ofG[Len(ofG)]
      BY <2>2, <3>1, RunIsReached
    <3>4. PICK image : image = [n \in 1 .. N |-> Moved(K, ofF[n])]
      OBVIOUS
    <3>5. \A n \in 1 .. N : image[n] = Moved(K, ofF[n]) /\ image[n].status = ofF[n].status
      BY <3>2, <3>4, MovedIs DEF IsReached
    <3>6. /\ ofF[1] = Start(input)
          /\ \A n \in 1 .. N - 1 : ofF[n + 1] = NextOf(f, input, ofF[n])
      BY <3>1, <3>2, RunUnfolds, SMTT(30) DEF IsRun
    <3>7. image[1] = Start(input)
      <4>1. PICK u : u = Start(input)
        OBVIOUS
      <4>2. Renumbered(K, u.block) = u.block /\ Renumbered(K, u.from) = u.from /\ IsState(u)
        BY <2>2, <4>1, StartIsState DEF IsMovedTo
      <4>3. PICK E, A : u \in States(E, A)
        BY <4>2 DEF IsState
      <4>4. [u EXCEPT !.block = u.block, !.from = u.from] = u
        BY <4>3 DEF States
      <4>5. Moved(K, u) = u
        BY <4>2, <4>4 DEF Moved
      <4>6. 1 \in 1 .. N
        BY <3>2
      <4> QED BY <3>5, <3>6, <4>1, <4>5, <4>6
    <3>8. ASSUME NEW n \in 1 .. N - 1, ofF[n].status = "running"
          PROVE  image[n + 1] = NextOf(g, input, image[n])
      <4>1. n \in 1 .. N /\ n + 1 \in 1 .. N
        BY <3>2
      <4>2. PICK u : u = ofF[n]
        OBVIOUS
      <4>3. image[n] = Moved(K, u) /\ image[n + 1] = Moved(K, NextOf(f, input, u))
        BY <3>5, <3>6, <4>1, <4>2
      <4>4. NextOf(g, input, Moved(K, u)) = Moved(K, NextOf(f, input, u))
        BY <2>2, <3>2, <3>8, <4>1, <4>2, MovedNext
      <4> QED BY <4>3, <4>4
    <3>9. Len(ofG) = N /\ \A n \in 1 .. N : ofG[n] = image[n]
      <4>1. /\ \A n \in 1 .. Len(ofF) : image[n].status = ofF[n].status
            /\ \A n \in 1 .. Len(ofF) - 1 :
                  ofF[n].status = "running" => image[n + 1] = NextOf(g, input, image[n])
        BY <3>2, <3>5, <3>8
      <4>2. Len(ofG) = Len(ofF) /\ \A n \in 1 .. Len(ofF) : ofG[n] = image[n]
        BY <3>1, <3>7, <4>1, RunsInStep
      <4> QED BY <3>2, <4>2
    <3>10. N \in 1 .. N
      BY <3>2
    <3>11. Last(ofG) = Moved(K, Last(ofF)) /\ IsState(Last(ofF))
      BY <3>2, <3>3, <3>5, <3>9, <3>10 DEF IsReached
    <3> QED BY <3>1, <3>11, MovedIs
  <2> QED BY <2>1, <2>3 DEF Mirrors
<1> QED BY <1>1, <1>2

(***************************************************************************)
(* Such functions behave alike.                                            *)
(***************************************************************************)
LEMMA MirrorsBehave ==
    ASSUME NEW f, IsFunction(f), NEW g, NEW steps \in Nat, Mirrors(g, f, steps)
    PROVE  BehavesLike(g, f, steps)
<1>1. ASSUME NEW input \in Inputs
      PROVE  LET original == Last(RunOf(f, input, steps))
                 other    == Last(RunOf(g, input, steps))
             IN  CASE original.status = "undefined" -> TRUE
                   [] original.status = "returned"  ->
                         /\ other.status = "returned"
                         /\ other.result = original.result /\ other.calls = original.calls
                   [] original.status = "running"   ->
                         /\ other.status = "running"
                         /\ IsPrefix(original.calls, other.calls)
  <2>1. PICK one, other : one = Last(RunOf(f, input, steps)) /\ other = Last(RunOf(g, input, steps))
    OBVIOUS
  <2>2. other.status = one.status /\ other.result = one.result /\ other.calls = one.calls
    BY <2>1 DEF Mirrors
  <2>3. IsObservable(one)
    <3>1. PICK states : states = RunOf(f, input, steps)
      OBVIOUS
    <3>2. PICK N \in Nat : N >= 1 /\ Last(states) = states[N] /\ \A n \in 1 .. N :
                     IsReached(f, states[n])
      BY <3>1, RunIsReached
    <3>3. N \in 1 .. N
      BY <3>2
    <3> QED BY <2>1, <3>1, <3>2, <3>3 DEF IsReached
  <2>4. IsPrefix(one.calls, other.calls)
    <3>1. PICK S, c : c \in Seq(S) /\ c = one.calls /\ c = other.calls
      BY <2>2, <2>3 DEF IsObservable
    <3>2. IsPrefix(c, c)
      BY <3>1 DEF IsPrefix
    <3> QED BY <3>1, <3>2
  <2>5. one.status \in {"running", "returned", "undefined"}
    BY <2>3 DEF IsObservable
  <2> QED BY <2>1, <2>2, <2>4, <2>5
<1> QED BY <1>1 DEF BehavesLike

-----------------------------------------------------------------------------
(***************************************************************************)
(* What is read somewhere is an operand of something.                      *)
(***************************************************************************)
AllReadsOf == [value : Operands, block : Int, kind : {"phi", "inst", "terminator"}, position : Int]

LEMMA ReadsOfFacts ==
    ASSUME NEW args \in Seq(Operands), NEW b \in Int, NEW kind \in {"phi", "inst", "terminator"},
           NEW position \in Int
    PROVE  /\ ReadsOf(args, b, kind, position) \in Seq(AllReadsOf)
           /\ \A r \in ToSet(ReadsOf(args, b, kind, position)) : \E a \in DOMAIN args :
                    r.value = args[a]
<1>1. PICK reads : reads = ReadsOf(args, b, kind, position)
  OBVIOUS
<1>2. PICK n \in Nat : n = Len(args) /\ DOMAIN args = 1 .. n /\ \A a \in 1 .. n :
                 args[a] \in Operands
  OBVIOUS
<1>3. reads = [a \in 1 .. n |-> [value |-> args[a], block |-> b, kind |-> kind, position |-> position]]
  BY <1>1, <1>2 DEF ReadsOf
<1>4. \A a \in 1 .. n : reads[a] \in AllReadsOf /\ reads[a].value = args[a]
  BY <1>2, <1>3 DEF AllReadsOf
<1>5. reads \in Seq(AllReadsOf) /\ DOMAIN reads = 1 .. n
  BY <1>3, <1>4
<1>6. \A r \in ToSet(reads) : \E a \in 1 .. n : r = reads[a]
  BY <1>5 DEF ToSet
<1> QED BY <1>1, <1>2, <1>4, <1>5, <1>6

\* An operand of block b is among the given values.
ReadsHere(f, b, values) ==
    \/ \E p \in DOMAIN f.blocks[b].phis : \E k \in DOMAIN f.blocks[b].phis[p].args :
          f.blocks[b].phis[p].args[k] \in values
    \/ \E i \in DOMAIN f.blocks[b].insts : \E a \in DOMAIN f.blocks[b].insts[i].args :
          f.blocks[b].insts[i].args[a] \in values
    \/ \E a \in DOMAIN f.blocks[b].term.args : f.blocks[b].term.args[a] \in values

LEMMA ReadsOfBlock ==
    ASSUME NEW f, IsFunction(f), NEW b \in BlockIds(f), b \in Nat
    PROVE  /\ ReadsIn(f, b) \in Seq(AllReadsOf)
           /\ \A values : \A r \in ToSet(ReadsIn(f, b)) : r.value \in values =>
                    ReadsHere(f, b, values)
<1>1. PICK phis, insts, term : /\ phis = f.blocks[b].phis /\ insts = f.blocks[b].insts
                               /\ term = f.blocks[b].term
  OBVIOUS
<1>2. /\ Len(phis) \in Nat /\ DOMAIN phis = 1 .. Len(phis)
      /\ \A p \in DOMAIN phis : phis[p].args \in Seq(Operands)
  BY <1>1, PhiTypes
<1>3. /\ Len(insts) \in Nat /\ DOMAIN insts = 1 .. Len(insts)
      /\ \A i \in DOMAIN insts : insts[i].args \in Seq(Operands)
  BY <1>1, InstTypes
<1>4. term.args \in Seq(Operands)
  BY <1>1, PartTypes
<1>5. PICK x : x = [p \in DOMAIN phis |-> ReadsOf(phis[p].args, b, "phi", p)]
  OBVIOUS
<1>6. PICK y : y = [i \in DOMAIN insts |-> ReadsOf(insts[i].args, b, "inst", i)]
  OBVIOUS
<1>7. PICK z : z = ReadsOf(term.args, b, "terminator", Len(insts) + 1)
  OBVIOUS
<1>8. PICK X, Y : X = FlattenSeq(x) /\ Y = FlattenSeq(y)
  OBVIOUS
<1>9. ReadsIn(f, b) = X \o Y \o z
  BY <1>1, <1>5, <1>6, <1>7, <1>8, Zenon DEF ReadsIn
<1>10. x \in Seq(Seq(AllReadsOf)) /\ DOMAIN x = DOMAIN phis
  <2>1. \A p \in DOMAIN phis : ReadsOf(phis[p].args, b, "phi", p) \in Seq(AllReadsOf)
    <3>1. ASSUME NEW p \in DOMAIN phis PROVE ReadsOf(phis[p].args, b, "phi", p) \in Seq(AllReadsOf)
      <4>1. phis[p].args \in Seq(Operands) /\ p \in Int /\ b \in Int
        BY <1>2
      <4> QED BY <4>1, ReadsOfFacts
    <3> QED BY <3>1
  <2> QED BY <1>2, <1>5, <2>1
<1>11. y \in Seq(Seq(AllReadsOf)) /\ DOMAIN y = DOMAIN insts
  <2>1. \A i \in DOMAIN insts : ReadsOf(insts[i].args, b, "inst", i) \in Seq(AllReadsOf)
    <3>1. ASSUME NEW i \in DOMAIN insts
          PROVE  ReadsOf(insts[i].args, b, "inst", i) \in Seq(AllReadsOf)
      <4>1. insts[i].args \in Seq(Operands) /\ i \in Int /\ b \in Int
        BY <1>3
      <4> QED BY <4>1, ReadsOfFacts
    <3> QED BY <3>1
  <2> QED BY <1>3, <1>6, <2>1
<1>12. /\ z \in Seq(AllReadsOf)
       /\ \A r \in ToSet(z) : \E a \in DOMAIN term.args : r.value = term.args[a]
  <2>1. Len(insts) + 1 \in Int /\ b \in Int
    BY <1>3
  <2> QED BY <1>4, <1>7, <2>1, ReadsOfFacts
<1>13. MadeOf(AllReadsOf, x, X) /\ MadeOf(AllReadsOf, y, Y)
  BY <1>8, <1>10, <1>11, FlatteningIsOfTheParts
<1>14. X \in Seq(AllReadsOf) /\ Y \in Seq(AllReadsOf)
  BY <1>13 DEF MadeOf
<1>15. /\ X \o Y \in Seq(AllReadsOf)
       /\ \A r \in ToSet(X \o Y) : r \in ToSet(X) \/ r \in ToSet(Y)
  BY <1>14, AppendedParts
<1>16. PICK V : V = X \o Y
  OBVIOUS
<1>17. /\ V \o z \in Seq(AllReadsOf)
       /\ \A r \in ToSet(V \o z) : r \in ToSet(V) \/ r \in ToSet(z)
  BY <1>12, <1>15, <1>16, AppendedParts
<1>18. ReadsIn(f, b) = V \o z
  BY <1>9, <1>16
<1>19. ASSUME NEW values, NEW r \in ToSet(ReadsIn(f, b)), r.value \in values
       PROVE  ReadsHere(f, b, values)
  <2>1. r \in ToSet(X) \/ r \in ToSet(Y) \/ r \in ToSet(z)
    <3>1. r \in ToSet(V) \/ r \in ToSet(z)
      BY <1>17, <1>18, <1>19
    <3> QED BY <1>15, <1>16, <3>1
  <2>2. CASE r \in ToSet(X)
    <3>1. PICK p \in DOMAIN phis : r \in ToSet(x[p])
      BY <1>10, <1>13, <2>2 DEF MadeOf
    <3>2. PICK args : args = phis[p].args
      OBVIOUS
    <3>3. x[p] = ReadsOf(args, b, "phi", p) /\ args \in Seq(Operands) /\ p \in Int /\ b \in Int
      BY <1>2, <1>5, <3>2
    <3>4. PICK k \in DOMAIN args : r.value = args[k]
      <4>1. args \in Seq(Operands) /\ p \in Int /\ b \in Int
        BY <3>3
      <4>2. \A e \in ToSet(ReadsOf(args, b, "phi", p)) : \E k \in DOMAIN args : e.value = args[k]
        BY <4>1, ReadsOfFacts
      <4>3. r \in ToSet(ReadsOf(args, b, "phi", p))
        BY <3>1, <3>3
      <4> QED BY <4>2, <4>3
    <3>5. k \in DOMAIN phis[p].args /\ phis[p].args[k] \in values
      BY <1>19, <3>2, <3>4
    <3> QED BY <1>1, <3>5 DEF ReadsHere
  <2>3. CASE r \in ToSet(Y)
    <3>1. PICK i \in DOMAIN insts : r \in ToSet(y[i])
      BY <1>11, <1>13, <2>3 DEF MadeOf
    <3>2. PICK args : args = insts[i].args
      OBVIOUS
    <3>3. y[i] = ReadsOf(args, b, "inst", i) /\ args \in Seq(Operands) /\ i \in Int /\ b \in Int
      BY <1>3, <1>6, <3>2
    <3>4. PICK a \in DOMAIN args : r.value = args[a]
      <4>1. args \in Seq(Operands) /\ i \in Int /\ b \in Int
        BY <3>3
      <4>2. \A e \in ToSet(ReadsOf(args, b, "inst", i)) : \E a \in DOMAIN args : e.value = args[a]
        BY <4>1, ReadsOfFacts
      <4>3. r \in ToSet(ReadsOf(args, b, "inst", i))
        BY <3>1, <3>3
      <4> QED BY <4>2, <4>3
    <3>5. a \in DOMAIN insts[i].args /\ insts[i].args[a] \in values
      BY <1>19, <3>2, <3>4
    <3> QED BY <1>1, <3>5 DEF ReadsHere
  <2>4. CASE r \in ToSet(z)
    <3>1. PICK a \in DOMAIN term.args : r.value = term.args[a]
      BY <1>12, <2>4
    <3>2. term.args[a] \in values
      BY <1>19, <3>1
    <3> QED BY <1>1, <3>2 DEF ReadsHere
  <2> QED BY <2>1, <2>2, <2>3, <2>4
<1> QED BY <1>17, <1>18, <1>19

LEMMA ReadIsSomewhere ==
    ASSUME NEW f, IsFunction(f), NEW values, ReadsAny(f, values)
    PROVE  \E b \in BlockIds(f) : ReadsHere(f, b, values)
<1>1. BlockIds(f) = 1 .. Len(f.blocks) /\ Len(f.blocks) \in Nat
  BY BlockTypes
<1>2. PICK x : x = [b \in BlockIds(f) |-> ReadsIn(f, b)]
  OBVIOUS
<1>3. PICK X : X = FlattenSeq(x)
  OBVIOUS
<1>4. PICK r \in ToSet(X) : r.value \in values
  BY <1>2, <1>3, Zenon DEF ReadsAny, AllReads
<1>5. \A b \in BlockIds(f) : b \in Nat /\ ReadsIn(f, b) \in Seq(AllReadsOf)
  <2>1. ASSUME NEW b \in BlockIds(f) PROVE b \in Nat /\ ReadsIn(f, b) \in Seq(AllReadsOf)
    <3>1. b \in Nat
      BY <1>1
    <3> QED BY <3>1, ReadsOfBlock
  <2> QED BY <2>1
<1>6. x \in Seq(Seq(AllReadsOf)) /\ DOMAIN x = BlockIds(f)
  BY <1>1, <1>2, <1>5
<1>7. MadeOf(AllReadsOf, x, X)
  BY <1>3, <1>6, FlatteningIsOfTheParts
<1>8. PICK b \in BlockIds(f) : r \in ToSet(x[b])
  BY <1>4, <1>6, <1>7 DEF MadeOf
<1>9. x[b] = ReadsIn(f, b) /\ b \in Nat
  BY <1>2, <1>5
<1>10. ReadsHere(f, b, values)
  BY <1>4, <1>8, <1>9, ReadsOfBlock
<1> QED BY <1>10

-----------------------------------------------------------------------------
\* A recorded predecessor has an edge there.
LEMMA PredecessorLeadsThere ==
    ASSUME NEW f, Consistent(f), NEW b \in BlockIds(f), NEW j \in DOMAIN f.blocks[b].preds,
           NEW a, a = f.blocks[b].preds[j]
    PROVE  a \in BlockIds(f) /\ b \in ToSet(Successors(f, a))
<1>1. IsFunction(f) /\ EdgesAgree(f)
  BY DEF Consistent
<1>2. PICK preds : preds = f.blocks[b].preds
  OBVIOUS
<1>3. preds \in Seq(BlockIds(f))
  BY <1>1, <1>2, PartTypes
<1>4. a \in BlockIds(f)
  BY <1>2, <1>3, LengthFacts
<1>5. PICK to : to = Successors(f, a)
  OBVIOUS
<1>6. CountIn(preds, a) = CountIn(to, b)
  BY <1>1, <1>2, <1>4, <1>5 DEF EdgesAgree
<1>7. b \in ToSet(to)
  <2>1. SUFFICES ASSUME b \notin ToSet(to) PROVE FALSE
    OBVIOUS
  <2>2. {k \in DOMAIN to : to[k] = b} = {}
    BY <2>1 DEF ToSet
  <2>3. CountIn(to, b) = 0
    BY <2>2, FS_EmptySet DEF CountIn
  <2>4. PICK T : T = {k \in DOMAIN preds : preds[k] = a}
    OBVIOUS
  <2>5. IsFiniteSet(T)
    <3>1. PICK n \in Nat : n = Len(preds) /\ DOMAIN preds = 1 .. n
      BY <1>3, LengthFacts
    <3>2. IsFiniteSet(1 .. n)
      BY FS_Interval
    <3>3. T \subseteq 1 .. n
      BY <2>4, <3>1
    <3> QED BY <3>2, <3>3, FS_Subset
  <2>6. Cardinality(T) = 0
    BY <1>6, <2>3, <2>4 DEF CountIn
  <2>7. T = {}
    BY <2>5, <2>6, FS_EmptySet
  <2> QED BY <1>2, <2>4, <2>7
<1> QED BY <1>4, <1>5, <1>7

-----------------------------------------------------------------------------
(***************************************************************************)
(* What is left of each block, under the numbers N that the blocks of K    *)
(* get: its phis keep the arguments that arrive from blocks of K.          *)
(***************************************************************************)
PhisMove(is, was, K, N, r) ==
    /\ DOMAIN is.phis = DOMAIN was.phis
    /\ \A p \in DOMAIN was.phis :
          /\ is.phis[p].dest = was.phis[p].dest
          /\ \A j \in DOMAIN was.phis[p].args : was.preds[j] \in K =>
                \E k \in DOMAIN is.phis[p].args :
                   /\ is.preds[k] = N[was.preds[j]]
                   /\ is.phis[p].args[k] = With(r, was.phis[p].args)[j]
          /\ \A k \in DOMAIN is.phis[p].args :
                \E j \in DOMAIN was.phis[p].args :
                   /\ was.preds[j] \in K /\ is.preds[k] = N[was.preds[j]]
                   /\ is.phis[p].args[k] = With(r, was.phis[p].args)[j]

InstsMove(is, was, r) ==
    /\ DOMAIN is.insts = DOMAIN was.insts
    /\ \A i \in DOMAIN was.insts :
          /\ is.insts[i].dest = was.insts[i].dest
          /\ is.insts[i].op = was.insts[i].op
          /\ is.insts[i].args = With(r, was.insts[i].args)

ExitMoves(is, was, K, N) ==
    /\ is.kind = was.kind /\ is.args = was.args /\ DOMAIN is.to = DOMAIN was.to
    /\ \A k \in DOMAIN was.to : was.to[k] \in K /\ is.to[k] = N[was.to[k]]

Renumbers(g, K, N) ==
    /\ 1 \in K /\ N[1] = 1
    /\ \A a, b \in K : N[a] = N[b] => a = b
    /\ \A b \in K : N[b] \in BlockIds(g)
    /\ \A n \in BlockIds(g) : \E b \in K : n = N[b]

\* Nothing is read in place of anything else.
Unread == [v \in {} |-> 0]

MovesTo(h, g, K, N) ==
    /\ Renumbers(g, K, N)
    /\ \A b \in K : /\ PhisMove(g.blocks[N[b]], h.blocks[b], K, N, Unread)
                    /\ g.blocks[N[b]].insts = h.blocks[b].insts
                    /\ ExitMoves(g.blocks[N[b]].term, h.blocks[b].term, K, N)

LEMMA WithNothing ==
    ASSUME NEW args, NEW a \in DOMAIN args
    PROVE  With(Unread, args)[a] = args[a]
<1>1. DOMAIN Unread = {}
  BY DEF Unread
<1> QED BY <1>1 DEF With

LEMMA NothingMoves ==
    ASSUME NEW h, Consistent(h), Reachable(h) = BlockIds(h), NEW N, N = [b \in BlockIds(h) |-> b]
    PROVE  MovesTo(h, h, BlockIds(h), N)
<1>1. IsFunction(h) /\ EdgesAgree(h)
  BY DEF Consistent
<1>2. PICK K : K = BlockIds(h)
  OBVIOUS
<1>3. \A b \in K : N[b] = b
  BY <1>2
<1>4. Renumbers(h, K, N)
  BY <1>1, <1>2, <1>3, BlockTypes DEF Renumbers
<1>5. ASSUME NEW b \in K PROVE PhisMove(h.blocks[b], h.blocks[b], K, N, Unread)
  <2>1. PICK was : was = h.blocks[b]
    OBVIOUS
  <2>2. ASSUME NEW p \in DOMAIN was.phis, NEW j \in DOMAIN was.phis[p].args
        PROVE  /\ was.preds[j] \in K /\ was.preds[j] = N[was.preds[j]]
               /\ was.phis[p].args[j] = With(Unread, was.phis[p].args)[j]
    <3>1. PICK args, preds : args = was.phis[p].args /\ preds = was.preds
      OBVIOUS
    <3>2. args \in Seq(Operands) /\ preds \in Seq(K)
      BY <1>1, <1>2, <2>1, <3>1, PhiTypes, PartTypes
    <3>3. Len(args) = Len(preds)
      BY <1>1, <1>2, <2>1, <3>1 DEF EdgesAgree
    <3>4. preds[j] \in K
      BY <2>2, <3>1, <3>2, <3>3
    <3>5. With(Unread, args)[j] = args[j]
      BY <2>2, <3>1, WithNothing
    <3> QED BY <1>3, <3>1, <3>4, <3>5
  <2> QED BY <2>1, <2>2 DEF PhisMove
<1>6. ASSUME NEW b \in K PROVE ExitMoves(h.blocks[b].term, h.blocks[b].term, K, N)
  <2>1. PICK to : to = h.blocks[b].term.to
    OBVIOUS
  <2>2. to \in Seq(K)
    BY <1>1, <1>2, <2>1, PartTypes
  <2>3. \A k \in DOMAIN to : to[k] \in K
    BY <2>2, SMTT(30)
  <2> QED BY <1>3, <2>1, <2>3 DEF ExitMoves
<1> QED BY <1>2, <1>3, <1>4, <1>5, <1>6 DEF MovesTo

LEMMA KeptPhis ==
    ASSUME NEW f, NEW g, NEW K, IsMovedTo(f, g, K), NEW N, N = [b \in K |-> Renumbered(K, b)],
           NEW b \in K
    PROVE  PhisMove(g.blocks[N[b]], f.blocks[b], K, N, Unread)
<1>1. /\ Consistent(f) /\ Consistent(g) /\ K = Reachable(f) /\ IsFunction(f) /\ IsFunction(g)
      /\ EdgesAgree(f) /\ EdgesAgree(g)
      /\ \A c, d \in K : Renumbered(K, c) = Renumbered(K, d) => c = d
  BY DEF IsMovedTo, Consistent
<1>2. K \subseteq BlockIds(f)
  BY <1>1, ReachableFacts
<1>3. PICK is, was : is = g.blocks[N[b]] /\ was = f.blocks[b]
  OBVIOUS
<1>4. N[b] \in BlockIds(g) /\ IsKept(K, is, was)
  BY <1>3 DEF IsMovedTo
<1>5. DOMAIN is.phis = DOMAIN was.phis /\ \A p \in DOMAIN was.phis :
            is.phis[p].dest = was.phis[p].dest
  BY <1>4 DEF IsKept
<1>6. ASSUME NEW p \in DOMAIN was.phis, NEW k \in DOMAIN is.phis[p].args
      PROVE  \E j \in DOMAIN was.phis[p].args :
                /\ was.preds[j] \in K /\ is.preds[k] = N[was.preds[j]]
                /\ is.phis[p].args[k] = With(Unread, was.phis[p].args)[j]
  <2>1. PICK j \in DOMAIN was.phis[p].args :
             /\ was.phis[p].args[j] = is.phis[p].args[k]
             /\ was.preds[j] \in K /\ is.preds[k] = Renumbered(K, was.preds[j])
    BY <1>4, <1>5, <1>6 DEF IsKept
  <2>2. With(Unread, was.phis[p].args)[j] = was.phis[p].args[j]
    BY WithNothing
  <2> QED BY <2>1, <2>2
<1>7. ASSUME NEW p \in DOMAIN was.phis, NEW j \in DOMAIN was.phis[p].args, was.preds[j] \in K
      PROVE  \E k \in DOMAIN is.phis[p].args :
                /\ is.preds[k] = N[was.preds[j]]
                /\ is.phis[p].args[k] = With(Unread, was.phis[p].args)[j]
  <2>1. PICK a : a = was.preds[j]
    OBVIOUS
  <2>2. \A i \in DOMAIN was.phis[p].args : i \in DOMAIN was.preds
    <3>1. PICK args, preds : args = was.phis[p].args /\ preds = was.preds
      OBVIOUS
    <3>2. args \in Seq(Operands) /\ preds \in Seq(BlockIds(f))
      BY <1>1, <1>2, <1>3, <3>1, PhiTypes, PartTypes
    <3>3. Len(args) = Len(preds)
      BY <1>1, <1>2, <1>3, <3>1 DEF EdgesAgree
    <3> QED BY <3>1, <3>2, <3>3
  <2>3. a \in K /\ b \in ToSet(Successors(f, a))
    BY <1>1, <1>2, <1>3, <1>7, <2>1, <2>2, PredecessorLeadsThere
  <2>4. PICK n : n = N[a]
    OBVIOUS
  <2>5. n \in BlockIds(g) /\ IsKept(K, g.blocks[n], f.blocks[a]) /\ n = Renumbered(K, a)
    BY <2>3, <2>4, Zenon DEF IsMovedTo
  <2>6. N[b] \in ToSet(Successors(g, n))
    BY <2>3, <2>5 DEF IsKept, Successors
  <2>7. PICK k \in DOMAIN is.preds : is.preds[k] = n
    BY <1>1, <1>3, <1>4, <2>5, <2>6, EdgeIsRecorded
  <2>8. k \in DOMAIN is.phis[p].args
    <3>1. p \in DOMAIN is.phis /\ Len(is.phis[p].args) = Len(is.preds)
      BY <1>4, <1>5, <1>7 DEF IsKept
    <3>2. PICK args, preds : args = is.phis[p].args /\ preds = is.preds
      OBVIOUS
    <3>3. args \in Seq(Operands) /\ preds \in Seq(BlockIds(g))
      BY <1>1, <1>3, <1>4, <3>1, <3>2, PhiTypes, PartTypes
    <3> QED BY <2>7, <3>1, <3>2, <3>3
  <2>9. PICK i \in DOMAIN was.phis[p].args :
             /\ was.phis[p].args[i] = is.phis[p].args[k]
             /\ was.preds[i] \in K /\ is.preds[k] = Renumbered(K, was.preds[i])
    BY <1>4, <1>5, <1>7, <2>8 DEF IsKept
  <2>10. was.preds[i] = a
    BY <1>1, <2>3, <2>5, <2>7, <2>9
  <2>11. i = j
    BY <1>1, <1>2, <1>3, <2>1, <2>2, <2>9, <2>10, EnteredOnce
  <2>12. With(Unread, was.phis[p].args)[j] = was.phis[p].args[j]
    BY WithNothing
  <2> QED BY <2>1, <2>4, <2>7, <2>8, <2>9, <2>11, <2>12
<1> QED BY <1>3, <1>5, <1>6, <1>7 DEF PhisMove

LEMMA KeptMove ==
    ASSUME NEW h, Consistent(h), Reachable(h) # BlockIds(h), NEW g, g = RetainReachable(h),
           NEW K, K = Reachable(h), NEW N, N = [b \in K |-> Renumbered(K, b)]
    PROVE  MovesTo(h, g, K, N)
<1>1. IsMovedTo(h, g, K)
  BY RetainedIsMoved
<1>2. IsFunction(h) /\ EdgesAgree(h) /\ h.blocks[1].preds = <<>>
  BY DEF Consistent
<1>3. PICK L, order, M : IsRetained(h, g, L, order, M)
  BY <1>2, RetainedIs
<1>4. \A n \in BlockIds(g) : order[n] \in K /\ Renumbered(K, order[n]) = n
  BY <1>3 DEF IsRetained
<1>5. \A n \in BlockIds(g) : \E b \in K : n = N[b]
  BY <1>4
<1>6. /\ Renumbered(K, 1) = 1
      /\ \A b, c \in K : Renumbered(K, b) = Renumbered(K, c) => b = c
      /\ \A b \in K :
            /\ N[b] \in BlockIds(g)
            /\ IsKept(K, g.blocks[N[b]], h.blocks[b])
            /\ \A k \in DOMAIN h.blocks[b].term.to :
                  g.blocks[N[b]].term.to[k] = Renumbered(K, h.blocks[b].term.to[k])
  BY <1>1 DEF IsMovedTo
<1>7. /\ 1 \in K /\ K \subseteq BlockIds(h)
      /\ \A b \in K : \A c \in ToSet(Successors(h, b)) : c \in K
  BY <1>2, ReachableFacts
<1>8. Renumbers(g, K, N)
  BY <1>5, <1>6, <1>7 DEF Renumbers
<1>9. ASSUME NEW b \in K
      PROVE  /\ PhisMove(g.blocks[N[b]], h.blocks[b], K, N, Unread)
             /\ g.blocks[N[b]].insts = h.blocks[b].insts
             /\ ExitMoves(g.blocks[N[b]].term, h.blocks[b].term, K, N)
  <2>1. PhisMove(g.blocks[N[b]], h.blocks[b], K, N, Unread)
    BY <1>1, KeptPhis
  <2>2. PICK is, was : is = g.blocks[N[b]] /\ was = h.blocks[b]
    OBVIOUS
  <2>3. IsKept(K, is, was)
    BY <1>6, <2>2
  <2>4. /\ is.insts = was.insts /\ is.term.kind = was.term.kind /\ is.term.args = was.term.args
        /\ Len(is.term.to) = Len(was.term.to) /\ is \in BlocksAmong(1 .. Cardinality(K))
    BY <2>3 DEF IsKept
  <2>5. DOMAIN is.term.to = DOMAIN was.term.to
    <3>1. is.term.to \in Seq(1 .. Cardinality(K))
      BY <2>4 DEF BlocksAmong
    <3>2. was.term.to \in Seq(BlockIds(h))
      BY <1>2, <1>7, <2>2, PartTypes
    <3> QED BY <2>4, <3>1, <3>2
  <2>6. \A k \in DOMAIN was.term.to : was.term.to[k] \in K /\ is.term.to[k] = N[was.term.to[k]]
    <3>1. ASSUME NEW k \in DOMAIN was.term.to PROVE was.term.to[k] \in K
      <4>1. was.term.to[k] \in ToSet(Successors(h, b))
        BY <2>2 DEF Successors, ToSet
      <4> QED BY <1>7, <4>1
    <3> QED BY <1>6, <2>2, <3>1
  <2> QED BY <2>1, <2>2, <2>4, <2>5, <2>6, Zenon DEF ExitMoves
<1> QED BY <1>8, <1>9 DEF MovesTo

LEMMA RetainingMoves ==
    ASSUME NEW h, Consistent(h)
    PROVE  \E N : MovesTo(h, RetainReachable(h), Reachable(h), N)
<1>1. CASE Reachable(h) = BlockIds(h)
  <2>1. RetainReachable(h) = h
    BY <1>1 DEF RetainReachable
  <2>2. PICK N : N = [b \in BlockIds(h) |-> b]
    OBVIOUS
  <2>3. MovesTo(h, h, BlockIds(h), N)
    BY <1>1, <2>2, NothingMoves
  <2> QED BY <1>1, <2>1, <2>3
<1>2. CASE Reachable(h) # BlockIds(h)
  <2>1. PICK K, g : K = Reachable(h) /\ g = RetainReachable(h)
    OBVIOUS
  <2>2. PICK N : N = [b \in K |-> Renumbered(K, b)]
    OBVIOUS
  <2>3. MovesTo(h, g, K, N)
    BY <1>2, <2>1, <2>2, KeptMove
  <2> QED BY <2>1, <2>3
<1> QED BY <1>1, <1>2

-----------------------------------------------------------------------------
(***************************************************************************)
(* Dominance is an order on the blocks that are reached.                   *)
(***************************************************************************)
LEMMA DominatorAvoids ==
    ASSUME NEW f, IsFunction(f), NEW a, NEW c, Dominates(f, a, c)
    PROVE  ReachableAvoiding(f, {a}) \subseteq ReachableAvoiding(f, {c})
<1> DEFINE S == ReachableAvoiding(f, {a}) \cap ReachableAvoiding(f, {c})
<1>1. c \notin ReachableAvoiding(f, {a})
  BY DEF Dominates
<1>2. 1 \notin {a} => 1 \in S
  BY <1>1, AvoidingFacts
<1>3. \A b \in S : \A d \in ToSet(Successors(f, b)) : d \notin {a} => d \in S
  <2>1. SUFFICES ASSUME NEW b \in S, NEW d \in ToSet(Successors(f, b)), d \notin {a} PROVE d \in S
    OBVIOUS
  <2>2. d \in ReachableAvoiding(f, {a})
    BY <2>1, AvoidingFacts
  <2>3. d \notin {c}
    BY <1>1, <2>2
  <2>4. d \in ReachableAvoiding(f, {c})
    BY <2>1, <2>3, AvoidingFacts
  <2> QED BY <2>2, <2>4
<1> HIDE DEF S
<1>4. ReachableAvoiding(f, {a}) \subseteq S
  BY <1>2, <1>3, AvoidingIsLeast
<1> QED BY <1>4 DEF S

LEMMA DominatesTransitive ==
    ASSUME NEW f, IsFunction(f), NEW a, NEW b, NEW c, Dominates(f, a, b), Dominates(f, b, c)
    PROVE  Dominates(f, a, c)
  BY DominatorAvoids DEF Dominates

LEMMA DominatesAntisymmetric ==
    ASSUME NEW f, IsFunction(f), NEW a \in Reachable(f), NEW b, Dominates(f, a, b), Dominates(f, b, a)
    PROVE  a = b
<1>1. SUFFICES ASSUME a # b PROVE FALSE
  OBVIOUS
<1>2. PICK S : S = ReachableAvoiding(f, {a})
  OBVIOUS
<1>3. S = ReachableAvoiding(f, {b})
  BY <1>2, DominatorAvoids, SMTT(30)
<1>4. a \notin S /\ b \notin S
  BY <1>2, <1>3, AvoidingFacts
<1>5. 1 \in S
  BY <1>1, <1>2, <1>3, AvoidingFacts
<1>6. ASSUME NEW c \in S, NEW d \in ToSet(Successors(f, c)) PROVE d \in S
  <2>1. CASE d # a
    BY <2>1, <1>2, <1>6, AvoidingFacts
  <2>2. CASE d # b
    BY <2>2, <1>3, <1>6, AvoidingFacts
  <2> QED BY <2>1, <2>2, <1>1
<1>7. ReachableAvoiding(f, {}) \subseteq S
  BY <1>5, <1>6, AvoidingIsLeast
<1> QED BY <1>4, <1>7 DEF Reachable

(***************************************************************************)
(* Places in a function, <<block, position>>: what was always passed       *)
(* through before.  Definitions are places, phis all at position 0.        *)
(***************************************************************************)
Precedes(f, d, e) == IF d[1] = e[1] THEN d[2] < e[2] ELSE Dominates(f, d[1], e[1])

NoLater(f, d, e) == IF d[1] = e[1] THEN d[2] <= e[2] ELSE Dominates(f, d[1], e[1])

LEMMA PrecedesTransitive ==
    ASSUME NEW f, IsFunction(f), AllReachable(f),
           NEW d, NEW e, NEW h, d[1] \in BlockIds(f), e[1] \in BlockIds(f), h[1] \in BlockIds(f),
           d[2] \in Int, e[2] \in Int, h[2] \in Int,
           NoLater(f, d, e)
    PROVE  /\ NoLater(f, e, h) => NoLater(f, d, h)
           /\ Precedes(f, e, h) => Precedes(f, d, h)
<1>1. BlockIds(f) = Reachable(f)
  BY DEF AllReachable
<1>2. CASE d[1] = e[1] /\ e[1] = h[1]
  BY <1>2 DEF NoLater, Precedes
<1>3. CASE d[1] = e[1] /\ e[1] # h[1]
  BY <1>3 DEF NoLater, Precedes
<1>4. CASE d[1] # e[1] /\ e[1] = h[1]
  BY <1>4 DEF NoLater, Precedes
<1>5. CASE d[1] # e[1] /\ e[1] # h[1]
  <2>1. SUFFICES ASSUME Dominates(f, e[1], h[1]) PROVE d[1] # h[1] /\ Dominates(f, d[1], h[1])
    BY <1>5 DEF NoLater, Precedes
  <2>2. Dominates(f, d[1], e[1])
    BY <1>5 DEF NoLater
  <2>3. Dominates(f, d[1], h[1])
    BY <2>1, <2>2, DominatesTransitive
  <2>4. d[1] # h[1]
    <3>1. SUFFICES ASSUME d[1] = h[1] PROVE FALSE
      OBVIOUS
    <3>2. Dominates(f, e[1], d[1])
      BY <2>1, <3>1
    <3> QED BY <1>1, <1>5, <2>2, <3>2, DominatesAntisymmetric
  <2> QED BY <2>3, <2>4
<1> QED BY <1>2, <1>3, <1>4, <1>5

LEMMA PrecedesIsNoLater ==
    ASSUME NEW f, NEW d, NEW e, d[2] \in Int, e[2] \in Int, Precedes(f, d, e)
    PROVE  NoLater(f, d, e)
  BY DEF Precedes, NoLater

LEMMA NothingPrecedesItself ==
    ASSUME NEW f, NEW d, d[2] \in Int
    PROVE  ~Precedes(f, d, d)
  BY DEF Precedes

LEMMA NoLaterDominates ==
    ASSUME NEW f, IsFunction(f), NEW d, NEW e, NEW b, NoLater(f, d, e), Dominates(f, e[1], b)
    PROVE  Dominates(f, d[1], b)
<1>1. CASE d[1] = e[1]
  BY <1>1
<1>2. CASE d[1] # e[1]
  BY <1>2, DominatesTransitive DEF NoLater
<1> QED BY <1>1, <1>2

\* What the verifier's DefinedBefore says, in these terms.
LEMMA DefinedBeforeIs ==
    ASSUME NEW f, NEW v, NEW b, NEW position
    PROVE  DefinedBefore(f, v, b, position)
           <=> \A d \in Definitions(f, v) : Precedes(f, d, <<b, position>>)
  BY DEF DefinedBefore, Precedes

LEMMA DefinitionPlaces ==
    ASSUME NEW f, IsFunction(f), NEW v, NEW d \in Definitions(f, v)
    PROVE  d[1] \in BlockIds(f) /\ d[2] \in Nat
<1>1. d[1] \in BlockIds(f) /\ (d[2] = 0 \/ d[2] \in DOMAIN f.blocks[d[1]].insts)
  BY DefinitionFacts
<1>2. PICK n \in Nat : DOMAIN f.blocks[d[1]].insts = 1 .. n
  BY <1>1, InstTypes
<1> QED BY <1>1, <1>2

-----------------------------------------------------------------------------
(***************************************************************************)
(* Reading what was computed no later: r answers, for a value, another one *)
(* or a word, and whatever comes after the value comes after its answer.   *)
(***************************************************************************)
Supplies(f, r) ==
    /\ AreOperands(r) /\ DOMAIN r \subseteq Values
    /\ \A v \in DOMAIN r : r[v] \in Values =>
          /\ Definitions(f, r[v]) # {}
          /\ \A d \in Definitions(f, r[v]) : \A e \in Definitions(f, v) : NoLater(f, d, e)

\* A value read through r was read itself, or a value it answers for was.
LEMMA ReadThroughIs ==
    ASSUME NEW r, NEW args, NEW a \in DOMAIN args
    PROVE  \/ With(r, args)[a] = args[a] /\ args[a] \notin DOMAIN r
           \/ args[a] \in DOMAIN r /\ With(r, args)[a] = r[args[a]]
  BY DEF With

LEMMA ValuesReadThrough ==
    ASSUME NEW r, NEW args, NEW w \in ValuesRead(With(r, args)), DOMAIN r \subseteq Values
    PROVE  \E v \in ValuesRead(args) :
              (v = w /\ v \notin DOMAIN r) \/ (v \in DOMAIN r /\ r[v] = w)
<1>1. PICK a \in DOMAIN args : With(r, args)[a] = w
  BY DEF ValuesRead, ToSet, With
<1>2. w \in Values
  BY DEF ValuesRead
<1> QED BY <1>1, <1>2, ReadThroughIs DEF ValuesRead, ToSet

\* Functions with the same edges have the same ways through them.
SameEdges(g, f) ==
    /\ BlockIds(g) = BlockIds(f)
    /\ \A b \in BlockIds(f) : Successors(g, b) = Successors(f, b)
    /\ \A b \in BlockIds(f) : g.blocks[b].preds = f.blocks[b].preds

LEMMA SameWaysIn ==
    ASSUME NEW f, IsFunction(f), NEW g, IsFunction(g), SameEdges(g, f), NEW avoided
    PROVE  ReachableAvoiding(g, avoided) \subseteq ReachableAvoiding(f, avoided)
<1>1. PICK S : S = ReachableAvoiding(f, avoided)
  OBVIOUS
<1>2. S \subseteq BlockIds(f) /\ (1 \notin avoided => 1 \in S)
  BY <1>1, AvoidingFacts
<1>3. \A b \in S : \A c \in ToSet(Successors(g, b)) : c \notin avoided => c \in S
  BY <1>1, <1>2, AvoidingFacts DEF SameEdges
<1> QED BY <1>1, <1>2, <1>3, AvoidingIsLeast

LEMMA SameWays ==
    ASSUME NEW f, IsFunction(f), NEW g, IsFunction(g), SameEdges(g, f)
    PROVE  /\ \A avoided : ReachableAvoiding(g, avoided) = ReachableAvoiding(f, avoided)
           /\ \A a, b : Dominates(g, a, b) <=> Dominates(f, a, b)
           /\ AllReachable(f) => AllReachable(g)
           /\ NoCriticalEdge(f) => NoCriticalEdge(g)
<1>1. SameEdges(f, g)
  BY DEF SameEdges
<1>2. ASSUME NEW avoided PROVE ReachableAvoiding(g, avoided) = ReachableAvoiding(f, avoided)
  BY <1>1, SameWaysIn
<1>3. \A a, b : Dominates(g, a, b) <=> Dominates(f, a, b)
  BY <1>2 DEF Dominates
<1>4. ASSUME AllReachable(f) PROVE AllReachable(g)
  <2>1. 1 \in BlockIds(f)
    BY BlockTypes
  <2> QED BY <1>2, <1>4, <2>1 DEF AllReachable, Reachable, SameEdges
<1>5. ASSUME NoCriticalEdge(f) PROVE NoCriticalEdge(g)
  <2>1. SUFFICES ASSUME NEW e \in EdgesOf(g)
                 PROVE  Len(Successors(g, e[1])) < 2 \/ Len(g.blocks[e[2]].preds) < 2
    BY DEF NoCriticalEdge
  <2>2. e[1] \in BlockIds(f) /\ e[2] \in BlockIds(f) /\ e \in BlockIds(f) \X BlockIds(f)
        /\ Contains(Successors(g, e[1]), e[2])
    BY <2>1 DEF EdgesOf, SameEdges
  <2>3. Successors(g, e[1]) = Successors(f, e[1]) /\ g.blocks[e[2]].preds = f.blocks[e[2]].preds
    BY <2>2 DEF SameEdges
  <2>4. e \in EdgesOf(f)
    BY <2>2, <2>3 DEF EdgesOf
  <2>5. Len(Successors(f, e[1])) < 2 \/ Len(f.blocks[e[2]].preds) < 2
    BY <1>5, <2>4 DEF NoCriticalEdge
  <2> QED BY <2>3, <2>5
<1> QED BY <1>2, <1>3, <1>4, <1>5

\* The parts of g define what those of f do, at the same places.
SameDefinitions(g, f) ==
    /\ BlockIds(g) = BlockIds(f) /\ g.site = f.site
    /\ \A b \in BlockIds(f) :
          /\ DOMAIN g.blocks[b].phis = DOMAIN f.blocks[b].phis
          /\ DOMAIN g.blocks[b].insts = DOMAIN f.blocks[b].insts
          /\ \A p \in DOMAIN f.blocks[b].phis : g.blocks[b].phis[p].dest = f.blocks[b].phis[p].dest
          /\ \A i \in DOMAIN f.blocks[b].insts :
                /\ g.blocks[b].insts[i].dest = f.blocks[b].insts[i].dest
                /\ g.blocks[b].insts[i].op = "param" <=> f.blocks[b].insts[i].op = "param"

LEMMA SameDefinitionsIn ==
    ASSUME NEW f, NEW g, SameDefinitions(g, f), NEW v
    PROVE  /\ PhiSites(g, v) \subseteq PhiSites(f, v) /\ InstSites(g, v) \subseteq InstSites(f, v)
           /\ Definitions(g, v) \subseteq Definitions(f, v)
<1>1. ASSUME NEW s \in PhiSites(g, v) PROVE s \in PhiSites(f, v)
  <2>1. PICK b \in BlockIds(g) : \E p \in DOMAIN g.blocks[b].phis :
               s = <<b, p>> /\ g.blocks[b].phis[p].dest = v
    BY <1>1 DEF PhiSites
  <2> QED BY <2>1 DEF PhiSites, SameDefinitions
<1>2. ASSUME NEW s \in InstSites(g, v) PROVE s \in InstSites(f, v)
  <2>1. PICK b \in BlockIds(g) : \E i \in DOMAIN g.blocks[b].insts :
               s = <<b, i>> /\ g.blocks[b].insts[i].dest = v
    BY <1>2 DEF InstSites
  <2>2. PICK i \in DOMAIN g.blocks[b].insts : s = <<b, i>> /\ g.blocks[b].insts[i].dest = v
    BY <2>1
  <2>3. b \in BlockIds(f) /\ i \in DOMAIN f.blocks[b].insts /\ f.blocks[b].insts[i].dest = v
    BY <2>2 DEF SameDefinitions
  <2> QED BY <2>2, <2>3 DEF InstSites
<1> QED BY <1>1, <1>2 DEF Definitions

LEMMA SameDefinitionsAre ==
    ASSUME NEW f, NEW g, SameDefinitions(g, f), NEW v
    PROVE  /\ PhiSites(g, v) = PhiSites(f, v) /\ InstSites(g, v) = InstSites(f, v)
           /\ Definitions(g, v) = Definitions(f, v)
<1>1. SameDefinitions(f, g)
  BY DEF SameDefinitions
<1>2. /\ PhiSites(g, v) \subseteq PhiSites(f, v) /\ InstSites(g, v) \subseteq InstSites(f, v)
      /\ Definitions(g, v) \subseteq Definitions(f, v)
  BY SameDefinitionsIn, Zenon
<1>3. /\ PhiSites(f, v) \subseteq PhiSites(g, v) /\ InstSites(f, v) \subseteq InstSites(g, v)
      /\ Definitions(f, v) \subseteq Definitions(g, v)
  BY <1>1, SameDefinitionsIn, Zenon
<1> QED BY <1>2, <1>3, Zenon

(***************************************************************************)
(* substitute_operands with what was computed no later: what is read was   *)
(* still computed on every way there.                                      *)
(***************************************************************************)
LEMMA SubstitutingIsWellFormed ==
    ASSUME NEW f, IsFunction(f), WellFormed(f), NEW r, Supplies(f, r),
           NEW g, g = SubstituteOperands(f, r)
    PROVE  IsFunction(g) /\ WellFormed(g) /\ SameDefinitions(g, f)
<1>1. AreOperands(r) /\ DOMAIN r \subseteq Values /\ EdgesAgree(f) /\ f.blocks[1].preds = <<>>
      /\ AllReachable(f) /\ DefinedOnce(f)
  BY DEF Supplies, WellFormed, AllReachable
<1>2. IsFunction(g) /\ g.site = f.site /\ BlockIds(g) = BlockIds(f) /\ EdgesAgree(g)
  BY <1>1, SubstitutedShape
<1>3. ASSUME NEW b \in BlockIds(f)
      PROVE  /\ g.blocks[b].preds = f.blocks[b].preds
             /\ g.blocks[b].term.to = f.blocks[b].term.to
             /\ g.blocks[b].term.args = With(r, f.blocks[b].term.args)
             /\ DOMAIN g.blocks[b].phis = DOMAIN f.blocks[b].phis
             /\ DOMAIN g.blocks[b].insts = DOMAIN f.blocks[b].insts
  BY <1>1, SubstitutedShape
<1>4. ASSUME NEW b \in BlockIds(f), NEW p \in DOMAIN f.blocks[b].phis
      PROVE  /\ g.blocks[b].phis[p].dest = f.blocks[b].phis[p].dest
             /\ g.blocks[b].phis[p].args = With(r, f.blocks[b].phis[p].args)
             /\ f.blocks[b].phis[p].args \in Seq(Operands)
  BY <1>1, SubstitutedShape, SMTT(30)
<1>5. ASSUME NEW b \in BlockIds(f), NEW i \in DOMAIN f.blocks[b].insts
      PROVE  /\ g.blocks[b].insts[i].dest = f.blocks[b].insts[i].dest
             /\ g.blocks[b].insts[i].op = f.blocks[b].insts[i].op
             /\ g.blocks[b].insts[i].args = With(r, f.blocks[b].insts[i].args)
  BY <1>1, SubstitutedShape, SMTT(30)
<1>6. SameEdges(g, f)
  BY <1>2, <1>3 DEF SameEdges, Successors
<1>7. SameDefinitions(g, f)
  BY <1>2, <1>3, <1>4, <1>5 DEF SameDefinitions
<1>8. \A v : /\ PhiSites(g, v) = PhiSites(f, v) /\ InstSites(g, v) = InstSites(f, v)
             /\ Definitions(g, v) = Definitions(f, v)
  BY <1>7, SameDefinitionsAre
<1>9. \A a, b : Dominates(g, a, b) <=> Dominates(f, a, b)
  BY <1>2, <1>6, SameWays
<1>10. AllReachable(g) /\ NoCriticalEdge(g)
  BY <1>2, <1>6, SameWays DEF WellFormed
<1>11. ASSUME NEW b \in BlockIds(f), NEW position \in Int, NEW args,
              \A v \in ValuesRead(args) : /\ DefinedBefore(f, v, b, position)
                                          /\ Definitions(f, v) # {},
              NEW w \in ValuesRead(With(r, args))
       PROVE  DefinedBefore(g, w, b, position) /\ Definitions(g, w) # {}
  <2>1. PICK v \in ValuesRead(args) : (v = w /\ v \notin DOMAIN r) \/ (v \in DOMAIN r /\ r[v] = w)
    BY <1>1, <1>11, ValuesReadThrough
  <2>2. w \in Values
    BY DEF ValuesRead
  <2>3. DefinedBefore(f, w, b, position) /\ Definitions(f, w) # {}
    <3>1. CASE v = w
      BY <2>1, <3>1, <1>11
    <3>2. CASE v \in DOMAIN r /\ r[v] = w
      <4>1. PICK e : e \in Definitions(f, v)
        BY <2>1, <1>11
      <4>2. Definitions(f, w) # {} /\ \A d \in Definitions(f, w) : NoLater(f, d, e)
        BY <2>2, <3>2, <4>1 DEF Supplies
      <4>3. Precedes(f, e, <<b, position>>)
        BY <2>1, <4>1, <1>11, DefinedBeforeIs
      <4>4. ASSUME NEW d \in Definitions(f, w) PROVE Precedes(f, d, <<b, position>>)
        <5>1. /\ d[1] \in BlockIds(f) /\ d[2] \in Int /\ e[1] \in BlockIds(f) /\ e[2] \in Int
              /\ <<b, position>>[1] \in BlockIds(f) /\ <<b, position>>[2] \in Int
          BY <4>1, DefinitionPlaces
        <5> QED BY <1>1, <4>2, <4>3, <5>1, PrecedesTransitive
      <4> QED BY <4>2, <4>4, DefinedBeforeIs
    <3> QED BY <2>1, <3>1, <3>2
  <2> QED BY <2>3, <1>8, <1>9 DEF DefinedBefore
<1>12. UsesDominated(g)
  <2>1. SUFFICES ASSUME NEW b \in BlockIds(f)
                 PROVE  /\ \A i \in DOMAIN g.blocks[b].insts :
                              \A w \in ValuesRead(g.blocks[b].insts[i].args) :
                                    DefinedBefore(g, w, b, i)
                        /\ \A w \in ValuesRead(g.blocks[b].term.args) :
                              DefinedBefore(g, w, b, Len(g.blocks[b].insts) + 1)
    BY <1>2 DEF UsesDominated
  <2>2. ASSUME NEW i \in DOMAIN g.blocks[b].insts, NEW w \in ValuesRead(g.blocks[b].insts[i].args)
        PROVE  DefinedBefore(g, w, b, i)
    <3>1. PICK args : args = f.blocks[b].insts[i].args
      OBVIOUS
    <3>2. i \in DOMAIN f.blocks[b].insts /\ i \in Int /\ w \in ValuesRead(With(r, args))
      BY <1>3, <1>5, <3>1, InstTypes
    <3>3. \A v \in ValuesRead(args) : DefinedBefore(f, v, b, i) /\ Definitions(f, v) # {}
      BY <1>1, <3>1, <3>2, ReadIsDefined DEF WellFormed, UsesDominated, ValuesRead
    <3> QED BY <1>11, <3>2, <3>3
  <2>3. ASSUME NEW w \in ValuesRead(g.blocks[b].term.args)
        PROVE  DefinedBefore(g, w, b, Len(g.blocks[b].insts) + 1)
    <3>1. PICK args, n : args = f.blocks[b].term.args /\ n = Len(f.blocks[b].insts)
      OBVIOUS
    <3>2. n \in Nat /\ Len(g.blocks[b].insts) = n
      BY <1>2, <1>3, <3>1, InstTypes
    <3>3. w \in ValuesRead(With(r, args)) /\ n + 1 \in Int
      BY <1>3, <3>1, <3>2
    <3>4. \A v \in ValuesRead(args) : DefinedBefore(f, v, b, n + 1) /\ Definitions(f, v) # {}
      BY <1>1, <3>1, ReadIsDefined DEF WellFormed, UsesDominated, ValuesRead
    <3>5. DefinedBefore(g, w, b, n + 1)
      BY <1>11, <3>3, <3>4
    <3> QED BY <3>2, <3>5
  <2> QED BY <2>2, <2>3
<1>13. ASSUME NEW b \in BlockIds(f), NEW p \in DOMAIN f.blocks[b].phis,
              NEW k \in DOMAIN g.blocks[b].phis[p].args, NEW w, w = g.blocks[b].phis[p].args[k],
              w \in Values
       PROVE  Definitions(g, w) # {} /\ \A d \in Definitions(g, w) :
                    Dominates(g, d[1], g.blocks[b].preds[k])
  <2>1. PICK args, a : args = f.blocks[b].phis[p].args /\ a = f.blocks[b].preds[k]
    OBVIOUS
  <2>2. k \in DOMAIN args /\ w = With(r, args)[k] /\ args \in Seq(Operands)
        /\ g.blocks[b].preds[k] = a
    BY <1>1, <1>3, <1>4, <1>13, <2>1, WithTypes, SMTT(30)
  <2>3. \A v \in Values : v = args[k] =>
              Definitions(f, v) # {} /\ \A d \in Definitions(f, v) : Dominates(f, d[1], a)
    BY <1>1, <2>1, <2>2, ReadIsDefined DEF WellFormed, PhiArgumentsDominated, ToSet
  <2>4. Definitions(f, w) # {} /\ \A d \in Definitions(f, w) : Dominates(f, d[1], a)
    <3>1. CASE args[k] \notin DOMAIN r
      BY <1>13, <2>2, <2>3, <3>1, ReadThroughIs
    <3>2. CASE args[k] \in DOMAIN r
      <4>1. PICK v : v = args[k]
        OBVIOUS
      <4>2. v \in Values /\ v \in DOMAIN r /\ w = r[v]
        BY <1>1, <2>2, <3>2, <4>1, ReadThroughIs
      <4>3. PICK e : e \in Definitions(f, v)
        BY <2>3, <4>1, <4>2
      <4>4. Dominates(f, e[1], a)
        BY <2>3, <4>1, <4>2, <4>3
      <4>5. Definitions(f, w) # {} /\ \A d \in Definitions(f, w) : NoLater(f, d, e)
        BY <1>13, <4>2, <4>3 DEF Supplies
      <4> QED BY <4>4, <4>5, NoLaterDominates
    <3> QED BY <3>1, <3>2
  <2> QED BY <1>8, <1>9, <2>2, <2>4
<1>14. PhiArgumentsDominated(g)
  BY <1>2, <1>3, <1>13 DEF PhiArgumentsDominated
<1>15. ParametersFirst(g)
  <2>1. SUFFICES ASSUME NEW b \in BlockIds(f), NEW i \in DOMAIN g.blocks[b].insts,
                        g.blocks[b].insts[i].op = "param"
                 PROVE  b = 1 /\ \A j \in 1 .. i : g.blocks[b].insts[j].op = "param"
    BY <1>2 DEF ParametersFirst
  <2>2. i \in DOMAIN f.blocks[b].insts /\ f.blocks[b].insts[i].op = "param"
    BY <1>3, <1>5, <2>1
  <2>3. b = 1 /\ \A j \in 1 .. i : f.blocks[b].insts[j].op = "param"
    BY <2>2 DEF WellFormed, ParametersFirst
  <2>4. PICK n \in Nat : DOMAIN f.blocks[b].insts = 1 .. n
    BY InstTypes
  <2>5. \A j \in 1 .. i : j \in DOMAIN f.blocks[b].insts
    BY <2>2, <2>4
  <2> QED BY <1>5, <2>3, <2>5
<1>16. DefinedOnce(g)
  <2>1. ASSUME NEW b \in BlockIds(f), NEW w \in ValuesReadIn(g.blocks[b])
        PROVE  Definitions(g, w) # {}
    <3>1. w \in Values
      BY DEF ValuesReadIn, ValuesRead
    <3>2. CASE \E phi \in ToSet(g.blocks[b].phis) : w \in ValuesRead(phi.args)
      <4>1. PICK p \in DOMAIN g.blocks[b].phis : w \in ValuesRead(g.blocks[b].phis[p].args)
        BY <3>2 DEF ToSet
      <4>2. PICK k \in DOMAIN g.blocks[b].phis[p].args : g.blocks[b].phis[p].args[k] = w
        BY <4>1 DEF ValuesRead, ToSet
      <4>3. p \in DOMAIN f.blocks[b].phis
        BY <1>3
      <4> QED BY <1>13, <3>1, <4>2, <4>3
    <3>3. CASE \E inst \in ToSet(g.blocks[b].insts) : w \in ValuesRead(inst.args)
      <4>1. PICK i \in DOMAIN g.blocks[b].insts : w \in ValuesRead(g.blocks[b].insts[i].args)
        BY <3>3 DEF ToSet
      <4>2. PICK args : args = f.blocks[b].insts[i].args
        OBVIOUS
      <4>3. i \in DOMAIN f.blocks[b].insts /\ i \in Int /\ w \in ValuesRead(With(r, args))
        BY <1>3, <1>5, <4>1, <4>2, InstTypes
      <4>4. \A v \in ValuesRead(args) : DefinedBefore(f, v, b, i) /\ Definitions(f, v) # {}
        BY <1>1, <4>2, <4>3, ReadIsDefined DEF WellFormed, UsesDominated, ValuesRead
      <4> QED BY <1>11, <4>3, <4>4
    <3>4. CASE w \in ValuesRead(g.blocks[b].term.args)
      <4>1. PICK args, n : args = f.blocks[b].term.args /\ n = Len(f.blocks[b].insts)
        OBVIOUS
      <4>2. n \in Nat /\ w \in ValuesRead(With(r, args)) /\ n + 1 \in Int
        BY <1>3, <3>4, <4>1, InstTypes
      <4>3. \A v \in ValuesRead(args) : DefinedBefore(f, v, b, n + 1) /\ Definitions(f, v) # {}
        BY <1>1, <4>1, ReadIsDefined DEF WellFormed, UsesDominated, ValuesRead
      <4> QED BY <1>11, <4>2, <4>3
    <3> QED BY <3>2, <3>3, <3>4 DEF ValuesReadIn
  <2>2. ASSUME NEW v \in Values
        PROVE  /\ \A d, e \in Definitions(g, v) : d = e
               /\ \A s \in PhiSites(g, v) : g.site[v] = s
               /\ InstSites(g, v) # {} => g.site[v] = Removed
    BY <1>1, <1>2, <1>8 DEF DefinedOnce
  <2> QED BY <1>2, <2>1, <2>2 DEF DefinedOnce
<1> QED BY <1>2, <1>7, <1>10, <1>12, <1>14, <1>15, <1>16 DEF WellFormed

-----------------------------------------------------------------------------
(***************************************************************************)
(* Vec::retain, block after block: what is left of a function from which   *)
(* definitions went.                                                       *)
(***************************************************************************)
\* Thinned unfolds: there are the functions its definition speaks of.
LEMMA ThinnedUnfolds ==
    ASSUME NEW f, NEW dead, NEW kept, Len(f.blocks) \in Nat
    PROVE  \E w : /\ w[0] = f
                  /\ \A n \in 1 .. Len(f.blocks) :
                           w[n] = RetainInsts(RetainPhis(w[n - 1], n, dead), n, kept[n])
                  /\ Thinned(f, dead, kept) = w[Len(f.blocks)]
<1> DEFINE Step(s, n) == RetainInsts(RetainPhis(s, n, dead), n, kept[n])
           after[n \in 0 .. Len(f.blocks)] ==
              IF n = 0 THEN f
              ELSE LET before == after[n - 1]
                   IN  RetainInsts(RetainPhis(before, n, dead), n, kept[n])
<1>1. PICK N \in Nat : N = Len(f.blocks)
  OBVIOUS
<1>2. PICK start : start = f
  OBVIOUS
<1>3. \E g : g = [n \in 0 .. N |-> IF n = 0 THEN start ELSE Step(g[n - 1], n)]
  <2> HIDE DEF Step, after
  <2> DEFINE Reached(m) == \E g : g = [n \in 0 .. m |-> IF n = 0 THEN start ELSE Step(g[n - 1], n)]
             T == {m \in 0 .. N : Reached(m)}
  <2>1. 0 \in T
    <3>1. PICK g : g = [n \in 0 .. 0 |-> start]
      OBVIOUS
    <3>2. g = [n \in 0 .. 0 |-> IF n = 0 THEN start ELSE Step(g[n - 1], n)]
      BY <3>1
    <3>3. Reached(0)
      BY <3>2
    <3> QED BY <3>3
  <2>2. ASSUME NEW m \in 0 .. N - 1, m \in T PROVE m + 1 \in T
    <3>1. PICK g : g = [n \in 0 .. m |-> IF n = 0 THEN start ELSE Step(g[n - 1], n)]
      BY <2>2
    <3>2. PICK h : h = [n \in 0 .. m + 1 |-> IF n <= m THEN g[n] ELSE Step(g[m], m + 1)]
      OBVIOUS
    <3>3. ASSUME NEW n \in 0 .. m + 1 PROVE h[n] = IF n = 0 THEN start ELSE Step(h[n - 1], n)
      <4>1. CASE n = 0
        BY <4>1, <3>1, <3>2
      <4>2. CASE n \in 1 .. m
        <5>1. h[n] = g[n] /\ h[n - 1] = g[n - 1] /\ g[n] = Step(g[n - 1], n)
          BY <4>2, <3>1, <3>2
        <5> QED BY <4>2, <5>1
      <4>3. CASE n = m + 1
        <5>1. h[n] = Step(g[m], m + 1) /\ n - 1 = m /\ h[m] = g[m] /\ n # 0
          BY <4>3, <3>2
        <5> QED BY <4>3, <5>1
      <4> QED BY <4>1, <4>2, <4>3
    <3>4. h = [n \in 0 .. m + 1 |-> IF n = 0 THEN start ELSE Step(h[n - 1], n)]
      BY <3>2, <3>3
    <3>5. Reached(m + 1)
      BY <3>4
    <3>6. m + 1 \in 0 .. N
      OBVIOUS
    <3> QED BY <3>5, <3>6
  <2>3. N \in T
    <3>1. \A k \in 0 .. N - 1 : k \in T => k + 1 \in T
      BY <2>2
    <3> HIDE DEF T
    <3>2. \A k \in 0 .. N : k \in T
      BY <2>1, <3>1, UpToBound
    <3> QED BY <3>2
  <2> QED BY <2>3
<1>4. PICK g : g = [n \in 0 .. N |-> IF n = 0 THEN start ELSE Step(g[n - 1], n)]
  BY <1>3
<1>5. g = [n \in 0 .. Len(f.blocks) |->
              IF n = 0 THEN f
              ELSE LET before == g[n - 1]
                   IN  RetainInsts(RetainPhis(before, n, dead), n, kept[n])]
  BY <1>1, <1>2, <1>4, Zenon
<1>6. after = [n \in 0 .. Len(f.blocks) |->
                  IF n = 0 THEN f
                  ELSE LET before == after[n - 1]
                   IN  RetainInsts(RetainPhis(before, n, dead), n, kept[n])]
  BY <1>5, Zenon
<1>7. Thinned(f, dead, kept) = after[Len(f.blocks)]
  BY Zenon DEF Thinned
<1>8. PICK w : w = after
  OBVIOUS
<1>9. w = [n \in 0 .. N |-> IF n = 0 THEN start ELSE Step(w[n - 1], n)]
  BY <1>1, <1>2, <1>6, <1>8, Zenon
<1>10. w[0] = start /\ \A n \in 1 .. N : w[n] = Step(w[n - 1], n)
  <2> HIDE DEF Step, after
  <2>1. w[0] = start
    BY <1>9
  <2>2. ASSUME NEW n \in 1 .. N PROVE w[n] = Step(w[n - 1], n)
    <3>1. n \in 0 .. N /\ n # 0
      OBVIOUS
    <3> QED BY <3>1, <1>9
  <2> QED BY <2>1, <2>2
<1>11. w[0] = f
  BY <1>10, <1>2
<1>12. \A n \in 1 .. Len(f.blocks) : w[n] = RetainInsts(RetainPhis(w[n - 1], n, dead), n, kept[n])
  BY <1>10, <1>1, Zenon
<1>13. Thinned(f, dead, kept) = w[Len(f.blocks)]
  BY <1>7, <1>8, Zenon
<1> QED BY <1>11, <1>12, <1>13

-----------------------------------------------------------------------------
(***************************************************************************)
(* Vec::retain: what is left of a list, in its order.                      *)
(***************************************************************************)
LEMMA EntriesFacts ==
    ASSUME NEW S, NEW list \in Seq(S), NEW kept \in SUBSET DOMAIN list,
           NEW order, order = Ascending(kept), NEW m, m = Cardinality(kept),
           NEW left, left = EntriesAt(list, kept)
    PROVE  /\ m \in Nat /\ DOMAIN order = 1 .. m
           /\ left \in Seq(S) /\ Len(left) = m /\ DOMAIN left = 1 .. m
           /\ \A n \in 1 .. m : order[n] \in kept /\ left[n] = list[order[n]]
           /\ \A k \in kept : \E n \in 1 .. m : order[n] = k
           /\ \A i, j \in 1 .. m : i < j => order[i] < order[j]
<1>1. PICK len \in Nat : DOMAIN list = 1 .. len /\ \A k \in 1 .. len : list[k] \in S
  BY LengthFacts
<1>2. kept \subseteq Nat /\ IsFiniteSet(kept)
  BY <1>1, FS_Interval, FS_Subset
<1>3. /\ m \in Nat /\ DOMAIN order = 1 .. m
      /\ \A n \in 1 .. m : order[n] \in kept /\ Renumbered(kept, order[n]) = n
      /\ \A b \in kept : Renumbered(kept, b) \in 1 .. m /\ order[Renumbered(kept, b)] = b
  BY <1>2, AscendingFacts
<1>4. \A a, b \in kept : a < b => Renumbered(kept, a) < Renumbered(kept, b)
  BY <1>2, RenumberedFacts
<1>5. left = [n \in 1 .. m |-> list[order[n]]]
  BY <1>3 DEF EntriesAt
<1>6. \A n \in 1 .. m : left[n] = list[order[n]] /\ left[n] \in S
  BY <1>1, <1>3, <1>5
<1>7. left = [n \in 1 .. m |-> left[n]]
  BY <1>5
<1>8. left \in Seq(S) /\ Len(left) = m
  BY <1>3, <1>6, <1>7, SequenceOf
<1>9. ASSUME NEW i \in 1 .. m, NEW j \in 1 .. m, i < j PROVE order[i] < order[j]
  <2>1. PICK a, b : a = order[i] /\ b = order[j]
    OBVIOUS
  <2>2. a \in kept /\ b \in kept /\ Renumbered(kept, a) = i /\ Renumbered(kept, b) = j
    BY <1>3, <2>1
  <2>3. a \in Nat /\ b \in Nat
    BY <1>2, <2>2
  <2>4. ~(b < a)
    <3>1. SUFFICES ASSUME b < a PROVE FALSE
      OBVIOUS
    <3>2. Renumbered(kept, b) < Renumbered(kept, a)
      BY <1>4, <2>2, <3>1
    <3>3. j < i
      BY <2>2, <3>2
    <3> QED BY <1>3, <1>9, <3>3
  <2>5. a # b
    BY <1>3, <1>9, <2>2, SMTT(30)
  <2> QED BY <2>1, <2>3, <2>4, <2>5
<1> QED BY <1>3, <1>5, <1>6, <1>8, <1>9

-----------------------------------------------------------------------------
(***************************************************************************)
(* Definitions that go: what is left of a block, and where its phis are.   *)
(***************************************************************************)
IsThinnedBlock(is, was, dead, kept) ==
    /\ is.preds = was.preds /\ is.term = was.term
    /\ is.phis = EntriesAt(was.phis, Outside(was.phis, dead))
    /\ is.insts = EntriesAt(was.insts, kept)

\* The blocks up to n are done.
IsThinned(g, f, dead, kept, n) ==
    /\ IsFunction(g) /\ BlockIds(g) = BlockIds(f)
    /\ \A b \in BlockIds(f) :
          IF b <= n THEN IsThinnedBlock(g.blocks[b], f.blocks[b], dead, kept[b])
          ELSE g.blocks[b] = f.blocks[b]
    /\ \A b \in BlockIds(f) : b <= n =>
          \A p \in DOMAIN g.blocks[b].phis : g.site[g.blocks[b].phis[p].dest] = <<b, p>>
    /\ \A v \in Values : PhiSites(f, v) = {} => g.site[v] = f.site[v]

DefineApart(phis) == \A p, q \in DOMAIN phis : phis[p].dest = phis[q].dest => p = q

\* From h to g one block is done.
ThinsBlock(g, h, b, dead, kept) ==
    /\ IsFunction(g) /\ BlockIds(g) = BlockIds(h)
    /\ IsThinnedBlock(g.blocks[b], h.blocks[b], dead, kept)
    /\ \A c \in BlockIds(h) : c # b => g.blocks[c] = h.blocks[c]
    /\ \A p \in DOMAIN g.blocks[b].phis : g.site[g.blocks[b].phis[p].dest] = <<b, p>>
    /\ \A v \in Values : (\A p \in DOMAIN h.blocks[b].phis : h.blocks[b].phis[p].dest # v)
                         => g.site[v] = h.site[v]

LEMMA ThinBlockIs ==
    ASSUME NEW h, IsFunction(h), NEW b \in BlockIds(h), NEW dead,
           NEW K, K \subseteq DOMAIN h.blocks[b].insts, DefineApart(h.blocks[b].phis),
           NEW g, g = RetainInsts(RetainPhis(h, b, dead), b, K)
    PROVE  ThinsBlock(g, h, b, dead, K)
<1> DEFINE PhiSet == [dest : Values, args : Seq(Operands)]
           InstSet == [dest : Values \cup {NoValue}, op : PureOps \cup EffectOps, args :
                 Seq(Operands)]
<1>1. PICK was, phis, insts, keptPhis :
         /\ was = h.blocks[b] /\ phis = EntriesAt(was.phis, keptPhis)
         /\ insts = EntriesAt(was.insts, K) /\ keptPhis = Outside(was.phis, dead)
  OBVIOUS
<1>2. was \in BlocksAmong(BlockIds(h)) /\ was.phis \in Seq(PhiSet) /\ was.insts \in Seq(InstSet)
      /\ K \in SUBSET DOMAIN was.insts /\ keptPhis \in SUBSET DOMAIN was.phis
  BY <1>1, ShapeOf, PartTypes DEF Outside
<1>3. PICK m, order :
         /\ m \in Nat
         /\ phis \in Seq(PhiSet) /\ DOMAIN phis = 1 .. m
         /\ \A p \in 1 .. m : order[p] \in keptPhis /\ phis[p] = was.phis[order[p]]
         /\ \A i, j \in 1 .. m : i < j => order[i] < order[j]
  <2>1. PICK S, list, order, m :
           S = PhiSet /\ list = was.phis /\ order = Ascending(keptPhis) /\ m = Cardinality(keptPhis)
    OBVIOUS
  <2> HIDE DEF PhiSet, InstSet
  <2>2. list \in Seq(S) /\ keptPhis \in SUBSET DOMAIN list /\ phis = EntriesAt(list, keptPhis)
    BY <1>1, <1>2, <2>1
  <2>3. /\ m \in Nat /\ phis \in Seq(S) /\ DOMAIN phis = 1 .. m
        /\ \A n \in 1 .. m : order[n] \in keptPhis /\ phis[n] = list[order[n]]
        /\ \A i, j \in 1 .. m : i < j => order[i] < order[j]
    BY <2>1, <2>2, EntriesFacts
  <2> QED BY <2>1, <2>3
<1>30. PICK l, at : l = Cardinality(K) /\ at = Ascending(K)
  OBVIOUS
<1>4. /\ l \in Nat /\ insts \in Seq(InstSet) /\ DOMAIN insts = 1 .. l
      /\ \A i \in 1 .. l : at[i] \in K /\ insts[i] = was.insts[at[i]]
  <2>1. PICK S, list : S = InstSet /\ list = was.insts
    OBVIOUS
  <2> HIDE DEF PhiSet, InstSet
  <2>2. list \in Seq(S) /\ K \in SUBSET DOMAIN list /\ insts = EntriesAt(list, K)
    BY <1>1, <1>2, <2>1
  <2>3. /\ l \in Nat /\ insts \in Seq(S) /\ DOMAIN insts = 1 .. l
        /\ \A n \in 1 .. l : at[n] \in K /\ insts[n] = list[at[n]]
    BY <1>30, <2>2, EntriesFacts
  <2> QED BY <2>1, <2>3
<1>5. PICK new : new = [was EXCEPT !.phis = phis, !.insts = insts]
  OBVIOUS
<1>6. /\ new \in BlocksAmong(BlockIds(h))
      /\ new.preds = was.preds /\ new.term = was.term /\ new.phis = phis /\ new.insts = insts
  <2>1. PICK P, I, T, Q : P = Seq(PhiSet) /\ I = Seq(InstSet) /\ Q = Seq(BlockIds(h))
           /\ T = [kind : {"jump", "branch", "return"}, to : Seq(BlockIds(h)), args : Seq(Operands)]
    OBVIOUS
  <2>2. BlocksAmong(BlockIds(h)) = [preds : Q, phis : P, insts : I, term : T]
    BY <2>1 DEF BlocksAmong
  <2>3. was \in [preds : Q, phis : P, insts : I, term : T] /\ phis \in P /\ insts \in I
    BY <1>2, <1>3, <1>4, <2>1, <2>2
  <2>4. new \in [preds : Q, phis : P, insts : I, term : T]
        /\ new.preds = was.preds /\ new.term = was.term /\ new.phis = phis /\ new.insts = insts
    BY <1>5, <2>3
  <2> QED BY <2>2, <2>4
<1> DEFINE At(v) == {p \in DOMAIN phis : phis[p].dest = v}
           Dropped(v) == \E phi \in {phi \in ToSet(was.phis) : phi.dest \in dead} : phi.dest = v
<1>7. PICK site : site = [v \in Values |-> CASE At(v) # {} -> <<b, Max(At(v))>>
                                             [] At(v) = {} /\ Dropped(v) -> Removed
                                             [] OTHER -> h.site[v]]
  OBVIOUS
<1>8. PICK B, D : B = BlocksAmong(BlockIds(h)) /\ D = [Values -> Nat \X Nat]
  OBVIOUS
<1>9. h \in [blocks : Seq(B), site : D]
  BY <1>8 DEF IsFunction
<1>10. h.blocks \in Seq(B) /\ h.site \in D /\ DOMAIN h.site = Values
  BY <1>8, <1>9
<1>11. PICK n \in Nat : BlockIds(h) = 1 .. n /\ DOMAIN h.blocks = 1 .. n /\ 1 \in 1 .. n
  BY BlockTypes DEF BlockIds
<1>12. PICK blocks : blocks = [h.blocks EXCEPT ![b] = new]
  OBVIOUS
<1>13. g.blocks = blocks /\ g.site = site
  <2>1. PICK mid : mid = RetainPhis(h, b, dead)
    OBVIOUS
  <2>2. mid = [h EXCEPT !.blocks[b].phis = phis, !.site = site]
    <3>1. PhisOutside(h, b, dead) = phis
      BY <1>1 DEF PhisOutside
    <3>2. mid = [h EXCEPT !.blocks[b].phis = phis,
                          !.site = [v \in Values |-> CASE At(v) # {} -> <<b, Max(At(v))>>
                                             [] At(v) = {} /\ Dropped(v) -> Removed
                                             [] OTHER -> h.site[v]]]
      BY <1>1, <1>10, <2>1, <3>1, Zenon DEF RetainPhis
    <3> QED BY <1>7, <3>2, Zenon
  <2>3. PICK mids : mids = [h.blocks EXCEPT ![b] = [was EXCEPT !.phis = phis]]
    OBVIOUS
  <2>4. mid.blocks = mids /\ mid.site = site /\ mid = [h EXCEPT !.blocks = mids, !.site = site]
    <3> HIDE DEF At, Dropped
    <3> QED BY <1>1, <1>9, <2>2, <2>3
  <2>5. mids[b] = [was EXCEPT !.phis = phis] /\ mids[b].insts = was.insts
    BY <1>2, <1>11, <2>3 DEF BlocksAmong
  <2>6. g = [mid EXCEPT !.blocks[b].insts = EntriesAt(@, K)]
    BY <2>1 DEF RetainInsts
  <2>7. g = [mid EXCEPT !.blocks = [mids EXCEPT ![b] = [mids[b] EXCEPT !.insts = insts]]]
    BY <1>1, <2>4, <2>5, <2>6
  <2>8. [mids[b] EXCEPT !.insts = insts] = new
    BY <1>2, <1>5, <2>5 DEF BlocksAmong
  <2>9. [mids EXCEPT ![b] = new] = blocks
    BY <1>11, <1>12, <2>3
  <2>10. g = [mid EXCEPT !.blocks = blocks]
    BY <2>7, <2>8, <2>9
  <2> QED BY <1>9, <2>4, <2>10
<1>14. \A p, q \in 1 .. m : phis[p].dest = phis[q].dest => p = q
  <2>1. SUFFICES ASSUME NEW p \in 1 .. m, NEW q \in 1 .. m, phis[p].dest = phis[q].dest, p # q
                 PROVE  FALSE
    OBVIOUS
  <2>2. order[p] \in keptPhis /\ order[q] \in keptPhis
        /\ was.phis[order[p]].dest = was.phis[order[q]].dest
    BY <1>3, <2>1
  <2>3. order[p] = order[q]
    BY <1>1, <1>2, <2>2 DEF DefineApart
  <2>4. order[p] \in Int
    <3>1. PICK len \in Nat : DOMAIN was.phis = 1 .. len
      BY <1>1, PhiTypes
    <3> QED BY <1>2, <2>2, <3>1
  <2>5. ~(p < q) /\ ~(q < p)
    BY <1>3, <2>3, <2>4
  <2> QED BY <2>1, <2>5
<1>15. ASSUME NEW p \in 1 .. m PROVE phis[p].dest \in Values /\ At(phis[p].dest) = {p}
  <2>1. phis[p].dest \in Values
    <3>1. phis[p] \in PhiSet
      <4> HIDE DEF PhiSet
      <4> QED BY <1>3, LengthFacts
    <3> QED BY <3>1
  <2> QED BY <1>3, <1>14, <2>1
<1>16. ASSUME NEW p \in 1 .. m PROVE site[phis[p].dest] = <<b, p>>
  <2>1. PICK v : v = phis[p].dest
    OBVIOUS
  <2>2. v \in Values /\ At(v) = {p} /\ At(v) # {}
    BY <1>15, <2>1
  <2>3. site[v] = <<b, Max(At(v))>>
    <3> HIDE DEF At, Dropped
    <3> QED BY <1>7, <2>2
  <2>4. Max({p}) = p
    BY DEF Max
  <2> QED BY <2>1, <2>2, <2>3, <2>4
<1>17. ASSUME NEW v \in Values, \A p \in DOMAIN was.phis : was.phis[p].dest # v
       PROVE  site[v] = h.site[v]
  <2>1. At(v) = {}
    <3>1. ASSUME NEW p \in 1 .. m PROVE phis[p].dest # v
      <4>1. order[p] \in DOMAIN was.phis /\ phis[p] = was.phis[order[p]]
        BY <1>2, <1>3
      <4> QED BY <1>17, <4>1
    <3> QED BY <1>3, <3>1
  <2>2. ~Dropped(v)
    BY <1>17 DEF ToSet
  <2> HIDE DEF At, Dropped
  <2> QED BY <1>7, <2>1, <2>2
<1>18. site \in D
  <2>1. b \in Nat
    BY <1>11
  <2>2. ASSUME NEW v \in Values PROVE site[v] \in Nat \X Nat
    <3>1. CASE At(v) # {}
      <4>1. PICK p \in 1 .. m : phis[p].dest = v
        BY <1>3, <3>1
      <4>2. site[v] = <<b, p>>
        BY <1>16, <4>1
      <4> QED BY <2>1, <4>2
    <3>2. CASE At(v) = {} /\ Dropped(v)
      <4> HIDE DEF At, Dropped
      <4>1. site[v] = Removed
        BY <1>7, <3>2
      <4> QED BY <4>1 DEF Removed
    <3>3. CASE At(v) = {} /\ ~Dropped(v)
      <4> HIDE DEF At, Dropped
      <4>1. site[v] = h.site[v]
        BY <1>7, <3>3
      <4> QED BY <4>1, <1>8, <1>10
    <3> QED BY <3>1, <3>2, <3>3
  <2> HIDE DEF At, Dropped
  <2> QED BY <1>7, <1>8, <2>2
<1>19. blocks \in Seq(B) /\ DOMAIN blocks = 1 .. n /\ blocks[b] = new
       /\ \A c \in 1 .. n : c # b => blocks[c] = h.blocks[c]
  <2>1. DOMAIN blocks = 1 .. n /\ blocks[b] = new
        /\ \A c \in 1 .. n : c # b => blocks[c] = h.blocks[c]
    BY <1>11, <1>12
  <2>2. \A c \in 1 .. n : blocks[c] \in B
    BY <1>6, <1>8, <1>11, <2>1, BlockTypes
  <2>3. blocks = [c \in 1 .. n |-> blocks[c]]
    BY <1>11, <1>12
  <2>4. blocks \in Seq(B)
    BY <2>2, <2>3, SequenceOf
  <2> QED BY <2>1, <2>4
<1>20. g = [blocks |-> blocks, site |-> site]
  <2>1. g.blocks = blocks /\ g.site = site
    BY <1>13
  <2>2. DOMAIN g = {"blocks", "site"} /\ g = [x \in DOMAIN g |-> g[x]]
    <3>1. DOMAIN h = {"blocks", "site"}
      BY <1>9
    <3>2. PICK mid : mid = RetainPhis(h, b, dead)
      OBVIOUS
    <3>3. DOMAIN mid = DOMAIN h
      BY <3>2, Zenon DEF RetainPhis
    <3>4. DOMAIN g = DOMAIN h
      BY <3>2, <3>3, Zenon DEF RetainInsts
    <3>5. g = [x \in DOMAIN g |-> g[x]]
      BY <3>2 DEF RetainInsts
    <3> QED BY <3>1, <3>4, <3>5
  <2> QED BY <2>1, <2>2
<1>21. BlockIds(g) = 1 .. n /\ BlockIds(h) = 1 .. n
  BY <1>11, <1>13, <1>19 DEF BlockIds
<1>22. g \in [blocks : Seq(BlocksAmong(BlockIds(g))), site : [Values -> Nat \X Nat]]
  BY <1>8, <1>18, <1>19, <1>20, <1>21
<1>23. IsFunction(g)
  <2>1. ASSUME NEW c \in 1 .. n
        PROVE  /\ \A i \in DOMAIN blocks[c].insts : HasItsOperands(blocks[c].insts[i])
               /\ HasItsTargets(blocks[c].term)
    <3>1. CASE c # b
      BY <1>19, <1>21, <3>1, ShapeOf
    <3>2. CASE c = b
      <4>1. HasItsTargets(blocks[c].term)
        BY <1>1, <1>6, <1>19, <3>2, ShapeOf
      <4>2. ASSUME NEW i \in DOMAIN insts PROVE HasItsOperands(insts[i])
        <5>1. insts[i] = was.insts[at[i]] /\ at[i] \in DOMAIN was.insts
          BY <1>2, <1>4
        <5> QED BY <1>1, <5>1, ShapeOf
      <4> QED BY <1>6, <1>19, <3>2, <4>1, <4>2
    <3> QED BY <3>1, <3>2
  <2>2. blocks[1].phis = <<>>
    <3>1. CASE b # 1
      BY <1>11, <1>19, <3>1, ShapeOf
    <3>2. CASE b = 1
      <4>1. was.phis = <<>>
        BY <1>1, <3>2, ShapeOf
      <4>2. keptPhis = {}
        BY <1>2, <4>1
      <4>3. m = 0
        <5>1. m >= 1 => 1 \in 1 .. m
          OBVIOUS
        <5>2. m >= 1 => order[1] \in keptPhis
          BY <1>3, <5>1
        <5>3. m \in Nat /\ ~(m >= 1)
          BY <1>3, <4>2, <5>2
        <5> QED BY <5>3
      <4>4. phis = <<>>
        BY <1>3, <4>3
      <4> QED BY <1>6, <1>19, <3>2, <4>4
    <3> QED BY <3>1, <3>2
  <2> QED BY <1>11, <1>13, <1>21, <1>22, <2>1, <2>2 DEF IsFunction
<1>24. IsThinnedBlock(g.blocks[b], h.blocks[b], dead, K)
  BY <1>1, <1>6, <1>13, <1>19 DEF IsThinnedBlock
<1>25. \A p \in DOMAIN g.blocks[b].phis : g.site[g.blocks[b].phis[p].dest] = <<b, p>>
  BY <1>3, <1>6, <1>13, <1>16, <1>19
<1>26. \A v \in Values : (\A p \in DOMAIN h.blocks[b].phis : h.blocks[b].phis[p].dest # v)
                         => g.site[v] = h.site[v]
  BY <1>1, <1>13, <1>17
<1>27. \A c \in BlockIds(h) : c # b => g.blocks[c] = h.blocks[c]
  BY <1>13, <1>19, <1>21
<1> QED BY <1>21, <1>23, <1>24, <1>25, <1>26, <1>27, Zenon DEF ThinsBlock

\* All of them.
LEMMA ThinnedIs ==
    ASSUME NEW f, IsFunction(f), NEW dead, NEW kept,
           \A b \in BlockIds(f) : kept[b] \in SUBSET DOMAIN f.blocks[b].insts,
           \A v \in Values : \A s, t \in PhiSites(f, v) : s = t,
           NEW g, g = Thinned(f, dead, kept)
    PROVE  IsThinned(g, f, dead, kept, Len(f.blocks))
<1>1. PICK N \in Nat : N = Len(f.blocks) /\ BlockIds(f) = 1 .. N
  BY BlockTypes
<1>2. PICK w : /\ w[0] = f
               /\ \A n \in 1 .. N : w[n] = RetainInsts(RetainPhis(w[n - 1], n, dead), n, kept[n])
               /\ g = w[N]
  BY <1>1, ThinnedUnfolds
<1> DEFINE T == {n \in 0 .. N : IsThinned(w[n], f, dead, kept, n)}
<1>3. 0 \in T
  <2>1. IsThinned(f, f, dead, kept, 0)
    <3>1. \A b \in BlockIds(f) : ~(b <= 0)
      BY <1>1
    <3> QED BY <3>1 DEF IsThinned
  <2> QED BY <1>2, <2>1
<1>4. ASSUME NEW k \in 0 .. N - 1, k \in T PROVE k + 1 \in T
  <2>1. PICK h, b, is, K : h = w[k] /\ b = k + 1 /\ is = w[k + 1] /\ K = kept[k + 1]
    OBVIOUS
  <2>2. b \in 1 .. N /\ b \in BlockIds(f) /\ b - 1 = k /\ b \in 0 .. N
    BY <1>1, <2>1
  <2>3. IsThinned(h, f, dead, kept, k)
    BY <1>4, <2>1
  <2>4. IsFunction(h) /\ BlockIds(h) = BlockIds(f)
    BY <2>3 DEF IsThinned
  <2>5. \A c \in BlockIds(f) :
           IF c <= k THEN IsThinnedBlock(h.blocks[c], f.blocks[c], dead, kept[c])
           ELSE h.blocks[c] = f.blocks[c]
    BY <2>3, Zenon DEF IsThinned
  <2>6. \A c \in BlockIds(f) : c <= k =>
           \A p \in DOMAIN h.blocks[c].phis : h.site[h.blocks[c].phis[p].dest] = <<c, p>>
    BY <2>3 DEF IsThinned
  <2>7. \A v \in Values : PhiSites(f, v) = {} => h.site[v] = f.site[v]
    BY <2>3 DEF IsThinned
  <2>8. is = RetainInsts(RetainPhis(h, b, dead), b, K)
    BY <1>2, <2>1, <2>2
  <2>9. h.blocks[b] = f.blocks[b] /\ ~(b <= k)
    BY <2>1, <2>2, <2>5
  <2>10. K \subseteq DOMAIN h.blocks[b].insts
    BY <2>1, <2>2, <2>9
  <2>11. ASSUME NEW c \in BlockIds(f), NEW p \in DOMAIN f.blocks[c].phis
         PROVE  /\ f.blocks[c].phis[p].dest \in Values
                /\ <<c, p>> \in PhiSites(f, f.blocks[c].phis[p].dest)
    BY PhiTypes DEF PhiSites
  <2>12. DefineApart(h.blocks[b].phis)
    <3>1. SUFFICES ASSUME NEW p \in DOMAIN f.blocks[b].phis, NEW q \in DOMAIN f.blocks[b].phis,
                          f.blocks[b].phis[p].dest = f.blocks[b].phis[q].dest
                   PROVE  p = q
      BY <2>9 DEF DefineApart
    <3>2. PICK v : v = f.blocks[b].phis[p].dest
      OBVIOUS
    <3>3. v \in Values /\ <<b, p>> \in PhiSites(f, v) /\ <<b, q>> \in PhiSites(f, v)
      BY <2>2, <2>11, <3>1, <3>2
    <3>4. <<b, p>> = <<b, q>>
      BY <3>3, ZenonT(60)
    <3> QED BY <3>4
  <2>13. /\ IsFunction(is) /\ BlockIds(is) = BlockIds(h)
         /\ IsThinnedBlock(is.blocks[b], h.blocks[b], dead, K)
         /\ \A c \in BlockIds(h) : c # b => is.blocks[c] = h.blocks[c]
         /\ \A p \in DOMAIN is.blocks[b].phis : is.site[is.blocks[b].phis[p].dest] = <<b, p>>
         /\ \A v \in Values : (\A p \in DOMAIN h.blocks[b].phis : h.blocks[b].phis[p].dest # v)
                              => is.site[v] = h.site[v]
    <3>1. b \in BlockIds(h) /\ IsFunction(h)
      BY <2>2, <2>4
    <3>2. ThinsBlock(is, h, b, dead, K)
      BY <2>8, <2>10, <2>12, <3>1, ThinBlockIs
    <3> QED BY <3>2 DEF ThinsBlock
  <2>14. ASSUME NEW c \in BlockIds(f)
         PROVE  IF c <= b THEN IsThinnedBlock(is.blocks[c], f.blocks[c], dead, kept[c])
                ELSE is.blocks[c] = f.blocks[c]
    <3>1. CASE c = b
      <4>1. c <= b
        BY <2>2, <3>1, SMTT(30)
      <4>2. IsThinnedBlock(is.blocks[c], f.blocks[c], dead, kept[c])
        BY <2>1, <2>9, <2>13, <3>1, Zenon
      <4> QED BY <4>1, <4>2
    <3>2. CASE c # b
      <4>1. c \in Int /\ (c <= b <=> c <= k)
        BY <1>1, <2>1, <3>2, SMTT(30)
      <4> QED BY <2>4, <2>5, <2>13, <3>2, <4>1
    <3> QED BY <3>1, <3>2
  <2>15. ASSUME NEW c \in BlockIds(f), c <= b, NEW p \in DOMAIN is.blocks[c].phis
         PROVE  is.site[is.blocks[c].phis[p].dest] = <<c, p>>
    <3>1. CASE c = b
      BY <2>13, <3>1, SMTT(30)
    <3>2. CASE c # b
      <4>1. c <= k
        BY <1>1, <2>1, <2>15, <3>2
      <4>2. PICK v : v = is.blocks[c].phis[p].dest
        BY SMTT(30)
      <4>3. is.blocks[c] = h.blocks[c] /\ h.site[v] = <<c, p>> /\ v \in Values
        <5>1. is.blocks[c] = h.blocks[c]
          BY <2>4, <2>13, <3>2
        <5>2. p \in DOMAIN h.blocks[c].phis /\ v = h.blocks[c].phis[p].dest /\ c \in BlockIds(h)
          BY <2>4, <2>15, <4>2, <5>1
        <5>3. v \in Values
          BY <2>4, <5>2, PhiTypes
        <5> QED BY <2>6, <4>1, <5>1, <5>2, <5>3, Zenon
      <4>4. PICK q \in DOMAIN f.blocks[c].phis : f.blocks[c].phis[q].dest = v
        <5>1. h.blocks[c].phis = EntriesAt(f.blocks[c].phis, Outside(f.blocks[c].phis, dead))
          BY <2>5, <4>1 DEF IsThinnedBlock
        <5>2. PICK S, list, away : S = [dest : Values, args : Seq(Operands)]
                 /\ list = f.blocks[c].phis /\ away = Outside(list, dead)
          OBVIOUS
        <5>3. list \in Seq(S) /\ away \in SUBSET DOMAIN list
          BY <5>2, PartTypes DEF Outside
        <5>4. PICK order, m, left : order = Ascending(away) /\ m = Cardinality(away) /\ left = EntriesAt(list, away)
          OBVIOUS
        <5>5. DOMAIN left = 1 .. m /\ \A n \in 1 .. m :
                    order[n] \in away /\ left[n] = list[order[n]]
          BY <5>3, <5>4, EntriesFacts
        <5>6. left = h.blocks[c].phis
          BY <5>1, <5>2, <5>4, Zenon
        <5>7. p \in 1 .. m /\ left[p].dest = v
          BY <4>2, <4>3, <5>5, <5>6, Zenon
        <5>8. order[p] \in DOMAIN list /\ list[order[p]].dest = v
          BY <5>3, <5>5, <5>7
        <5> QED BY <5>2, <5>8
      <4>5. \A r \in DOMAIN f.blocks[b].phis : f.blocks[b].phis[r].dest # v
        <5>1. SUFFICES ASSUME NEW r \in DOMAIN f.blocks[b].phis, f.blocks[b].phis[r].dest = v
                       PROVE  FALSE
          OBVIOUS
        <5>2. <<b, r>> \in PhiSites(f, v) /\ <<c, q>> \in PhiSites(f, v)
          BY <2>2, <2>11, <4>4, <5>1
        <5>3. <<b, r>> = <<c, q>>
          BY <4>3, <5>2, Zenon
        <5> QED BY <3>2, <5>3
      <4>6. is.site[v] = h.site[v]
        BY <2>9, <2>13, <4>3, <4>5
      <4> QED BY <4>2, <4>3, <4>6, Zenon
    <3> QED BY <3>1, <3>2, Zenon
  <2>16. ASSUME NEW v \in Values, PhiSites(f, v) = {} PROVE is.site[v] = f.site[v]
    <3>1. \A r \in DOMAIN f.blocks[b].phis : f.blocks[b].phis[r].dest # v
      BY <2>2, <2>11, <2>16
    <3>2. is.site[v] = h.site[v]
      BY <2>9, <2>13, <3>1
    <3> QED BY <2>7, <2>16, <3>2
  <2>17. IsThinned(is, f, dead, kept, b)
    BY <2>4, <2>13, <2>14, <2>15, <2>16, Zenon DEF IsThinned
  <2> QED BY <2>1, <2>2, <2>17
<1>5. \A k \in 0 .. N : k \in T
  <2>1. \A k \in 0 .. N - 1 : k \in T => k + 1 \in T
    BY <1>4
  <2> HIDE DEF T
  <2> QED BY <1>3, <2>1, UpToBound
<1>6. N \in T
  BY <1>5
<1> QED BY <1>1, <1>2, <1>6

(***************************************************************************)
(* What stays in g, and where it was in f: the phis of no dead value, and  *)
(* in every block b the instructions at[b][1], at[b][2], and so on.        *)
(***************************************************************************)
BlockStays(is, was, dead, kept, at) ==
    /\ is.preds = was.preds /\ is.term = was.term
    /\ \A p \in DOMAIN is.phis : \E q \in DOMAIN was.phis :
          was.phis[q].dest \notin dead /\ is.phis[p] = was.phis[q]
    /\ \A q \in DOMAIN was.phis : was.phis[q].dest \notin dead =>
          \E p \in DOMAIN is.phis : is.phis[p] = was.phis[q]
    /\ \A i \in DOMAIN is.insts :
          at[i] \in kept /\ at[i] \in DOMAIN was.insts /\ is.insts[i] = was.insts[at[i]]
    /\ \A k \in kept : \E i \in DOMAIN is.insts : at[i] = k
    /\ \A i, j \in DOMAIN is.insts : i < j => at[i] < at[j]

Stays(g, f, dead, kept, at, b) ==
    /\ BlockStays(g.blocks[b], f.blocks[b], dead, kept[b], at[b])
    /\ \A p \in DOMAIN g.blocks[b].phis : g.site[g.blocks[b].phis[p].dest] = <<b, p>>

LEMMA ThinnedStays ==
    ASSUME NEW f, IsFunction(f), NEW dead, NEW kept,
           \A b \in BlockIds(f) : kept[b] \in SUBSET DOMAIN f.blocks[b].insts,
           \A v \in Values : \A s, t \in PhiSites(f, v) : s = t,
           NEW g, g = Thinned(f, dead, kept)
    PROVE  /\ IsFunction(g) /\ BlockIds(g) = BlockIds(f)
           /\ \A v \in Values : PhiSites(f, v) = {} => g.site[v] = f.site[v]
           /\ \E at : \A b \in BlockIds(f) : Stays(g, f, dead, kept, at, b)
<1>1. IsThinned(g, f, dead, kept, Len(f.blocks))
  BY ThinnedIs
<1>2. PICK N \in Nat : N = Len(f.blocks) /\ BlockIds(f) = 1 .. N
  BY BlockTypes
<1>3. /\ IsFunction(g) /\ BlockIds(g) = BlockIds(f)
      /\ \A v \in Values : PhiSites(f, v) = {} => g.site[v] = f.site[v]
  BY <1>1, Zenon DEF IsThinned
<1>4. ASSUME NEW b \in BlockIds(f)
      PROVE  /\ IsThinnedBlock(g.blocks[b], f.blocks[b], dead, kept[b])
             /\ \A p \in DOMAIN g.blocks[b].phis : g.site[g.blocks[b].phis[p].dest] = <<b, p>>
  <2>1. b <= Len(f.blocks)
    BY <1>2
  <2> QED BY <1>1, <2>1 DEF IsThinned
<1>5. PICK at : at = [b \in BlockIds(f) |-> Ascending(kept[b])]
  BY Zenon
<1>6. ASSUME NEW b \in BlockIds(f) PROVE Stays(g, f, dead, kept, at, b)
  <2>1. PICK was, is, K, away, first, ord, m, l :
           /\ was = f.blocks[b] /\ is = g.blocks[b] /\ K = kept[b] /\ away = Outside(was.phis, dead)
           /\ first = Ascending(away) /\ m = Cardinality(away) /\ ord = at[b] /\ l = Cardinality(K)
    BY SMTT(30)
  <2>2. /\ is.preds = was.preds /\ is.term = was.term
        /\ is.phis = EntriesAt(was.phis, away) /\ is.insts = EntriesAt(was.insts, K)
        /\ ord = Ascending(K) /\ K \in SUBSET DOMAIN was.insts /\ away \in SUBSET DOMAIN was.phis
    BY <1>4, <1>5, <2>1, Zenon DEF IsThinnedBlock, Outside
  <2>3. PICK S : was.phis \in Seq(S)
    BY <2>1, PartTypes
  <2>4. PICK I : was.insts \in Seq(I)
    BY <2>1, PartTypes
  <2>5. PICK phis, insts : phis = was.phis /\ insts = was.insts
    OBVIOUS
  <2>6. PICK left, stay : left = is.phis /\ stay = is.insts
    OBVIOUS
  <2>16. phis \in Seq(S) /\ away \in SUBSET DOMAIN phis /\ left = EntriesAt(phis, away)
    BY <2>2, <2>3, <2>5, <2>6
  <2>17. insts \in Seq(I) /\ K \in SUBSET DOMAIN insts /\ stay = EntriesAt(insts, K)
    BY <2>2, <2>4, <2>5, <2>6
  <2>18. first = Ascending(away) /\ m = Cardinality(away)
    BY <2>1
  <2>19. ord = Ascending(K) /\ l = Cardinality(K)
    BY <2>1, <2>2
  <2>7. /\ DOMAIN left = 1 .. m
        /\ \A n \in 1 .. m : first[n] \in away /\ left[n] = phis[first[n]]
        /\ \A k \in away : \E n \in 1 .. m : first[n] = k
    BY <2>16, <2>18, EntriesFacts
  <2>8. /\ DOMAIN stay = 1 .. l
        /\ \A n \in 1 .. l : ord[n] \in K /\ stay[n] = insts[ord[n]]
        /\ \A k \in K : \E n \in 1 .. l : ord[n] = k
        /\ \A i, j \in 1 .. l : i < j => ord[i] < ord[j]
    BY <2>17, <2>19, EntriesFacts
  <2>9. \A p \in DOMAIN is.phis : \E q \in DOMAIN was.phis :
           was.phis[q].dest \notin dead /\ is.phis[p] = was.phis[q]
    <3>1. ASSUME NEW p \in DOMAIN left
          PROVE  first[p] \in DOMAIN phis /\ phis[first[p]].dest \notin dead
                                          /\ left[p] = phis[first[p]]
      BY <2>1, <2>5, <2>7, Zenon DEF Outside
    <3> QED BY <2>5, <2>6, <3>1, SMTT(30)
  <2>10. \A q \in DOMAIN was.phis : was.phis[q].dest \notin dead =>
            \E p \in DOMAIN is.phis : is.phis[p] = was.phis[q]
    <3>1. SUFFICES ASSUME NEW q \in DOMAIN was.phis, was.phis[q].dest \notin dead
                   PROVE  \E p \in DOMAIN is.phis : is.phis[p] = was.phis[q]
      OBVIOUS
    <3>2. q \in away
      BY <2>1, <3>1 DEF Outside
    <3> QED BY <2>5, <2>6, <2>7, <3>2
  <2>11. \A i \in DOMAIN is.insts : /\ ord[i] \in K /\ ord[i] \in DOMAIN was.insts
                                    /\ is.insts[i] = was.insts[ord[i]]
    <3>1. SUFFICES ASSUME NEW i \in DOMAIN stay
                   PROVE  ord[i] \in K /\ ord[i] \in DOMAIN insts /\ stay[i] = insts[ord[i]]
      BY <2>5, <2>6
    <3>2. ord[i] \in K /\ stay[i] = insts[ord[i]]
      BY <2>8
    <3>3. K \in SUBSET DOMAIN insts
      BY <2>2, <2>5
    <3> QED BY <3>2, <3>3
  <2>12. \A k \in K : \E i \in DOMAIN is.insts : ord[i] = k
    BY <2>6, <2>8
  <2>13. \A i, j \in DOMAIN is.insts : i < j => ord[i] < ord[j]
    BY <2>6, <2>8, SMTT(30)
  <2>14. \A p \in DOMAIN is.phis : g.site[is.phis[p].dest] = <<b, p>>
    BY <1>4, <2>1, Zenon
  <2>15. BlockStays(is, was, dead, K, ord)
    BY <2>2, <2>9, <2>10, <2>11, <2>12, <2>13 DEF BlockStays
  <2> QED BY <2>1, <2>14, <2>15, Zenon DEF Stays
<1>7. \A b \in BlockIds(f) : Stays(g, f, dead, kept, at, b)
  BY <1>6
<1> QED BY <1>3, <1>7, Zenon

\* Whether v is still defined: where it was, it stays.
StillDefined(f, dead, kept, v) ==
    \A d \in Definitions(f, v) : IF d[2] = 0 THEN v \notin dead ELSE d[2] \in kept[d[1]]

\* What stays reads what is still defined.
ReadsWhatStays(f, dead, kept) ==
    \A b \in BlockIds(f) :
       /\ \A p \in DOMAIN f.blocks[b].phis : f.blocks[b].phis[p].dest \notin dead =>
             \A v \in ValuesRead(f.blocks[b].phis[p].args) : StillDefined(f, dead, kept, v)
       /\ \A i \in kept[b] : \A v \in ValuesRead(f.blocks[b].insts[i].args) :
                StillDefined(f, dead, kept, v)
       /\ \A v \in ValuesRead(f.blocks[b].term.args) : StillDefined(f, dead, kept, v)

\* Where a definition of g was in f, and that what is still defined has one.
LEMMA StayingDefinitions ==
    ASSUME NEW f, IsFunction(f), NEW g, IsFunction(g), BlockIds(g) = BlockIds(f), NEW dead,
           NEW kept, NEW at,
           \A b \in BlockIds(f) : Stays(g, f, dead, kept, at, b), NEW v
    PROVE  /\ \A s \in PhiSites(g, v) : g.site[v] = s /\ <<s[1], 0>> \in Definitions(f, v)
           /\ \A s \in InstSites(g, v) : /\ s[1] \in BlockIds(f) /\ s[2] \in DOMAIN g.blocks[s[1]].insts
                                         /\ <<s[1], at[s[1]][s[2]]>> \in InstSites(f, v)
           /\ Definitions(f, v) # {} /\ StillDefined(f, dead, kept, v) => Definitions(g, v) # {}
<1>1. ASSUME NEW s \in PhiSites(g, v)
      PROVE  g.site[v] = s /\ <<s[1], 0>> \in Definitions(f, v)
  <2>1. PICK b \in BlockIds(f) : \E p \in DOMAIN g.blocks[b].phis :
                   s = <<b, p>> /\ g.blocks[b].phis[p].dest = v
    BY <1>1 DEF PhiSites
  <2>2. PICK p \in DOMAIN g.blocks[b].phis : s = <<b, p>> /\ g.blocks[b].phis[p].dest = v
    BY <2>1, Zenon
  <2>3. PICK q \in DOMAIN f.blocks[b].phis : g.blocks[b].phis[p] = f.blocks[b].phis[q]
    BY ZenonT(60) DEF Stays, BlockStays
  <2>4. g.site[v] = <<b, p>>
    BY <2>2 DEF Stays, BlockStays
  <2>5. <<b, 0>> \in Definitions(f, v)
    BY <2>2, <2>3, DefinitionFacts
  <2> QED BY <2>2, <2>4, <2>5
<1>2. ASSUME NEW s \in InstSites(g, v)
      PROVE  /\ s[1] \in BlockIds(f) /\ s[2] \in DOMAIN g.blocks[s[1]].insts
             /\ <<s[1], at[s[1]][s[2]]>> \in InstSites(f, v)
  <2>1. PICK b \in BlockIds(f) : \E i \in DOMAIN g.blocks[b].insts :
                   s = <<b, i>> /\ g.blocks[b].insts[i].dest = v
    BY <1>2 DEF InstSites
  <2>2. PICK i \in DOMAIN g.blocks[b].insts : s = <<b, i>> /\ g.blocks[b].insts[i].dest = v
    BY <2>1
  <2>3. at[b][i] \in DOMAIN f.blocks[b].insts /\ g.blocks[b].insts[i] = f.blocks[b].insts[at[b][i]]
    BY DEF Stays, BlockStays
  <2>4. <<b, at[b][i]>> \in InstSites(f, v)
    BY <2>2, <2>3 DEF InstSites
  <2> QED BY <2>2, <2>4
<1>3. ASSUME Definitions(f, v) # {}, StillDefined(f, dead, kept, v) PROVE Definitions(g, v) # {}
  <2>1. PICK d \in Definitions(f, v) : TRUE
    BY <1>3
  <2>2. PICK b \in BlockIds(f) : d[1] = b
    BY DefinitionFacts
  <2>3. CASE d[2] = 0
    <3>1. v \notin dead
      BY <1>3, <2>3 DEF StillDefined
    <3>2. 0 \notin DOMAIN f.blocks[b].insts
      <4>1. PICK n \in Nat : DOMAIN f.blocks[b].insts = 1 .. n
        BY InstTypes
      <4> QED BY <4>1
    <3>3. PICK q \in DOMAIN f.blocks[b].phis : f.blocks[b].phis[q].dest = v
      BY <2>2, <2>3, <3>2, DefinitionFacts, SMTT(30)
    <3>4. PICK p \in DOMAIN g.blocks[b].phis : g.blocks[b].phis[p] = f.blocks[b].phis[q]
      BY <3>1, <3>3 DEF Stays, BlockStays
    <3>5. b \in BlockIds(g) /\ g.blocks[b].phis[p].dest = v
      BY <3>3, <3>4
    <3> QED BY <3>5, DefinitionFacts
  <2>4. CASE d[2] # 0
    <3>1. d[2] \in kept[b] /\ d[2] \in DOMAIN f.blocks[b].insts /\ f.blocks[b].insts[d[2]].dest = v
      BY <1>3, <2>2, <2>4, DefinitionFacts DEF StillDefined
    <3>2. PICK i \in DOMAIN g.blocks[b].insts : at[b][i] = d[2]
      BY <3>1 DEF Stays, BlockStays
    <3>3. b \in BlockIds(g) /\ g.blocks[b].insts[i].dest = v
      BY <3>1, <3>2, SMTT(30) DEF Stays, BlockStays
    <3> QED BY <3>3, DefinitionFacts
  <2> QED BY <2>3, <2>4
<1> QED BY <1>1, <1>2, <1>3

LEMMA StayingPhi ==
    ASSUME NEW f, IsFunction(f), NEW g, IsFunction(g), BlockIds(g) = BlockIds(f), NEW dead,
           NEW kept, NEW at,
           \A b \in BlockIds(f) : Stays(g, f, dead, kept, at, b), NEW v, NEW s \in PhiSites(g, v)
    PROVE  g.site[v] = s /\ <<s[1], 0>> \in Definitions(f, v)
  BY StayingDefinitions

LEMMA SitesAreDefinitions ==
    ASSUME NEW f, NEW v
    PROVE  /\ \A s \in PhiSites(f, v) : <<s[1], 0>> \in Definitions(f, v)
           /\ \A b, q : <<b, q>> \in PhiSites(f, v) => <<b, 0>> \in Definitions(f, v)
           /\ InstSites(f, v) \subseteq Definitions(f, v)
<1>1. \A s \in PhiSites(f, v) : <<s[1], 0>> \in Definitions(f, v)
  BY DEF Definitions
<1>2. ASSUME NEW b, NEW q, <<b, q>> \in PhiSites(f, v) PROVE <<b, 0>> \in Definitions(f, v)
  <2>1. PICK s : s = <<b, q>>
    OBVIOUS
  <2>2. s \in PhiSites(f, v) /\ s[1] = b
    BY <1>2, <2>1
  <2> QED BY <1>1, <2>2
<1> QED BY <1>1, <1>2 DEF Definitions

LEMMA DefinedBeforeWhatStays ==
    ASSUME NEW f, IsFunction(f), NEW g, IsFunction(g), SameEdges(g, f), NEW dead, NEW kept, NEW at,
           \A b \in BlockIds(f) : Stays(g, f, dead, kept, at, b),
           NEW b \in BlockIds(f), NEW v, NEW position, DefinedBefore(f, v, b, position),
           NEW n \in Nat, 0 < n,
           \A i \in DOMAIN g.blocks[b].insts : at[b][i] < position => i < n
    PROVE  DefinedBefore(g, v, b, n)
<1>1. BlockIds(g) = BlockIds(f) /\ \A a, c : Dominates(g, a, c) <=> Dominates(f, a, c)
  BY SameWays DEF SameEdges
<1>2. SUFFICES ASSUME NEW d \in Definitions(g, v)
               PROVE  IF d[1] = b THEN d[2] < n ELSE Dominates(f, d[1], b)
  BY <1>1 DEF DefinedBefore
<1>3. \A e \in Definitions(f, v) : IF e[1] = b THEN e[2] < position ELSE Dominates(f, e[1], b)
  BY DEF DefinedBefore
<1>4. CASE \E s \in PhiSites(g, v) : d = <<s[1], 0>>
  <2>1. PICK s \in PhiSites(g, v) : d = <<s[1], 0>>
    BY <1>4
  <2>3. <<s[1], 0>> \in Definitions(f, v)
    BY <1>1, <2>1, StayingPhi
  <2> QED BY <1>3, <2>1, <2>3
<1>5. CASE d \in InstSites(g, v)
  <2>1. d[2] \in DOMAIN g.blocks[d[1]].insts /\ <<d[1], at[d[1]][d[2]]>> \in InstSites(f, v)
    BY <1>1, <1>5, StayingDefinitions
  <2>2. <<d[1], at[d[1]][d[2]]>> \in Definitions(f, v)
    BY <2>1 DEF Definitions
  <2> QED BY <1>3, <2>1, <2>2
<1> QED BY <1>4, <1>5 DEF Definitions

\* What is left of a function is one.
LEMMA ThinningIsWellFormed ==
    ASSUME NEW f, IsFunction(f), WellFormed(f), NEW dead, NEW kept,
           \A b \in BlockIds(f) : kept[b] \in SUBSET DOMAIN f.blocks[b].insts,
           ReadsWhatStays(f, dead, kept),
           NEW g, g = Thinned(f, dead, kept)
    PROVE  IsFunction(g) /\ WellFormed(g)
<1>1. AllReachable(f) /\ EdgesAgree(f) /\ DefinedOnce(f) /\ NoCriticalEdge(f) /\ ParametersFirst(f)
      /\ UsesDominated(f) /\ PhiArgumentsDominated(f)
  BY DEF WellFormed
<1>2. \A v \in Values : \A s, t \in PhiSites(f, v) : s = t
  BY <1>1, Zenon DEF DefinedOnce
<1>3. IsFunction(g) /\ BlockIds(g) = BlockIds(f)
      /\ \A v \in Values : PhiSites(f, v) = {} => g.site[v] = f.site[v]
  <2>1. IsThinned(g, f, dead, kept, Len(f.blocks))
    BY <1>2, ThinnedIs
  <2> QED BY <2>1 DEF IsThinned
<1>4. PICK at : \A b \in BlockIds(f) : Stays(g, f, dead, kept, at, b)
  BY <1>2, ThinnedStays
<1>5. ASSUME NEW b \in BlockIds(f)
      PROVE  /\ g.blocks[b].preds = f.blocks[b].preds /\ g.blocks[b].term = f.blocks[b].term
             /\ Successors(g, b) = Successors(f, b)
  BY <1>4 DEF Stays, BlockStays, Successors
<1>6. SameEdges(g, f)
  BY <1>3, <1>5 DEF SameEdges
<1>7. AllReachable(g) /\ NoCriticalEdge(g) /\ \A a, b : Dominates(g, a, b) <=> Dominates(f, a, b)
  BY <1>1, <1>3, <1>6, SameWays, Zenon
<1>8. ASSUME NEW b \in BlockIds(f), NEW p \in DOMAIN g.blocks[b].phis
      PROVE  \E q \in DOMAIN f.blocks[b].phis :
                f.blocks[b].phis[q].dest \notin dead /\ g.blocks[b].phis[p] = f.blocks[b].phis[q]
  BY <1>4, Zenon DEF Stays, BlockStays
<1>9. ASSUME NEW b \in BlockIds(f)
      PROVE  \A i \in DOMAIN g.blocks[b].insts :
                /\ at[b][i] \in kept[b] /\ at[b][i] \in DOMAIN f.blocks[b].insts
                /\ g.blocks[b].insts[i] = f.blocks[b].insts[at[b][i]]
  BY <1>4 DEF Stays, BlockStays
<1>10. ASSUME NEW b \in BlockIds(f)
       PROVE  \A i, j \in DOMAIN g.blocks[b].insts : at[b][i] < at[b][j] => i < j
  <2>1. PICK m, n \in Nat : DOMAIN g.blocks[b].insts = 1 .. n /\ DOMAIN f.blocks[b].insts = 1 .. m
    BY <1>3, InstTypes
  <2>2. PICK t : t = at[b]
    OBVIOUS
  <2>3. ASSUME NEW i \in DOMAIN g.blocks[b].insts, NEW j \in DOMAIN g.blocks[b].insts, t[i] < t[j]
        PROVE  i < j
    <3>1. t[i] \in Int /\ t[j] \in Int /\ i \in Int /\ j \in Int
      BY <1>9, <2>1, <2>2, SMTT(30)
    <3>2. j < i => t[j] < t[i]
      BY <1>4, <2>2 DEF Stays, BlockStays
    <3> QED BY <2>3, <3>1, <3>2
  <2> QED BY <2>2, <2>3
<1>11. EdgesAgree(g)
  <2>1. SUFFICES ASSUME NEW b \in BlockIds(f)
                 PROVE  /\ ToSet(g.blocks[b].preds) \subseteq BlockIds(f)
                        /\ \A a \in BlockIds(f) :
                              CountIn(g.blocks[b].preds, a) = CountIn(Successors(g, a), b)
                        /\ \A p \in DOMAIN g.blocks[b].phis :
                              Len(g.blocks[b].phis[p].args) = Len(g.blocks[b].preds)
    BY <1>3 DEF EdgesAgree
  <2>2. /\ ToSet(f.blocks[b].preds) \subseteq BlockIds(f)
        /\ \A a \in BlockIds(f) : CountIn(f.blocks[b].preds, a) = CountIn(Successors(f, a), b)
        /\ \A p \in DOMAIN f.blocks[b].phis :
              Len(f.blocks[b].phis[p].args) = Len(f.blocks[b].preds)
    BY <1>1 DEF EdgesAgree
  <2>3. \A p \in DOMAIN g.blocks[b].phis : Len(g.blocks[b].phis[p].args) = Len(g.blocks[b].preds)
    BY <1>5, <1>8, <2>2
  <2> QED BY <1>5, <2>2, <2>3
<1>12. ASSUME NEW v, NEW d \in Definitions(g, v)
       PROVE  /\ d[1] \in BlockIds(f)
              /\ \/ d = <<d[1], 0>> /\ d \in Definitions(f, v)
                 \/ /\ d = <<d[1], d[2]>> /\ d[2] \in DOMAIN g.blocks[d[1]].insts
                    /\ <<d[1], at[d[1]][d[2]]>> \in InstSites(f, v)
  <2>1. d[1] \in BlockIds(f) /\ d = <<d[1], d[2]>>
    BY <1>3, DefinitionFacts
  <2>2. CASE \E s \in PhiSites(g, v) : d = <<s[1], 0>>
    <3>1. PICK s \in PhiSites(g, v) : d = <<s[1], 0>>
      BY <2>2
    <3>3. d \in Definitions(f, v)
      BY <1>3, <1>4, <3>1, StayingPhi
    <3> QED BY <2>1, <3>1, <3>3
  <2>3. CASE d \in InstSites(g, v)
    BY <1>3, <1>4, <2>1, <2>3, StayingDefinitions
  <2> QED BY <2>2, <2>3 DEF Definitions
<1>13. ASSUME NEW b \in BlockIds(f), NEW v, NEW position, DefinedBefore(f, v, b, position),
              NEW n \in Nat, 0 < n, \A i \in DOMAIN g.blocks[b].insts : at[b][i] < position => i < n
       PROVE  DefinedBefore(g, v, b, n)
  BY <1>3, <1>4, <1>6, <1>13, DefinedBeforeWhatStays
<1>14. UsesDominated(g)
  <2>1. SUFFICES ASSUME NEW b \in BlockIds(f)
                 PROVE  /\ \A i \in DOMAIN g.blocks[b].insts :
                              \A v \in ValuesRead(g.blocks[b].insts[i].args) :
                                    DefinedBefore(g, v, b, i)
                        /\ \A v \in ValuesRead(g.blocks[b].term.args) :
                              DefinedBefore(g, v, b, Len(g.blocks[b].insts) + 1)
    BY <1>3 DEF UsesDominated
  <2>2. PICK n \in Nat : n = Len(g.blocks[b].insts) /\ DOMAIN g.blocks[b].insts = 1 .. n
    BY <1>3, InstTypes
  <2>3. ASSUME NEW i \in DOMAIN g.blocks[b].insts, NEW v \in ValuesRead(g.blocks[b].insts[i].args)
        PROVE  DefinedBefore(g, v, b, i)
    <3>1. PICK k : k = at[b][i]
      OBVIOUS
    <3>2. k \in DOMAIN f.blocks[b].insts /\ v \in ValuesRead(f.blocks[b].insts[k].args)
      BY <1>9, <2>3, <3>1
    <3>3. DefinedBefore(f, v, b, k)
      BY <1>1, <3>2 DEF UsesDominated
    <3>4. i \in Nat /\ 0 < i
      BY <2>2
    <3>5. \A j \in DOMAIN g.blocks[b].insts : at[b][j] < k => j < i
      BY <1>10, <3>1
    <3> QED BY <1>13, <3>3, <3>4, <3>5
  <2>4. ASSUME NEW v \in ValuesRead(g.blocks[b].term.args) PROVE DefinedBefore(g, v, b, n + 1)
    <3>1. DefinedBefore(f, v, b, Len(f.blocks[b].insts) + 1)
      BY <1>1, <1>5 DEF UsesDominated
    <3>2. n + 1 \in Nat /\ 0 < n + 1 /\ \A i \in DOMAIN g.blocks[b].insts : i < n + 1
      BY <2>2
    <3> QED BY <1>13, <3>1, <3>2
  <2> QED BY <2>2, <2>3, <2>4
<1>15. PhiArgumentsDominated(g)
  <2>1. SUFFICES ASSUME NEW b \in BlockIds(f), NEW p \in DOMAIN g.blocks[b].phis,
                        NEW k \in DOMAIN g.blocks[b].phis[p].args, NEW v \in Values,
                        v = g.blocks[b].phis[p].args[k], NEW d \in Definitions(g, v)
                 PROVE  Dominates(g, d[1], g.blocks[b].preds[k])
    BY <1>3 DEF PhiArgumentsDominated
  <2>2. PICK q \in DOMAIN f.blocks[b].phis : g.blocks[b].phis[p] = f.blocks[b].phis[q]
    BY <1>8
  <2>3. \A e \in Definitions(f, v) : Dominates(f, e[1], f.blocks[b].preds[k])
    BY <1>1, <2>1, <2>2 DEF PhiArgumentsDominated
  <2>4. \E e \in Definitions(f, v) : e[1] = d[1]
    <3>1. PICK e : e = <<d[1], at[d[1]][d[2]]>>
      OBVIOUS
    <3>2. d \in Definitions(f, v) \/ (e \in Definitions(f, v) /\ e[1] = d[1])
      BY <1>12, <3>1, SitesAreDefinitions
    <3> QED BY <3>2
  <2>5. Dominates(f, d[1], f.blocks[b].preds[k])
    BY <2>3, <2>4
  <2> QED BY <1>5, <1>7, <2>5
<1>16. ParametersFirst(g)
  <2>1. SUFFICES ASSUME NEW b \in BlockIds(f), NEW i \in DOMAIN g.blocks[b].insts,
                        g.blocks[b].insts[i].op = "param"
                 PROVE  b = 1 /\ \A j \in 1 .. i : g.blocks[b].insts[j].op = "param"
    BY <1>3 DEF ParametersFirst
  <2>2. PICK m, n \in Nat : DOMAIN g.blocks[b].insts = 1 .. n /\ DOMAIN f.blocks[b].insts = 1 .. m
    BY <1>3, InstTypes
  <2>3. PICK k : k = at[b][i]
    OBVIOUS
  <2>4. k \in DOMAIN f.blocks[b].insts /\ f.blocks[b].insts[k].op = "param"
    BY <1>9, <2>1, <2>3
  <2>5. b = 1 /\ \A j \in 1 .. k : f.blocks[b].insts[j].op = "param"
    BY <1>1, <2>4 DEF ParametersFirst
  <2>6. ASSUME NEW j \in 1 .. i PROVE g.blocks[b].insts[j].op = "param"
    <3>1. PICK l : l = at[b][j]
      OBVIOUS
    <3>2. j \in DOMAIN g.blocks[b].insts /\ i \in Int
      BY <2>2
    <3>3. l \in DOMAIN f.blocks[b].insts /\ g.blocks[b].insts[j] = f.blocks[b].insts[l]
      BY <1>9, <3>1, <3>2
    <3>4. ~(k < l)
      BY <1>10, <2>2, <2>3, <3>1, <3>2
    <3>5. l \in 1 .. k
      BY <2>2, <2>4, <3>3, <3>4
    <3> QED BY <2>5, <3>3, <3>5
  <2> QED BY <2>5, <2>6
<1>17. DefinedOnce(g)
  <2>1. ASSUME NEW b \in BlockIds(f), NEW w \in ValuesReadIn(g.blocks[b])
        PROVE  Definitions(g, w) # {}
    <3>1. w \in Values
      BY DEF ValuesReadIn, ValuesRead
    <3>2. Definitions(f, w) # {} /\ StillDefined(f, dead, kept, w)
      <4>1. CASE \E phi \in ToSet(g.blocks[b].phis) : w \in ValuesRead(phi.args)
        <5>1. PICK p \in DOMAIN g.blocks[b].phis : w \in ValuesRead(g.blocks[b].phis[p].args)
          BY <4>1 DEF ToSet
        <5>2. PICK q \in DOMAIN f.blocks[b].phis :
                 f.blocks[b].phis[q].dest \notin dead /\ g.blocks[b].phis[p] = f.blocks[b].phis[q]
          BY <1>8
        <5>3. w \in ValuesRead(f.blocks[b].phis[q].args)
          BY <5>1, <5>2
        <5>4. StillDefined(f, dead, kept, w)
          BY <5>2, <5>3 DEF ReadsWhatStays
        <5> QED BY <1>1, <3>1, <5>3, <5>4, ReadIsDefined DEF ValuesRead
      <4>2. CASE \E inst \in ToSet(g.blocks[b].insts) : w \in ValuesRead(inst.args)
        <5>1. PICK i \in DOMAIN g.blocks[b].insts : w \in ValuesRead(g.blocks[b].insts[i].args)
          BY <4>2 DEF ToSet
        <5>2. PICK k : k = at[b][i]
          OBVIOUS
        <5>3. /\ k \in kept[b]
              /\ k \in DOMAIN f.blocks[b].insts
              /\ w \in ValuesRead(f.blocks[b].insts[k].args)
          BY <1>9, <5>1, <5>2
        <5>4. StillDefined(f, dead, kept, w)
          BY <5>3 DEF ReadsWhatStays
        <5> QED BY <1>1, <3>1, <5>3, <5>4, ReadIsDefined DEF ValuesRead
      <4>3. CASE w \in ValuesRead(g.blocks[b].term.args)
        <5>1. w \in ValuesRead(f.blocks[b].term.args)
          BY <1>5, <4>3
        <5>2. StillDefined(f, dead, kept, w)
          BY <5>1 DEF ReadsWhatStays
        <5> QED BY <1>1, <3>1, <5>1, <5>2, ReadIsDefined DEF ValuesRead
      <4> QED BY <2>1, <4>1, <4>2, <4>3 DEF ValuesReadIn
    <3> QED BY <1>3, <1>4, <3>2, StayingDefinitions
  <2>2. ASSUME NEW v \in Values PROVE \A d, e \in Definitions(g, v) : d = e
    <3>1. SUFFICES ASSUME NEW d \in Definitions(g, v), NEW e \in Definitions(g, v) PROVE d = e
      OBVIOUS
    <3>2. \A x, y \in Definitions(f, v) : x = y
      BY <1>1 DEF DefinedOnce
    <3>3. ASSUME NEW x, NEW y, x = <<x[1], 0>>, x \in Definitions(f, v), y[1] \in BlockIds(f),
                 y[2] \in DOMAIN g.blocks[y[1]].insts,
                 <<y[1], at[y[1]][y[2]]>> \in InstSites(f, v)
          PROVE  FALSE
      <4>1. PICK k : k = at[y[1]][y[2]]
        OBVIOUS
      <4>2. k \in DOMAIN f.blocks[y[1]].insts /\ <<y[1], k>> \in Definitions(f, v)
        BY <1>9, <3>3, <4>1, SitesAreDefinitions
      <4>3. PICK n \in Nat : DOMAIN f.blocks[y[1]].insts = 1 .. n
        BY <3>3, InstTypes
      <4>4. <<x[1], 0>> = <<y[1], k>>
        BY <3>2, <3>3, <4>2
      <4> QED BY <4>2, <4>3, <4>4
    <3>4. CASE d = <<d[1], 0>> /\ d \in Definitions(f, v)
      <4>1. e = <<e[1], 0>> /\ e \in Definitions(f, v)
        BY <1>12, <3>3, <3>4
      <4> QED BY <3>2, <3>4, <4>1
    <3>5. CASE d = <<d[1], d[2]>> /\ d[2] \in DOMAIN g.blocks[d[1]].insts
               /\ <<d[1], at[d[1]][d[2]]>> \in InstSites(f, v)
      <4>1. e = <<e[1], e[2]>> /\ e[2] \in DOMAIN g.blocks[e[1]].insts
            /\ <<e[1], at[e[1]][e[2]]>> \in InstSites(f, v)
        BY <1>12, <3>3, <3>5
      <4>2. <<d[1], at[d[1]][d[2]]>> = <<e[1], at[e[1]][e[2]]>>
        BY <3>2, <3>5, <4>1, SitesAreDefinitions
      <4>3. PICK b, i, j : b = d[1] /\ i = d[2] /\ j = e[2]
        OBVIOUS
      <4>4. /\ b \in BlockIds(f)
            /\ e[1] = b
            /\ i \in DOMAIN g.blocks[b].insts
            /\ j \in DOMAIN g.blocks[b].insts
            /\ at[b][i] = at[b][j]
        BY <1>12, <3>5, <4>1, <4>2, <4>3
      <4>9. PICK t : t = at[b]
        OBVIOUS
      <4>10. PICK n \in Nat : DOMAIN g.blocks[b].insts = 1 .. n
        BY <1>3, <4>4, InstTypes
      <4>11. PICK m \in Nat : DOMAIN f.blocks[b].insts = 1 .. m
        BY <1>3, <4>4, InstTypes
      <4>5. /\ t = at[b] /\ m \in Nat /\ n \in Nat
            /\ DOMAIN g.blocks[b].insts = 1 .. n /\ DOMAIN f.blocks[b].insts = 1 .. m
        BY <4>9, <4>10, <4>11
      <4>6. t[i] \in Int /\ t[j] = t[i] /\ i \in Int /\ j \in Int
        BY <1>9, <4>4, <4>5, SMTT(30)
      <4>7. (i < j => t[i] < t[j]) /\ (j < i => t[j] < t[i])
        BY <1>4, <4>4, <4>5 DEF Stays, BlockStays
      <4>8. i = j
        BY <4>6, <4>7
      <4> QED BY <3>5, <4>1, <4>3, <4>4, <4>8
    <3>6. \/ d = <<d[1], 0>> /\ d \in Definitions(f, v)
          \/ /\ d = <<d[1], d[2]>> /\ d[2] \in DOMAIN g.blocks[d[1]].insts
             /\ <<d[1], at[d[1]][d[2]]>> \in InstSites(f, v)
      BY <1>12
    <3> QED BY <3>4, <3>5, <3>6
  <2>3. ASSUME NEW v \in Values, NEW s \in PhiSites(g, v) PROVE g.site[v] = s
    <3>1. PICK at1, t : at1 = at /\ t = s
      OBVIOUS
    <3>2. t \in PhiSites(g, v) /\ \A b \in BlockIds(f) : Stays(g, f, dead, kept, at, b)
      BY <1>4, <3>1
    <3>3. g.site[v] = t /\ <<t[1], 0>> \in Definitions(f, v)
      BY <1>3, <3>2, StayingPhi, SMTT(30)
    <3> QED BY <3>1, <3>3
  <2>4. ASSUME NEW v \in Values, InstSites(g, v) # {} PROVE g.site[v] = Removed
    <3>1. PICK s \in InstSites(g, v) : TRUE
      BY <2>4
    <3>2. PICK t : t = <<s[1], at[s[1]][s[2]]>>
      OBVIOUS
    <3>3. t \in InstSites(f, v)
      BY <1>3, <1>4, <3>2, StayingDefinitions
    <3>4. f.site[v] = Removed /\ \A x, y \in Definitions(f, v) : x = y
      BY <1>1, <3>3 DEF DefinedOnce
    <3>5. PhiSites(f, v) = {}
      <4>1. SUFFICES ASSUME NEW u \in PhiSites(f, v) PROVE FALSE
        OBVIOUS
      <4>2. <<u[1], 0>> = t
        BY <3>3, <3>4, SitesAreDefinitions
      <4>3. t[1] \in BlockIds(f) /\ t[2] \in DOMAIN f.blocks[t[1]].insts
        BY <3>3 DEF InstSites
      <4>4. PICK n \in Nat : DOMAIN f.blocks[t[1]].insts = 1 .. n
        BY <4>3, InstTypes
      <4> QED BY <4>2, <4>3, <4>4
    <3> QED BY <1>3, <3>4, <3>5
  <2> QED BY <1>3, <2>1, <2>2, <2>3, <2>4 DEF DefinedOnce
<1> QED BY <1>3, <1>7, <1>11, <1>14, <1>15, <1>16, <1>17 DEF WellFormed
=============================================================================
