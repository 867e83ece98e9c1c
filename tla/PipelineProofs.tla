---------------------------- MODULE PipelineProofs ----------------------------
(***************************************************************************)
(* Every pass of the pipeline takes a function the verifier accepts to     *)
(* one it accepts, whatever the function and whatever was done to it       *)
(* before.                                                                 *)
(*                                                                         *)
(* Pass after pass: what replaces a read is defined wherever the read was, *)
(* what goes is read by nothing that stays, and what moves takes the sites *)
(* the arena records with it.  Constant propagation was proved in module   *)
(* SccpProofs; the last section puts the steps together.                   *)
(***************************************************************************)
EXTENDS Pipeline, SsaFunctionProofs

-----------------------------------------------------------------------------
(***************************************************************************)
(* The loops of the passes, unfolded: there are the functions their        *)
(* definitions speak of.                                                   *)
(***************************************************************************)
\* ChainEnd unfolds.
LEMMA ChainUnfolds ==
    ASSUME NEW operand, NEW links, Cardinality(DOMAIN links) \in Nat
    PROVE  \E w : /\ w[0] = operand
                  /\ \A n \in 1 .. Cardinality(DOMAIN links) :
                           w[n] = IF w[n - 1] \in DOMAIN links THEN links[w[n - 1]] ELSE w[n - 1]
                  /\ ChainEnd(operand, links) = w[Cardinality(DOMAIN links)]
<1> DEFINE Step(s, n) == IF s \in DOMAIN links THEN links[s] ELSE s
           after[n \in 0 .. Cardinality(DOMAIN links)] ==
              IF n = 0 THEN operand
              ELSE LET at == after[n - 1] IN IF at \in DOMAIN links THEN links[at] ELSE at
<1>1. PICK N \in Nat : N = Cardinality(DOMAIN links)
  OBVIOUS
<1>2. PICK start : start = operand
  OBVIOUS
<1>3. \E g : g = [n \in 0 .. N |-> IF n = 0 THEN start ELSE Step(g[n - 1], n)]
  <2> HIDE DEF Step, after
  <2> DEFINE Reached(m) == \E g : g = [n \in 0 .. m |-> IF n = 0 THEN start ELSE Step(g[n - 1], n)]
             T == {m \in 0 .. N : Reached(m)}
  <2>1. 0 \in T
    <3>1. PICK g : g = [n \in 0 .. 0 |-> start]
      OBVIOUS
    <3>2. g = [n \in 0 .. 0 |-> IF n = 0 THEN start ELSE Step(g[n - 1], n)]
      BY <3>1
    <3>3. Reached(0)
      BY <3>2
    <3> QED BY <3>3
  <2>2. ASSUME NEW m \in 0 .. N - 1, m \in T PROVE m + 1 \in T
    <3>1. PICK g : g = [n \in 0 .. m |-> IF n = 0 THEN start ELSE Step(g[n - 1], n)]
      BY <2>2
    <3>2. PICK h : h = [n \in 0 .. m + 1 |-> IF n <= m THEN g[n] ELSE Step(g[m], m + 1)]
      OBVIOUS
    <3>3. ASSUME NEW n \in 0 .. m + 1 PROVE h[n] = IF n = 0 THEN start ELSE Step(h[n - 1], n)
      <4>1. CASE n = 0
        BY <4>1, <3>1, <3>2
      <4>2. CASE n \in 1 .. m
        <5>1. h[n] = g[n] /\ h[n - 1] = g[n - 1] /\ g[n] = Step(g[n - 1], n)
          BY <4>2, <3>1, <3>2
        <5> QED BY <4>2, <5>1
      <4>3. CASE n = m + 1
        <5>1. h[n] = Step(g[m], m + 1) /\ n - 1 = m /\ h[m] = g[m] /\ n # 0
          BY <4>3, <3>2
        <5> QED BY <4>3, <5>1
      <4> QED BY <4>1, <4>2, <4>3
    <3>4. h = [n \in 0 .. m + 1 |-> IF n = 0 THEN start ELSE Step(h[n - 1], n)]
      BY <3>2, <3>3
    <3>5. Reached(m + 1)
      BY <3>4
    <3>6. m + 1 \in 0 .. N
      OBVIOUS
    <3> QED BY <3>5, <3>6
  <2>3. N \in T
    <3>1. \A k \in 0 .. N - 1 : k \in T => k + 1 \in T
      BY <2>2
    <3> HIDE DEF T
    <3>2. \A k \in 0 .. N : k \in T
      BY <2>1, <3>1, UpToBound
    <3> QED BY <3>2
  <2> QED BY <2>3
<1>4. PICK g : g = [n \in 0 .. N |-> IF n = 0 THEN start ELSE Step(g[n - 1], n)]
  BY <1>3
<1>5. g = [n \in 0 .. Cardinality(DOMAIN links) |->
              IF n = 0 THEN operand
              ELSE LET at == g[n - 1] IN IF at \in DOMAIN links THEN links[at] ELSE at]
  BY <1>1, <1>2, <1>4, Zenon
<1>6. after = [n \in 0 .. Cardinality(DOMAIN links) |->
                  IF n = 0 THEN operand
                  ELSE LET at == after[n - 1] IN IF at \in DOMAIN links THEN links[at] ELSE at]
  BY <1>5, Zenon
<1>7. ChainEnd(operand, links) = after[Cardinality(DOMAIN links)]
  BY Zenon DEF ChainEnd
<1>8. PICK w : w = after
  OBVIOUS
<1>9. w = [n \in 0 .. N |-> IF n = 0 THEN start ELSE Step(w[n - 1], n)]
  BY <1>1, <1>2, <1>6, <1>8, Zenon
<1>10. w[0] = start /\ \A n \in 1 .. N : w[n] = Step(w[n - 1], n)
  <2> HIDE DEF Step, after
  <2>1. w[0] = start
    BY <1>9
  <2>2. ASSUME NEW n \in 1 .. N PROVE w[n] = Step(w[n - 1], n)
    <3>1. n \in 0 .. N /\ n # 0
      OBVIOUS
    <3> QED BY <3>1, <1>9
  <2> QED BY <2>1, <2>2
<1>11. w[0] = operand
  BY <1>10, <1>2
<1>12. \A n \in 1 .. Cardinality(DOMAIN links) :
             w[n] = IF w[n - 1] \in DOMAIN links THEN links[w[n - 1]] ELSE w[n - 1]
  BY <1>10, <1>1, Zenon
<1>13. ChainEnd(operand, links) = w[Cardinality(DOMAIN links)]
  BY <1>7, <1>8, Zenon
<1> QED BY <1>11, <1>12, <1>13

\* Marked unfolds.
LEMMA MarkedUnfolds ==
    ASSUME NEW f, Cardinality(Values) \in Nat
    PROVE  \E w : /\ w[0] = Roots(f) \cap Values
                  /\ \A n \in 1 .. Cardinality(Values) :
                           w[n] = w[n - 1] \cup ((UNION {OperandsOfDefinition(f, v) : v \in w[n - 1]}) \cap Values)
                  /\ Marked(f) = w[Cardinality(Values)]
<1> DEFINE Step(s, n) == s \cup ((UNION {OperandsOfDefinition(f, v) : v \in s}) \cap Values)
           after[n \in 0 .. Cardinality(Values)] ==
              IF n = 0 THEN Roots(f) \cap Values
              ELSE LET closer == after[n - 1]
                   IN  closer \cup ((UNION {OperandsOfDefinition(f, v) : v \in closer}) \cap Values)
<1>1. PICK N \in Nat : N = Cardinality(Values)
  OBVIOUS
<1>2. PICK start : start = Roots(f) \cap Values
  OBVIOUS
<1>3. \E g : g = [n \in 0 .. N |-> IF n = 0 THEN start ELSE Step(g[n - 1], n)]
  <2> HIDE DEF Step, after
  <2> DEFINE Reached(m) == \E g : g = [n \in 0 .. m |-> IF n = 0 THEN start ELSE Step(g[n - 1], n)]
             T == {m \in 0 .. N : Reached(m)}
  <2>1. 0 \in T
    <3>1. PICK g : g = [n \in 0 .. 0 |-> start]
      OBVIOUS
    <3>2. g = [n \in 0 .. 0 |-> IF n = 0 THEN start ELSE Step(g[n - 1], n)]
      BY <3>1
    <3>3. Reached(0)
      BY <3>2
    <3> QED BY <3>3
  <2>2. ASSUME NEW m \in 0 .. N - 1, m \in T PROVE m + 1 \in T
    <3>1. PICK g : g = [n \in 0 .. m |-> IF n = 0 THEN start ELSE Step(g[n - 1], n)]
      BY <2>2
    <3>2. PICK h : h = [n \in 0 .. m + 1 |-> IF n <= m THEN g[n] ELSE Step(g[m], m + 1)]
      OBVIOUS
    <3>3. ASSUME NEW n \in 0 .. m + 1 PROVE h[n] = IF n = 0 THEN start ELSE Step(h[n - 1], n)
      <4>1. CASE n = 0
        BY <4>1, <3>1, <3>2
      <4>2. CASE n \in 1 .. m
        <5>1. h[n] = g[n] /\ h[n - 1] = g[n - 1] /\ g[n] = Step(g[n - 1], n)
          BY <4>2, <3>1, <3>2
        <5> QED BY <4>2, <5>1
      <4>3. CASE n = m + 1
        <5>1. h[n] = Step(g[m], m + 1) /\ n - 1 = m /\ h[m] = g[m] /\ n # 0
          BY <4>3, <3>2
        <5> QED BY <4>3, <5>1
      <4> QED BY <4>1, <4>2, <4>3
    <3>4. h = [n \in 0 .. m + 1 |-> IF n = 0 THEN start ELSE Step(h[n - 1], n)]
      BY <3>2, <3>3
    <3>5. Reached(m + 1)
      BY <3>4
    <3>6. m + 1 \in 0 .. N
      OBVIOUS
    <3> QED BY <3>5, <3>6
  <2>3. N \in T
    <3>1. \A k \in 0 .. N - 1 : k \in T => k + 1 \in T
      BY <2>2
    <3> HIDE DEF T
    <3>2. \A k \in 0 .. N : k \in T
      BY <2>1, <3>1, UpToBound
    <3> QED BY <3>2
  <2> QED BY <2>3
<1>4. PICK g : g = [n \in 0 .. N |-> IF n = 0 THEN start ELSE Step(g[n - 1], n)]
  BY <1>3
<1>5. g = [n \in 0 .. Cardinality(Values) |->
              IF n = 0 THEN Roots(f) \cap Values
              ELSE LET closer == g[n - 1]
                   IN  closer \cup ((UNION {OperandsOfDefinition(f, v) : v \in closer}) \cap Values)]
  BY <1>1, <1>2, <1>4, Zenon
<1>6. after = [n \in 0 .. Cardinality(Values) |->
                  IF n = 0 THEN Roots(f) \cap Values
                  ELSE LET closer == after[n - 1]
                   IN  closer \cup ((UNION {OperandsOfDefinition(f, v) : v \in closer}) \cap Values)]
  BY <1>5, Zenon
<1>7. Marked(f) = after[Cardinality(Values)]
  BY Zenon DEF Marked
<1>8. PICK w : w = after
  OBVIOUS
<1>9. w = [n \in 0 .. N |-> IF n = 0 THEN start ELSE Step(w[n - 1], n)]
  BY <1>1, <1>2, <1>6, <1>8, Zenon
<1>10. w[0] = start /\ \A n \in 1 .. N : w[n] = Step(w[n - 1], n)
  <2> HIDE DEF Step, after
  <2>1. w[0] = start
    BY <1>9
  <2>2. ASSUME NEW n \in 1 .. N PROVE w[n] = Step(w[n - 1], n)
    <3>1. n \in 0 .. N /\ n # 0
      OBVIOUS
    <3> QED BY <3>1, <1>9
  <2> QED BY <2>1, <2>2
<1>11. w[0] = Roots(f) \cap Values
  BY <1>10, <1>2
<1>12. \A n \in 1 .. Cardinality(Values) : w[n] = w[n - 1] \cup ((UNION {OperandsOfDefinition(f, v) : v \in w[n - 1]}) \cap Values)
  BY <1>10, <1>1, Zenon
<1>13. Marked(f) = w[Cardinality(Values)]
  BY <1>7, <1>8, Zenon
<1> QED BY <1>11, <1>12, <1>13

\* NumberPhis unfolds.
LEMMA NumberPhisUnfolds ==
    ASSUME NEW phis, NEW walk, NEW b, Len(phis) \in Nat
    PROVE  \E w : /\ w[0] = walk
                  /\ \A n \in 1 .. Len(phis) : w[n] = NumberPhi(w[n - 1], b, phis[n])
                  /\ NumberPhis(phis, walk, b) = w[Len(phis)]
<1> DEFINE Step(s, n) == NumberPhi(s, b, phis[n])
           after[n \in 0 .. Len(phis)] ==
              IF n = 0 THEN walk
              ELSE LET w == after[n - 1] IN NumberPhi(w, b, phis[n])
<1>1. PICK N \in Nat : N = Len(phis)
  OBVIOUS
<1>2. PICK start : start = walk
  OBVIOUS
<1>3. \E g : g = [n \in 0 .. N |-> IF n = 0 THEN start ELSE Step(g[n - 1], n)]
  <2> HIDE DEF Step, after
  <2> DEFINE Reached(m) == \E g : g = [n \in 0 .. m |-> IF n = 0 THEN start ELSE Step(g[n - 1], n)]
             T == {m \in 0 .. N : Reached(m)}
  <2>1. 0 \in T
    <3>1. PICK g : g = [n \in 0 .. 0 |-> start]
      OBVIOUS
    <3>2. g = [n \in 0 .. 0 |-> IF n = 0 THEN start ELSE Step(g[n - 1], n)]
      BY <3>1
    <3>3. Reached(0)
      BY <3>2
    <3> QED BY <3>3
  <2>2. ASSUME NEW m \in 0 .. N - 1, m \in T PROVE m + 1 \in T
    <3>1. PICK g : g = [n \in 0 .. m |-> IF n = 0 THEN start ELSE Step(g[n - 1], n)]
      BY <2>2
    <3>2. PICK h : h = [n \in 0 .. m + 1 |-> IF n <= m THEN g[n] ELSE Step(g[m], m + 1)]
      OBVIOUS
    <3>3. ASSUME NEW n \in 0 .. m + 1 PROVE h[n] = IF n = 0 THEN start ELSE Step(h[n - 1], n)
      <4>1. CASE n = 0
        BY <4>1, <3>1, <3>2
      <4>2. CASE n \in 1 .. m
        <5>1. h[n] = g[n] /\ h[n - 1] = g[n - 1] /\ g[n] = Step(g[n - 1], n)
          BY <4>2, <3>1, <3>2
        <5> QED BY <4>2, <5>1
      <4>3. CASE n = m + 1
        <5>1. h[n] = Step(g[m], m + 1) /\ n - 1 = m /\ h[m] = g[m] /\ n # 0
          BY <4>3, <3>2
        <5> QED BY <4>3, <5>1
      <4> QED BY <4>1, <4>2, <4>3
    <3>4. h = [n \in 0 .. m + 1 |-> IF n = 0 THEN start ELSE Step(h[n - 1], n)]
      BY <3>2, <3>3
    <3>5. Reached(m + 1)
      BY <3>4
    <3>6. m + 1 \in 0 .. N
      OBVIOUS
    <3> QED BY <3>5, <3>6
  <2>3. N \in T
    <3>1. \A k \in 0 .. N - 1 : k \in T => k + 1 \in T
      BY <2>2
    <3> HIDE DEF T
    <3>2. \A k \in 0 .. N : k \in T
      BY <2>1, <3>1, UpToBound
    <3> QED BY <3>2
  <2> QED BY <2>3
<1>4. PICK g : g = [n \in 0 .. N |-> IF n = 0 THEN start ELSE Step(g[n - 1], n)]
  BY <1>3
<1>5. g = [n \in 0 .. Len(phis) |->
              IF n = 0 THEN walk
              ELSE LET w == g[n - 1] IN NumberPhi(w, b, phis[n])]
  BY <1>1, <1>2, <1>4, Zenon
<1>6. after = [n \in 0 .. Len(phis) |->
                  IF n = 0 THEN walk
                  ELSE LET w == after[n - 1] IN NumberPhi(w, b, phis[n])]
  BY <1>5, Zenon
<1>7. NumberPhis(phis, walk, b) = after[Len(phis)]
  BY Zenon DEF NumberPhis
<1>8. PICK w : w = after
  OBVIOUS
<1>9. w = [n \in 0 .. N |-> IF n = 0 THEN start ELSE Step(w[n - 1], n)]
  BY <1>1, <1>2, <1>6, <1>8, Zenon
<1>10. w[0] = start /\ \A n \in 1 .. N : w[n] = Step(w[n - 1], n)
  <2> HIDE DEF Step, after
  <2>1. w[0] = start
    BY <1>9
  <2>2. ASSUME NEW n \in 1 .. N PROVE w[n] = Step(w[n - 1], n)
    <3>1. n \in 0 .. N /\ n # 0
      OBVIOUS
    <3> QED BY <3>1, <1>9
  <2> QED BY <2>1, <2>2
<1>11. w[0] = walk
  BY <1>10, <1>2
<1>12. \A n \in 1 .. Len(phis) : w[n] = NumberPhi(w[n - 1], b, phis[n])
  BY <1>10, <1>1, Zenon
<1>13. NumberPhis(phis, walk, b) = w[Len(phis)]
  BY <1>7, <1>8, Zenon
<1> QED BY <1>11, <1>12, <1>13

\* NumberInsts unfolds.
LEMMA NumberInstsUnfolds ==
    ASSUME NEW insts, NEW walk, NEW b, Len(insts) \in Nat
    PROVE  \E w : /\ w[0] = walk
                  /\ \A n \in 1 .. Len(insts) : w[n] = NumberInst(w[n - 1], b, insts[n])
                  /\ NumberInsts(insts, walk, b) = w[Len(insts)]
<1> DEFINE Step(s, n) == NumberInst(s, b, insts[n])
           after[n \in 0 .. Len(insts)] ==
              IF n = 0 THEN walk
              ELSE LET w == after[n - 1] IN NumberInst(w, b, insts[n])
<1>1. PICK N \in Nat : N = Len(insts)
  OBVIOUS
<1>2. PICK start : start = walk
  OBVIOUS
<1>3. \E g : g = [n \in 0 .. N |-> IF n = 0 THEN start ELSE Step(g[n - 1], n)]
  <2> HIDE DEF Step, after
  <2> DEFINE Reached(m) == \E g : g = [n \in 0 .. m |-> IF n = 0 THEN start ELSE Step(g[n - 1], n)]
             T == {m \in 0 .. N : Reached(m)}
  <2>1. 0 \in T
    <3>1. PICK g : g = [n \in 0 .. 0 |-> start]
      OBVIOUS
    <3>2. g = [n \in 0 .. 0 |-> IF n = 0 THEN start ELSE Step(g[n - 1], n)]
      BY <3>1
    <3>3. Reached(0)
      BY <3>2
    <3> QED BY <3>3
  <2>2. ASSUME NEW m \in 0 .. N - 1, m \in T PROVE m + 1 \in T
    <3>1. PICK g : g = [n \in 0 .. m |-> IF n = 0 THEN start ELSE Step(g[n - 1], n)]
      BY <2>2
    <3>2. PICK h : h = [n \in 0 .. m + 1 |-> IF n <= m THEN g[n] ELSE Step(g[m], m + 1)]
      OBVIOUS
    <3>3. ASSUME NEW n \in 0 .. m + 1 PROVE h[n] = IF n = 0 THEN start ELSE Step(h[n - 1], n)
      <4>1. CASE n = 0
        BY <4>1, <3>1, <3>2
      <4>2. CASE n \in 1 .. m
        <5>1. h[n] = g[n] /\ h[n - 1] = g[n - 1] /\ g[n] = Step(g[n - 1], n)
          BY <4>2, <3>1, <3>2
        <5> QED BY <4>2, <5>1
      <4>3. CASE n = m + 1
        <5>1. h[n] = Step(g[m], m + 1) /\ n - 1 = m /\ h[m] = g[m] /\ n # 0
          BY <4>3, <3>2
        <5> QED BY <4>3, <5>1
      <4> QED BY <4>1, <4>2, <4>3
    <3>4. h = [n \in 0 .. m + 1 |-> IF n = 0 THEN start ELSE Step(h[n - 1], n)]
      BY <3>2, <3>3
    <3>5. Reached(m + 1)
      BY <3>4
    <3>6. m + 1 \in 0 .. N
      OBVIOUS
    <3> QED BY <3>5, <3>6
  <2>3. N \in T
    <3>1. \A k \in 0 .. N - 1 : k \in T => k + 1 \in T
      BY <2>2
    <3> HIDE DEF T
    <3>2. \A k \in 0 .. N : k \in T
      BY <2>1, <3>1, UpToBound
    <3> QED BY <3>2
  <2> QED BY <2>3
<1>4. PICK g : g = [n \in 0 .. N |-> IF n = 0 THEN start ELSE Step(g[n - 1], n)]
  BY <1>3
<1>5. g = [n \in 0 .. Len(insts) |->
              IF n = 0 THEN walk
              ELSE LET w == g[n - 1] IN NumberInst(w, b, insts[n])]
  BY <1>1, <1>2, <1>4, Zenon
<1>6. after = [n \in 0 .. Len(insts) |->
                  IF n = 0 THEN walk
                  ELSE LET w == after[n - 1] IN NumberInst(w, b, insts[n])]
  BY <1>5, Zenon
<1>7. NumberInsts(insts, walk, b) = after[Len(insts)]
  BY Zenon DEF NumberInsts
<1>8. PICK w : w = after
  OBVIOUS
<1>9. w = [n \in 0 .. N |-> IF n = 0 THEN start ELSE Step(w[n - 1], n)]
  BY <1>1, <1>2, <1>6, <1>8, Zenon
<1>10. w[0] = start /\ \A n \in 1 .. N : w[n] = Step(w[n - 1], n)
  <2> HIDE DEF Step, after
  <2>1. w[0] = start
    BY <1>9
  <2>2. ASSUME NEW n \in 1 .. N PROVE w[n] = Step(w[n - 1], n)
    <3>1. n \in 0 .. N /\ n # 0
      OBVIOUS
    <3> QED BY <3>1, <1>9
  <2> QED BY <2>1, <2>2
<1>11. w[0] = walk
  BY <1>10, <1>2
<1>12. \A n \in 1 .. Len(insts) : w[n] = NumberInst(w[n - 1], b, insts[n])
  BY <1>10, <1>1, Zenon
<1>13. NumberInsts(insts, walk, b) = w[Len(insts)]
  BY <1>7, <1>8, Zenon
<1> QED BY <1>11, <1>12, <1>13

\* Merged unfolds.
LEMMA MergedUnfolds ==
    ASSUME NEW f, Len(f.blocks) \in Nat
    PROVE  \E w : /\ w[0] = f
                  /\ \A n \in 1 .. Len(f.blocks) : w[n] = MergeNext(w[n - 1])
                  /\ Merged(f) = IF w[Len(f.blocks)] = f THEN f ELSE RetainReachable(w[Len(f.blocks)])
<1> DEFINE Step(s, n) == MergeNext(s)
           after[n \in 0 .. Len(f.blocks)] ==
              IF n = 0 THEN f
              ELSE LET g == after[n - 1] IN MergeNext(g)
<1>1. PICK N \in Nat : N = Len(f.blocks)
  OBVIOUS
<1>2. PICK start : start = f
  OBVIOUS
<1>3. \E g : g = [n \in 0 .. N |-> IF n = 0 THEN start ELSE Step(g[n - 1], n)]
  <2> HIDE DEF Step, after
  <2> DEFINE Reached(m) == \E g : g = [n \in 0 .. m |-> IF n = 0 THEN start ELSE Step(g[n - 1], n)]
             T == {m \in 0 .. N : Reached(m)}
  <2>1. 0 \in T
    <3>1. PICK g : g = [n \in 0 .. 0 |-> start]
      OBVIOUS
    <3>2. g = [n \in 0 .. 0 |-> IF n = 0 THEN start ELSE Step(g[n - 1], n)]
      BY <3>1
    <3>3. Reached(0)
      BY <3>2
    <3> QED BY <3>3
  <2>2. ASSUME NEW m \in 0 .. N - 1, m \in T PROVE m + 1 \in T
    <3>1. PICK g : g = [n \in 0 .. m |-> IF n = 0 THEN start ELSE Step(g[n - 1], n)]
      BY <2>2
    <3>2. PICK h : h = [n \in 0 .. m + 1 |-> IF n <= m THEN g[n] ELSE Step(g[m], m + 1)]
      OBVIOUS
    <3>3. ASSUME NEW n \in 0 .. m + 1 PROVE h[n] = IF n = 0 THEN start ELSE Step(h[n - 1], n)
      <4>1. CASE n = 0
        BY <4>1, <3>1, <3>2
      <4>2. CASE n \in 1 .. m
        <5>1. h[n] = g[n] /\ h[n - 1] = g[n - 1] /\ g[n] = Step(g[n - 1], n)
          BY <4>2, <3>1, <3>2
        <5> QED BY <4>2, <5>1
      <4>3. CASE n = m + 1
        <5>1. h[n] = Step(g[m], m + 1) /\ n - 1 = m /\ h[m] = g[m] /\ n # 0
          BY <4>3, <3>2
        <5> QED BY <4>3, <5>1
      <4> QED BY <4>1, <4>2, <4>3
    <3>4. h = [n \in 0 .. m + 1 |-> IF n = 0 THEN start ELSE Step(h[n - 1], n)]
      BY <3>2, <3>3
    <3>5. Reached(m + 1)
      BY <3>4
    <3>6. m + 1 \in 0 .. N
      OBVIOUS
    <3> QED BY <3>5, <3>6
  <2>3. N \in T
    <3>1. \A k \in 0 .. N - 1 : k \in T => k + 1 \in T
      BY <2>2
    <3> HIDE DEF T
    <3>2. \A k \in 0 .. N : k \in T
      BY <2>1, <3>1, UpToBound
    <3> QED BY <3>2
  <2> QED BY <2>3
<1>4. PICK h : h = [n \in 0 .. N |-> IF n = 0 THEN start ELSE Step(h[n - 1], n)]
  BY <1>3
<1>5. h = [n \in 0 .. Len(f.blocks) |->
              IF n = 0 THEN f
              ELSE LET g == h[n - 1] IN MergeNext(g)]
  BY <1>1, <1>2, <1>4, Zenon
<1>6. after = [n \in 0 .. Len(f.blocks) |->
                  IF n = 0 THEN f
                  ELSE LET g == after[n - 1] IN MergeNext(g)]
  BY <1>5, Zenon
<1>7. Merged(f) = IF after[Len(f.blocks)] = f THEN f ELSE RetainReachable(after[Len(f.blocks)])
  BY Zenon DEF Merged
<1>8. PICK w : w = after
  OBVIOUS
<1>9. w = [n \in 0 .. N |-> IF n = 0 THEN start ELSE Step(w[n - 1], n)]
  BY <1>1, <1>2, <1>6, <1>8, Zenon
<1>10. w[0] = start /\ \A n \in 1 .. N : w[n] = Step(w[n - 1], n)
  <2> HIDE DEF Step, after
  <2>1. w[0] = start
    BY <1>9
  <2>2. ASSUME NEW n \in 1 .. N PROVE w[n] = Step(w[n - 1], n)
    <3>1. n \in 0 .. N /\ n # 0
      OBVIOUS
    <3> QED BY <3>1, <1>9
  <2> QED BY <2>1, <2>2
<1>11. w[0] = f
  BY <1>10, <1>2
<1>12. \A n \in 1 .. Len(f.blocks) : w[n] = MergeNext(w[n - 1])
  BY <1>10, <1>1, Zenon
<1>13. Merged(f) = IF w[Len(f.blocks)] = f THEN f ELSE RetainReachable(w[Len(f.blocks)])
  BY <1>7, <1>8, Zenon
<1> QED BY <1>11, <1>12, <1>13

-----------------------------------------------------------------------------
(***************************************************************************)
(* simplify.rs: an instruction in the place of another, reading no more.   *)
(***************************************************************************)
InstsAre == [dest : Values \cup {NoValue}, op : PureOps \cup EffectOps, args : Seq(Operands)]

StandsFor(x, inst) ==
    /\ x \in InstsAre /\ HasItsOperands(x) /\ x.dest = inst.dest
    /\ (x.op = "param" <=> inst.op = "param") /\ ValuesRead(x.args) \subseteq ValuesRead(inst.args)

\* A simpler instruction stands for the one it replaces.
LEMMA SimplerStandsFor ==
    ASSUME NEW inst \in InstsAre, HasItsOperands(inst)
    PROVE  StandsFor(Simpler(inst), inst)
<1>1. PICK lhs, rhs, dest : lhs = inst.args[1] /\ rhs = inst.args[2] /\ dest = inst.dest
  OBVIOUS
<1>2. PICK args : args = inst.args
  OBVIOUS
<1>3. args \in Seq(Operands) /\ dest \in Values \cup {NoValue} /\ inst.op \in PureOps \cup EffectOps
  BY <1>1, <1>2 DEF InstsAre
<1>4. 0 \in Operands /\ 1 \in Operands /\ 0 \notin Values /\ 1 \notin Values
  <2>1. PICK n \in Nat : n = 2^Width /\ n >= 2
    BY SsaAssumption
  <2>2. Word = 0 .. n - 1 /\ 0 \in 0 .. n - 1 /\ 1 \in 0 .. n - 1
    BY <2>1 DEF Word
  <2> QED BY <2>2, SsaAssumption DEF Operands
<1> DEFINE Copy(operand) == Inst(dest, "copy", <<operand>>)
<1>5. ASSUME NEW o \in Operands, inst.op # "param", o \in Values => o \in ToSet(args)
      PROVE  StandsFor(Copy(o), inst)
  <2>1. <<o>> \in Seq(Operands) /\ Len(<<o>>) = 1 /\ ToSet(<<o>>) = {o}
    BY <1>5 DEF ToSet
  <2>2. PICK x : x = Copy(o)
    OBVIOUS
  <2>3. x.dest = dest /\ x.op = "copy" /\ x.args = <<o>> /\ x = [dest |-> dest, op |-> "copy", args |-> <<o>>]
    BY <2>2 DEF Inst
  <2>4. x \in InstsAre
    BY <1>3, <2>1, <2>3 DEF InstsAre, PureOps
  <2>5. HasItsOperands(x)
    BY <2>1, <2>3 DEF HasItsOperands, BinaryOps
  <2>6. ValuesRead(x.args) \subseteq ValuesRead(args)
    BY <1>5, <2>1, <2>3 DEF ValuesRead
  <2> QED BY <1>1, <1>2, <1>5, <2>2, <2>3, <2>4, <2>5, <2>6 DEF StandsFor
<1>6. ASSUME NEW o \in Operands, inst.op # "param", o \in Values => o \in ToSet(args)
      PROVE  StandsFor(Inst(dest, "add", <<o, o>>), inst)
  <2>1. <<o, o>> \in Seq(Operands) /\ Len(<<o, o>>) = 2 /\ ToSet(<<o, o>>) = {o}
    BY <1>6 DEF ToSet
  <2>2. PICK x : x = Inst(dest, "add", <<o, o>>)
    OBVIOUS
  <2>3. /\ x.dest = dest
        /\ x.op = "add"
        /\ x.args = <<o, o>>
        /\ x = [dest |-> dest, op |-> "add", args |-> <<o, o>>]
    BY <2>2 DEF Inst
  <2>4. x \in InstsAre
    BY <1>3, <2>1, <2>3 DEF InstsAre, PureOps, BinaryOps
  <2>5. HasItsOperands(x)
    BY <2>1, <2>3 DEF HasItsOperands, BinaryOps
  <2>6. ValuesRead(x.args) \subseteq ValuesRead(args)
    BY <1>6, <2>1, <2>3 DEF ValuesRead
  <2> QED BY <1>1, <1>2, <1>6, <2>2, <2>3, <2>4, <2>5, <2>6 DEF StandsFor
<1>7. StandsFor(inst, inst)
  BY DEF StandsFor
<1>8. ASSUME inst.op \in BinaryOps
      PROVE  /\ lhs \in Operands /\ rhs \in Operands /\ lhs \in ToSet(args) /\ rhs \in ToSet(args)
             /\ inst.op # "param"
  <2>1. Len(args) = 2
    BY <1>2, <1>8 DEF HasItsOperands
  <2>2. DOMAIN args = 1 .. 2 /\ 1 \in 1 .. 2 /\ 2 \in 1 .. 2 /\ args[1] \in Operands /\ args[2] \in Operands
    <3>1. DOMAIN args = 1 .. Len(args) /\ \A k \in 1 .. Len(args) : args[k] \in Operands
      BY <1>3, LengthFacts
    <3>2. DOMAIN args = 1 .. 2 /\ \A k \in 1 .. 2 : args[k] \in Operands
      BY <2>1, <3>1
    <3> QED BY <3>2
  <2> QED BY <1>1, <1>2, <1>8, <2>2 DEF ToSet, BinaryOps
<1> DEFINE Has(c)   == lhs = c \/ rhs = c
           Other(c) == IF lhs = c THEN rhs ELSE lhs
           same == lhs = rhs /\ lhs \in Values
<1>9. Simpler(inst) =
        CASE inst.op = "add" /\ Has(0) -> Copy(Other(0))
          [] inst.op = "mul" /\ Has(0) -> Copy(0)
          [] inst.op = "mul" /\ ~Has(0) /\ Has(1) -> Copy(Other(1))
          [] inst.op = "mul" /\ ~Has(0) /\ ~Has(1) /\ Has(2) ->
                Inst(dest, "add", <<Other(2), Other(2)>>)
          [] inst.op = "div" /\ rhs = 1 -> Copy(lhs)
          [] inst.op \in {"div", "eq"} /\ same -> Copy(1)
          [] OTHER -> inst
  BY <1>1, Zenon DEF Simpler
<1>10. \/ Simpler(inst) = inst
       \/ inst.op \in BinaryOps /\ Simpler(inst) \in {Copy(lhs), Copy(rhs), Copy(0), Copy(1),
                                                     Inst(dest, "add", <<lhs, lhs>>), Inst(dest, "add", <<rhs, rhs>>)}
  <2> HIDE DEF Copy
  <2> QED BY <1>9 DEF BinaryOps
<1> HIDE DEF Copy
<1> QED BY <1>4, <1>5, <1>6, <1>7, <1>8, <1>10

\* Simplification touches instructions alone, one for one (simplify.rs).
LEMMA SimplifiedIs ==
    ASSUME NEW f, IsFunction(f), NEW g, g = Simplified(f)
    PROVE  /\ IsFunction(g) /\ g.site = f.site /\ BlockIds(g) = BlockIds(f)
           /\ \A b \in BlockIds(f) :
                 /\ g.blocks[b].preds = f.blocks[b].preds /\ g.blocks[b].phis = f.blocks[b].phis
                 /\ g.blocks[b].term = f.blocks[b].term
                 /\ DOMAIN g.blocks[b].insts = DOMAIN f.blocks[b].insts
                 /\ \A i \in DOMAIN f.blocks[b].insts :
                       StandsFor(g.blocks[b].insts[i], f.blocks[b].insts[i])
<1> DEFINE New(x) == [x EXCEPT !.insts = [i \in DOMAIN x.insts |-> Simpler(x.insts[i])]]
<1>1. PICK blocks : blocks = [b \in BlockIds(f) |-> New(f.blocks[b])]
  OBVIOUS
<1>2. g = [f EXCEPT !.blocks = blocks]
  BY <1>1, Zenon DEF Simplified
<1>3. PICK B : B = BlocksAmong(BlockIds(f))
  OBVIOUS
<1>4. ASSUME NEW b \in BlockIds(f)
      PROVE  /\ blocks[b] \in B
             /\ blocks[b].preds = f.blocks[b].preds /\ blocks[b].phis = f.blocks[b].phis
             /\ blocks[b].term = f.blocks[b].term
             /\ DOMAIN blocks[b].insts = DOMAIN f.blocks[b].insts
             /\ \A i \in DOMAIN f.blocks[b].insts :
                   StandsFor(blocks[b].insts[i], f.blocks[b].insts[i])
  <2>1. PICK x, y, insts, left : /\ x = f.blocks[b] /\ y = blocks[b] /\ insts = x.insts
                                 /\ left = [i \in DOMAIN insts |-> Simpler(insts[i])]
    OBVIOUS
  <2>2. y = [x EXCEPT !.insts = left]
    BY <1>1, <2>1, Zenon
  <2>3. x \in B /\ insts \in Seq(InstsAre) /\ \A i \in DOMAIN insts : HasItsOperands(insts[i])
    BY <1>3, <2>1, ShapeOf, PartTypes DEF InstsAre
  <2>4. PICK n \in Nat : DOMAIN insts = 1 .. n /\ \A i \in 1 .. n : insts[i] \in InstsAre
    BY <2>3, LengthFacts
  <2>5. ASSUME NEW i \in 1 .. n PROVE StandsFor(left[i], insts[i]) /\ left[i] \in InstsAre
    <3>1. PICK inst : inst = insts[i]
      OBVIOUS
    <3>2. inst \in InstsAre /\ HasItsOperands(inst)
      BY <2>3, <2>4, <3>1
    <3>3. StandsFor(Simpler(inst), inst)
      BY <3>2, SimplerStandsFor
    <3>4. left[i] = Simpler(inst)
      BY <2>1, <2>4, <3>1
    <3> QED BY <3>1, <3>3, <3>4 DEF StandsFor
  <2>6. left = [i \in 1 .. n |-> left[i]] /\ DOMAIN left = 1 .. n
    BY <2>1, <2>4
  <2>7. left \in Seq(InstsAre)
    BY <2>5, <2>6, SequenceOf
  <2>8. PICK P, I, T, Q : P = Seq([dest : Values, args : Seq(Operands)]) /\ I = Seq(InstsAre) /\ Q = Seq(BlockIds(f))
           /\ T = [kind : {"jump", "branch", "return"}, to : Seq(BlockIds(f)), args : Seq(Operands)]
    OBVIOUS
  <2>9. B = [preds : Q, phis : P, insts : I, term : T]
    BY <1>3, <2>8 DEF BlocksAmong, InstsAre
  <2>10. x \in [preds : Q, phis : P, insts : I, term : T] /\ left \in I
    BY <2>3, <2>7, <2>8, <2>9
  <2>11. y \in [preds : Q, phis : P, insts : I, term : T]
         /\ y.preds = x.preds /\ y.phis = x.phis /\ y.term = x.term /\ y.insts = left
    BY <2>2, <2>10
  <2> QED BY <2>1, <2>4, <2>5, <2>6, <2>9, <2>11
<1>5. IsFunction(g) /\ g.blocks = blocks /\ g.site = f.site /\ BlockIds(g) = BlockIds(f)
  <2>1. PICK n \in Nat : BlockIds(f) = 1 .. n /\ 1 \in 1 .. n
    BY BlockTypes
  <2>2. blocks = [b \in 1 .. n |-> blocks[b]] /\ DOMAIN blocks = BlockIds(f)
    BY <1>1, <2>1
  <2>3. blocks \in Seq(B)
    BY <1>4, <2>1, <2>2, SequenceOf
  <2>4. ASSUME NEW b \in BlockIds(f)
        PROVE  /\ \A i \in DOMAIN blocks[b].insts : HasItsOperands(blocks[b].insts[i])
               /\ HasItsTargets(blocks[b].term)
    BY <1>4, ShapeOf DEF StandsFor
  <2>5. blocks[1].phis = <<>>
    <3>1. blocks[1].phis = f.blocks[1].phis
      BY <1>4, <2>1
    <3> QED BY <3>1 DEF IsFunction
  <2> QED BY <1>2, <1>3, <2>2, <2>3, <2>4, <2>5, FunctionWith
<1> QED BY <1>4, <1>5

\* What it leaves of a function is one.
LEMMA SimplifyingIsWellFormed ==
    ASSUME NEW f, IsFunction(f), WellFormed(f), NEW g, g = Simplified(f)
    PROVE  IsFunction(g) /\ WellFormed(g)
<1>1. AllReachable(f) /\ EdgesAgree(f) /\ Consistent(f)
  BY DEF WellFormed, Consistent, AllReachable
<1>2. IsFunction(g) /\ g.site = f.site /\ BlockIds(g) = BlockIds(f)
  BY SimplifiedIs
<1>3. ASSUME NEW b \in BlockIds(f)
      PROVE  /\ g.blocks[b].preds = f.blocks[b].preds /\ g.blocks[b].phis = f.blocks[b].phis
             /\ g.blocks[b].term = f.blocks[b].term
             /\ DOMAIN g.blocks[b].insts = DOMAIN f.blocks[b].insts
             /\ \A i \in DOMAIN f.blocks[b].insts : StandsFor(g.blocks[b].insts[i], f.blocks[b].insts[i])
  BY SimplifiedIs
<1>4. SameEdges(g, f) /\ \A b \in BlockIds(f) : Successors(g, b) = Successors(f, b)
  BY <1>2, <1>3 DEF SameEdges, Successors
<1>5. ASSUME NEW b \in BlockIds(f) PROVE IsPartOfBlock(g, f, InPlace(f), b)
  <2> DEFINE is == g.blocks[b]
             was == f.blocks[b]
  <2>1. g.blocks[b] = is /\ f.blocks[InPlace(f)[b]] = was /\ InPlace(f)[b] = b
    BY <1>2 DEF InPlace
  <2>2. /\ is.phis = was.phis /\ is.term = was.term /\ is.preds = was.preds
        /\ DOMAIN is.insts = DOMAIN was.insts
    BY <1>3
  <2>3. ASSUME NEW i \in DOMAIN is.insts
        PROVE  /\ is.insts[i].dest = was.insts[i].dest
               /\ is.insts[i].op = "param" <=> was.insts[i].op = "param"
               /\ ValuesRead(is.insts[i].args) \subseteq ValuesRead(was.insts[i].args)
    BY <1>3 DEF StandsFor
  <2>4. ASSUME NEW p \in DOMAIN was.phis, NEW k \in DOMAIN was.phis[p].args
        PROVE  was.preds[k] \in BlockIds(f)
    <3>1. PICK args, preds : args = was.phis[p].args /\ preds = was.preds
      OBVIOUS
    <3>2. args \in Seq(Operands) /\ preds \in Seq(BlockIds(f)) /\ Len(args) = Len(preds)
      BY <1>1, <3>1, PhiTypes, PartTypes DEF EdgesAgree
    <3>3. k \in 1 .. Len(preds)
      BY <3>1, <3>2, LengthFacts
    <3> QED BY <3>1, <3>2, <3>3, LengthFacts
  <2>5. \A c \in ToSet(Successors(f, b)) : InPlace(f)[c] = c
    BY PartTypes DEF InPlace, Successors, ToSet
  <2>6. Len(was.term.to) \in Nat /\ Len(was.preds) \in Nat
    BY PartTypes, LengthFacts
  <2> HIDE DEF is, was
  <2>7. \A p \in DOMAIN is.phis : \A k \in DOMAIN is.phis[p].args :
           /\ is.preds[k] \in BlockIds(g) /\ InPlace(f)[is.preds[k]] = is.preds[k]
           /\ is.phis[p].args[k] \in Values =>
                 \E j \in DOMAIN was.phis[p].args :
                    /\ was.phis[p].args[j] = is.phis[p].args[k]
                    /\ was.preds[j] = InPlace(f)[is.preds[k]]
    BY <1>2, <2>2, <2>4 DEF InPlace
  <2>8. Len(is.term.to) <= Len(was.term.to) /\ Len(is.preds) <= Len(was.preds)
    BY <2>2, <2>6
  <2> QED BY <1>4, <2>1, <2>2, <2>3, <2>5, <2>7, <2>8, SMTT(30) DEF IsPartOfBlock
<1>6. IsPartOf(g, f, InPlace(f))
  BY <1>2, <1>5, PartInPlace
<1>7. EdgesAgree(g) /\ g.blocks[1].preds = <<>>
  <2>1. 1 \in BlockIds(f)
    BY BlockTypes
  <2> QED BY <1>1, <1>2, <1>3, <1>4, <2>1 DEF EdgesAgree, Consistent
<1>8. Consistent(g)
  BY <1>1, <1>2, <1>6, <1>7, PartIsConsistent
<1>9. AllReachable(g)
  BY <1>1, <1>2, <1>4, SameWays
<1> QED BY <1>8, <1>9 DEF WellFormed, Consistent

-----------------------------------------------------------------------------
(***************************************************************************)
(* A set that grows by what its members lead to, as often as there is room *)
(* for another member, ends closed.                                        *)
(***************************************************************************)
GrowsBy(w, next, U, N) ==
    /\ \A S \in SUBSET U : next[S] \subseteq U
    /\ \A n \in 1 .. N : w[n] = w[n - 1] \cup next[w[n - 1]]

\* A set that grows step by step inside U is closed after as many steps as U has members.
LEMMA GrowsToClosed ==
    ASSUME NEW U, IsFiniteSet(U), NEW N, N = Cardinality(U), NEW start, start \subseteq U,
           NEW next, NEW w, w[0] = start, GrowsBy(w, next, U, N)
    PROVE  w[N] \subseteq U /\ start \subseteq w[N] /\ next[w[N]] \subseteq w[N]
<1>1. /\ N \in Nat
      /\ \A S \in SUBSET U : next[S] \subseteq U
      /\ \A n \in 1 .. N : w[n] = w[n - 1] \cup next[w[n - 1]]
  BY FS_CardinalityType DEF GrowsBy
<1> DEFINE Good(n) == /\ w[n] \subseteq U /\ start \subseteq w[n]
                      /\ next[w[n]] \subseteq w[n] \/ Cardinality(w[n]) >= n
           T == {n \in 0 .. N : Good(n)}
<1>2. 0 \in T
  <2>1. Cardinality(start) \in Nat
    BY FS_Subset, FS_CardinalityType
  <2>2. Good(0)
    BY <2>1
  <2> QED BY <1>1, <2>2
<1>3. ASSUME NEW n \in 0 .. N - 1, n \in T PROVE n + 1 \in T
  <2>1. PICK S, S2, A : S = w[n] /\ S2 = w[n + 1] /\ A = next[S]
    OBVIOUS
  <2>2. S2 = S \cup A
    <3>1. n + 1 \in 1 .. N /\ (n + 1) - 1 = n
      BY <1>1
    <3> QED BY <1>1, <2>1, <3>1
  <2>3. S \subseteq U /\ start \subseteq S /\ (A \subseteq S \/ Cardinality(S) >= n)
    BY <1>3, <2>1
  <2>4. A \subseteq U
    BY <1>1, <2>1, <2>3
  <2>5. S2 \subseteq U /\ start \subseteq S2
    BY <2>2, <2>3, <2>4
  <2>6. CASE A \subseteq S
    <3>1. S2 = S
      BY <2>2, <2>6
    <3>2. Good(n + 1)
      BY <2>1, <2>5, <2>6, <3>1
    <3> QED BY <1>1, <3>2
  <2>7. CASE ~(A \subseteq S)
    <3>1. PICK c \in A : c \notin S
      BY <2>7
    <3>2. Cardinality(S) >= n
      BY <2>3, <2>7
    <3>3. IsFiniteSet(S) /\ IsFiniteSet(S2)
      BY <2>3, <2>5, FS_Subset
    <3>4. IsFiniteSet(S \cup {c}) /\ Cardinality(S \cup {c}) = Cardinality(S) + 1
      BY <3>1, <3>3, FS_AddElement
    <3>5. S \cup {c} \subseteq S2
      BY <2>2, <3>1
    <3>6. Cardinality(S \cup {c}) <= Cardinality(S2)
      BY <3>3, <3>5, FS_Subset
    <3>7. Cardinality(S) \in Nat /\ Cardinality(S2) \in Nat
      BY <3>3, FS_CardinalityType
    <3>8. Cardinality(S2) >= n + 1
      BY <3>2, <3>4, <3>6, <3>7
    <3>9. Good(n + 1)
      BY <2>1, <2>5, <3>8
    <3> QED BY <1>1, <3>9
  <2> QED BY <2>6, <2>7
<1>4. N \in T
  <2>1. \A n \in 0 .. N - 1 : n \in T => n + 1 \in T
    BY <1>3
  <2> HIDE DEF T
  <2>2. \A n \in 0 .. N : n \in T
    BY <1>1, <1>2, <2>1, UpToBound
  <2> QED BY <1>1, <2>2
<1>5. PICK S, A : S = w[N] /\ A = next[S]
  OBVIOUS
<1>6. S \subseteq U /\ start \subseteq S /\ (A \subseteq S \/ Cardinality(S) >= N)
  BY <1>4, <1>5
<1>7. A \subseteq U
  BY <1>1, <1>5, <1>6
<1>8. CASE Cardinality(S) >= N
  <2>1. Cardinality(S) <= Cardinality(U) /\ Cardinality(S) \in Nat /\ (Cardinality(S) = Cardinality(U) => S = U)
    BY <1>6, FS_Subset, FS_CardinalityType
  <2>2. S = U
    BY <1>1, <1>8, <2>1
  <2> QED BY <1>5, <1>6, <1>7, <2>2
<1> QED BY <1>5, <1>6, <1>8

-----------------------------------------------------------------------------
(***************************************************************************)
(* dce.rs: what is marked, and what that reads, is marked.                 *)
(***************************************************************************)
LEMMA MarkedFacts ==
    ASSUME NEW f
    PROVE  /\ Marked(f) \subseteq Values /\ Roots(f) \cap Values \subseteq Marked(f)
           /\ \A v \in Marked(f) : OperandsOfDefinition(f, v) \cap Values \subseteq Marked(f)
<1> DEFINE After(S) == (UNION {OperandsOfDefinition(f, v) : v \in S}) \cap Values
<1>1. PICK N : N = Cardinality(Values)
  OBVIOUS
<1>2. IsFiniteSet(Values) /\ N \in Nat
  BY <1>1, SsaAssumption, FS_CardinalityType
<1>3. PICK w : /\ w[0] = Roots(f) \cap Values
               /\ \A n \in 1 .. N : w[n] = w[n - 1] \cup After(w[n - 1])
               /\ Marked(f) = w[N]
  <2>1. \E w : /\ w[0] = Roots(f) \cap Values
               /\ \A n \in 1 .. Cardinality(Values) :
                     w[n] = w[n - 1] \cup ((UNION {OperandsOfDefinition(f, v) : v \in w[n - 1]}) \cap Values)
               /\ Marked(f) = w[Cardinality(Values)]
    BY <1>1, <1>2, MarkedUnfolds
  <2> QED BY <1>1, <2>1
<1>12. \A S : After(S) \subseteq Values
  <2>1. SUFFICES ASSUME NEW S, NEW x \in After(S) PROVE x \in Values
    OBVIOUS
  <2> QED BY <2>1
<1> HIDE DEF After
<1>4. PICK next : next = [S \in SUBSET Values |-> After(S)]
  OBVIOUS
<1>5. \A S \in SUBSET Values : next[S] = After(S) /\ next[S] \subseteq Values
  BY <1>4, <1>12
<1>6. \A n \in 0 .. N : w[n] \in SUBSET Values
  <2> DEFINE T == {n \in 0 .. N : w[n] \in SUBSET Values}
  <2>1. 0 \in T
    BY <1>2, <1>3
  <2>2. ASSUME NEW n \in 0 .. N - 1, n \in T PROVE n + 1 \in T
    <3>1. n + 1 \in 1 .. N /\ (n + 1) - 1 = n /\ n + 1 \in 0 .. N
      BY <1>2
    <3>2. w[n + 1] = w[n] \cup After(w[n])
      BY <1>3, <3>1
    <3>3. After(w[n]) \subseteq Values
      BY <1>5, <2>2
    <3> QED BY <2>2, <3>1, <3>2, <3>3
  <2>3. \A n \in 0 .. N - 1 : n \in T => n + 1 \in T
    BY <2>2
  <2> HIDE DEF T
  <2>4. \A n \in 0 .. N : n \in T
    BY <1>2, <2>1, <2>3, UpToBound
  <2> QED BY <2>4 DEF T
<1>7. \A n \in 1 .. N : w[n] = w[n - 1] \cup next[w[n - 1]]
  <2>1. SUFFICES ASSUME NEW n \in 1 .. N PROVE w[n] = w[n - 1] \cup next[w[n - 1]]
    OBVIOUS
  <2>2. n - 1 \in 0 .. N
    BY <1>2
  <2>3. next[w[n - 1]] = After(w[n - 1])
    BY <1>5, <1>6, <2>2
  <2> QED BY <1>3, <2>3
<1>8. PICK start : start = Roots(f) \cap Values
  OBVIOUS
<1>9. start \subseteq Values /\ w[0] = start
  BY <1>3, <1>8
<1>10. w[N] \subseteq Values /\ start \subseteq w[N] /\ next[w[N]] \subseteq w[N]
  <2>1. \A S \in SUBSET Values : next[S] \subseteq Values
    BY <1>5
  <2>2. GrowsBy(w, next, Values, N)
    BY <1>7, <2>1 DEF GrowsBy
  <2> QED BY <1>1, <1>2, <1>9, <2>2, GrowsToClosed
<1>11. After(w[N]) \subseteq w[N]
  BY <1>5, <1>10
<1> QED BY <1>3, <1>8, <1>10, <1>11 DEF After

\* What defines v reads what is recorded as its operands.
LEMMA OperandsAreRecorded ==
    ASSUME NEW f, IsFunction(f), DefinedOnce(f), NEW b \in BlockIds(f), NEW v \in Values
    PROVE  /\ \A p \in DOMAIN f.blocks[b].phis : f.blocks[b].phis[p].dest = v =>
                 ToSet(f.blocks[b].phis[p].args) \subseteq OperandsOfDefinition(f, v)
           /\ \A i \in DOMAIN f.blocks[b].insts : f.blocks[b].insts[i].dest = v =>
                 ToSet(f.blocks[b].insts[i].args) \subseteq OperandsOfDefinition(f, v)
<1>1. ASSUME NEW p \in DOMAIN f.blocks[b].phis, f.blocks[b].phis[p].dest = v
      PROVE  ToSet(f.blocks[b].phis[p].args) \subseteq OperandsOfDefinition(f, v)
  <2>1. <<b, p>> \in PhiSites(f, v)
    BY <1>1 DEF PhiSites
  <2>2. f.site[v] = <<b, p>>
    BY <2>1 DEF DefinedOnce
  <2>3. b # 0
    BY BlockTypes
  <2>4. f.site[v] # Removed /\ f.site[v][1] = b /\ f.site[v][2] = p
    BY <2>2, <2>3 DEF Removed
  <2> QED BY <2>4 DEF OperandsOfDefinition
<1>2. ASSUME NEW i \in DOMAIN f.blocks[b].insts, f.blocks[b].insts[i].dest = v
      PROVE  ToSet(f.blocks[b].insts[i].args) \subseteq OperandsOfDefinition(f, v)
  <2>1. <<b, i>> \in InstSites(f, v)
    BY <1>2 DEF InstSites
  <2>2. f.site[v] = Removed
    BY <2>1 DEF DefinedOnce
  <2>3. PICK inst : inst = f.blocks[b].insts[i]
    OBVIOUS
  <2>4. inst \in InstsOf(f) /\ inst.dest = v
    BY <1>2, <2>3 DEF InstsOf, ToSet
  <2> QED BY <2>2, <2>3, <2>4 DEF OperandsOfDefinition
<1> QED BY <1>1, <1>2

\* Dead-code elimination keeps what the verifier asks (dce.rs).
LEMMA SweepingIsWellFormed ==
    ASSUME NEW f, IsFunction(f), WellFormed(f), NEW g, g = Swept(f)
    PROVE  IsFunction(g) /\ WellFormed(g)
<1>1. PICK live, dead : live = Marked(f) /\ dead = Values \ live
  OBVIOUS
<1> DEFINE Staying(b) == {i \in DOMAIN f.blocks[b].insts :
                            \/ f.blocks[b].insts[i].op \in EffectOps
                            \/ f.blocks[b].insts[i].dest \in live}
<1>2. PICK kept : kept = [b \in BlockIds(f) |-> Staying(b)]
  OBVIOUS
<1>3. g = Thinned(f, dead, kept)
  BY <1>1, <1>2 DEF Swept
<1>4. \A b \in BlockIds(f) : kept[b] = Staying(b) /\ kept[b] \in SUBSET DOMAIN f.blocks[b].insts
  BY <1>2
<1>5. live \subseteq Values /\ Roots(f) \cap Values \subseteq live
      /\ \A v \in live : OperandsOfDefinition(f, v) \cap Values \subseteq live
  BY <1>1, MarkedFacts
<1>6. DefinedOnce(f)
  BY DEF WellFormed
<1>7. ASSUME NEW v \in live PROVE StillDefined(f, dead, kept, v)
  <2>1. SUFFICES ASSUME NEW d \in Definitions(f, v)
                 PROVE  IF d[2] = 0 THEN v \notin dead ELSE d[2] \in kept[d[1]]
    BY DEF StillDefined
  <2>2. d[1] \in BlockIds(f) /\ (d[2] # 0 => d[2] \in DOMAIN f.blocks[d[1]].insts /\ f.blocks[d[1]].insts[d[2]].dest = v)
    BY DefinitionFacts
  <2>3. CASE d[2] = 0
    BY <1>1, <1>7, <2>3
  <2>4. CASE d[2] # 0
    <3>1. d[2] \in Staying(d[1])
      BY <1>7, <2>2, <2>4
    <3>2. d[2] \in kept[d[1]]
      BY <1>4, <2>2, <3>1
    <3> QED BY <2>4, <3>2
  <2> QED BY <2>3, <2>4
<1>8. ReadsWhatStays(f, dead, kept)
  <2>1. SUFFICES ASSUME NEW b \in BlockIds(f)
        PROVE  /\ \A p \in DOMAIN f.blocks[b].phis : f.blocks[b].phis[p].dest \notin dead =>
                     ValuesRead(f.blocks[b].phis[p].args) \subseteq live
               /\ \A i \in kept[b] : ValuesRead(f.blocks[b].insts[i].args) \subseteq live
               /\ ValuesRead(f.blocks[b].term.args) \subseteq live
    BY <1>7 DEF ReadsWhatStays
  <2>2. ASSUME NEW p \in DOMAIN f.blocks[b].phis, f.blocks[b].phis[p].dest \notin dead
        PROVE  ValuesRead(f.blocks[b].phis[p].args) \subseteq live
    <3>1. PICK v : v = f.blocks[b].phis[p].dest
      OBVIOUS
    <3>2. v \in Values /\ v \in live
      BY <1>1, <2>2, <3>1, PhiTypes
    <3>3. ToSet(f.blocks[b].phis[p].args) \subseteq OperandsOfDefinition(f, v)
      BY <1>6, <3>1, <3>2, OperandsAreRecorded
    <3> QED BY <1>5, <3>2, <3>3 DEF ValuesRead
  <2>3. ASSUME NEW i \in kept[b] PROVE ValuesRead(f.blocks[b].insts[i].args) \subseteq live
    <3>1. PICK inst : inst = f.blocks[b].insts[i]
      OBVIOUS
    <3>2. i \in DOMAIN f.blocks[b].insts /\ (inst.op \in EffectOps \/ inst.dest \in live)
      BY <1>4, <3>1
    <3>3. CASE inst.op \in EffectOps
      <4>1. inst \in InstsOf(f)
        BY <3>1, <3>2 DEF InstsOf, ToSet
      <4>2. ToSet(inst.args) \subseteq Roots(f)
        BY <3>3, <4>1 DEF Roots
      <4> QED BY <1>5, <3>1, <4>2 DEF ValuesRead
    <3>4. CASE inst.dest \in live
      <4>1. PICK v : v = inst.dest
        OBVIOUS
      <4>2. v \in Values /\ v \in live
        BY <1>5, <3>4, <4>1
      <4>3. ToSet(f.blocks[b].insts[i].args) \subseteq OperandsOfDefinition(f, v)
        BY <1>6, <3>1, <3>2, <4>1, <4>2, OperandsAreRecorded
      <4> QED BY <1>5, <4>2, <4>3 DEF ValuesRead
    <3> QED BY <3>2, <3>3, <3>4
  <2>4. ValuesRead(f.blocks[b].term.args) \subseteq live
    <3>1. ToSet(f.blocks[b].term.args) \subseteq Roots(f)
      BY Zenon DEF Roots
    <3> QED BY <1>5, <3>1 DEF ValuesRead
  <2> QED BY <2>2, <2>3, <2>4
<1>9. \A b \in BlockIds(f) : kept[b] \in SUBSET DOMAIN f.blocks[b].insts
  BY <1>4
<1> HIDE DEF Staying
<1> QED BY <1>3, <1>8, <1>9, ThinningIsWellFormed

-----------------------------------------------------------------------------
(***************************************************************************)
(* Unless a dominates b, and is not b, control enters b from a block it    *)
(* reached around both.                                                    *)
(***************************************************************************)
LEMMA EntryAround ==
    ASSUME NEW f, IsFunction(f), NEW a, NEW b \in Reachable(f), b # 1,
           a = b \/ b \in ReachableAvoiding(f, {a})
    PROVE  \E p \in BlockIds(f) : /\ p \in ReachableAvoiding(f, {a}) /\ p \in ReachableAvoiding(f, {b})
                                  /\ b \in ToSet(Successors(f, p))
<1>1. PICK S, A, B : S = ReachableAvoiding(f, {a, b}) /\ A = ReachableAvoiding(f, {a})
                     /\ B = ReachableAvoiding(f, {b})
  OBVIOUS
<1>2. /\ S \subseteq BlockIds(f) \ {a, b} /\ (1 \notin {a, b} => 1 \in S)
      /\ \A x \in S : \A c \in ToSet(Successors(f, x)) : c \notin {a, b} => c \in S
  BY <1>1, AvoidingFacts
<1>3. S \subseteq A
  <2>1. 1 \notin {a, b} => 1 \in A
    BY <1>1, AvoidingFacts
  <2>2. \A x \in A : \A c \in ToSet(Successors(f, x)) : c \notin {a, b} => c \in A
    BY <1>1, AvoidingFacts
  <2> QED BY <1>1, <2>1, <2>2, AvoidingIsLeast
<1>4. S \subseteq B
  <2>1. 1 \notin {a, b} => 1 \in B
    BY <1>1, AvoidingFacts
  <2>2. \A x \in B : \A c \in ToSet(Successors(f, x)) : c \notin {a, b} => c \in B
    BY <1>1, AvoidingFacts
  <2> QED BY <1>1, <2>1, <2>2, AvoidingIsLeast
<1>5. SUFFICES ASSUME \A p \in S : b \notin ToSet(Successors(f, p)) PROVE FALSE
  BY <1>1, <1>2, <1>3, <1>4
<1>6. CASE a = b
  <2>1. \A x \in S : \A c \in ToSet(Successors(f, x)) : c \notin {} => c \in S
    BY <1>2, <1>5, <1>6
  <2>2. 1 \notin {} => 1 \in S
    BY <1>2, <1>6
  <2>3. ReachableAvoiding(f, {}) \subseteq S
    BY <2>1, <2>2, AvoidingIsLeast
  <2> QED BY <1>2, <2>3 DEF Reachable
<1>7. CASE a # b
  <2>1. \A x \in S : \A c \in ToSet(Successors(f, x)) : c \notin {a} => c \in S
    BY <1>2, <1>5
  <2>2. 1 \notin {a} => 1 \in S
    BY <1>2
  <2>3. ReachableAvoiding(f, {a}) \subseteq S
    BY <2>1, <2>2, AvoidingIsLeast
  <2> QED BY <1>2, <1>7, <2>3
<1> QED BY <1>6, <1>7

\* What a phi all of whose arguments are one value, or the phi itself, reads
\* was computed before its block.
LEMMA OnlySourceBefore ==
    ASSUME NEW f, IsFunction(f), WellFormed(f), NEW b \in BlockIds(f), NEW p \in DOMAIN f.blocks[b].phis,
           NEW o \in Values, PhiSources(f.blocks[b].phis[p]) = {o}, NEW d \in Definitions(f, o)
    PROVE  d[1] # b /\ Dominates(f, d[1], b)
<1>1. Consistent(f) /\ Reachable(f) = BlockIds(f) /\ EdgesAgree(f)
  BY DEF WellFormed, Consistent, AllReachable
<1>2. PICK phi, v, preds : phi = f.blocks[b].phis[p] /\ v = phi.dest /\ preds = f.blocks[b].preds
  OBVIOUS
<1>3. b # 1
  <2>1. f.blocks[1].phis = <<>>
    BY DEF IsFunction
  <2> QED BY <2>1
<1>4. SUFFICES ASSUME d[1] = b \/ b \in ReachableAvoiding(f, {d[1]}) PROVE FALSE
  BY DEF Dominates
<1>5. PICK q \in BlockIds(f) : /\ q \in ReachableAvoiding(f, {d[1]}) /\ q \in ReachableAvoiding(f, {b})
                               /\ b \in ToSet(Successors(f, q))
  BY <1>1, <1>3, <1>4, EntryAround
<1>6. PICK k \in DOMAIN preds : preds[k] = q
  BY <1>1, <1>2, <1>5, EdgeIsRecorded
<1>7. k \in DOMAIN phi.args
  <2>1. phi.args \in Seq(Operands) /\ preds \in Seq(BlockIds(f)) /\ Len(phi.args) = Len(preds)
    BY <1>1, <1>2, PhiTypes, PartTypes DEF EdgesAgree
  <2>2. k \in 1 .. Len(preds)
    BY <2>1, LengthFacts
  <2> QED BY <2>1, <2>2, LengthFacts
<1>8. \A e : phi.args[k] \in Values /\ e \in Definitions(f, phi.args[k]) => Dominates(f, e[1], q)
  BY <1>2, <1>6, <1>7 DEF WellFormed, PhiArgumentsDominated
<1>9. CASE phi.args[k] = v
  <2>1. v \in Values
    BY <1>2, PhiTypes
  <2>2. <<b, 0>> \in Definitions(f, v)
    BY <1>2, DefinitionFacts
  <2>3. Dominates(f, b, q)
    BY <1>8, <1>9, <2>1, <2>2
  <2> QED BY <1>5, <2>3 DEF Dominates
<1>10. CASE phi.args[k] # v
  <2>1. phi.args[k] = o
    BY <1>2, <1>7, <1>10 DEF PhiSources, ToSet
  <2>2. Dominates(f, d[1], q)
    BY <1>8, <2>1
  <2> QED BY <1>5, <2>2 DEF Dominates
<1> QED BY <1>9, <1>10

-----------------------------------------------------------------------------
(***************************************************************************)
(* Where a chain of links ends supplies what the links supply.             *)
(***************************************************************************)
LEMMA ChainsSupply ==
    ASSUME NEW f, IsFunction(f), WellFormed(f), NEW links, Supplies(f, links), NEW S, S \subseteq DOMAIN links,
           \A v \in S : Definitions(f, v) # {},
           NEW r, r = [v \in S |-> ChainEnd(v, links)]
    PROVE  Supplies(f, r)
<1>1. AreOperands(links) /\ DOMAIN links \subseteq Values /\ AllReachable(f) /\ DefinedOnce(f)
  BY DEF Supplies, WellFormed
<1>2. PICK N \in Nat : N = Cardinality(DOMAIN links)
  BY <1>1, SsaAssumption, FS_Subset, FS_CardinalityType
<1>3. ASSUME NEW v \in S
      PROVE  /\ r[v] \in Operands
             /\ r[v] \in Values =>
                   /\ Definitions(f, r[v]) # {}
                   /\ \A d \in Definitions(f, r[v]) : \A e \in Definitions(f, v) : NoLater(f, d, e)
  <2>1. PICK w : /\ w[0] = v
                 /\ \A n \in 1 .. N : w[n] = IF w[n - 1] \in DOMAIN links THEN links[w[n - 1]] ELSE w[n - 1]
                 /\ ChainEnd(v, links) = w[N]
    BY <1>2, ChainUnfolds
  <2> DEFINE Good(o) == /\ o \in Operands
                        /\ o \in Values =>
                             /\ Definitions(f, o) # {}
                             /\ \A d \in Definitions(f, o) : \A e \in Definitions(f, v) : NoLater(f, d, e)
             T == {n \in 0 .. N : Good(w[n])}
  <2>2. 0 \in T
    <3>1. v \in Values /\ v \in Operands
      BY <1>1 DEF Operands
    <3>2. ASSUME NEW d \in Definitions(f, v), NEW e \in Definitions(f, v) PROVE NoLater(f, d, e)
      <4>1. d = e /\ d[2] \in Nat
        BY <1>1, <3>1, DefinitionPlaces DEF DefinedOnce
      <4> QED BY <4>1 DEF NoLater
    <3>3. Good(v)
      BY <3>1, <3>2
    <3> QED BY <1>2, <2>1, <3>3
  <2>3. ASSUME NEW n \in 0 .. N - 1, n \in T PROVE n + 1 \in T
    <3>1. PICK o : o = w[n]
      OBVIOUS
    <3>2. n + 1 \in 1 .. N /\ (n + 1) - 1 = n /\ n + 1 \in 0 .. N
      BY <1>2
    <3>3. w[n + 1] = IF o \in DOMAIN links THEN links[o] ELSE o
      <4>1. w[n + 1] = IF w[(n + 1) - 1] \in DOMAIN links THEN links[w[(n + 1) - 1]] ELSE w[(n + 1) - 1]
        BY <2>1, <3>2
      <4> QED BY <3>1, <3>2, <4>1
    <3>4. Good(o)
      BY <2>3, <3>1
    <3>5. CASE o \in DOMAIN links
      <4>1. PICK u : u = links[o]
        OBVIOUS
      <4>2. u \in Operands /\ o \in Values
        BY <1>1, <3>5, <4>1 DEF AreOperands
      <4>3. ASSUME u \in Values
            PROVE  /\ Definitions(f, u) # {}
                   /\ \A d \in Definitions(f, u) : \A e \in Definitions(f, v) : NoLater(f, d, e)
        <5>1. Definitions(f, u) # {} /\ \A d \in Definitions(f, u) : \A e \in Definitions(f, o) :
                    NoLater(f, d, e)
          BY <3>5, <4>1, <4>3 DEF Supplies
        <5>2. PICK m : m \in Definitions(f, o)
          BY <3>4, <4>2
        <5>3. ASSUME NEW d \in Definitions(f, u), NEW e \in Definitions(f, v) PROVE NoLater(f, d, e)
          <6>1. NoLater(f, d, m) /\ NoLater(f, m, e)
            BY <3>4, <4>2, <5>1, <5>2
          <6>2. d[1] \in BlockIds(f) /\ m[1] \in BlockIds(f) /\ e[1] \in BlockIds(f)
                /\ d[2] \in Int /\ m[2] \in Int /\ e[2] \in Int
            BY <5>2, DefinitionPlaces
          <6> QED BY <1>1, <6>1, <6>2, PrecedesTransitive
        <5> QED BY <5>1, <5>3
      <4>4. Good(u)
        BY <4>2, <4>3
      <4>5. w[n + 1] = u
        BY <3>3, <3>5, <4>1
      <4> QED BY <3>2, <4>4, <4>5
    <3>6. CASE o \notin DOMAIN links
      <4>1. w[n + 1] = o
        BY <3>3, <3>6
      <4> QED BY <3>2, <3>4, <4>1
    <3> QED BY <3>5, <3>6
  <2>4. \A n \in 0 .. N - 1 : n \in T => n + 1 \in T
    BY <2>3
  <2> HIDE DEF T
  <2>5. \A n \in 0 .. N : n \in T
    BY <1>2, <2>2, <2>4, UpToBound
  <2>6. N \in T
    BY <1>2, <2>5
  <2>7. Good(w[N])
    BY <2>6 DEF T
  <2>8. r[v] = w[N]
    BY <2>1
  <2> HIDE DEF Good
  <2>9. Good(r[v])
    BY <2>7, <2>8
  <2> QED BY <2>9 DEF Good
<1>4. DOMAIN r = S /\ S \subseteq Values
  BY <1>1
<1> QED BY <1>3, <1>4 DEF Supplies, AreOperands

-----------------------------------------------------------------------------
(***************************************************************************)
(* Values that are read through r, and not what r answers, can go.         *)
(***************************************************************************)
LEMMA ReplacingIsWellFormed ==
    ASSUME NEW f, IsFunction(f), WellFormed(f), NEW r, Supplies(f, r),
           \A v \in DOMAIN r : r[v] \notin DOMAIN r,
           NEW g, g = RemoveDefinitions(SubstituteOperands(f, r), DOMAIN r)
    PROVE  IsFunction(g) /\ WellFormed(g)
<1>1. PICK h, dead : h = SubstituteOperands(f, r) /\ dead = DOMAIN r
  OBVIOUS
<1>2. IsFunction(h) /\ WellFormed(h)
  BY <1>1, SubstitutingIsWellFormed
<1>3. AreOperands(r) /\ DOMAIN r \subseteq Values /\ EdgesAgree(f) /\ f.blocks[1].preds = <<>>
  BY DEF Supplies, WellFormed, AllReachable
<1>4. PICK kept : kept = [b \in BlockIds(h) |-> Outside(h.blocks[b].insts, dead)]
  OBVIOUS
<1>5. g = Thinned(h, dead, kept)
  BY <1>1, <1>4 DEF RemoveDefinitions
<1>6. ASSUME NEW b \in BlockIds(h)
      PROVE  kept[b] = {i \in DOMAIN h.blocks[b].insts : h.blocks[b].insts[i].dest \notin dead}
  BY <1>4 DEF Outside
<1>7. \A b \in BlockIds(h) : kept[b] \in SUBSET DOMAIN h.blocks[b].insts
  BY <1>6
<1>8. ASSUME NEW args, NEW v \in ValuesRead(With(r, args)) PROVE StillDefined(h, dead, kept, v)
  <2>1. v \notin dead
    <3>1. \E u \in ValuesRead(args) : (u = v /\ u \notin DOMAIN r) \/ (u \in DOMAIN r /\ r[u] = v)
      BY <1>3, <1>8, ValuesReadThrough
    <3> QED BY <1>1, <3>1
  <2>2. SUFFICES ASSUME NEW d \in Definitions(h, v)
                 PROVE  IF d[2] = 0 THEN v \notin dead ELSE d[2] \in kept[d[1]]
    BY DEF StillDefined
  <2>3. d[1] \in BlockIds(h)
        /\ (d[2] # 0 => d[2] \in DOMAIN h.blocks[d[1]].insts /\ h.blocks[d[1]].insts[d[2]].dest = v)
    BY DefinitionFacts
  <2> QED BY <1>6, <2>1, <2>3
<1>9. BlockIds(h) = BlockIds(f)
  BY <1>1, <1>3, SubstitutedShape
<1>10. ReadsWhatStays(h, dead, kept)
  <2>1. SUFFICES ASSUME NEW b \in BlockIds(h)
        PROVE  /\ \A p \in DOMAIN h.blocks[b].phis :
                     \A v \in ValuesRead(h.blocks[b].phis[p].args) : StillDefined(h, dead, kept, v)
               /\ \A i \in kept[b] : \A v \in ValuesRead(h.blocks[b].insts[i].args) :
                        StillDefined(h, dead, kept, v)
               /\ \A v \in ValuesRead(h.blocks[b].term.args) : StillDefined(h, dead, kept, v)
    BY DEF ReadsWhatStays
  <2>2. ASSUME NEW p \in DOMAIN h.blocks[b].phis, NEW v \in ValuesRead(h.blocks[b].phis[p].args)
        PROVE  StillDefined(h, dead, kept, v)
    <3>1. p \in DOMAIN f.blocks[b].phis
      BY <1>1, <1>3, <1>9, SubstitutedShape
    <3>2. h.blocks[b].phis[p].args = With(r, f.blocks[b].phis[p].args)
      BY <1>1, <1>3, <1>9, <3>1, SubstitutedShape
    <3> QED BY <1>8, <2>2, <3>2
  <2>3. ASSUME NEW i \in kept[b], NEW v \in ValuesRead(h.blocks[b].insts[i].args)
        PROVE  StillDefined(h, dead, kept, v)
    <3>1. i \in DOMAIN f.blocks[b].insts
      BY <1>1, <1>3, <1>6, <1>9, SubstitutedShape
    <3>2. h.blocks[b].insts[i].args = With(r, f.blocks[b].insts[i].args)
      BY <1>1, <1>3, <1>9, <3>1, SubstitutedShape
    <3> QED BY <1>8, <2>3, <3>2
  <2>4. ASSUME NEW v \in ValuesRead(h.blocks[b].term.args) PROVE StillDefined(h, dead, kept, v)
    <3>1. h.blocks[b].term.args = With(r, f.blocks[b].term.args)
      BY <1>1, <1>3, <1>9, SubstitutedShape
    <3> QED BY <1>8, <2>4, <3>1
  <2> QED BY <2>2, <2>3, <2>4
<1> QED BY <1>2, <1>5, <1>7, <1>10, ThinningIsWellFormed

-----------------------------------------------------------------------------
\* Where a direct copy comes from: a phi of one source, or a copy.
IsDirectCopy(f, v, o) ==
    \/ \E b \in BlockIds(f) : \E p \in DOMAIN f.blocks[b].phis :
          f.blocks[b].phis[p].dest = v /\ PhiSources(f.blocks[b].phis[p]) = {o}
    \/ \E b \in BlockIds(f) : \E i \in DOMAIN f.blocks[b].insts :
          /\ f.blocks[b].insts[i].dest = v /\ v # NoValue
          /\ f.blocks[b].insts[i].op = "copy" /\ f.blocks[b].insts[i].args[1] = o

\* What copy propagation starts from are copies.
LEMMA DirectCopiesAre ==
    ASSUME NEW f, IsFunction(f), NEW v \in DOMAIN DirectCopies(f)
    PROVE  IsDirectCopy(f, v, DirectCopies(f)[v])
<1> DEFINE phis   == UNION {ToSet(f.blocks[b].phis) : b \in BlockIds(f)}
           copies == {inst \in UNION {ToSet(f.blocks[b].insts) : b \in BlockIds(f)} :
                        inst.op = "copy" /\ inst.dest # NoValue}
           trivial == {phi \in phis : Cardinality(PhiSources(phi)) = 1}
           Source(u) == (UNION {PhiSources(phi) : phi \in {phi \in trivial : phi.dest = u}})
                        \cup {inst.args[1] : inst \in {inst \in copies : inst.dest = u}}
<1>1. DirectCopies(f) = [u \in {d.dest : d \in trivial \cup copies} |-> CHOOSE o \in Source(u) : TRUE]
  BY Zenon DEF DirectCopies
<1>2. PICK o : o = DirectCopies(f)[v]
  OBVIOUS
<1>3. PICK d \in trivial \cup copies : v = d.dest
  <2>1. PICK T, C : T = trivial /\ C = copies
    OBVIOUS
  <2>2. v \in {d.dest : d \in trivial \cup copies}
    BY <1>1, Zenon
  <2> HIDE DEF trivial, copies
  <2> QED BY <2>2
<1>4. \A phi \in trivial : \E b \in BlockIds(f) : \E p \in DOMAIN f.blocks[b].phis :
         phi = f.blocks[b].phis[p] /\ \E x : PhiSources(phi) = {x}
  <2>1. SUFFICES ASSUME NEW phi \in trivial
                 PROVE  \E b \in BlockIds(f) : \E p \in DOMAIN f.blocks[b].phis :
                           phi = f.blocks[b].phis[p] /\ \E x : PhiSources(phi) = {x}
    OBVIOUS
  <2>2. PICK b \in BlockIds(f) : phi \in ToSet(f.blocks[b].phis)
    BY <2>1
  <2>3. PICK p \in DOMAIN f.blocks[b].phis : phi = f.blocks[b].phis[p]
    BY <2>2 DEF ToSet
  <2>4. IsFiniteSet(PhiSources(phi))
    <3>1. PICK args : args = phi.args
      OBVIOUS
    <3>2. args \in Seq(Operands)
      BY <2>3, <3>1, PhiTypes
    <3>3. Len(args) \in Nat /\ DOMAIN args = 1 .. Len(args)
      BY <3>2, LengthFacts
    <3>4. IsFiniteSet({args[k] : k \in 1 .. Len(args)})
      BY <3>3, RangeIsFinite
    <3>5. PhiSources(phi) \subseteq {args[k] : k \in 1 .. Len(args)}
      BY <3>1, <3>3 DEF PhiSources, ToSet
    <3> QED BY <3>4, <3>5, FS_Subset
  <2>5. Cardinality(PhiSources(phi)) = 1
    BY <2>1
  <2> QED BY <2>3, <2>4, <2>5, FS_Singleton
<1>5. \A inst \in copies : /\ inst.op = "copy" /\ inst.dest # NoValue
                           /\ \E b \in BlockIds(f) : \E i \in DOMAIN f.blocks[b].insts :
                                    inst = f.blocks[b].insts[i]
  BY DEF ToSet
<1>6. o \in Source(v)
  <2>1. o = CHOOSE x \in Source(v) : TRUE
    BY <1>1, <1>2, Zenon
  <2>2. \E x : x \in Source(v)
    <3>1. CASE d \in trivial
      <4>1. PICK x : PhiSources(d) = {x}
        BY <1>4, <3>1
      <4>2. x \in UNION {PhiSources(phi) : phi \in {phi \in trivial : phi.dest = v}}
        <5> HIDE DEF trivial
        <5> QED BY <1>3, <3>1, <4>1
      <4> QED BY <4>2
    <3>2. CASE d \in copies
      <4>1. d.args[1] \in {inst.args[1] : inst \in {inst \in copies : inst.dest = v}}
        <5> HIDE DEF copies
        <5> QED BY <1>3, <3>2
      <4> QED BY <4>1
    <3> QED BY <1>3, <3>1, <3>2
  <2> HIDE DEF Source
  <2> QED BY <2>1, <2>2
<1> HIDE DEF trivial, copies
<1>7. CASE o \in UNION {PhiSources(phi) : phi \in {phi \in trivial : phi.dest = v}}
  <2>1. PICK phi \in trivial : phi.dest = v /\ o \in PhiSources(phi)
    BY <1>7
  <2>2. PICK b \in BlockIds(f) : \E p \in DOMAIN f.blocks[b].phis :
            phi = f.blocks[b].phis[p] /\ \E x : PhiSources(phi) = {x}
    BY <1>4, <2>1
  <2>3. PICK p \in DOMAIN f.blocks[b].phis : phi = f.blocks[b].phis[p] /\ \E x : PhiSources(phi) = {x}
    BY <2>2
  <2>4. PhiSources(f.blocks[b].phis[p]) = {o} /\ f.blocks[b].phis[p].dest = v
    BY <2>1, <2>3
  <2> QED BY <1>2, <2>4 DEF IsDirectCopy
<1>8. CASE o \in {inst.args[1] : inst \in {inst \in copies : inst.dest = v}}
  <2>1. PICK inst \in copies : inst.dest = v /\ o = inst.args[1]
    BY <1>8
  <2>2. inst.op = "copy" /\ inst.dest # NoValue
        /\ \E b \in BlockIds(f) : \E i \in DOMAIN f.blocks[b].insts : inst = f.blocks[b].insts[i]
    BY <1>5, <2>1
  <2>3. PICK b \in BlockIds(f) : \E i \in DOMAIN f.blocks[b].insts : inst = f.blocks[b].insts[i]
    BY <2>2
  <2>4. PICK i \in DOMAIN f.blocks[b].insts : inst = f.blocks[b].insts[i]
    BY <2>3, ZenonT(60)
  <2> QED BY <1>2, <2>1, <2>2, <2>4 DEF IsDirectCopy
<1> QED BY <1>6, <1>7, <1>8

\* What is copied was computed before.
LEMMA DirectCopiesSupply ==
    ASSUME NEW f, IsFunction(f), WellFormed(f), NEW v, NEW o, IsDirectCopy(f, v, o)
    PROVE  /\ v \in Values /\ o \in Operands /\ Definitions(f, v) # {}
           /\ o \in Values => /\ Definitions(f, o) # {}
                              /\ \A d \in Definitions(f, o) : \A e \in Definitions(f, v) : NoLater(f, d, e)
<1>1. DefinedOnce(f) /\ UsesDominated(f)
  BY DEF WellFormed
<1>2. CASE \E b \in BlockIds(f) : \E p \in DOMAIN f.blocks[b].phis :
             f.blocks[b].phis[p].dest = v /\ PhiSources(f.blocks[b].phis[p]) = {o}
  <2>1. PICK b \in BlockIds(f) : \E p \in DOMAIN f.blocks[b].phis :
             f.blocks[b].phis[p].dest = v /\ PhiSources(f.blocks[b].phis[p]) = {o}
    BY <1>2
  <2>2. PICK p \in DOMAIN f.blocks[b].phis :
             f.blocks[b].phis[p].dest = v /\ PhiSources(f.blocks[b].phis[p]) = {o}
    BY <2>1
  <2>3. v \in Values /\ f.blocks[b].phis[p].args \in Seq(Operands)
    BY <2>2, PhiTypes
  <2>4. <<b, 0>> \in Definitions(f, v)
    BY <2>2, DefinitionFacts
  <2>5. o \in ToSet(f.blocks[b].phis[p].args)
    BY <2>2 DEF PhiSources
  <2>6. o \in Operands
    <3>1. PICK args : args = f.blocks[b].phis[p].args
      OBVIOUS
    <3>2. args \in Seq(Operands) /\ o \in ToSet(args)
      BY <2>3, <2>5, <3>1
    <3> QED BY <3>2, LengthFacts DEF ToSet
  <2>7. ASSUME o \in Values
        PROVE  /\ Definitions(f, o) # {}
               /\ \A d \in Definitions(f, o) : \A e \in Definitions(f, v) : NoLater(f, d, e)
    <3>1. Definitions(f, o) # {}
      BY <1>1, <2>5, <2>7, ReadIsDefined
    <3>2. ASSUME NEW d \in Definitions(f, o), NEW e \in Definitions(f, v) PROVE NoLater(f, d, e)
      <4>1. e = <<b, 0>>
        BY <1>1, <2>3, <2>4 DEF DefinedOnce
      <4>2. d[1] # b /\ Dominates(f, d[1], b)
        BY <2>2, <2>7, OnlySourceBefore
      <4> QED BY <4>1, <4>2 DEF NoLater
    <3> QED BY <3>1, <3>2
  <2> QED BY <2>3, <2>4, <2>6, <2>7
<1>3. CASE \E b \in BlockIds(f) : \E i \in DOMAIN f.blocks[b].insts :
             /\ f.blocks[b].insts[i].dest = v /\ v # NoValue
             /\ f.blocks[b].insts[i].op = "copy" /\ f.blocks[b].insts[i].args[1] = o
  <2>1. PICK b \in BlockIds(f) : \E i \in DOMAIN f.blocks[b].insts :
             /\ f.blocks[b].insts[i].dest = v /\ v # NoValue
             /\ f.blocks[b].insts[i].op = "copy" /\ f.blocks[b].insts[i].args[1] = o
    BY <1>3
  <2>2. PICK i \in DOMAIN f.blocks[b].insts :
             /\ f.blocks[b].insts[i].dest = v /\ v # NoValue
             /\ f.blocks[b].insts[i].op = "copy" /\ f.blocks[b].insts[i].args[1] = o
    BY <2>1
  <2>3. PICK args : args = f.blocks[b].insts[i].args
    OBVIOUS
  <2>4. v \in Values /\ args \in Seq(Operands) /\ Len(args) = 1
    BY <2>2, <2>3, InstTypes DEF HasItsOperands
  <2>5. o \in Operands /\ o \in ToSet(args)
    BY <2>2, <2>3, <2>4, LengthFacts DEF ToSet
  <2>6. <<b, i>> \in Definitions(f, v)
    BY <2>2, DefinitionFacts
  <2>7. ASSUME o \in Values
        PROVE  /\ Definitions(f, o) # {}
               /\ \A d \in Definitions(f, o) : \A e \in Definitions(f, v) : NoLater(f, d, e)
    <3>1. Definitions(f, o) # {}
      BY <1>1, <2>3, <2>5, <2>7, ReadIsDefined
    <3>2. ASSUME NEW d \in Definitions(f, o), NEW e \in Definitions(f, v) PROVE NoLater(f, d, e)
      <4>1. e = <<b, i>>
        BY <1>1, <2>4, <2>6 DEF DefinedOnce
      <4>2. DefinedBefore(f, o, b, i)
        BY <1>1, <2>3, <2>5, <2>7 DEF UsesDominated, ValuesRead
      <4>3. Precedes(f, d, e)
        BY <4>1, <4>2, DefinedBeforeIs
      <4>4. d[2] \in Int /\ e[2] \in Int
        BY DefinitionPlaces
      <4> QED BY <4>3, <4>4, PrecedesIsNoLater
    <3> QED BY <3>1, <3>2
  <2> QED BY <2>4, <2>5, <2>6, <2>7
<1> QED BY <1>2, <1>3 DEF IsDirectCopy

\* copyprop.rs: what copy propagation leaves of a function is one.
LEMMA CopyPropagatingIsWellFormed ==
    ASSUME NEW f, IsFunction(f), WellFormed(f), NEW g, g = CopyPropagated(f)
    PROVE  IsFunction(g) /\ WellFormed(g)
<1>1. PICK direct, S, r : /\ direct = DirectCopies(f) /\ S = CopiesToResolve(f)
                          /\ r = [v \in S |-> ChainEnd(v, direct)]
  OBVIOUS
<1>2. \A v \in DOMAIN direct : IsDirectCopy(f, v, direct[v])
  <2>1. \A v \in DOMAIN DirectCopies(f) : IsDirectCopy(f, v, DirectCopies(f)[v])
    BY DirectCopiesAre
  <2> QED BY <1>1, <2>1
<1>3. \A v \in DOMAIN direct :
         /\ v \in Values /\ direct[v] \in Operands /\ Definitions(f, v) # {}
         /\ direct[v] \in Values =>
               /\ Definitions(f, direct[v]) # {}
               /\ \A d \in Definitions(f, direct[v]) : \A e \in Definitions(f, v) : NoLater(f, d, e)
  <2>1. TAKE v \in DOMAIN direct
  <2>2. PICK o : o = direct[v]
    OBVIOUS
  <2>3. IsDirectCopy(f, v, o)
    BY <1>2, <2>2
  <2>4. /\ v \in Values /\ o \in Operands /\ Definitions(f, v) # {}
        /\ o \in Values => /\ Definitions(f, o) # {}
                           /\ \A d \in Definitions(f, o) : \A e \in Definitions(f, v) : NoLater(f, d, e)
    BY <2>3, DirectCopiesSupply
  <2> QED BY <2>2, <2>4
<1>4. Supplies(f, direct)
  <2>1. AreOperands(direct) /\ DOMAIN direct \subseteq Values
    BY <1>3 DEF AreOperands
  <2>2. \A v \in DOMAIN direct : direct[v] \in Values =>
           /\ Definitions(f, direct[v]) # {}
           /\ \A d \in Definitions(f, direct[v]) : \A e \in Definitions(f, v) : NoLater(f, d, e)
    BY <1>3, Zenon
  <2> QED BY <2>1, <2>2, Zenon DEF Supplies
<1>5. S = {v \in DOMAIN direct : ChainEnd(v, direct) \notin DOMAIN direct}
  BY <1>1 DEF CopiesToResolve
<1>6. Supplies(f, r)
  <2>1. S \subseteq DOMAIN direct
    BY <1>5
  <2>2. \A v \in S : Definitions(f, v) # {}
    BY <1>3, <2>1, Zenon
  <2>3. r = [v \in S |-> ChainEnd(v, direct)]
    BY <1>1
  <2> QED BY <1>4, <2>1, <2>2, <2>3, ChainsSupply
<1>7. DOMAIN r = S /\ \A v \in DOMAIN r : r[v] \notin DOMAIN r
  BY <1>1, <1>5
<1>8. g = RemoveDefinitions(SubstituteOperands(f, r), S)
  BY <1>1 DEF CopyPropagated, ReadThrough
<1> QED BY <1>6, <1>7, <1>8, ReplacingIsWellFormed

\* ReversePostorder unfolds.
LEMMA SearchUnfolds ==
    ASSUME NEW f, 3 * Len(f.blocks) \in Nat
    PROVE  \E w : /\ w[0] = [stack |-> <<[block |-> 1, done |-> 0]>>, visited |-> {1}, order |-> <<>>]
                  /\ \A n \in 1 .. 3 * Len(f.blocks) : w[n] = SearchStep(f, w[n - 1])
                  /\ ReversePostorder(f) = w[3 * Len(f.blocks)].order
<1> DEFINE Step(s, n) == SearchStep(f, s)
           after[n \in 0 .. 3 * Len(f.blocks)] ==
              IF n = 0 THEN [stack |-> <<[block |-> 1, done |-> 0]>>, visited |-> {1}, order |-> <<>>]
              ELSE LET before == after[n - 1] IN SearchStep(f, before)
<1>1. PICK N \in Nat : N = 3 * Len(f.blocks)
  OBVIOUS
<1>2. PICK start : start = [stack |-> <<[block |-> 1, done |-> 0]>>, visited |-> {1}, order |-> <<>>]
  OBVIOUS
<1>3. \E g : g = [n \in 0 .. N |-> IF n = 0 THEN start ELSE Step(g[n - 1], n)]
  <2> HIDE DEF Step, after
  <2> DEFINE Reached(m) == \E g : g = [n \in 0 .. m |-> IF n = 0 THEN start ELSE Step(g[n - 1], n)]
             T == {m \in 0 .. N : Reached(m)}
  <2>1. 0 \in T
    <3>1. PICK g : g = [n \in 0 .. 0 |-> start]
      OBVIOUS
    <3>2. g = [n \in 0 .. 0 |-> IF n = 0 THEN start ELSE Step(g[n - 1], n)]
      BY <3>1
    <3>3. Reached(0)
      BY <3>2
    <3> QED BY <3>3
  <2>2. ASSUME NEW m \in 0 .. N - 1, m \in T PROVE m + 1 \in T
    <3>1. PICK g : g = [n \in 0 .. m |-> IF n = 0 THEN start ELSE Step(g[n - 1], n)]
      BY <2>2
    <3>2. PICK h : h = [n \in 0 .. m + 1 |-> IF n <= m THEN g[n] ELSE Step(g[m], m + 1)]
      OBVIOUS
    <3>3. ASSUME NEW n \in 0 .. m + 1 PROVE h[n] = IF n = 0 THEN start ELSE Step(h[n - 1], n)
      <4>1. CASE n = 0
        BY <4>1, <3>1, <3>2
      <4>2. CASE n \in 1 .. m
        <5>1. h[n] = g[n] /\ h[n - 1] = g[n - 1] /\ g[n] = Step(g[n - 1], n)
          BY <4>2, <3>1, <3>2
        <5> QED BY <4>2, <5>1
      <4>3. CASE n = m + 1
        <5>1. h[n] = Step(g[m], m + 1) /\ n - 1 = m /\ h[m] = g[m] /\ n # 0
          BY <4>3, <3>2
        <5> QED BY <4>3, <5>1
      <4> QED BY <4>1, <4>2, <4>3
    <3>4. h = [n \in 0 .. m + 1 |-> IF n = 0 THEN start ELSE Step(h[n - 1], n)]
      BY <3>2, <3>3
    <3>5. Reached(m + 1)
      BY <3>4
    <3>6. m + 1 \in 0 .. N
      OBVIOUS
    <3> QED BY <3>5, <3>6
  <2>3. N \in T
    <3>1. \A k \in 0 .. N - 1 : k \in T => k + 1 \in T
      BY <2>2
    <3> HIDE DEF T
    <3>2. \A k \in 0 .. N : k \in T
      BY <2>1, <3>1, UpToBound
    <3> QED BY <3>2
  <2> QED BY <2>3
<1>4. PICK g : g = [n \in 0 .. N |-> IF n = 0 THEN start ELSE Step(g[n - 1], n)]
  BY <1>3
<1>5. g = [n \in 0 .. 3 * Len(f.blocks) |->
              IF n = 0 THEN [stack |-> <<[block |-> 1, done |-> 0]>>, visited |-> {1}, order |-> <<>>]
              ELSE LET before == g[n - 1] IN SearchStep(f, before)]
  BY <1>1, <1>2, <1>4, Zenon
<1>6. after = [n \in 0 .. 3 * Len(f.blocks) |->
                  IF n = 0 THEN [stack |-> <<[block |-> 1, done |-> 0]>>, visited |-> {1}, order |-> <<>>]
                  ELSE LET before == after[n - 1] IN SearchStep(f, before)]
  BY <1>5, Zenon
<1>7. ReversePostorder(f) = after[3 * Len(f.blocks)].order
  BY Zenon DEF ReversePostorder
<1>8. PICK w : w = after
  OBVIOUS
<1>9. w = [n \in 0 .. N |-> IF n = 0 THEN start ELSE Step(w[n - 1], n)]
  BY <1>1, <1>2, <1>6, <1>8, Zenon
<1>10. w[0] = start /\ \A n \in 1 .. N : w[n] = Step(w[n - 1], n)
  <2> HIDE DEF Step, after
  <2>1. w[0] = start
    BY <1>9
  <2>2. ASSUME NEW n \in 1 .. N PROVE w[n] = Step(w[n - 1], n)
    <3>1. n \in 0 .. N /\ n # 0
      OBVIOUS
    <3> QED BY <3>1, <1>9
  <2> QED BY <2>1, <2>2
<1>11. w[0] = [stack |-> <<[block |-> 1, done |-> 0]>>, visited |-> {1}, order |-> <<>>]
  BY <1>10, <1>2
<1>12. \A n \in 1 .. 3 * Len(f.blocks) : w[n] = SearchStep(f, w[n - 1])
  BY <1>10, <1>1, Zenon
<1>13. ReversePostorder(f) = w[3 * Len(f.blocks)].order
  BY <1>7, <1>8, Zenon
<1> QED BY <1>11, <1>12, <1>13

\* WalkOf unfolds.
LEMMA WalkUnfolds ==
    ASSUME NEW f, 2 * Len(f.blocks) \in Nat
    PROVE  \E w : /\ w[0] = [steps |-> <<<<"enter", 1>>>>, available |-> <<>>, replacement |-> <<>>,
                           added |-> [b \in BlockIds(f) |-> {}]]
                  /\ \A n \in 1 .. 2 * Len(f.blocks) : w[n] = WalkStep(f, Children(f), w[n - 1])
                  /\ WalkOf(f) = w[2 * Len(f.blocks)]
<1> DEFINE Step(s, n) == WalkStep(f, Children(f), s)
           after[n \in 0 .. 2 * Len(f.blocks)] ==
              IF n = 0 THEN [steps |-> <<<<"enter", 1>>>>, available |-> <<>>, replacement |-> <<>>,
                           added |-> [b \in BlockIds(f) |-> {}]]
              ELSE LET walk == after[n - 1] IN WalkStep(f, Children(f), walk)
<1>1. PICK N \in Nat : N = 2 * Len(f.blocks)
  OBVIOUS
<1>2. PICK start : start = [steps |-> <<<<"enter", 1>>>>, available |-> <<>>, replacement |-> <<>>,
                           added |-> [b \in BlockIds(f) |-> {}]]
  OBVIOUS
<1>3. \E g : g = [n \in 0 .. N |-> IF n = 0 THEN start ELSE Step(g[n - 1], n)]
  <2> HIDE DEF Step, after
  <2> DEFINE Reached(m) == \E g : g = [n \in 0 .. m |-> IF n = 0 THEN start ELSE Step(g[n - 1], n)]
             T == {m \in 0 .. N : Reached(m)}
  <2>1. 0 \in T
    <3>1. PICK g : g = [n \in 0 .. 0 |-> start]
      OBVIOUS
    <3>2. g = [n \in 0 .. 0 |-> IF n = 0 THEN start ELSE Step(g[n - 1], n)]
      BY <3>1
    <3>3. Reached(0)
      BY <3>2
    <3> QED BY <3>3
  <2>2. ASSUME NEW m \in 0 .. N - 1, m \in T PROVE m + 1 \in T
    <3>1. PICK g : g = [n \in 0 .. m |-> IF n = 0 THEN start ELSE Step(g[n - 1], n)]
      BY <2>2
    <3>2. PICK h : h = [n \in 0 .. m + 1 |-> IF n <= m THEN g[n] ELSE Step(g[m], m + 1)]
      OBVIOUS
    <3>3. ASSUME NEW n \in 0 .. m + 1 PROVE h[n] = IF n = 0 THEN start ELSE Step(h[n - 1], n)
      <4>1. CASE n = 0
        BY <4>1, <3>1, <3>2
      <4>2. CASE n \in 1 .. m
        <5>1. h[n] = g[n] /\ h[n - 1] = g[n - 1] /\ g[n] = Step(g[n - 1], n)
          BY <4>2, <3>1, <3>2
        <5> QED BY <4>2, <5>1
      <4>3. CASE n = m + 1
        <5>1. h[n] = Step(g[m], m + 1) /\ n - 1 = m /\ h[m] = g[m] /\ n # 0
          BY <4>3, <3>2
        <5> QED BY <4>3, <5>1
      <4> QED BY <4>1, <4>2, <4>3
    <3>4. h = [n \in 0 .. m + 1 |-> IF n = 0 THEN start ELSE Step(h[n - 1], n)]
      BY <3>2, <3>3
    <3>5. Reached(m + 1)
      BY <3>4
    <3>6. m + 1 \in 0 .. N
      OBVIOUS
    <3> QED BY <3>5, <3>6
  <2>3. N \in T
    <3>1. \A k \in 0 .. N - 1 : k \in T => k + 1 \in T
      BY <2>2
    <3> HIDE DEF T
    <3>2. \A k \in 0 .. N : k \in T
      BY <2>1, <3>1, UpToBound
    <3> QED BY <3>2
  <2> QED BY <2>3
<1>4. PICK g : g = [n \in 0 .. N |-> IF n = 0 THEN start ELSE Step(g[n - 1], n)]
  BY <1>3
<1>5. g = [n \in 0 .. 2 * Len(f.blocks) |->
              IF n = 0 THEN [steps |-> <<<<"enter", 1>>>>, available |-> <<>>, replacement |-> <<>>,
                           added |-> [b \in BlockIds(f) |-> {}]]
              ELSE LET walk == g[n - 1] IN WalkStep(f, Children(f), walk)]
  BY <1>1, <1>2, <1>4, Zenon
<1>6. after = [n \in 0 .. 2 * Len(f.blocks) |->
                  IF n = 0 THEN [steps |-> <<<<"enter", 1>>>>, available |-> <<>>, replacement |-> <<>>,
                           added |-> [b \in BlockIds(f) |-> {}]]
                  ELSE LET walk == after[n - 1] IN WalkStep(f, Children(f), walk)]
  BY <1>5, Zenon
<1>7. WalkOf(f) = after[2 * Len(f.blocks)]
  BY Zenon DEF WalkOf
<1>8. PICK w : w = after
  OBVIOUS
<1>9. w = [n \in 0 .. N |-> IF n = 0 THEN start ELSE Step(w[n - 1], n)]
  BY <1>1, <1>2, <1>6, <1>8, ZenonT(60)
<1>10. w[0] = start /\ \A n \in 1 .. N : w[n] = Step(w[n - 1], n)
  <2> HIDE DEF Step, after
  <2>1. w[0] = start
    BY <1>9
  <2>2. ASSUME NEW n \in 1 .. N PROVE w[n] = Step(w[n - 1], n)
    <3>1. n \in 0 .. N /\ n # 0
      OBVIOUS
    <3> QED BY <3>1, <1>9
  <2> QED BY <2>1, <2>2
<1>11. w[0] = [steps |-> <<<<"enter", 1>>>>, available |-> <<>>, replacement |-> <<>>,
                           added |-> [b \in BlockIds(f) |-> {}]]
  BY <1>10, <1>2
<1>12. \A n \in 1 .. 2 * Len(f.blocks) : w[n] = WalkStep(f, Children(f), w[n - 1])
  BY <1>10, <1>1, Zenon
<1>13. WalkOf(f) = w[2 * Len(f.blocks)]
  BY <1>7, <1>8, Zenon
<1> QED BY <1>11, <1>12, <1>13

-----------------------------------------------------------------------------
(***************************************************************************)
(* The dominator tree: the dominators of a block are one behind the other, *)
(* so the last one there is.                                               *)
(***************************************************************************)
LEMMA DominatorsAreOrdered ==
    ASSUME NEW f, IsFunction(f), NEW b \in Reachable(f), NEW a, NEW c, Dominates(f, a, b), Dominates(f, c, b)
    PROVE  Dominates(f, a, c) \/ Dominates(f, c, a)
<1>1. SUFFICES ASSUME c \in ReachableAvoiding(f, {a}), a \in ReachableAvoiding(f, {c}) PROVE FALSE
  BY DEF Dominates
<1>2. PICK A, C : A = ReachableAvoiding(f, {a}) /\ C = ReachableAvoiding(f, {c})
  OBVIOUS
<1>3. a # c
  BY <1>1, AvoidingFacts
<1>4. 1 \in A \cup C
  BY <1>2, <1>3, AvoidingFacts
<1>5. ASSUME NEW x \in A \cup C, NEW d \in ToSet(Successors(f, x)) PROVE d \in A \cup C
  <2>1. CASE x \in A
    BY <1>1, <1>2, <1>5, <2>1, AvoidingFacts
  <2>2. CASE x \in C
    BY <1>1, <1>2, <1>5, <2>2, AvoidingFacts
  <2> QED BY <1>5, <2>1, <2>2
<1>6. ReachableAvoiding(f, {}) \subseteq A \cup C
  BY <1>4, <1>5, AvoidingIsLeast
<1> QED BY <1>2, <1>6 DEF Reachable, Dominates

\* The entry dominates every block.
LEMMA EntryDominates ==
    ASSUME NEW f, IsFunction(f), NEW b
    PROVE  Dominates(f, 1, b)
<1>1. ReachableAvoiding(f, {1}) \subseteq {}
  <2>1. PICK S : S = {}
    OBVIOUS
  <2>2. 1 \notin {1} => 1 \in S
    OBVIOUS
  <2>3. \A x \in S : \A c \in ToSet(Successors(f, x)) : c \notin {1} => c \in S
    BY <2>1
  <2>4. ReachableAvoiding(f, {1}) \subseteq S
    BY <2>2, <2>3, AvoidingIsLeast
  <2> QED BY <2>1, <2>4
<1> QED BY <1>1 DEF Dominates

\* The immediate dominator is a strict one.
LEMMA ImmediateDominatorIs ==
    ASSUME NEW f, IsFunction(f), AllReachable(f), NEW b \in BlockIds(f), b # 1
    PROVE  ImmediateDominator(f, b) \in StrictDominators(f, b)
<1>1. PICK D : D = StrictDominators(f, b)
  OBVIOUS
<1>2. PICK N \in Nat : BlockIds(f) = 1 .. N
  BY BlockTypes
<1>3. b \in Reachable(f) /\ \A a \in D : a \in BlockIds(f) /\ Dominates(f, a, b)
  BY <1>1 DEF AllReachable, StrictDominators
<1>4. 1 \in D
  BY <1>1, BlockTypes, EntryDominates DEF StrictDominators
<1>5. PICK size : size = [a \in BlockIds(f) |-> Cardinality(ReachableAvoiding(f, {a})) + 1]
  OBVIOUS
<1>6. ASSUME NEW a \in BlockIds(f)
      PROVE  /\ IsFiniteSet(ReachableAvoiding(f, {a}))
             /\ Cardinality(ReachableAvoiding(f, {a})) \in Nat
             /\ size[a] = Cardinality(ReachableAvoiding(f, {a})) + 1 /\ size[a] \in 1 .. N + 1
  <2>1. PICK A : A = ReachableAvoiding(f, {a})
    OBVIOUS
  <2>2. A \subseteq 1 .. N
    BY <1>2, <2>1, AvoidingFacts
  <2>3. IsFiniteSet(1 .. N) /\ Cardinality(1 .. N) = N
    BY <1>2, FS_Interval
  <2>4. IsFiniteSet(A) /\ Cardinality(A) \in Nat /\ Cardinality(A) <= N
    BY <2>2, <2>3, FS_Subset, FS_CardinalityType, ZenonT(60)
  <2> QED BY <1>2, <1>5, <2>1, <2>4
<1>7. PICK T : T = {n \in 1 .. N + 1 : \E a \in D : size[a] = n}
  OBVIOUS
<1>8. size[1] \in T
  BY <1>3, <1>4, <1>6, <1>7
<1>9. PICK k \in T : \A j \in T : j <= k
  <2>1. T \in SUBSET (1 .. N + 1) /\ T # {} /\ N + 1 \in Nat
    BY <1>2, <1>7, <1>8
  <2> QED BY <2>1, LastOfPositions
<1>10. PICK a \in D : size[a] = k
  BY <1>7, <1>9
<1>11. ASSUME NEW c \in D PROVE Dominates(f, c, a)
  <2>1. Dominates(f, c, a) \/ Dominates(f, a, c)
    BY <1>3, DominatorsAreOrdered
  <2>2. CASE Dominates(f, a, c)
    <3>1. PICK A, C : A = ReachableAvoiding(f, {a}) /\ C = ReachableAvoiding(f, {c})
      OBVIOUS
    <3>2. A \subseteq C
      BY <2>2, <3>1, DominatorAvoids
    <3>3. /\ IsFiniteSet(A) /\ IsFiniteSet(C) /\ Cardinality(A) \in Nat /\ Cardinality(C) \in Nat
          /\ size[a] = Cardinality(A) + 1 /\ size[c] = Cardinality(C) + 1 /\ size[c] \in 1 .. N + 1
      BY <1>3, <1>6, <3>1
    <3>4. size[c] <= size[a]
      BY <1>7, <1>9, <1>10, <3>3
    <3>5. Cardinality(C) <= Cardinality(A) /\ Cardinality(A) <= Cardinality(C)
      BY <3>2, <3>3, <3>4, FS_Subset
    <3>6. A = C
      BY <3>2, <3>3, <3>5, FS_Subset
    <3>7. a \notin C
      BY <3>1, <3>6, AvoidingFacts
    <3> QED BY <3>1, <3>7 DEF Dominates
  <2> QED BY <2>1, <2>2
<1>12. ImmediateDominator(f, b) = CHOOSE x \in D : \A c \in D : Dominates(f, c, x)
  BY <1>1 DEF ImmediateDominator
<1>13. \E x \in D : \A c \in D : Dominates(f, c, x)
  BY <1>11
<1> QED BY <1>1, <1>12, <1>13

-----------------------------------------------------------------------------
(***************************************************************************)
(* reverse_postorder lists blocks.                                         *)
(***************************************************************************)
IsSearch(f, s) ==
    /\ s.stack \in Seq([block : BlockIds(f), done : Nat])
    /\ s.order \in Seq(BlockIds(f))

\* The depth-first search stays inside the function.
LEMMA SearchStepStays ==
    ASSUME NEW f, IsFunction(f), NEW s, IsSearch(f, s),
           s = [stack |-> s.stack, visited |-> s.visited, order |-> s.order]
    PROVE  /\ IsSearch(f, SearchStep(f, s))
           /\ SearchStep(f, s) = [stack |-> SearchStep(f, s).stack, visited |-> SearchStep(f, s).visited,
                                  order |-> SearchStep(f, s).order]
<1>1. PICK E : E = [block : BlockIds(f), done : Nat]
  OBVIOUS
<1>2. PICK stack, order : stack = s.stack /\ order = s.order
  OBVIOUS
<1>3. stack \in Seq(E) /\ order \in Seq(BlockIds(f))
  BY <1>1, <1>2 DEF IsSearch
<1>4. CASE stack = <<>>
  <2>1. SearchStep(f, s) = s
    BY <1>2, <1>4 DEF SearchStep
  <2> QED BY <2>1
<1>5. CASE stack # <<>>
  <2>1. PICK top, front, next, rest : /\ top = Last(stack) /\ front = Front(stack) /\ next = top.done + 1
                                      /\ rest = Append(front, [top EXCEPT !.done = next])
    OBVIOUS
  <2>2. front \in Seq(E) /\ top \in E
    BY <1>3, <1>5, <2>1, FrontFacts
  <2>3. top.block \in BlockIds(f) /\ next \in Nat /\ [top EXCEPT !.done = next] \in E
    BY <1>1, <2>1, <2>2, SMTT(30)
  <2>4. rest \in Seq(E)
    BY <2>1, <2>2, <2>3, AppendFacts
  <2>5. CASE next > Len(Successors(f, top.block))
    <3>1. SearchStep(f, s) = [s EXCEPT !.stack = front, !.order = <<top.block>> \o order]
      <4>1. Successors(f, top.block) \in Seq(BlockIds(f))
        BY <2>3, PartTypes DEF Successors
      <4>2. Len(Successors(f, top.block)) \in Nat
        BY <4>1, LengthFacts
      <4>3. ~(next <= Len(Successors(f, top.block)))
        BY <2>3, <2>5, <4>2
      <4> QED BY <1>2, <1>5, <2>1, <2>5, <4>3, Zenon DEF SearchStep
    <3>2. <<top.block>> \in Seq(BlockIds(f))
      BY <2>3
    <3>3. <<top.block>> \o order \in Seq(BlockIds(f))
      BY <1>3, <3>2, ConcatFacts
    <3> QED BY <1>1, <2>2, <3>1, <3>3 DEF IsSearch
  <2>6. CASE ~(next > Len(Successors(f, top.block)))
    <3>1. Successors(f, top.block) \in Seq(BlockIds(f))
      BY <2>3, PartTypes DEF Successors
    <3>2. Len(Successors(f, top.block)) \in Nat
      BY <3>1, LengthFacts
    <3>3. next <= Len(Successors(f, top.block)) /\ next \in 1 .. Len(Successors(f, top.block))
      <4>1. top.done \in Nat
        BY <1>1, <2>2
      <4> QED BY <2>1, <2>3, <2>6, <3>2, <4>1
    <3>4. PICK successor : successor = Successors(f, top.block)[next]
      OBVIOUS
    <3>5. successor \in BlockIds(f)
      BY <3>1, <3>3, <3>4, LengthFacts
    <3>6. SearchStep(f, s) = IF successor \in s.visited THEN [s EXCEPT !.stack = rest]
                             ELSE [s EXCEPT !.stack = Append(rest, [block |-> successor, done |-> 0]),
                                            !.visited = @ \cup {successor}]
      BY <1>2, <1>5, <2>1, <2>6, <3>3, <3>4, Zenon DEF SearchStep
    <3>7. [block |-> successor, done |-> 0] \in E
      BY <1>1, <3>5
    <3>8. Append(rest, [block |-> successor, done |-> 0]) \in Seq(E)
      BY <2>4, <3>7, AppendFacts
    <3>9. PICK longer : longer = Append(rest, [block |-> successor, done |-> 0])
      OBVIOUS
    <3> QED BY <1>1, <1>2, <1>3, <2>4, <3>6, <3>8, <3>9 DEF IsSearch
  <2> QED BY <2>5, <2>6
<1> QED BY <1>4, <1>5

\* The reverse postorder lists blocks.
LEMMA OrderListsBlocks ==
    ASSUME NEW f, IsFunction(f)
    PROVE  ReversePostorder(f) \in Seq(BlockIds(f))
<1>1. PICK N \in Nat : N = 3 * Len(f.blocks)
  BY BlockTypes
<1>2. PICK start : start = [stack |-> <<[block |-> 1, done |-> 0]>>, visited |-> {1}, order |-> <<>>]
  OBVIOUS
<1>3. PICK w : /\ w[0] = start
               /\ \A n \in 1 .. N : w[n] = SearchStep(f, w[n - 1])
               /\ ReversePostorder(f) = w[N].order
  BY <1>1, <1>2, SearchUnfolds
<1> DEFINE Good(s) == IsSearch(f, s) /\ s = [stack |-> s.stack, visited |-> s.visited, order |-> s.order]
           T == {n \in 0 .. N : Good(w[n])}
<1>4. 0 \in T
  <2>1. 1 \in BlockIds(f)
    BY BlockTypes
  <2>2. IsSearch(f, start)
    BY <1>2, <2>1 DEF IsSearch
  <2>3. start = [stack |-> start.stack, visited |-> start.visited, order |-> start.order]
    BY <1>2
  <2> QED BY <1>1, <1>3, <2>2, <2>3
<1>5. ASSUME NEW n \in 0 .. N - 1, n \in T PROVE n + 1 \in T
  <2>1. n + 1 \in 1 .. N /\ (n + 1) - 1 = n /\ n + 1 \in 0 .. N
    BY <1>1
  <2>2. PICK s : s = w[n]
    OBVIOUS
  <2>3. Good(s)
    BY <1>5, <2>2
  <2>4. w[n + 1] = SearchStep(f, s)
    BY <1>3, <2>1, <2>2
  <2>5. Good(SearchStep(f, s))
    BY <2>3, SearchStepStays
  <2> QED BY <2>1, <2>4, <2>5
<1>6. \A n \in 0 .. N - 1 : n \in T => n + 1 \in T
  BY <1>5
<1> HIDE DEF T
<1>7. N \in T
  <2>1. \A n \in 0 .. N : n \in T
    BY <1>1, <1>4, <1>6, UpToBound
  <2> QED BY <1>1, <2>1
<1> QED BY <1>3, <1>7 DEF T, IsSearch

\* A block's children in the tree are blocks it dominates.
LEMMA ChildrenAre ==
    ASSUME NEW f, IsFunction(f), AllReachable(f), NEW b \in BlockIds(f)
    PROVE  /\ Children(f)[b] \in Seq(BlockIds(f))
           /\ \A k \in DOMAIN Children(f)[b] :
                 Children(f)[b][k] # b /\ Dominates(f, b, Children(f)[b][k])
<1>1. PICK order, Parent : order = ReversePostorder(f)
                           /\ Parent = [c \in BlockIds(f) \ {1} |-> ImmediateDominator(f, c)]
  OBVIOUS
<1>2. PICK below : below = {k \in DOMAIN order : order[k] # 1 /\ Parent[order[k]] = b}
  OBVIOUS
<1>3. PICK left : left = EntriesAt(order, below)
  OBVIOUS
<1>4. Children(f)[b] = left
  BY <1>1, <1>2, <1>3 DEF Children
<1>5. order \in Seq(BlockIds(f))
  BY <1>1, OrderListsBlocks
<1>6. PICK m, at : m = Cardinality(below) /\ at = Ascending(below)
  OBVIOUS
<1>7. /\ left \in Seq(BlockIds(f)) /\ DOMAIN left = 1 .. m
      /\ \A n \in 1 .. m : at[n] \in below /\ left[n] = order[at[n]]
  <2>1. below \in SUBSET DOMAIN order
    BY <1>2
  <2> QED BY <1>3, <1>5, <1>6, <2>1, EntriesFacts
<1>8. ASSUME NEW k \in 1 .. m PROVE left[k] # b /\ Dominates(f, b, left[k])
  <2>1. PICK c : c = left[k]
    OBVIOUS
  <2>2. c \in BlockIds(f) \ {1} /\ Parent[c] = b
    <3>1. at[k] \in below /\ c = order[at[k]]
      BY <1>7, <2>1
    <3>2. c # 1 /\ Parent[c] = b
      BY <1>2, <3>1
    <3>3. c \in BlockIds(f)
      BY <1>7, <2>1, LengthFacts
    <3> QED BY <3>2, <3>3
  <2>3. b \in StrictDominators(f, c)
    BY <1>1, <2>2, ImmediateDominatorIs
  <2> QED BY <2>1, <2>3 DEF StrictDominators
<1> QED BY <1>4, <1>7, <1>8

-----------------------------------------------------------------------------
(***************************************************************************)
(* Where a value is computed, phis one before the other, all of them       *)
(* before the first instruction.                                           *)
(***************************************************************************)
Places(f, v) ==
    {e \in BlockIds(f) \X Int :
        \/ \E p \in DOMAIN f.blocks[e[1]].phis :
              f.blocks[e[1]].phis[p].dest = v /\ e[2] = p - Len(f.blocks[e[1]].phis)
        \/ e[2] \in DOMAIN f.blocks[e[1]].insts /\ f.blocks[e[1]].insts[e[2]].dest = v}

Earlier(f, u, v) ==
    Places(f, u) # {} /\ \A d \in Places(f, u) : \A e \in Places(f, v) : Precedes(f, d, e)

\* A place is where a phi or an instruction defines the value.
LEMMA PlaceFacts ==
    ASSUME NEW f, IsFunction(f), NEW v, NEW e \in Places(f, v)
    PROVE  /\ e[1] \in BlockIds(f) /\ e[2] \in Int
           /\ \/ /\ e[2] <= 0 /\ <<e[1], 0>> \in Definitions(f, v)
                 /\ \E p \in DOMAIN f.blocks[e[1]].phis :
                       e[2] = p - Len(f.blocks[e[1]].phis) /\ <<e[1], p>> \in PhiSites(f, v)
              \/ e[2] > 0 /\ <<e[1], e[2]>> \in Definitions(f, v)
<1>1. PICK b, n : b = e[1] /\ n = e[2]
  OBVIOUS
<1>2. b \in BlockIds(f) /\ n \in Int /\ e = <<b, n>>
  BY <1>1 DEF Places
<1>3. CASE \E p \in DOMAIN f.blocks[b].phis : f.blocks[b].phis[p].dest = v /\ n = p - Len(f.blocks[b].phis)
  <2>1. PICK p \in DOMAIN f.blocks[b].phis : f.blocks[b].phis[p].dest = v /\ n = p - Len(f.blocks[b].phis)
    BY <1>3, SMTT(30), Zenon
  <2>2. <<b, 0>> \in Definitions(f, v) /\ <<b, p>> \in PhiSites(f, v)
    BY <1>2, <2>1, DefinitionFacts DEF PhiSites
  <2>3. n <= 0
    BY <1>2, <2>1, PhiTypes
  <2> QED BY <1>1, <1>2, <2>1, <2>2, <2>3
<1>4. CASE n \in DOMAIN f.blocks[b].insts /\ f.blocks[b].insts[n].dest = v
  <2>1. n > 0
    BY <1>2, <1>4, InstTypes
  <2> QED BY <1>1, <1>2, <1>4, <2>1, DefinitionFacts
<1> QED BY <1>1, <1>3, <1>4, Zenon DEF Places

\* A place is a block and a position in it.
LEMMA PlaceTypes ==
    ASSUME NEW f, NEW v, NEW e \in Places(f, v)
    PROVE  e[1] \in BlockIds(f) /\ e[2] \in Int
  BY DEF Places

\* A place is a pair.
LEMMA PlaceIsPair ==
    ASSUME NEW f, NEW v, NEW e \in Places(f, v)
    PROVE  e = <<e[1], e[2]>>
  BY DEF Places

\* A place up to 0 is that of a phi.
LEMMA PlaceOfPhi ==
    ASSUME NEW f, IsFunction(f), NEW v, NEW e \in Places(f, v), e[2] <= 0
    PROVE  /\ <<e[1], 0>> \in Definitions(f, v)
           /\ \E p \in DOMAIN f.blocks[e[1]].phis :
                 e[2] = p - Len(f.blocks[e[1]].phis) /\ <<e[1], p>> \in PhiSites(f, v)
<1>1. PICK n : n = e[2]
  OBVIOUS
<1>2. n \in Int
  BY <1>1, PlaceTypes
<1>3. ~(n > 0)
  BY <1>1, <1>2
<1> QED BY <1>1, <1>3, PlaceFacts

\* A place above 0 is that of an instruction.
LEMMA PlaceOfInst ==
    ASSUME NEW f, IsFunction(f), NEW v, NEW e \in Places(f, v), e[2] > 0
    PROVE  <<e[1], e[2]>> \in Definitions(f, v)
<1>1. PICK n : n = e[2]
  OBVIOUS
<1>2. n \in Int
  BY <1>1, PlaceTypes
<1>3. ~(n <= 0)
  BY <1>1, <1>2
<1> QED BY <1>1, <1>3, PlaceFacts

\* Every phi has its place.
LEMMA PhiPlace ==
    ASSUME NEW f, IsFunction(f), NEW b \in BlockIds(f), NEW p \in DOMAIN f.blocks[b].phis
    PROVE  <<b, p - Len(f.blocks[b].phis)>> \in Places(f, f.blocks[b].phis[p].dest)
<1>1. p - Len(f.blocks[b].phis) \in Int
  BY PhiTypes
<1> QED BY <1>1 DEF Places

\* Every instruction has its place.
LEMMA InstPlace ==
    ASSUME NEW f, IsFunction(f), NEW b \in BlockIds(f), NEW i \in DOMAIN f.blocks[b].insts
    PROVE  <<b, i>> \in Places(f, f.blocks[b].insts[i].dest)
<1>1. i \in Int
  BY InstTypes
<1> QED BY <1>1 DEF Places

\* A value defined once has one place.
LEMMA OnePlace ==
    ASSUME NEW f, IsFunction(f), DefinedOnce(f), NEW v \in Values, NEW d \in Places(f, v), NEW e \in Places(f, v)
    PROVE  d = e
<1>1. \A x, y \in Definitions(f, v) : x = y
  BY DEF DefinedOnce
<1>2. \A s \in PhiSites(f, v) : f.site[v] = s
  BY DEF DefinedOnce
<1>3. CASE d[2] <= 0 /\ e[2] <= 0
  <2>1. PICK p : d[2] = p - Len(f.blocks[d[1]].phis) /\ <<d[1], p>> \in PhiSites(f, v)
    BY <1>3, PlaceOfPhi
  <2>2. PICK q : e[2] = q - Len(f.blocks[e[1]].phis) /\ <<e[1], q>> \in PhiSites(f, v)
    BY <1>3, PlaceOfPhi
  <2>3. <<d[1], p>> = <<e[1], q>>
    BY <1>2, <2>1, <2>2, Zenon
  <2>4. d[1] = e[1] /\ p = q
    BY <2>3
  <2>5. d = <<d[1], d[2]>> /\ e = <<e[1], e[2]>>
    BY PlaceIsPair
  <2> QED BY <2>1, <2>2, <2>4, <2>5, Zenon
<1>4. CASE d[2] <= 0 /\ e[2] > 0
  <2>1. <<d[1], 0>> \in Definitions(f, v) /\ <<e[1], e[2]>> \in Definitions(f, v) /\ e[2] \in Int
    BY <1>4, PlaceOfPhi, PlaceOfInst, PlaceFacts
  <2> QED BY <1>1, <1>4, <2>1
<1>5. CASE d[2] > 0 /\ e[2] <= 0
  <2>1. <<d[1], d[2]>> \in Definitions(f, v) /\ <<e[1], 0>> \in Definitions(f, v) /\ d[2] \in Int
    BY <1>5, PlaceOfPhi, PlaceOfInst, PlaceFacts
  <2> QED BY <1>1, <1>5, <2>1
<1>6. CASE d[2] > 0 /\ e[2] > 0
  <2>1. <<d[1], d[2]>> \in Definitions(f, v) /\ <<e[1], e[2]>> \in Definitions(f, v)
        /\ d = <<d[1], d[2]>> /\ e = <<e[1], e[2]>>
    BY <1>6, PlaceOfInst, PlaceIsPair
  <2> QED BY <1>1, <2>1
<1>7. d[2] \in Int /\ e[2] \in Int
  BY PlaceFacts
<1> QED BY <1>3, <1>4, <1>5, <1>6, <1>7

\* Every definition is at a place.
LEMMA DefinitionHasPlace ==
    ASSUME NEW f, IsFunction(f), NEW v, NEW d \in Definitions(f, v)
    PROVE  \E e \in Places(f, v) : e[1] = d[1] /\ (IF d[2] = 0 THEN e[2] <= 0 ELSE e[2] = d[2] /\ e[2] > 0)
<1>1. PICK b, n : b = d[1] /\ n = d[2]
  OBVIOUS
<1>2. /\ b \in BlockIds(f)
      /\ \/ n = 0 /\ \E p \in DOMAIN f.blocks[b].phis : f.blocks[b].phis[p].dest = v
         \/ n \in DOMAIN f.blocks[b].insts /\ f.blocks[b].insts[n].dest = v
  BY <1>1, DefinitionFacts
<1>3. CASE n = 0 /\ \E p \in DOMAIN f.blocks[b].phis : f.blocks[b].phis[p].dest = v
  <2>1. PICK p \in DOMAIN f.blocks[b].phis : f.blocks[b].phis[p].dest = v
    BY <1>3
  <2>2. PICK e : e = <<b, p - Len(f.blocks[b].phis)>>
    OBVIOUS
  <2>3. e \in Places(f, v)
    BY <1>2, <2>1, <2>2, PhiPlace
  <2>4. e[1] = b /\ e[2] <= 0
    BY <1>2, <2>1, <2>2, PhiTypes
  <2> QED BY <1>1, <1>3, <2>3, <2>4
<1>4. CASE n \in DOMAIN f.blocks[b].insts /\ f.blocks[b].insts[n].dest = v
  <2>1. <<b, n>> \in Places(f, v)
    BY <1>2, <1>4, InstPlace
  <2>2. n \in Int /\ n > 0
    BY <1>2, <1>4, InstTypes
  <2> QED BY <1>1, <2>1, <2>2
<1> QED BY <1>2, <1>3, <1>4

\* What was computed earlier is defined no later.
LEMMA EarlierIsNoLater ==
    ASSUME NEW f, IsFunction(f), NEW u, NEW v, Earlier(f, u, v)
    PROVE  /\ Definitions(f, u) # {}
           /\ \A d \in Definitions(f, u) : \A e \in Definitions(f, v) : NoLater(f, d, e)
<1>1. Definitions(f, u) # {}
  <2>1. PICK e : e \in Places(f, u)
    BY DEF Earlier
  <2> QED BY <2>1, PlaceFacts
<1>2. ASSUME NEW d \in Definitions(f, u), NEW e \in Definitions(f, v) PROVE NoLater(f, d, e)
  <2>1. PICK x \in Places(f, u) : x[1] = d[1] /\ (IF d[2] = 0 THEN x[2] <= 0 ELSE x[2] = d[2] /\ x[2] > 0)
    BY DefinitionHasPlace
  <2>2. PICK y \in Places(f, v) : y[1] = e[1] /\ (IF e[2] = 0 THEN y[2] <= 0 ELSE y[2] = e[2] /\ y[2] > 0)
    BY DefinitionHasPlace
  <2>3. Precedes(f, x, y)
    BY DEF Earlier
  <2>4. x[2] \in Int /\ y[2] \in Int /\ d[2] \in Nat /\ e[2] \in Nat
    BY PlaceFacts, DefinitionPlaces
  <2> QED BY <2>1, <2>2, <2>3, <2>4 DEF Precedes, NoLater
<1> QED BY <1>1, <1>2

\* What is earlier than something earlier is earlier.
LEMMA EarlierTransitive ==
    ASSUME NEW f, IsFunction(f), AllReachable(f), NEW u, NEW v, NEW x, Earlier(f, u, v), Earlier(f, v, x)
    PROVE  Earlier(f, u, x)
<1>1. PICK m : m \in Places(f, v)
  BY DEF Earlier
<1>2. ASSUME NEW d \in Places(f, u), NEW e \in Places(f, x) PROVE Precedes(f, d, e)
  <2>1. Precedes(f, d, m) /\ Precedes(f, m, e)
    BY <1>1 DEF Earlier
  <2>2. d[1] \in BlockIds(f) /\ m[1] \in BlockIds(f) /\ e[1] \in BlockIds(f)
        /\ d[2] \in Int /\ m[2] \in Int /\ e[2] \in Int
    BY <1>1, PlaceFacts
  <2>3. NoLater(f, d, m)
    BY <2>1, <2>2, PrecedesIsNoLater
  <2> QED BY <2>1, <2>2, <2>3, PrecedesTransitive
<1> QED BY <1>2 DEF Earlier

\* Nothing is earlier than itself: replacements that lead back never lead round.
LEMMA NothingIsEarlierThanItself ==
    ASSUME NEW f, IsFunction(f), NEW v
    PROVE  ~Earlier(f, v, v)
<1>1. SUFFICES ASSUME Earlier(f, v, v) PROVE FALSE
  OBVIOUS
<1>2. PICK m : m \in Places(f, v) /\ Precedes(f, m, m)
  BY <1>1 DEF Earlier
<1> QED BY <1>2, PlaceFacts, NothingPrecedesItself

-----------------------------------------------------------------------------
\* Every link leads to a value computed earlier.
LinksBack(f, r) == \A v \in DOMAIN r : v \in Values /\ r[v] \in Values /\ Places(f, v) # {} /\ Earlier(f, r[v], v)

\* Replacements by earlier values are defined wherever what they replace is read.
LEMMA LinksBackSupply ==
    ASSUME NEW f, IsFunction(f), NEW r, LinksBack(f, r)
    PROVE  Supplies(f, r) /\ \A v \in DOMAIN r : Definitions(f, v) # {}
<1>1. AreOperands(r) /\ DOMAIN r \subseteq Values
  BY DEF AreOperands, Operands, LinksBack
<1>2. ASSUME NEW v \in DOMAIN r
      PROVE  /\ Definitions(f, r[v]) # {}
             /\ \A d \in Definitions(f, r[v]) : \A e \in Definitions(f, v) : NoLater(f, d, e)
  <2>1. PICK u : u = r[v]
    OBVIOUS
  <2>2. Earlier(f, u, v)
    BY <1>2, <2>1 DEF LinksBack
  <2> QED BY <2>1, <2>2, EarlierIsNoLater
<1>3. ASSUME NEW v \in DOMAIN r PROVE Definitions(f, v) # {}
  <2>1. PICK e : e \in Places(f, v)
    BY <1>3 DEF LinksBack
  <2> QED BY <2>1, PlaceFacts
<1>4. Supplies(f, r)
  BY <1>1, <1>2, Zenon DEF Supplies
<1> QED BY <1>3, <1>4

\* So a chain of them ends outside.
LEMMA ChainsLeadOut ==
    ASSUME NEW f, IsFunction(f), AllReachable(f), NEW r, LinksBack(f, r), NEW v \in DOMAIN r
    PROVE  ChainEnd(v, r) \notin DOMAIN r
<1>1. DOMAIN r \subseteq Values
  BY DEF LinksBack
<1>2. PICK N \in Nat : N = Cardinality(DOMAIN r) /\ IsFiniteSet(DOMAIN r)
  BY <1>1, SsaAssumption, FS_Subset, FS_CardinalityType
<1>3. PICK w : /\ w[0] = v
               /\ \A n \in 1 .. N : w[n] = IF w[n - 1] \in DOMAIN r THEN r[w[n - 1]] ELSE w[n - 1]
               /\ ChainEnd(v, r) = w[N]
  BY <1>2, ChainUnfolds
<1> DEFINE Good(n) == w[n] \in DOMAIN r =>
                        \A m \in 0 .. n - 1 : w[m] \in DOMAIN r /\ Earlier(f, w[n], w[m])
           T == {n \in 0 .. N : Good(n)}
<1>4. 0 \in T
  BY <1>2
<1>5. ASSUME NEW n \in 0 .. N - 1, n \in T PROVE n + 1 \in T
  <2>1. n + 1 \in 1 .. N /\ (n + 1) - 1 = n /\ n + 1 \in 0 .. N
    BY <1>2
  <2>2. PICK o, u : o = w[n] /\ u = w[n + 1]
    OBVIOUS
  <2>3. u = IF o \in DOMAIN r THEN r[o] ELSE o
    <3>1. w[n + 1] = IF w[(n + 1) - 1] \in DOMAIN r THEN r[w[(n + 1) - 1]] ELSE w[(n + 1) - 1]
      BY <1>3, <2>1
    <3> QED BY <2>1, <2>2, <3>1
  <2>4. ASSUME u \in DOMAIN r, NEW m \in 0 .. n PROVE w[m] \in DOMAIN r /\ Earlier(f, u, w[m])
    <3>1. o \in DOMAIN r
      BY <2>3, <2>4
    <3>2. Earlier(f, u, o)
      BY <2>3, <3>1 DEF LinksBack
    <3>3. CASE m = n
      BY <2>2, <3>1, <3>2, <3>3
    <3>4. CASE m # n
      <4>1. m \in 0 .. n - 1
        BY <3>4
      <4>2. w[m] \in DOMAIN r /\ Earlier(f, o, w[m])
        BY <1>5, <2>2, <3>1, <4>1
      <4> QED BY <3>2, <4>2, EarlierTransitive
    <3> QED BY <3>3, <3>4
  <2>5. Good(n + 1)
    BY <2>2, <2>4
  <2> QED BY <2>1, <2>5
<1>6. \A n \in 0 .. N : n \in T
  <2>1. \A n \in 0 .. N - 1 : n \in T => n + 1 \in T
    BY <1>5
  <2> HIDE DEF T
  <2> QED BY <1>2, <1>4, <2>1, UpToBound
<1>7. SUFFICES ASSUME w[N] \in DOMAIN r PROVE FALSE
  BY <1>3
<1>8. ASSUME NEW n \in 0 .. N PROVE w[n] \in DOMAIN r
  BY <1>2, <1>6, <1>7
<1>9. ASSUME NEW m \in 0 .. N, NEW n \in 0 .. N, m < n PROVE w[m] # w[n]
  <2>1. Earlier(f, w[n], w[m])
    BY <1>6, <1>8, <1>9
  <2> QED BY <2>1, NothingIsEarlierThanItself
<1>10. PICK g : g = [n \in 0 .. N |-> w[n]]
  OBVIOUS
<1>11. g \in [0 .. N -> DOMAIN r]
  BY <1>8, <1>10
<1>12. IsFiniteSet(0 .. N) /\ Cardinality(0 .. N) = N + 1
  BY <1>2, FS_Interval
<1>13. \E x, y \in 0 .. N : x # y /\ g[x] = g[y]
  <2>1. Cardinality(DOMAIN r) < Cardinality(0 .. N)
    BY <1>2, <1>12
  <2> QED BY <1>2, <1>11, <1>12, <2>1, FS_PigeonHole
<1>14. PICK x \in 0 .. N, y \in 0 .. N : x # y /\ w[x] = w[y]
  BY <1>10, <1>13
<1> QED BY <1>9, <1>14

-----------------------------------------------------------------------------
(***************************************************************************)
(* The state of the walk, and one value of it numbered.                    *)
(***************************************************************************)
IsWalk(f, walk) ==
    /\ walk = [steps |-> walk.steps, available |-> walk.available,
               replacement |-> walk.replacement, added |-> walk.added]
    /\ walk.steps \in Seq({"enter", "leave"} \X BlockIds(f))
    /\ DOMAIN walk.added = BlockIds(f)

\* A value whose key is known is replaced by the one computed before.
LEMMA FoundIs ==
    ASSUME NEW f, NEW walk, IsWalk(f, walk), NEW b, NEW key, NEW dest, key \in DOMAIN walk.available,
           NEW n, n = Number(walk, b, key, dest)
    PROVE  /\ IsWalk(f, n) /\ n.steps = walk.steps /\ n.available = walk.available /\ n.added = walk.added
           /\ DOMAIN n.replacement = DOMAIN walk.replacement \cup {dest}
           /\ \A v \in DOMAIN n.replacement :
                 n.replacement[v] = IF v = dest THEN walk.available[key] ELSE walk.replacement[v]
<1>1. PICK r : r = Inserted(walk.replacement, dest, walk.available[key])
  OBVIOUS
<1>2. n = [walk EXCEPT !.replacement = r]
  BY <1>1 DEF Number
<1>3. /\ DOMAIN r = DOMAIN walk.replacement \cup {dest}
      /\ \A v \in DOMAIN r : r[v] = IF v = dest THEN walk.available[key] ELSE walk.replacement[v]
  BY <1>1 DEF Inserted
<1>4. /\ n.steps = walk.steps /\ n.available = walk.available /\ n.added = walk.added /\ n.replacement = r
      /\ n = [steps |-> n.steps, available |-> n.available, replacement |-> n.replacement, added |-> n.added]
  BY <1>2 DEF IsWalk
<1>5. IsWalk(f, n)
  BY <1>4 DEF IsWalk
<1> QED BY <1>3, <1>4, <1>5

HasNew(f, n, walk, b, key, dest) ==
    /\ \A c \in BlockIds(f) : n.added[c] = IF c = b THEN walk.added[b] \cup {key} ELSE walk.added[c]
    /\ DOMAIN n.available = DOMAIN walk.available \cup {key}
    /\ \A k \in DOMAIN n.available :
          n.available[k] = IF k = key THEN dest ELSE walk.available[k]

\* A value whose key is new stands for the key from there on.
LEMMA NewIs ==
    ASSUME NEW f, NEW walk, IsWalk(f, walk), NEW b \in BlockIds(f), NEW key, NEW dest,
           key \notin DOMAIN walk.available,
           NEW n, n = Number(walk, b, key, dest)
    PROVE  /\ IsWalk(f, n) /\ n.steps = walk.steps /\ n.replacement = walk.replacement
           /\ HasNew(f, n, walk, b, key, dest)
<1>1. PICK r : r = Inserted(walk.available, key, dest)
  OBVIOUS
<1>2. PICK added : added = [walk.added EXCEPT ![b] = @ \cup {key}]
  OBVIOUS
<1>3. n = [walk EXCEPT !.available = r, !.added = added]
  BY <1>1, <1>2 DEF Number
<1>4. /\ DOMAIN r = DOMAIN walk.available \cup {key}
      /\ \A v \in DOMAIN r : r[v] = IF v = key THEN dest ELSE walk.available[v]
  BY <1>1 DEF Inserted
<1>5. /\ n.steps = walk.steps /\ n.available = r /\ n.added = added /\ n.replacement = walk.replacement
      /\ n = [steps |-> n.steps, available |-> n.available, replacement |-> n.replacement, added |-> n.added]
  BY <1>3 DEF IsWalk
<1>6. /\ DOMAIN added = BlockIds(f)
      /\ \A c \in BlockIds(f) : added[c] = IF c = b THEN walk.added[b] \cup {key} ELSE walk.added[c]
  BY <1>2 DEF IsWalk
<1>7. IsWalk(f, n)
  BY <1>5, <1>6 DEF IsWalk
<1> QED BY <1>4, <1>5, <1>6, <1>7 DEF HasNew

-----------------------------------------------------------------------------
(***************************************************************************)
(* While b is numbered: what is available was computed earlier in b, or in *)
(* a block still to be left, which dominates b.                            *)
(***************************************************************************)
IsOpen(steps, c) == \E i \in DOMAIN steps : steps[i] = <<"leave", c>>

\* u answers for the keys c added, and is computed there, if in b up to position pos.
KnownIn(f, steps, u, c, b, pos) ==
    /\ \E n \in Int : <<c, n>> \in Places(f, u) /\ (c = b => n <= pos)
    /\ c # b => Dominates(f, c, b) /\ IsOpen(steps, c)

NumberedUpTo(f, walk, b, pos) ==
    /\ IsWalk(f, walk) /\ LinksBack(f, walk.replacement)
    /\ \A key \in DOMAIN walk.available :
          /\ walk.available[key] \in Values
          /\ \E c \in BlockIds(f) : /\ key \in walk.added[c]
                                    /\ KnownIn(f, walk.steps, walk.available[key], c, b, pos)

\* A value known in an open scope is earlier than all that is numbered now.
LEMMA KnownIsEarlier ==
    ASSUME NEW f, IsFunction(f), DefinedOnce(f), NEW steps, NEW u \in Values, NEW c \in BlockIds(f),
           NEW b \in BlockIds(f), NEW pos \in Int, KnownIn(f, steps, u, c, b, pos),
           NEW dest \in Values, NEW at \in Int, <<b, at>> \in Places(f, dest), pos < at
    PROVE  Earlier(f, u, dest)
<1>1. PICK n \in Int : <<c, n>> \in Places(f, u) /\ (c = b => n <= pos)
  BY DEF KnownIn
<1>2. ASSUME NEW d \in Places(f, u), NEW e \in Places(f, dest) PROVE Precedes(f, d, e)
  <2>1. d = <<c, n>> /\ e = <<b, at>>
    BY <1>1, OnePlace
  <2>2. CASE c = b
    BY <1>1, <2>1, <2>2 DEF Precedes
  <2>3. CASE c # b
    BY <2>1, <2>3 DEF Precedes, KnownIn
  <2> QED BY <2>2, <2>3
<1> QED BY <1>1, <1>2 DEF Earlier

\* Numbering one value keeps the walk's invariant.
LEMMA NumberStays ==
    ASSUME NEW f, IsFunction(f), DefinedOnce(f), NEW walk, NEW b \in BlockIds(f), NEW pos \in Int,
           NumberedUpTo(f, walk, b, pos),
           NEW dest \in Values, NEW at \in Int, <<b, at>> \in Places(f, dest), pos < at, NEW key,
           NEW n, n = Number(walk, b, key, dest)
    PROVE  NumberedUpTo(f, n, b, at) /\ n.steps = walk.steps
<1>1. IsWalk(f, walk) /\ LinksBack(f, walk.replacement)
  BY DEF NumberedUpTo
<1>2. ASSUME NEW k \in DOMAIN walk.available
      PROVE  /\ walk.available[k] \in Values
             /\ \E c \in BlockIds(f) : k \in walk.added[c] /\ KnownIn(f, walk.steps, walk.available[k], c, b, pos)
  BY DEF NumberedUpTo
<1>3. ASSUME NEW u, NEW c, KnownIn(f, walk.steps, u, c, b, pos) PROVE KnownIn(f, walk.steps, u, c, b, at)
  <2>1. PICK m \in Int : <<c, m>> \in Places(f, u) /\ (c = b => m <= pos)
    BY <1>3 DEF KnownIn
  <2>2. c = b => m <= at
    BY <2>1
  <2> QED BY <1>3, <2>1, <2>2 DEF KnownIn
<1>4. CASE key \in DOMAIN walk.available
  <2>1. PICK r : r = n.replacement
    OBVIOUS
  <2>2. /\ IsWalk(f, n) /\ n.steps = walk.steps /\ n.available = walk.available /\ n.added = walk.added
        /\ DOMAIN r = DOMAIN walk.replacement \cup {dest}
        /\ \A v \in DOMAIN r : r[v] = IF v = dest THEN walk.available[key] ELSE walk.replacement[v]
    BY <1>1, <1>4, <2>1, FoundIs
  <2>3. PICK u : u = walk.available[key]
    OBVIOUS
  <2>4. u \in Values /\ Earlier(f, u, dest)
    <3>1. u \in Values
      BY <1>2, <1>4, <2>3
    <3>2. PICK c \in BlockIds(f) : KnownIn(f, walk.steps, u, c, b, pos)
      BY <1>2, <1>4, <2>3
    <3> QED BY <3>1, <3>2, KnownIsEarlier
  <2>5. LinksBack(f, r)
    <3>1. ASSUME NEW v \in DOMAIN r
          PROVE  v \in Values /\ r[v] \in Values /\ Places(f, v) # {} /\ Earlier(f, r[v], v)
      <4>1. CASE v = dest
        BY <2>2, <2>3, <2>4, <4>1
      <4>2. CASE v # dest
        <5>1. v \in DOMAIN walk.replacement /\ r[v] = walk.replacement[v]
          BY <2>2, <4>2
        <5> QED BY <1>1, <5>1 DEF LinksBack
      <4> QED BY <4>1, <4>2
    <3> QED BY <3>1 DEF LinksBack
  <2>6. ASSUME NEW k \in DOMAIN n.available
        PROVE  /\ n.available[k] \in Values
               /\ \E c \in BlockIds(f) : k \in n.added[c] /\ KnownIn(f, n.steps, n.available[k], c, b, at)
    <3>1. n.available[k] \in Values
      BY <1>2, <2>2
    <3>2. PICK c \in BlockIds(f) : k \in walk.added[c] /\ KnownIn(f, walk.steps, walk.available[k], c, b, pos)
      BY <1>2, <2>2
    <3>3. KnownIn(f, walk.steps, walk.available[k], c, b, at)
      BY <1>3, <3>2
    <3> QED BY <2>2, <3>1, <3>2, <3>3
  <2> QED BY <2>1, <2>2, <2>5, <2>6 DEF NumberedUpTo
<1>5. CASE key \notin DOMAIN walk.available
  <2>1. /\ IsWalk(f, n) /\ n.steps = walk.steps /\ n.replacement = walk.replacement
        /\ \A c \in BlockIds(f) : n.added[c] = IF c = b THEN walk.added[b] \cup {key} ELSE walk.added[c]
        /\ DOMAIN n.available = DOMAIN walk.available \cup {key}
        /\ \A k \in DOMAIN n.available : n.available[k] = IF k = key THEN dest ELSE walk.available[k]
    <3>1. key \notin DOMAIN walk.available
      BY <1>5
    <3>2. IsWalk(f, n) /\ n.steps = walk.steps /\ n.replacement = walk.replacement
          /\ HasNew(f, n, walk, b, key, dest)
      BY <1>1, <3>1, NewIs
    <3> QED BY <3>2 DEF HasNew
  <2>2. ASSUME NEW k \in DOMAIN n.available
        PROVE  /\ n.available[k] \in Values
               /\ \E c \in BlockIds(f) : k \in n.added[c] /\ KnownIn(f, n.steps, n.available[k], c, b, at)
    <3>1. CASE k = key
      <4>1. n.available[k] = dest /\ k \in n.added[b]
        BY <2>1, <3>1
      <4>2. KnownIn(f, n.steps, dest, b, b, at)
        BY DEF KnownIn
      <4> QED BY <4>1, <4>2
    <3>2. CASE k # key
      <4>1. k \in DOMAIN walk.available /\ n.available[k] = walk.available[k]
        BY <2>1, <3>2
      <4>2. PICK c \in BlockIds(f) : k \in walk.added[c] /\ KnownIn(f, walk.steps, walk.available[k], c, b, pos)
        BY <1>2, <4>1
      <4>3. KnownIn(f, walk.steps, walk.available[k], c, b, at)
        BY <1>3, <4>2
      <4>4. k \in n.added[c]
        BY <2>1, <4>2
      <4> QED BY <1>2, <2>1, <4>1, <4>3, <4>4
    <3> QED BY <3>1, <3>2
  <2> QED BY <1>1, <2>1, <2>2 DEF NumberedUpTo
<1> QED BY <1>4, <1>5

\* What was known at a position is known after it.
LEMMA NumberedFurther ==
    ASSUME NEW f, NEW walk, NEW b, NEW pos \in Int, NEW at \in Int, pos <= at, NumberedUpTo(f, walk, b, pos)
    PROVE  NumberedUpTo(f, walk, b, at)
<1>1. ASSUME NEW u, NEW c, KnownIn(f, walk.steps, u, c, b, pos) PROVE KnownIn(f, walk.steps, u, c, b, at)
  <2>1. PICK m \in Int : <<c, m>> \in Places(f, u) /\ (c = b => m <= pos)
    BY <1>1 DEF KnownIn
  <2>2. c = b => m <= at
    BY <2>1
  <2> QED BY <1>1, <2>1, <2>2 DEF KnownIn
<1>2. ASSUME NEW k \in DOMAIN walk.available
      PROVE  /\ walk.available[k] \in Values
             /\ \E c \in BlockIds(f) : k \in walk.added[c] /\ KnownIn(f, walk.steps, walk.available[k], c, b, at)
  <2>1. walk.available[k] \in Values
    BY DEF NumberedUpTo
  <2>2. PICK c \in BlockIds(f) : k \in walk.added[c] /\ KnownIn(f, walk.steps, walk.available[k], c, b, pos)
    BY DEF NumberedUpTo
  <2>3. KnownIn(f, walk.steps, walk.available[k], c, b, at)
    BY <1>1, <2>2
  <2> QED BY <2>1, <2>2, <2>3
<1> QED BY <1>2 DEF NumberedUpTo

\* The phis of b, then its instructions.
LEMMA NumberBlockStays ==
    ASSUME NEW f, IsFunction(f), DefinedOnce(f), NEW walk, NEW b \in BlockIds(f),
           NumberedUpTo(f, walk, b, 0 - Len(f.blocks[b].phis)),
           NEW n, n = NumberBlock(f, walk, b)
    PROVE  NumberedUpTo(f, n, b, Len(f.blocks[b].insts)) /\ n.steps = walk.steps
<1>1. PICK phis, insts : phis = f.blocks[b].phis /\ insts = f.blocks[b].insts
  OBVIOUS
<1>2. PICK P \in Nat, I \in Nat : P = Len(phis) /\ I = Len(insts)
  BY <1>1, PhiTypes, InstTypes
<1>3. PICK middle : middle = NumberPhis(phis, walk, b)
  OBVIOUS
<1>4. NumberedUpTo(f, middle, b, 0) /\ middle.steps = walk.steps
  <2>1. PICK w : /\ w[0] = walk
                 /\ \A k \in 1 .. P : w[k] = NumberPhi(w[k - 1], b, phis[k])
                 /\ middle = w[P]
    BY <1>2, <1>3, NumberPhisUnfolds
  <2> DEFINE T == {k \in 0 .. P : NumberedUpTo(f, w[k], b, k - P) /\ w[k].steps = walk.steps}
  <2>2. 0 \in T
    BY <1>1, <1>2, <2>1
  <2>3. ASSUME NEW k \in 0 .. P - 1, k \in T PROVE k + 1 \in T
    <3>1. k + 1 \in 1 .. P /\ (k + 1) - 1 = k /\ k + 1 \in 0 .. P
      BY <1>2
    <3>2. PICK s, t, j, phi : s = w[k] /\ t = w[k + 1] /\ j = k + 1 /\ phi = phis[j]
      OBVIOUS
    <3>3. t = NumberPhi(s, b, phi)
      <4>1. w[k + 1] = NumberPhi(w[(k + 1) - 1], b, phis[k + 1])
        BY <2>1, <3>1
      <4> QED BY <3>1, <3>2, <4>1
    <3>4. NumberedUpTo(f, s, b, k - P) /\ s.steps = walk.steps
      BY <2>3, <3>2
    <3>5. j \in DOMAIN f.blocks[b].phis /\ phi = f.blocks[b].phis[j]
      BY <1>1, <1>2, <3>1, <3>2, PhiTypes
    <3>6. phi.dest \in Values
      BY <3>5, PhiTypes
    <3>7. <<b, j - P>> \in Places(f, phi.dest)
      BY <1>1, <1>2, <3>5, PhiPlace
    <3>8. k - P \in Int /\ j - P \in Int /\ k - P < j - P
      BY <1>2, <3>2
    <3>9. PICK key : t = Number(s, b, key, phi.dest)
      BY <3>3 DEF NumberPhi
    <3>10. NumberedUpTo(f, t, b, j - P) /\ t.steps = s.steps
      <4>1. PICK dest, pos, at : dest = phi.dest /\ pos = k - P /\ at = j - P
        OBVIOUS
      <4>2. NumberedUpTo(f, t, b, at) /\ t.steps = s.steps
        BY <3>4, <3>6, <3>7, <3>8, <3>9, <4>1, NumberStays
      <4> QED BY <4>1, <4>2
    <3> QED BY <3>1, <3>2, <3>4, <3>10
  <2>4. \A k \in 0 .. P - 1 : k \in T => k + 1 \in T
    BY <2>3
  <2> HIDE DEF T
  <2>5. \A k \in 0 .. P : k \in T
    BY <1>2, <2>2, <2>4, UpToBound
  <2>6. P \in T /\ P - P = 0
    BY <1>2, <2>5
  <2> QED BY <2>1, <2>6 DEF T
<1>5. n = NumberInsts(insts, middle, b)
  BY <1>1, <1>3 DEF NumberBlock
<1>6. PICK w : /\ w[0] = middle
               /\ \A i \in 1 .. I : w[i] = NumberInst(w[i - 1], b, insts[i])
               /\ n = w[I]
  BY <1>2, <1>5, NumberInstsUnfolds
<1> DEFINE U == {i \in 0 .. I : NumberedUpTo(f, w[i], b, i) /\ w[i].steps = walk.steps}
<1>7. 0 \in U
  BY <1>2, <1>4, <1>6
<1>8. ASSUME NEW i \in 0 .. I - 1, i \in U PROVE i + 1 \in U
  <2>1. i + 1 \in 1 .. I /\ (i + 1) - 1 = i /\ i + 1 \in 0 .. I
    BY <1>2
  <2>2. PICK s, t, j, inst : s = w[i] /\ t = w[i + 1] /\ j = i + 1 /\ inst = insts[j]
    OBVIOUS
  <2>3. t = NumberInst(s, b, inst)
    <3>1. w[i + 1] = NumberInst(w[(i + 1) - 1], b, insts[i + 1])
      BY <1>6, <2>1
    <3> QED BY <2>1, <2>2, <3>1
  <2>4. NumberedUpTo(f, s, b, i) /\ s.steps = walk.steps
    BY <1>8, <2>2
  <2>5. i \in Int /\ j \in Int /\ i < j /\ i <= j
    BY <1>2, <2>2
  <2>6. CASE inst.dest # NoValue /\ inst.op \in Numbered
    <3>1. j \in DOMAIN f.blocks[b].insts /\ inst = f.blocks[b].insts[j]
      BY <1>1, <1>2, <2>1, <2>2, InstTypes
    <3>2. inst.dest \in Values
      BY <2>6, <3>1, InstTypes
    <3>3. <<b, j>> \in Places(f, inst.dest)
      BY <3>1, InstPlace
    <3>4. PICK key : t = Number(s, b, key, inst.dest)
      BY <2>3, <2>6 DEF NumberInst
    <3>5. NumberedUpTo(f, t, b, j) /\ t.steps = s.steps
      <4>1. PICK dest : dest = inst.dest
        OBVIOUS
      <4> QED BY <2>4, <2>5, <3>2, <3>3, <3>4, <4>1, NumberStays
    <3> QED BY <2>1, <2>2, <2>4, <3>5
  <2>7. CASE ~(inst.dest # NoValue /\ inst.op \in Numbered)
    <3>1. t = s
      BY <2>3, <2>7 DEF NumberInst
    <3>2. NumberedUpTo(f, t, b, j)
      BY <2>4, <2>5, <3>1, NumberedFurther
    <3> QED BY <2>1, <2>2, <2>4, <3>1, <3>2
  <2> QED BY <2>6, <2>7
<1>9. \A i \in 0 .. I - 1 : i \in U => i + 1 \in U
  BY <1>8
<1> HIDE DEF U
<1>10. I \in U
  <2>1. \A i \in 0 .. I : i \in U
    BY <1>2, <1>7, <1>9, UpToBound
  <2> QED BY <1>2, <2>1
<1> QED BY <1>1, <1>2, <1>6, <1>10 DEF U

-----------------------------------------------------------------------------
(***************************************************************************)
(* Between two steps of the walk: the blocks still to be left dominate     *)
(* what is on the stack above them, and what is available was computed in  *)
(* one of them.                                                            *)
(***************************************************************************)
Nested(f, steps) ==
    \A i, j \in DOMAIN steps : i < j /\ steps[i][1] = "leave" =>
       steps[i][2] # steps[j][2] /\ Dominates(f, steps[i][2], steps[j][2])

ComputedIn(f, u, c) == \E n \in Int : <<c, n>> \in Places(f, u)

OpenAreKnown(f, walk) ==
    \A key \in DOMAIN walk.available :
       /\ walk.available[key] \in Values
       /\ \E c \in BlockIds(f) : /\ key \in walk.added[c] /\ ComputedIn(f, walk.available[key], c)
                                 /\ IsOpen(walk.steps, c)

WalksDown(f, walk) ==
    /\ IsWalk(f, walk) /\ LinksBack(f, walk.replacement)
    /\ Nested(f, walk.steps) /\ OpenAreKnown(f, walk)

\* Leaving a block takes its keys away with its scope.
LEMMA LeaveStays ==
    ASSUME NEW f, IsFunction(f), NEW walk, WalksDown(f, walk), walk.steps # <<>>,
           NEW b \in BlockIds(f), Last(walk.steps) = <<"leave", b>>,
           NEW n, n = LeaveBlock(walk, b)
    PROVE  WalksDown(f, n)
<1>1. PICK steps, front, left, S : /\ steps = walk.steps /\ front = Front(steps)
                                   /\ left = [key \in DOMAIN walk.available \ walk.added[b] |-> walk.available[key]]
                                   /\ S = {"enter", "leave"} \X BlockIds(f)
  OBVIOUS
<1>2. n = [walk EXCEPT !.steps = front, !.available = left]
  BY <1>1 DEF LeaveBlock
<1>3. IsWalk(f, walk) /\ LinksBack(f, walk.replacement) /\ Nested(f, steps) /\ OpenAreKnown(f, walk)
  BY <1>1 DEF WalksDown
<1>4. steps \in Seq(S) /\ steps # <<>>
  BY <1>1, <1>3 DEF IsWalk
<1>5. PICK L \in Nat : L = Len(steps)
  BY <1>4
<1>6. /\ front \in Seq(S) /\ Len(front) = L - 1 /\ \A i \in 1 .. L - 1 : front[i] = steps[i]
      /\ L \in 1 .. L /\ steps[L] = <<"leave", b>>
  BY <1>1, <1>4, <1>5, FrontFacts
<1>7. DOMAIN steps = 1 .. L /\ DOMAIN front = 1 .. L - 1
  BY <1>4, <1>5, <1>6, LengthFacts
<1>8. /\ n.steps = front /\ n.available = left /\ n.added = walk.added /\ n.replacement = walk.replacement
      /\ n = [steps |-> n.steps, available |-> n.available, replacement |-> n.replacement, added |-> n.added]
  BY <1>2, <1>3 DEF IsWalk
<1>9. IsWalk(f, n) /\ LinksBack(f, n.replacement)
  BY <1>1, <1>3, <1>6, <1>8 DEF IsWalk
<1>10. Nested(f, front)
  <2>1. SUFFICES ASSUME NEW i \in 1 .. L - 1, NEW j \in 1 .. L - 1, i < j, front[i][1] = "leave"
                 PROVE  front[i][2] # front[j][2] /\ Dominates(f, front[i][2], front[j][2])
    BY <1>7 DEF Nested
  <2>2. i \in DOMAIN steps /\ j \in DOMAIN steps /\ front[i] = steps[i] /\ front[j] = steps[j]
    BY <1>5, <1>6, <1>7
  <2> QED BY <1>3, <2>1, <2>2 DEF Nested
<1>11. ASSUME NEW key \in DOMAIN left
       PROVE  /\ left[key] \in Values
              /\ \E c \in BlockIds(f) : key \in walk.added[c] /\ ComputedIn(f, left[key], c) /\ IsOpen(front, c)
  <2>1. key \in DOMAIN walk.available /\ key \notin walk.added[b] /\ left[key] = walk.available[key]
    BY <1>1
  <2>2. PICK c \in BlockIds(f) : key \in walk.added[c] /\ ComputedIn(f, left[key], c) /\ IsOpen(steps, c)
    BY <1>1, <1>3, <2>1 DEF OpenAreKnown
  <2>3. PICK i \in 1 .. L : steps[i] = <<"leave", c>>
    BY <1>7, <2>2 DEF IsOpen
  <2>4. i # L
    BY <1>6, <2>1, <2>2, <2>3
  <2>5. i \in 1 .. L - 1
    BY <1>5, <2>4
  <2>6. IsOpen(front, c)
    BY <1>6, <1>7, <2>3, <2>5 DEF IsOpen
  <2>7. left[key] \in Values
    BY <1>3, <2>1 DEF OpenAreKnown
  <2> QED BY <2>2, <2>6, <2>7
<1>12. OpenAreKnown(f, n)
  BY <1>8, <1>11 DEF OpenAreKnown
<1> QED BY <1>8, <1>9, <1>10, <1>12 DEF WalksDown

\* Entering a block: it is to be left, and before that its children are to be entered.
ChildrenAbove(f, steps, front, b, above) ==
    /\ above \in Seq({"enter", "leave"} \X BlockIds(f))
    /\ \A k \in DOMAIN above : above[k][1] = "enter" /\ above[k][2] # b /\ Dominates(f, b, above[k][2])
    /\ steps = Append(front, <<"leave", b>>) \o above

\* Entering a block leaves its children above it, to be entered before it is left.
LEMMA EnteredSteps ==
    ASSUME NEW f, IsFunction(f), AllReachable(f), NEW b \in BlockIds(f), NEW front,
           NEW steps, steps = Append(front, <<"leave", b>>)
                              \o Reverse([k \in DOMAIN Children(f)[b] |-> <<"enter", Children(f)[b][k]>>])
    PROVE  \E above : ChildrenAbove(f, steps, front, b, above)
<1>1. PICK kids, S : kids = Children(f)[b] /\ S = {"enter", "leave"} \X BlockIds(f)
  OBVIOUS
<1>2. kids \in Seq(BlockIds(f)) /\ \A k \in DOMAIN kids : kids[k] # b /\ Dominates(f, b, kids[k])
  BY <1>1, ChildrenAre
<1>3. PICK N \in Nat : N = Len(kids) /\ DOMAIN kids = 1 .. N /\ \A k \in 1 .. N : kids[k] \in BlockIds(f)
  BY <1>2, LengthFacts
<1>4. PICK list : list = [k \in 1 .. N |-> <<"enter", kids[k]>>]
  OBVIOUS
<1>5. list = [k \in DOMAIN Children(f)[b] |-> <<"enter", Children(f)[b][k]>>]
  BY <1>1, <1>3, <1>4
<1>6. Len(list) = N
  <2>1. \A k \in 1 .. N : list[k] \in S
    <3>1. \A k \in 1 .. N : list[k] = <<"enter", kids[k]>>
      BY <1>4
    <3>2. \A x \in BlockIds(f) : <<"enter", x>> \in S
      BY <1>1
    <3> QED BY <1>3, <3>1, <3>2
  <2>2. list = [k \in 1 .. N |-> list[k]]
    BY <1>4
  <2>3. list \in Seq(S) /\ Len(list) = N
    BY <2>1, <2>2, SequenceOf
  <2> QED BY <2>3
<1>7. PICK above : above = Reverse(list)
  OBVIOUS
<1>8. above = [k \in 1 .. N |-> list[(N - k) + 1]]
  BY <1>6, <1>7 DEF Reverse
<1>9. ASSUME NEW k \in 1 .. N
      PROVE  /\ above[k] \in S /\ above[k][1] = "enter"
             /\ above[k][2] # b /\ Dominates(f, b, above[k][2])
  <2>1. PICK j : j = (N - k) + 1
    OBVIOUS
  <2>2. j \in 1 .. N
    BY <1>3, <2>1
  <2>3. above[k] = list[j]
    BY <1>8, <2>1
  <2>4. above[k] = <<"enter", kids[j]>>
    BY <1>4, <2>2, <2>3
  <2>5. PICK x : x = kids[j]
    OBVIOUS
  <2>6. x \in BlockIds(f) /\ x # b /\ Dominates(f, b, x)
    BY <1>2, <1>3, <2>2, <2>5
  <2>7. above[k] = <<"enter", x>>
    BY <2>4, <2>5
  <2> QED BY <1>1, <2>6, <2>7
<1>10. above \in Seq(S)
  <2>1. above = [k \in 1 .. N |-> above[k]]
    BY <1>8
  <2> QED BY <1>3, <1>9, <2>1, SequenceOf
<1>11. DOMAIN above = 1 .. N
  BY <1>8
<1>12. steps = Append(front, <<"leave", b>>) \o above
  BY <1>5, <1>7
<1> QED BY <1>1, <1>9, <1>10, <1>11, <1>12 DEF ChildrenAbove

\* Entering a block keeps the walk's invariant.
LEMMA EnterStays ==
    ASSUME NEW f, IsFunction(f), WellFormed(f), NEW walk, WalksDown(f, walk), walk.steps # <<>>,
           NEW b \in BlockIds(f), Last(walk.steps) = <<"enter", b>>,
           NEW n, n = EnterBlock(f, Children(f), walk, b)
    PROVE  WalksDown(f, n)
<1>1. AllReachable(f) /\ DefinedOnce(f)
  BY DEF WellFormed
<1>2. PICK steps, front, S : steps = walk.steps /\ front = Front(steps) /\ S = {"enter", "leave"} \X BlockIds(f)
  OBVIOUS
<1>3. IsWalk(f, walk) /\ LinksBack(f, walk.replacement) /\ Nested(f, steps) /\ OpenAreKnown(f, walk)
  BY <1>2 DEF WalksDown
<1>4. steps \in Seq(S) /\ steps # <<>>
  BY <1>2, <1>3 DEF IsWalk
<1>5. PICK L \in Nat : L = Len(steps)
  BY <1>4
<1>6. /\ front \in Seq(S) /\ Len(front) = L - 1 /\ \A i \in 1 .. L - 1 : front[i] = steps[i]
      /\ L \in 1 .. L /\ steps[L] = <<"enter", b>>
  BY <1>2, <1>4, <1>5, FrontFacts
<1>7. DOMAIN steps = 1 .. L /\ \A k \in 1 .. L : steps[k] \in S
  BY <1>4, <1>5, LengthFacts
<1>8. ASSUME NEW i \in 1 .. L - 1, steps[i][1] = "leave"
      PROVE  steps[i][2] # b /\ Dominates(f, steps[i][2], b)
  <2>1. i \in DOMAIN steps /\ L \in DOMAIN steps /\ i < L
    BY <1>5, <1>7
  <2>2. steps[L][2] = b
    BY <1>6
  <2> QED BY <1>3, <1>8, <2>1, <2>2 DEF Nested
<1>9. NumberedUpTo(f, walk, b, 0 - Len(f.blocks[b].phis))
  <2>1. PICK pos : pos = 0 - Len(f.blocks[b].phis)
    OBVIOUS
  <2>2. ASSUME NEW key \in DOMAIN walk.available
        PROVE  /\ walk.available[key] \in Values
               /\ \E c \in BlockIds(f) : /\ key \in walk.added[c]
                                         /\ KnownIn(f, walk.steps, walk.available[key], c, b, pos)
    <3>1. PICK u : u = walk.available[key]
      OBVIOUS
    <3>2. u \in Values
      BY <1>3, <3>1 DEF OpenAreKnown
    <3>3. PICK c \in BlockIds(f) : key \in walk.added[c] /\ ComputedIn(f, u, c) /\ IsOpen(steps, c)
      BY <1>2, <1>3, <3>1 DEF OpenAreKnown
    <3>4. PICK i \in 1 .. L : steps[i] = <<"leave", c>>
      BY <1>7, <3>3 DEF IsOpen
    <3>5. i # L
      BY <1>6, <3>4
    <3>6. i \in 1 .. L - 1 /\ steps[i][1] = "leave" /\ steps[i][2] = c
      BY <1>5, <3>4, <3>5
    <3>7. c # b /\ Dominates(f, c, b)
      BY <1>8, <3>6
    <3>8. KnownIn(f, steps, u, c, b, pos)
      BY <3>3, <3>7 DEF KnownIn, ComputedIn
    <3> QED BY <1>2, <3>1, <3>2, <3>3, <3>8
  <2>3. NumberedUpTo(f, walk, b, pos)
    BY <1>3, <2>2 DEF NumberedUpTo
  <2> QED BY <2>1, <2>3
<1>10. PICK done : done = NumberBlock(f, walk, b)
  OBVIOUS
<1>11. NumberedUpTo(f, done, b, Len(f.blocks[b].insts)) /\ done.steps = steps
  BY <1>1, <1>2, <1>9, <1>10, NumberBlockStays
<1>12. PICK now : now = Append(front, <<"leave", b>>)
                        \o Reverse([k \in DOMAIN Children(f)[b] |-> <<"enter", Children(f)[b][k]>>])
  OBVIOUS
<1>13. n = [done EXCEPT !.steps = now]
  BY <1>2, <1>10, <1>11, <1>12 DEF EnterBlock
<1>14. IsWalk(f, done) /\ LinksBack(f, done.replacement)
  BY <1>11 DEF NumberedUpTo
<1>15. /\ n.steps = now /\ n.available = done.available /\ n.added = done.added /\ n.replacement = done.replacement
       /\ n = [steps |-> n.steps, available |-> n.available, replacement |-> n.replacement, added |-> n.added]
  BY <1>13, <1>14 DEF IsWalk
<1>16. PICK above : ChildrenAbove(f, now, front, b, above)
  BY <1>1, <1>12, EnteredSteps
<1>17. PICK A \in Nat : /\ A = Len(above) /\ DOMAIN above = 1 .. A
                        /\ above \in Seq(S)
  BY <1>2, <1>16, LengthFacts DEF ChildrenAbove
<1>18. /\ now \in Seq(S) /\ DOMAIN now = 1 .. L + A
       /\ \A i \in 1 .. L - 1 : now[i] = steps[i]
       /\ now[L] = <<"leave", b>>
       /\ \A i \in L + 1 .. L + A : now[i] = above[i - L] /\ i - L \in DOMAIN above
  <2>1. PICK left, e : e = <<"leave", b>> /\ left = Append(front, e)
    OBVIOUS
  <2>2. e \in S
    BY <1>2, <2>1
  <2>3. left \in Seq(S) /\ Len(left) = L
        /\ \A i \in 1 .. L : left[i] = IF i <= L - 1 THEN front[i] ELSE e
    BY <1>5, <1>6, <2>1, <2>2, AppendFacts
  <2>4. now = left \o above
    BY <1>16, <2>1 DEF ChildrenAbove
  <2>5. now \in Seq(S) /\ Len(now) = L + A
        /\ \A i \in 1 .. L + A : now[i] = IF i <= L THEN left[i] ELSE above[i - L]
    BY <1>5, <1>17, <2>3, <2>4, ConcatFacts
  <2>6. DOMAIN now = 1 .. L + A
    BY <2>5, LengthFacts
  <2>7. ASSUME NEW i \in 1 .. L - 1 PROVE now[i] = steps[i]
    BY <1>5, <1>6, <1>17, <2>3, <2>5, SMTT(30)
  <2>8. now[L] = e
    <3>1. L \in 1 .. L
      BY <1>6
    <3>2. A >= 0 /\ L >= 1
      BY <1>5, <1>17, <3>1
    <3>3. L \in 1 .. L + A
      BY <1>5, <1>17, <3>2
    <3>4. L <= L /\ ~(L <= L - 1)
      BY <1>5
    <3>5. left[L] = IF L <= L - 1 THEN front[L] ELSE e
      BY <2>3, <3>1, Zenon
    <3>6. left[L] = e
      BY <3>4, <3>5
    <3>7. now[L] = IF L <= L THEN left[L] ELSE above[L - L]
      BY <2>5, <3>3, Zenon
    <3> QED BY <3>4, <3>6, <3>7
  <2>9. ASSUME NEW i \in L + 1 .. L + A PROVE now[i] = above[i - L] /\ i - L \in DOMAIN above
    <3>1. i \in 1 .. L + A /\ ~(i <= L) /\ i - L \in 1 .. A
      BY <1>5, <1>17
    <3>2. now[i] = IF i <= L THEN left[i] ELSE above[i - L]
      BY <2>5, <3>1, Zenon
    <3> QED BY <1>17, <3>1, <3>2
  <2> QED BY <2>1, <2>5, <2>6, <2>7, <2>8, <2>9
<1>19. IsWalk(f, n) /\ LinksBack(f, n.replacement)
  BY <1>2, <1>14, <1>15, <1>18 DEF IsWalk
<1>20. \A k \in DOMAIN above : above[k][1] = "enter" /\ above[k][2] # b /\ Dominates(f, b, above[k][2])
  BY <1>16 DEF ChildrenAbove
<1>21. Nested(f, now)
  <2>1. SUFFICES ASSUME NEW i \in 1 .. L + A, NEW j \in 1 .. L + A, i < j, now[i][1] = "leave"
                 PROVE  now[i][2] # now[j][2] /\ Dominates(f, now[i][2], now[j][2])
    BY <1>18 DEF Nested
  <2>2. i \in Nat /\ j \in Nat
    OBVIOUS
  <2>3. i <= L
    <3>1. SUFFICES ASSUME i \in L + 1 .. L + A PROVE FALSE
      BY <1>5, <1>17
    <3>2. now[i][1] = "enter"
      BY <1>18, <1>20, <3>1
    <3> QED BY <2>1, <3>2
  <2>4. CASE i < L /\ j < L
    <3>1. i \in DOMAIN steps /\ j \in DOMAIN steps /\ now[i] = steps[i] /\ now[j] = steps[j]
      BY <1>5, <1>7, <1>18, <2>4
    <3> QED BY <1>3, <2>1, <3>1 DEF Nested
  <2>5. CASE i < L /\ j >= L
    <3>1. i \in 1 .. L - 1 /\ now[i] = steps[i]
      BY <1>5, <1>18, <2>5
    <3>2. PICK x : x = now[i][2]
      OBVIOUS
    <3>3. x # b /\ Dominates(f, x, b)
      BY <1>8, <2>1, <3>1, <3>2
    <3>4. CASE j = L
      <4>1. now[j][2] = b
        BY <1>18, <3>4
      <4> QED BY <3>2, <3>3, <4>1
    <3>5. CASE j # L
      <4>1. j \in L + 1 .. L + A
        BY <1>5, <2>5, <3>5
      <4>2. PICK y : y = now[j][2]
        OBVIOUS
      <4>3. y # b /\ Dominates(f, b, y)
        BY <1>18, <1>20, <4>1, <4>2
      <4>4. Dominates(f, x, y)
        BY <3>3, <4>3, DominatesTransitive
      <4>5. x # y
        <5>1. SUFFICES ASSUME x = y PROVE FALSE
          OBVIOUS
        <5>2. Dominates(f, b, x)
          BY <4>3, <5>1
        <5>3. b \in Reachable(f)
          BY <1>1 DEF AllReachable
        <5> QED BY <3>3, <5>2, <5>3, DominatesAntisymmetric
      <4> QED BY <3>2, <4>2, <4>4, <4>5
    <3> QED BY <3>4, <3>5
  <2>6. CASE i = L
    <3>1. now[i][2] = b
      BY <1>18, <2>6
    <3>2. j \in L + 1 .. L + A
      BY <1>5, <2>1, <2>6
    <3>3. now[j][2] # b /\ Dominates(f, b, now[j][2])
      BY <1>18, <1>20, <3>2
    <3> QED BY <3>1, <3>3
  <2> QED BY <1>5, <2>2, <2>3, <2>4, <2>5, <2>6
<1>22. ASSUME NEW key \in DOMAIN done.available
       PROVE  /\ done.available[key] \in Values
              /\ \E c \in BlockIds(f) : /\ key \in done.added[c] /\ ComputedIn(f, done.available[key], c)
                                        /\ IsOpen(now, c)
  <2>1. PICK u : u = done.available[key]
    OBVIOUS
  <2>2. u \in Values
    BY <1>11, <2>1 DEF NumberedUpTo
  <2>3. PICK c \in BlockIds(f) : key \in done.added[c] /\ KnownIn(f, steps, u, c, b, Len(f.blocks[b].insts))
    BY <1>11, <2>1 DEF NumberedUpTo
  <2>4. ComputedIn(f, u, c)
    BY <2>3 DEF KnownIn, ComputedIn
  <2>5. L \in DOMAIN now
    BY <1>5, <1>6, <1>17, <1>18
  <2>6. IsOpen(now, c)
    <3>1. CASE c = b
      BY <1>18, <2>5, <3>1 DEF IsOpen
    <3>2. CASE c # b
      <4>1. PICK i \in 1 .. L : steps[i] = <<"leave", c>>
        BY <1>7, <2>3, <3>2 DEF IsOpen, KnownIn
      <4>2. i # L
        BY <1>6, <4>1
      <4>3. i \in 1 .. L - 1 /\ i \in DOMAIN now
        BY <1>5, <1>17, <1>18, <4>2
      <4>4. now[i] = <<"leave", c>>
        BY <1>18, <4>1, <4>3
      <4> QED BY <4>3, <4>4 DEF IsOpen
    <3> QED BY <3>1, <3>2
  <2> QED BY <2>1, <2>2, <2>3, <2>4, <2>6
<1>23. OpenAreKnown(f, n)
  BY <1>15, <1>22 DEF OpenAreKnown
<1> QED BY <1>15, <1>19, <1>21, <1>23 DEF WalksDown

-----------------------------------------------------------------------------
(***************************************************************************)
(* The whole walk.                                                         *)
(***************************************************************************)
LEMMA StepStays ==
    ASSUME NEW f, IsFunction(f), WellFormed(f), NEW walk, WalksDown(f, walk),
           NEW n, n = WalkStep(f, Children(f), walk)
    PROVE  WalksDown(f, n)
<1>1. CASE walk.steps = <<>>
  <2>1. n = walk
    BY <1>1, Zenon DEF WalkStep
  <2> QED BY <2>1
<1>2. CASE walk.steps # <<>>
  <2>1. PICK S : S = {"enter", "leave"} \X BlockIds(f)
    OBVIOUS
  <2>2. walk.steps \in Seq(S)
    BY <2>1 DEF WalksDown, IsWalk
  <2>3. PICK step : step = Last(walk.steps)
    OBVIOUS
  <2>4. step \in S
    <3>1. PICK steps : steps = walk.steps
      OBVIOUS
    <3>2. steps \in Seq(S) /\ steps # <<>> /\ step = Last(steps)
      BY <1>2, <2>2, <2>3, <3>1
    <3> QED BY <3>2 DEF Last
  <2>5. PICK b \in BlockIds(f) : step = <<"enter", b>> \/ step = <<"leave", b>>
    BY <2>1, <2>4
  <2>6. CASE step = <<"enter", b>>
    <3>1. step[1] = "enter" /\ step[1] # "leave" /\ step[2] = b
      BY <2>6
    <3>2. n = EnterBlock(f, Children(f), walk, step[2])
      BY <1>2, <2>3, <3>1, Zenon DEF WalkStep
    <3> QED BY <1>2, <2>3, <2>6, <3>1, <3>2, EnterStays
  <2>7. CASE step = <<"leave", b>>
    <3>1. step[1] = "leave" /\ step[1] # "enter" /\ step[2] = b
      BY <2>7
    <3>2. n = LeaveBlock(walk, step[2])
      BY <1>2, <2>3, <3>1, Zenon DEF WalkStep
    <3> QED BY <1>2, <2>3, <2>7, <3>1, <3>2, LeaveStays
  <2> QED BY <2>5, <2>6, <2>7
<1> QED BY <1>1, <1>2

\* The walk starts in it.
LEMMA WalkStarts ==
    ASSUME NEW f, IsFunction(f),
           NEW walk, walk = [steps |-> <<<<"enter", 1>>>>, available |-> <<>>, replacement |-> <<>>,
                             added |-> [b \in BlockIds(f) |-> {}]]
    PROVE  WalksDown(f, walk)
<1>1. PICK added, S : added = [b \in BlockIds(f) |-> {}] /\ S = {"enter", "leave"} \X BlockIds(f)
  OBVIOUS
<1>2. PICK steps : steps = <<<<"enter", 1>>>>
  OBVIOUS
<1>3. walk = [steps |-> steps, available |-> <<>>, replacement |-> <<>>, added |-> added]
  BY <1>1, <1>2
<1>4. walk.steps = steps /\ walk.available = <<>> /\ walk.replacement = <<>> /\ walk.added = added
  BY <1>3
<1>5. PICK first : first = <<"enter", 1>>
  OBVIOUS
<1>6. first \in S
  BY <1>1, <1>5 DEF IsFunction
<1>7. steps \in Seq(S) /\ DOMAIN steps = {1} /\ steps[1] = first
  BY <1>2, <1>5, <1>6
<1>8. IsWalk(f, walk)
  BY <1>1, <1>3, <1>4, <1>7 DEF IsWalk
<1>9. PICK none : none = <<>> /\ DOMAIN none = {}
  OBVIOUS
<1>10. LinksBack(f, walk.replacement)
  BY <1>4, <1>9 DEF LinksBack
<1>11. Nested(f, walk.steps)
  BY <1>4, <1>7 DEF Nested
<1>12. OpenAreKnown(f, walk)
  BY <1>4, <1>9 DEF OpenAreKnown
<1> QED BY <1>8, <1>10, <1>11, <1>12 DEF WalksDown

\* Every value numbering replaces is replaced by an earlier one.
LEMMA ReplacementsLinkBack ==
    ASSUME NEW f, IsFunction(f), WellFormed(f)
    PROVE  LinksBack(f, WalkOf(f).replacement)
<1>1. 2 * Len(f.blocks) \in Nat
  BY DEF IsFunction
<1>2. PICK start, N : /\ N = 2 * Len(f.blocks)
                      /\ start = [steps |-> <<<<"enter", 1>>>>, available |-> <<>>, replacement |-> <<>>,
                                  added |-> [b \in BlockIds(f) |-> {}]]
  OBVIOUS
<1>3. PICK w : /\ w[0] = start
               /\ \A n \in 1 .. N : w[n] = WalkStep(f, Children(f), w[n - 1])
               /\ WalkOf(f) = w[N]
  BY <1>1, <1>2, WalkUnfolds
<1> DEFINE T == {n \in 0 .. N : WalksDown(f, w[n])}
<1>4. 0 \in T
  <2>1. WalksDown(f, start)
    BY <1>2, WalkStarts
  <2> QED BY <1>1, <1>2, <1>3, <2>1
<1>5. ASSUME NEW n \in 0 .. N - 1, n \in T PROVE n + 1 \in T
  <2>1. n + 1 \in 1 .. N /\ (n + 1) - 1 = n /\ n + 1 \in 0 .. N
    BY <1>1, <1>2
  <2>2. PICK s, t : s = w[n] /\ t = w[n + 1]
    OBVIOUS
  <2>3. t = WalkStep(f, Children(f), s)
    <3>1. w[n + 1] = WalkStep(f, Children(f), w[(n + 1) - 1])
      BY <1>3, <2>1
    <3> QED BY <2>1, <2>2, <3>1
  <2>4. WalksDown(f, s)
    BY <1>5, <2>2
  <2>5. WalksDown(f, t)
    BY <2>3, <2>4, StepStays
  <2> QED BY <2>1, <2>2, <2>5
<1>6. \A n \in 0 .. N - 1 : n \in T => n + 1 \in T
  BY <1>5
<1> HIDE DEF T
<1>7. N \in Nat
  BY <1>1, <1>2
<1>8. \A n \in 0 .. N : n \in T
  BY <1>4, <1>6, <1>7, UpToBound
<1>9. N \in T
  BY <1>7, <1>8
<1>10. WalksDown(f, w[N])
  BY <1>9 DEF T
<1> QED BY <1>3, <1>10 DEF WalksDown

\* Value numbering keeps what the verifier asks (gvn.rs).
LEMMA NumberingIsWellFormed ==
    ASSUME NEW f, IsFunction(f), WellFormed(f), NEW g, g = ValueNumbered(f)
    PROVE  IsFunction(g) /\ WellFormed(g)
<1>1. PICK links, r : links = WalkOf(f).replacement /\ r = [v \in DOMAIN links |-> ChainEnd(v, links)]
  OBVIOUS
<1>2. LinksBack(f, links) /\ AllReachable(f)
  BY <1>1, ReplacementsLinkBack DEF WellFormed
<1>3. Supplies(f, links) /\ \A v \in DOMAIN links : Definitions(f, v) # {}
  BY <1>2, LinksBackSupply
<1>4. Supplies(f, r)
  <2>1. PICK S : S = DOMAIN links
    OBVIOUS
  <2>2. S \subseteq DOMAIN links /\ (\A v \in S : Definitions(f, v) # {}) /\ r = [v \in S |-> ChainEnd(v, links)]
    BY <1>1, <1>3, <2>1
  <2> QED BY <1>3, <2>2, ChainsSupply
<1>5. \A v \in DOMAIN r : r[v] \notin DOMAIN r
  <2>1. TAKE v \in DOMAIN r
  <2>2. v \in DOMAIN links /\ DOMAIN r = DOMAIN links /\ r[v] = ChainEnd(v, links)
    BY <1>1
  <2>3. ChainEnd(v, links) \notin DOMAIN links
    BY <1>2, <2>2, ChainsLeadOut
  <2> QED BY <2>2, <2>3
<1>6. g = RemoveDefinitions(SubstituteOperands(f, r), DOMAIN r)
  BY <1>1, ZenonT(40) DEF ValueNumbered
<1> QED BY <1>4, <1>5, <1>6, ReplacingIsWellFormed

-----------------------------------------------------------------------------
(***************************************************************************)
(* Merging: t, which only b leads to and which leads nowhere else, becomes *)
(* a part of b.                                                            *)
(***************************************************************************)
\* Between two merges: what was merged away is left, and is no jump.
Tidy(f) == Consistent(f) /\ \A c \in BlockIds(f) : f.blocks[c].term.kind = "jump" => c \in Reachable(f)

IsPair(f, b, t) ==
    /\ b \in Reachable(f) /\ b \in BlockIds(f) /\ t \in BlockIds(f) /\ t # b /\ t # 1
    /\ f.blocks[b].term.kind = "jump" /\ Successors(f, b) = <<t>>
    /\ f.blocks[t].preds = <<b>> /\ f.blocks[t].phis = <<>>

\* What is mergeable is a block and its only successor, which it alone enters.
LEMMA MergeableIsPair ==
    ASSUME NEW f, Tidy(f), NEW b \in BlockIds(f), Mergeable(f, b),
           NEW t, t = Successors(f, b)[1]
    PROVE  IsPair(f, b, t)
<1>1. IsFunction(f) /\ f.blocks[1].preds = <<>>
  BY Zenon DEF Tidy, Consistent
<1>2. /\ f.blocks[b].term.kind = "jump" /\ t # b
      /\ f.blocks[t].preds = <<b>> /\ f.blocks[t].phis = <<>>
  BY Zenon DEF Mergeable, Successors
<1>3. f.blocks[b].term.to \in Seq(BlockIds(f)) /\ Len(f.blocks[b].term.to) = 1
  BY <1>1, <1>2, PartTypes DEF IsFunction, HasItsTargets
<1>4. PICK to, S : to = f.blocks[b].term.to /\ S = BlockIds(f)
  OBVIOUS
<1>5. to \in Seq(S) /\ Len(to) = 1 /\ t = to[1]
  BY <1>3, <1>4 DEF Successors
<1>6. to = <<t>> /\ t \in S
  BY <1>5, SMTT(30)
<1>7. <<b>> # <<>>
  OBVIOUS
<1>8. t # 1
  BY <1>1, <1>2, <1>7
<1>9. b \in Reachable(f)
  BY <1>2 DEF Tidy
<1> QED BY <1>2, <1>4, <1>6, <1>8, <1>9 DEF IsPair, Successors

\* How the edges lie about such a pair.
LEMMA PairEdges ==
    ASSUME NEW f, Consistent(f), NEW b, NEW t, IsPair(f, b, t)
    PROVE  /\ \A c \in BlockIds(f) : t \in ToSet(Successors(f, c)) => c = b
           /\ ToSet(Successors(f, b)) = {t} /\ t \notin ToSet(Successors(f, t))
           /\ \A c \in BlockIds(f) \ {t} : \A k \in DOMAIN f.blocks[c].preds : f.blocks[c].preds[k] # b
           /\ \A c \in BlockIds(f) : \A k \in DOMAIN f.blocks[c].preds :
                 f.blocks[c].preds[k] = t => c \in ToSet(Successors(f, t))
<1>1. b \in BlockIds(f) /\ t \in BlockIds(f) /\ t # b /\ Successors(f, b) = <<t>> /\ f.blocks[t].preds = <<b>>
  BY DEF IsPair
<1>2. IsFunction(f) /\ EdgesAgree(f)
  BY DEF Consistent
<1>3. ASSUME NEW c \in BlockIds(f), t \in ToSet(Successors(f, c)) PROVE c = b
  <2>1. PICK k \in DOMAIN f.blocks[t].preds : f.blocks[t].preds[k] = c
    BY <1>1, <1>2, <1>3, EdgeIsRecorded
  <2>2. DOMAIN <<b>> = {1} /\ <<b>>[1] = b
    OBVIOUS
  <2> QED BY <1>1, <2>1, <2>2
<1>4. ToSet(<<t>>) = {t}
  BY DEF ToSet
<1>5. ToSet(Successors(f, b)) = {t}
  BY <1>1, <1>4
<1>6. ASSUME NEW c \in BlockIds(f) \ {t}, NEW k \in DOMAIN f.blocks[c].preds, f.blocks[c].preds[k] = b
      PROVE  FALSE
  <2>1. c \in ToSet(Successors(f, b))
    BY <1>6, PredecessorLeadsThere
  <2> QED BY <1>5, <1>6, <2>1
<1>7. ASSUME NEW c \in BlockIds(f), NEW k \in DOMAIN f.blocks[c].preds, f.blocks[c].preds[k] = t
      PROVE  c \in ToSet(Successors(f, t))
  BY <1>7, PredecessorLeadsThere
<1>8. t \notin ToSet(Successors(f, t))
  BY <1>1, <1>3
<1> QED BY <1>3, <1>5, <1>6, <1>7, <1>8

\* What merging makes of each block.
Instead(b, t, c) == IF c = t THEN b ELSE c

EnteredInstead(b, t, preds) == [k \in DOMAIN preds |-> Instead(b, t, preds[k])]

MergesBlock(g, f, b, t, c) ==
    /\ g.blocks[c].preds = EnteredInstead(b, t, f.blocks[c].preds)
    /\ g.blocks[c].phis = f.blocks[c].phis
    /\ g.blocks[c].insts = IF c = b THEN f.blocks[b].insts \o f.blocks[t].insts ELSE f.blocks[c].insts
    /\ g.blocks[c].term = IF c = b THEN f.blocks[t].term ELSE f.blocks[c].term
    /\ g.blocks[c] = Block(g.blocks[c].preds, g.blocks[c].phis, g.blocks[c].insts, g.blocks[c].term)

IsMerged(g, f, b, t) ==
    /\ g = [blocks |-> g.blocks, site |-> g.site] /\ g.site = f.site
    /\ g.blocks = [c \in BlockIds(f) |-> g.blocks[c]] /\ BlockIds(g) = BlockIds(f)
    /\ g.blocks[t] = Block(<<>>, <<>>, <<>>, Return(0))
    /\ \A c \in BlockIds(f) \ {t} : MergesBlock(g, f, b, t, c)

\* Who is not entered from the merged block keeps its predecessors.
LEMMA EnteredFromElsewhere ==
    ASSUME NEW preds, preds = [k \in DOMAIN preds |-> preds[k]], NEW b, NEW t,
           \A k \in DOMAIN preds : preds[k] # t
    PROVE  EnteredInstead(b, t, preds) = preds
  BY DEF EnteredInstead, Instead

\* A block has four parts.
LEMMA BlockShape ==
    ASSUME NEW f, IsFunction(f), NEW c \in BlockIds(f)
    PROVE  /\ f.blocks[c] = Block(f.blocks[c].preds, f.blocks[c].phis, f.blocks[c].insts, f.blocks[c].term)
           /\ f.blocks[c].preds = [k \in DOMAIN f.blocks[c].preds |-> f.blocks[c].preds[k]]
<1>1. PICK ids : ids = BlockIds(f)
  OBVIOUS
<1>2. PICK block : block = f.blocks[c]
  OBVIOUS
<1>3. block \in BlocksAmong(ids)
  BY <1>1, <1>2, BlockTypes
<1>4. block = Block(block.preds, block.phis, block.insts, block.term)
  BY <1>3 DEF BlocksAmong, Block
<1>5. PICK preds : preds = block.preds
  OBVIOUS
<1>6. preds \in Seq(ids)
  BY <1>3, <1>5 DEF BlocksAmong
<1>7. preds = [k \in DOMAIN preds |-> preds[k]]
  BY <1>6
<1> QED BY <1>2, <1>4, <1>5, <1>7

\* What merge_into makes, block by block (blocks.rs).
LEMMA MergedIs ==
    ASSUME NEW f, Consistent(f), NEW b, NEW t, IsPair(f, b, t),
           NEW g, g = MergeBlocks(f, b, t)
    PROVE  IsMerged(g, f, b, t)
<1>1. /\ b \in BlockIds(f) /\ t \in BlockIds(f) /\ t # b /\ IsFunction(f)
      /\ t \notin ToSet(Successors(f, t))
  BY PairEdges DEF IsPair, Consistent
<1>2. PICK in : in = [c \in BlockIds(f) |-> EnteredInstead(b, t, f.blocks[c].preds)]
  OBVIOUS
<1>3. PICK merged : merged = [c \in BlockIds(f) |->
                                IF Contains(Successors(f, t), c) THEN [f.blocks[c] EXCEPT !.preds = in[c]]
                                ELSE f.blocks[c]]
  OBVIOUS
<1>4. PICK insts, term, empty : /\ insts = merged[b].insts \o merged[t].insts /\ term = merged[t].term
                                /\ empty = Block(<<>>, <<>>, <<>>, Return(0))
  OBVIOUS
<1>5. g = [f EXCEPT !.blocks = [merged EXCEPT ![b].insts = insts, ![b].term = term, ![t] = empty]]
  BY <1>1, <1>2, <1>3, <1>4, Zenon DEF MergeBlocks, EnteredInstead, Instead
<1>6. ASSUME NEW c \in BlockIds(f)
      PROVE  merged[c] = Block(in[c], f.blocks[c].phis, f.blocks[c].insts, f.blocks[c].term)
  <2>1. PICK block : block = f.blocks[c]
    OBVIOUS
  <2>2. block = Block(block.preds, block.phis, block.insts, block.term)
    BY <2>1, BlockShape, <1>1
  <2>3. CASE Contains(Successors(f, t), c)
    <3>1. merged[c] = [block EXCEPT !.preds = in[c]]
      BY <1>3, <2>1, <2>3
    <3> QED BY <2>1, <2>2, <3>1 DEF Block
  <2>4. CASE ~Contains(Successors(f, t), c)
    <3>1. merged[c] = block
      BY <1>3, <2>1, <2>4
    <3>2. c \notin ToSet(Successors(f, t))
      <4>1. Successors(f, t) \in Seq(BlockIds(f))
        BY <1>1, PartTypes DEF Successors
      <4> QED BY <2>4, <4>1, ContainsIs
    <3>3. \A k \in DOMAIN block.preds : block.preds[k] # t
      BY <2>1, <3>2, PairEdges
    <3>4. in[c] = block.preds
      <4>1. PICK preds : preds = block.preds
        OBVIOUS
      <4>2. preds = [k \in DOMAIN preds |-> preds[k]]
        BY <1>1, <2>1, <4>1, BlockShape
      <4>3. EnteredInstead(b, t, preds) = preds
        BY <3>3, <4>1, <4>2, EnteredFromElsewhere
      <4> QED BY <1>2, <2>1, <4>1, <4>3
    <3> QED BY <2>1, <2>2, <3>1, <3>4
  <2> QED BY <2>3, <2>4
<1>7. PICK after : after = [merged EXCEPT ![b].insts = insts, ![b].term = term, ![t] = empty]
  OBVIOUS
<1>8. g = [blocks |-> after, site |-> f.site]
  BY <1>1, <1>5, <1>7 DEF IsFunction
<1>9. DOMAIN merged = BlockIds(f)
  BY <1>3
<1>10. PICK one : one = [merged EXCEPT ![b].insts = insts]
  OBVIOUS
<1>11. PICK two : two = [one EXCEPT ![b].term = term]
  OBVIOUS
<1>20. after = [two EXCEPT ![t] = empty]
  BY <1>7, <1>10, <1>11
<1>21. /\ DOMAIN one = BlockIds(f) /\ one[b] = [merged[b] EXCEPT !.insts = insts]
       /\ \A c \in BlockIds(f) \ {b} : one[c] = merged[c]
  BY <1>1, <1>9, <1>10
<1>22. /\ DOMAIN two = BlockIds(f) /\ two[b] = [one[b] EXCEPT !.term = term]
       /\ \A c \in BlockIds(f) \ {b} : two[c] = one[c]
  BY <1>1, <1>11, <1>21
<1>23. /\ after = [c \in BlockIds(f) |-> after[c]]
       /\ after[t] = empty
       /\ \A c \in BlockIds(f) \ {b, t} : after[c] = merged[c]
       /\ after[b] = two[b]
  BY <1>1, <1>20, <1>21, <1>22
<1>12. insts = f.blocks[b].insts \o f.blocks[t].insts /\ term = f.blocks[t].term
  <2>1. \A c \in BlockIds(f) : merged[c].insts = f.blocks[c].insts /\ merged[c].term = f.blocks[c].term
    <3>1. TAKE c \in BlockIds(f)
    <3>2. PICK m, preds, phis, list, end : /\ m = merged[c] /\ preds = in[c] /\ phis = f.blocks[c].phis
                                           /\ list = f.blocks[c].insts /\ end = f.blocks[c].term
      OBVIOUS
    <3>3. m = Block(preds, phis, list, end)
      BY <1>6, <3>2
    <3>4. m.insts = list /\ m.term = end
      BY <3>3 DEF Block
    <3> QED BY <3>2, <3>4
  <2>2. /\ merged[b].insts = f.blocks[b].insts
        /\ merged[t].insts = f.blocks[t].insts
        /\ merged[t].term = f.blocks[t].term
    BY <1>1, <2>1
  <2> QED BY <1>4, <2>2
<1>13. after[b] = Block(in[b], f.blocks[b].phis, insts, term)
  <2>1. merged[b] = Block(in[b], f.blocks[b].phis, f.blocks[b].insts, f.blocks[b].term)
    BY <1>1, <1>6
  <2>2. one[b] = Block(in[b], f.blocks[b].phis, insts, f.blocks[b].term)
    BY <1>21, <2>1 DEF Block
  <2>3. two[b] = Block(in[b], f.blocks[b].phis, insts, term)
    BY <1>22, <2>2 DEF Block
  <2> QED BY <1>23, <2>3
<1>14. ASSUME NEW c \in BlockIds(f) \ {t} PROVE MergesBlock(g, f, b, t, c)
  <2>1. g.blocks[c] = after[c] /\ in[c] = EnteredInstead(b, t, f.blocks[c].preds)
    BY <1>2, <1>8, SMTT(30)
  <2>2. CASE c = b
    <3>1. g.blocks[b] = Block(in[b], f.blocks[b].phis, insts, term)
      BY <1>13, <2>1, <2>2
    <3>2. /\ g.blocks[b].preds = in[b] /\ g.blocks[b].phis = f.blocks[b].phis
          /\ g.blocks[b].insts = insts /\ g.blocks[b].term = term
      BY <3>1 DEF Block
    <3>3. g.blocks[b] = Block(g.blocks[b].preds, g.blocks[b].phis, g.blocks[b].insts, g.blocks[b].term)
      BY <3>1, <3>2
    <3> QED BY <1>12, <2>1, <2>2, <3>2, <3>3 DEF MergesBlock
  <2>3. CASE c # b
    <3>1. g.blocks[c] = Block(in[c], f.blocks[c].phis, f.blocks[c].insts, f.blocks[c].term)
      BY <1>6, <1>23, <2>1, <2>3
    <3>2. /\ g.blocks[c].preds = in[c] /\ g.blocks[c].phis = f.blocks[c].phis
          /\ g.blocks[c].insts = f.blocks[c].insts /\ g.blocks[c].term = f.blocks[c].term
      BY <3>1 DEF Block
    <3>3. g.blocks[c] = Block(g.blocks[c].preds, g.blocks[c].phis, g.blocks[c].insts, g.blocks[c].term)
      BY <3>1, <3>2
    <3> QED BY <2>1, <2>3, <3>2, <3>3 DEF MergesBlock
  <2> QED BY <2>2, <2>3
<1>15. g.blocks = after /\ g.site = f.site /\ g = [blocks |-> g.blocks, site |-> g.site]
  BY <1>8
<1>16. BlockIds(g) = BlockIds(f)
  BY <1>15, <1>23 DEF BlockIds
<1> QED BY <1>4, <1>23, <1>14, <1>15, <1>16 DEF IsMerged

\* The merged block takes over the successors; the other has none left.
LEMMA MergedSuccessors ==
    ASSUME NEW f, Consistent(f), NEW b, NEW t, IsPair(f, b, t), NEW g, IsMerged(g, f, b, t)
    PROVE  /\ Successors(g, b) = Successors(f, t) /\ Successors(g, t) = <<>>
           /\ \A c \in BlockIds(f) \ {b, t} : Successors(g, c) = Successors(f, c)
<1>1. b \in BlockIds(f) \ {t}
  BY DEF IsPair
<1>2. g.blocks[b].term = f.blocks[t].term
  BY <1>1 DEF IsMerged, MergesBlock
<1>3. g.blocks[t].term.to = <<>>
  BY DEF IsMerged, Block, Return
<1>4. \A c \in BlockIds(f) \ {b, t} : g.blocks[c].term = f.blocks[c].term
  BY DEF IsMerged, MergesBlock
<1> QED BY <1>2, <1>3, <1>4 DEF Successors

\* The elements of two lists joined.
LEMMA JoinedFacts ==
    ASSUME NEW S, NEW s \in Seq(S), NEW t \in Seq(S), NEW st, st = s \o t
    PROVE  /\ st \in Seq(S) /\ DOMAIN st = 1 .. Len(s) + Len(t)
           /\ \A i \in DOMAIN s : i \in DOMAIN st /\ st[i] = s[i]
           /\ \A i \in DOMAIN t : Len(s) + i \in DOMAIN st /\ st[Len(s) + i] = t[i]
           /\ \A i \in DOMAIN st : i \in DOMAIN s \/ i - Len(s) \in DOMAIN t
<1>1. PICK m \in Nat, n \in Nat : m = Len(s) /\ n = Len(t)
  OBVIOUS
<1>2. DOMAIN s = 1 .. m /\ DOMAIN t = 1 .. n
  BY <1>1, LengthFacts
<1>3. st \in Seq(S) /\ Len(st) = m + n
      /\ \A i \in 1 .. m + n : st[i] = IF i <= m THEN s[i] ELSE t[i - m]
  BY <1>1
<1>4. DOMAIN st = 1 .. m + n
  BY <1>3, LengthFacts
<1>5. ASSUME NEW i \in 1 .. m PROVE i \in 1 .. m + n /\ st[i] = s[i]
  <2>1. i \in 1 .. m + n /\ i <= m
    BY <1>1
  <2> QED BY <1>3, <2>1
<1>6. ASSUME NEW i \in 1 .. n PROVE m + i \in 1 .. m + n /\ st[m + i] = t[i]
  <2>1. PICK j : j = m + i
    OBVIOUS
  <2>2. j \in 1 .. m + n /\ ~(j <= m) /\ j - m = i
    BY <1>1, <2>1
  <2>3. st[j] = IF j <= m THEN s[j] ELSE t[j - m]
    BY <1>3, <2>2, Zenon
  <2> QED BY <2>1, <2>2, <2>3
<1>7. ASSUME NEW i \in 1 .. m + n PROVE i \in 1 .. m \/ i - m \in 1 .. n
  BY <1>1
<1> QED BY <1>1, <1>2, <1>3, <1>4, <1>5, <1>6, <1>7

\* The instructions of b and those of t, as b has them then.
LEMMA MergedInsts ==
    ASSUME NEW f, IsFunction(f), NEW b, NEW t, IsPair(f, b, t), NEW g, IsMerged(g, f, b, t),
           NEW L, L = Len(f.blocks[b].insts)
    PROVE  /\ L \in Nat
           /\ DOMAIN g.blocks[b].insts \subseteq Nat
           /\ g.blocks[b].insts \in Seq([dest : Values \cup {NoValue}, op : PureOps \cup EffectOps,
                                         args : Seq(Operands)])
           /\ \A i \in DOMAIN f.blocks[b].insts :
                 i \in DOMAIN g.blocks[b].insts /\ g.blocks[b].insts[i] = f.blocks[b].insts[i]
           /\ \A i \in DOMAIN f.blocks[t].insts :
                 L + i \in DOMAIN g.blocks[b].insts /\ g.blocks[b].insts[L + i] = f.blocks[t].insts[i]
           /\ \A i \in DOMAIN g.blocks[b].insts :
                    i \in DOMAIN f.blocks[b].insts \/ i - L \in DOMAIN f.blocks[t].insts
<1>1. PICK S : S = [dest : Values \cup {NoValue}, op : PureOps \cup EffectOps, args : Seq(Operands)]
  OBVIOUS
<1>2. b \in BlockIds(f) \ {t} /\ t \in BlockIds(f)
  BY DEF IsPair
<1>3. PICK s, u, st : s = f.blocks[b].insts /\ u = f.blocks[t].insts /\ st = g.blocks[b].insts
  OBVIOUS
<1>4. s \in Seq(S) /\ u \in Seq(S)
  BY <1>1, <1>2, <1>3, PartTypes
<1>5. st = s \o u
  BY <1>2, <1>3 DEF IsMerged, MergesBlock
<1>6. /\ st \in Seq(S) /\ DOMAIN st = 1 .. Len(s) + Len(u)
      /\ \A i \in DOMAIN s : i \in DOMAIN st /\ st[i] = s[i]
      /\ \A i \in DOMAIN u : Len(s) + i \in DOMAIN st /\ st[Len(s) + i] = u[i]
      /\ \A i \in DOMAIN st : i \in DOMAIN s \/ i - Len(s) \in DOMAIN u
  BY <1>4, <1>5, JoinedFacts
<1>7. Len(s) \in Nat /\ Len(u) \in Nat
  BY <1>4
<1>8. DOMAIN st \subseteq Nat
  <2>1. DOMAIN st = 1 .. Len(s) + Len(u)
    BY <1>6
  <2> QED BY <1>7, <2>1
<1> QED BY <1>1, <1>3, <1>6, <1>7, <1>8

\* What stands in a block of the merged function stood in one before.
LEMMA MergedInstIs ==
    ASSUME NEW f, IsFunction(f), NEW b, NEW t, IsPair(f, b, t), NEW g, IsMerged(g, f, b, t),
           NEW c \in BlockIds(f), NEW i \in DOMAIN g.blocks[c].insts
    PROVE  /\ c # t
           /\ \/ i \in DOMAIN f.blocks[c].insts /\ g.blocks[c].insts[i] = f.blocks[c].insts[i]
              \/ /\ c = b /\ i - Len(f.blocks[b].insts) \in DOMAIN f.blocks[t].insts
                 /\ g.blocks[c].insts[i] = f.blocks[t].insts[i - Len(f.blocks[b].insts)]
<1>1. c # t
  <2>1. SUFFICES ASSUME c = t PROVE FALSE
    OBVIOUS
  <2>2. g.blocks[t].insts = <<>> /\ DOMAIN <<>> = {}
    BY DEF IsMerged, Block
  <2> QED BY <2>1, <2>2
<1>2. CASE c = b
  <2>0. PICK s, u, st, L : /\ s = f.blocks[b].insts /\ u = f.blocks[t].insts /\ st = g.blocks[b].insts
                           /\ L = Len(f.blocks[b].insts)
    OBVIOUS
  <2>1. /\ L \in Nat /\ DOMAIN st \subseteq Nat
        /\ \A k \in DOMAIN s : st[k] = s[k]
        /\ \A k \in DOMAIN u : st[L + k] = u[k]
        /\ \A k \in DOMAIN st : k \in DOMAIN s \/ k - L \in DOMAIN u
    <3>1. L = Len(f.blocks[b].insts)
      BY <2>0
    <3>2. /\ L \in Nat /\ DOMAIN g.blocks[b].insts \subseteq Nat
          /\ \A k \in DOMAIN f.blocks[b].insts : g.blocks[b].insts[k] = f.blocks[b].insts[k]
          /\ \A k \in DOMAIN f.blocks[t].insts : g.blocks[b].insts[L + k] = f.blocks[t].insts[k]
          /\ \A k \in DOMAIN g.blocks[b].insts :
                   k \in DOMAIN f.blocks[b].insts \/ k - L \in DOMAIN f.blocks[t].insts
      <4>1. L \in Nat /\ DOMAIN g.blocks[b].insts \subseteq Nat
        BY <3>1, MergedInsts
      <4>2. \A k \in DOMAIN f.blocks[b].insts : g.blocks[b].insts[k] = f.blocks[b].insts[k]
        BY <3>1, MergedInsts
      <4>3. \A k \in DOMAIN f.blocks[t].insts : g.blocks[b].insts[L + k] = f.blocks[t].insts[k]
        BY <3>1, MergedInsts
      <4>4. \A k \in DOMAIN g.blocks[b].insts :
                  k \in DOMAIN f.blocks[b].insts \/ k - L \in DOMAIN f.blocks[t].insts
        BY <3>1, MergedInsts
      <4> QED BY <4>1, <4>2, <4>3, <4>4
    <3> QED BY <2>0, <3>2
  <2>2. i \in DOMAIN st /\ g.blocks[c].insts = st
    BY <1>2, <2>0
  <2>3. CASE i \in DOMAIN s
    BY <1>1, <1>2, <2>0, <2>1, <2>2, <2>3
  <2>4. CASE i - L \in DOMAIN u
    <3>1. PICK j : j = i - L
      OBVIOUS
    <3>2. L + j = i
      BY <2>1, <2>2, <3>1
    <3>3. st[i] = u[j]
      BY <2>1, <2>4, <3>1, <3>2
    <3> QED BY <1>1, <1>2, <2>0, <2>2, <2>4, <3>1, <3>3
  <2> QED BY <2>1, <2>2, <2>3, <2>4
<1>3. CASE c # b
  BY <1>1, <1>3 DEF IsMerged, MergesBlock
<1> QED BY <1>2, <1>3

\* Predecessors renamed stay as many.
LEMMA EnteredTypes ==
    ASSUME NEW S, NEW preds \in Seq(S), NEW b \in S, NEW t
    PROVE  /\ EnteredInstead(b, t, preds) \in Seq(S) /\ Len(EnteredInstead(b, t, preds)) = Len(preds)
           /\ DOMAIN EnteredInstead(b, t, preds) = DOMAIN preds
           /\ \A k \in DOMAIN preds : EnteredInstead(b, t, preds)[k] = Instead(b, t, preds[k])
<1>1. PICK n \in Nat : n = Len(preds) /\ DOMAIN preds = 1 .. n /\ \A k \in 1 .. n : preds[k] \in S
  BY LengthFacts
<1>2. PICK in : in = EnteredInstead(b, t, preds)
  OBVIOUS
<1>3. DOMAIN in = 1 .. n /\ \A k \in 1 .. n : in[k] = Instead(b, t, preds[k])
  BY <1>1, <1>2 DEF EnteredInstead
<1>4. \A k \in 1 .. n : in[k] \in S
  BY <1>1, <1>3 DEF Instead
<1>5. in = [k \in 1 .. n |-> in[k]]
  BY <1>1, <1>2 DEF EnteredInstead
<1>6. in \in Seq(S) /\ Len(in) = n
  BY <1>4, <1>5, SequenceOf
<1> QED BY <1>1, <1>2, <1>3, <1>6

\* Merging leaves a function.
LEMMA MergedIsFunction ==
    ASSUME NEW f, Consistent(f), NEW b, NEW t, IsPair(f, b, t), NEW g, IsMerged(g, f, b, t)
    PROVE  IsFunction(g) /\ g.blocks[1].preds = <<>>
<1>1. IsFunction(f) /\ f.blocks[1].preds = <<>> /\ f.blocks[1].phis = <<>> /\ 1 \in BlockIds(f)
  BY DEF Consistent, IsFunction
<1>2. b \in BlockIds(f) \ {t} /\ t \in BlockIds(f) /\ 1 \in BlockIds(f) \ {t}
  BY <1>1 DEF IsPair
<1>3. PICK ids, B, P : ids = BlockIds(f) /\ B = BlocksAmong(ids) /\ P = [Values -> Nat \X Nat]
  OBVIOUS
<1>4. ASSUME NEW c \in ids PROVE g.blocks[c] \in B
  <2>1. CASE c = t
    <3>1. g.blocks[c] = Block(<<>>, <<>>, <<>>, Return(0))
      BY <2>1 DEF IsMerged
    <3>2. 0 \in Operands
      BY SsaAssumption DEF Operands, Word
    <3>3. <<>> \in Seq(ids) /\ <<0>> \in Seq(Operands)
      BY <3>2
    <3> QED BY <1>3, <3>1, <3>3 DEF BlocksAmong, Block, Return
  <2>2. CASE c # t
    <3>1. MergesBlock(g, f, b, t, c)
      BY <1>3, <2>2 DEF IsMerged
    <3>2. PICK preds, phis, insts, term : /\ preds = g.blocks[c].preds /\ phis = g.blocks[c].phis
                                          /\ insts = g.blocks[c].insts /\ term = g.blocks[c].term
      OBVIOUS
    <3>3. preds \in Seq(ids)
      BY <1>1, <1>2, <1>3, <3>1, <3>2, PartTypes, EnteredTypes DEF MergesBlock
    <3>4. phis \in Seq([dest : Values, args : Seq(Operands)])
      BY <1>1, <1>3, <3>1, <3>2, PartTypes DEF MergesBlock
    <3>5. insts \in Seq([dest : Values \cup {NoValue}, op : PureOps \cup EffectOps, args : Seq(Operands)])
      <4>1. CASE c = b
        BY <1>1, <3>2, <4>1, MergedInsts
      <4>2. CASE c # b
        BY <1>1, <1>3, <3>1, <3>2, <4>2, PartTypes DEF MergesBlock
      <4> QED BY <4>1, <4>2
    <3>6. term \in [kind : {"jump", "branch", "return"}, to : Seq(ids), args : Seq(Operands)]
      <4>1. PICK d \in ids : term = f.blocks[d].term
        BY <1>2, <1>3, <3>1, <3>2 DEF MergesBlock
      <4>2. f.blocks[d] \in BlocksAmong(ids)
        BY <1>1, <1>3, <4>1, BlockTypes
      <4> QED BY <4>1, <4>2 DEF BlocksAmong
    <3>7. g.blocks[c] = Block(preds, phis, insts, term)
      BY <3>1, <3>2 DEF MergesBlock
    <3> QED BY <1>3, <3>3, <3>4, <3>5, <3>6, <3>7 DEF BlocksAmong, Block
  <2> QED BY <2>1, <2>2
<1>5. PICK blocks : blocks = g.blocks
  OBVIOUS
<1>6. blocks \in Seq(B)
  <2>1. PICK n \in Nat : ids = 1 .. n
    BY <1>1, <1>3, BlockTypes
  <2>2. blocks = [c \in 1 .. n |-> blocks[c]] /\ \A c \in 1 .. n : blocks[c] \in B
    BY <1>3, <1>4, <1>5, <2>1 DEF IsMerged
  <2> QED BY <2>2, SequenceOf
<1>7. f.site \in P
  BY <1>1, <1>3 DEF IsFunction
<1>8. g \in [blocks : Seq(B), site : P]
  BY <1>5, <1>6, <1>7 DEF IsMerged
<1>9. ids = BlockIds(g)
  BY <1>3 DEF IsMerged
<1>10. MergesBlock(g, f, b, t, 1)
  BY <1>2 DEF IsMerged
<1>11. g.blocks[1].phis = <<>>
  BY <1>1, <1>10 DEF MergesBlock
<1>12. g.blocks[1].preds = <<>>
  <2>1. <<>> = [k \in DOMAIN <<>> |-> <<>>[k]] /\ DOMAIN <<>> = {}
    OBVIOUS
  <2>2. PICK none : none = <<>>
    OBVIOUS
  <2>3. EnteredInstead(b, t, none) = none
    BY <2>1, <2>2, EnteredFromElsewhere
  <2> QED BY <1>1, <1>10, <2>2, <2>3 DEF MergesBlock
<1>13. ASSUME NEW c \in ids, NEW i \in DOMAIN g.blocks[c].insts PROVE HasItsOperands(g.blocks[c].insts[i])
  <2>1. PICK d \in ids : \E j \in DOMAIN f.blocks[d].insts : g.blocks[c].insts[i] = f.blocks[d].insts[j]
    BY <1>1, <1>2, <1>3, <1>13, MergedInstIs
  <2> QED BY <1>1, <1>3, <2>1, InstTypes
<1>14. ASSUME NEW c \in ids PROVE HasItsTargets(g.blocks[c].term)
  <2>1. CASE c = t
    <3>1. g.blocks[c].term = Return(0)
      BY <2>1 DEF IsMerged, Block
    <3>2. Len(<<>>) = 0
      OBVIOUS
    <3> QED BY <3>1, <3>2 DEF HasItsTargets, Return
  <2>2. CASE c # t
    <3>1. PICK d \in ids : g.blocks[c].term = f.blocks[d].term
      BY <1>2, <1>3, <2>2 DEF IsMerged, MergesBlock
    <3> QED BY <1>1, <1>3, <3>1 DEF IsFunction
  <2> QED BY <2>1, <2>2
<1> QED BY <1>1, <1>3, <1>8, <1>9, <1>11, <1>12, <1>13, <1>14 DEF IsFunction

\* Whoever dominated still does, b in place of t.
LEMMA MergingKeepsDominance ==
    ASSUME NEW f, Consistent(f), NEW b, NEW t, IsPair(f, b, t), NEW g, IsMerged(g, f, b, t),
           NEW a \in BlockIds(f), NEW c \in BlockIds(f), Dominates(f, a, c)
    PROVE  Dominates(g, Instead(b, t, a), Instead(b, t, c))
<1>1. PICK other : other = Instead(b, t, a)
  OBVIOUS
<1>2. IsFunction(f) /\ IsFunction(g)
  BY MergedIsFunction DEF Consistent
<1>3. b \in BlockIds(f) /\ t \in BlockIds(f) /\ t # b /\ t # 1 /\ BlockIds(g) = BlockIds(f)
  BY DEF IsPair, IsMerged
<1>4. PICK R : R = ReachableAvoiding(f, {a})
  OBVIOUS
<1>5. /\ 1 # a => 1 \in R
      /\ R \subseteq BlockIds(f) \ {a}
      /\ \A x \in R : \A y \in ToSet(Successors(f, x)) : y # a => y \in R
  BY <1>2, <1>4, AvoidingFacts
<1>6. PICK S : S = {x \in BlockIds(f) \ {t} : x \in R /\ (x = b => t \in R)}
  OBVIOUS
<1>7. ToSet(Successors(f, b)) = {t} /\ \A x \in BlockIds(f) : t \in ToSet(Successors(f, x)) => x = b
  BY PairEdges
<1>8. b \in R /\ a # t => t \in R
  BY <1>5, <1>7
<1>9. a # t => other = a
  BY <1>1 DEF Instead
<1>10. a = t => other = b
  BY <1>1 DEF Instead
<1>11. 1 \notin {other} => 1 \in S
  <2>1. SUFFICES ASSUME 1 # other PROVE 1 \in S
    OBVIOUS
  <2>2. 1 # a /\ 1 \in BlockIds(f) \ {t}
    BY <1>2, <1>3, <1>9, <2>1, BlockTypes
  <2>3. 1 \in R
    BY <1>5, <2>2
  <2>4. 1 = b => t \in R
    BY <1>8, <1>10, <2>1, <2>3
  <2> QED BY <1>6, <2>2, <2>3, <2>4
<1>12. \A x \in S : \A y \in ToSet(Successors(g, x)) : y \notin {other} => y \in S
  <2>1. SUFFICES ASSUME NEW x \in S, NEW y \in ToSet(Successors(g, x)), y # other PROVE y \in S
    OBVIOUS
  <2>2. x \in BlockIds(f) \ {t} /\ x \in R /\ (x = b => t \in R)
    BY <1>6, <2>1
  <2>3. PICK p \in R : y \in ToSet(Successors(f, p)) /\ p # b
    <3>1. CASE x = b
      <4>1. Successors(g, b) = Successors(f, t)
        BY MergedSuccessors
      <4> QED BY <1>3, <2>1, <2>2, <3>1, <4>1
    <3>2. CASE x # b
      <4>1. Successors(g, x) = Successors(f, x)
        BY <2>2, <3>2, MergedSuccessors
      <4> QED BY <2>1, <2>2, <3>2, <4>1
    <3> QED BY <3>1, <3>2
  <2>4. p \in BlockIds(f)
    BY <1>5
  <2>5. y # t
    BY <1>7, <2>3, <2>4
  <2>6. y # a
    BY <1>9, <2>1, <2>5
  <2>7. y \in R
    BY <1>5, <2>3, <2>6
  <2>8. y = b => t \in R
    BY <1>8, <1>10, <2>1, <2>7
  <2> QED BY <1>5, <1>6, <2>5, <2>7, <2>8
<1>13. ReachableAvoiding(g, {other}) \subseteq S
  <2>1. PICK avoided : avoided = {other}
    OBVIOUS
  <2>2. 1 \notin avoided => 1 \in S
    BY <1>11, <2>1
  <2>3. \A x \in S : \A y \in ToSet(Successors(g, x)) : y \notin avoided => y \in S
    BY <1>12, <2>1
  <2> QED BY <1>2, <2>1, <2>2, <2>3, AvoidingIsLeast
<1>14. c \notin R
  BY <1>4 DEF Dominates
<1>15. Instead(b, t, c) \notin S
  <2>1. CASE c = t
    BY <1>6, <1>14, <2>1 DEF Instead
  <2>2. CASE c # t
    BY <1>6, <1>14, <2>2 DEF Instead
  <2> QED BY <2>1, <2>2
<1> QED BY <1>1, <1>13, <1>15 DEF Dominates

\* What was reachable is, at the place it has moved to.
LEMMA MergingKeepsWays ==
    ASSUME NEW f, Consistent(f), NEW b, NEW t, IsPair(f, b, t), NEW g, IsMerged(g, f, b, t),
           NEW c \in Reachable(f)
    PROVE  Instead(b, t, c) \in Reachable(g)
<1>1. IsFunction(f) /\ IsFunction(g)
  BY MergedIsFunction DEF Consistent
<1>2. b \in BlockIds(f) /\ t \in BlockIds(f) /\ t # b /\ t # 1 /\ BlockIds(g) = BlockIds(f)
  BY DEF IsPair, IsMerged
<1>3. PICK R : R = Reachable(g)
  OBVIOUS
<1>4. 1 \in R /\ \A x \in R : \A y \in ToSet(Successors(g, x)) : y \in R
  BY <1>1, <1>3, ReachableFacts
<1>5. PICK S : S = {x \in BlockIds(f) : Instead(b, t, x) \in R}
  OBVIOUS
<1>6. ToSet(Successors(f, b)) = {t} /\ \A x \in BlockIds(f) : t \in ToSet(Successors(f, x)) => x = b
  BY PairEdges
<1>7. 1 \in S
  <2>1. 1 \in BlockIds(f) /\ Instead(b, t, 1) = 1
    BY <1>1, <1>2, BlockTypes DEF Instead
  <2> QED BY <1>4, <1>5, <2>1
<1>8. \A x \in S : \A y \in ToSet(Successors(f, x)) : y \in S
  <2>1. SUFFICES ASSUME NEW x \in S, NEW y \in ToSet(Successors(f, x)) PROVE y \in S
    OBVIOUS
  <2>2. x \in BlockIds(f) /\ Instead(b, t, x) \in R
    BY <1>5, <2>1
  <2>3. y \in BlockIds(f)
    <3>1. PICK to : to = Successors(f, x)
      OBVIOUS
    <3>2. to \in Seq(BlockIds(f))
      BY <1>1, <2>2, <3>1, PartTypes DEF Successors
    <3> QED BY <2>1, <3>1, <3>2 DEF ToSet
  <2>4. CASE x = b
    <3>1. y = t /\ b \in R
      BY <1>2, <1>6, <2>1, <2>2, <2>4 DEF Instead
    <3>2. Instead(b, t, y) = b
      BY <3>1 DEF Instead
    <3> QED BY <1>5, <2>3, <3>1, <3>2
  <2>5. CASE x # b
    <3>1. y # t
      BY <1>6, <2>1, <2>2, <2>5
    <3>2. Instead(b, t, y) = y
      BY <3>1 DEF Instead
    <3>3. y \in R
      <4>1. CASE x = t
        <5>1. b \in R /\ y \in ToSet(Successors(g, b))
          <6>1. Successors(g, b) = Successors(f, t)
            BY MergedSuccessors
          <6> QED BY <2>1, <2>2, <4>1, <6>1 DEF Instead
        <5> QED BY <1>4, <5>1
      <4>2. CASE x # t
        <5>1. x \in R /\ y \in ToSet(Successors(g, x))
          <6>1. Successors(g, x) = Successors(f, x)
            BY <2>2, <2>5, <4>2, MergedSuccessors
          <6> QED BY <2>1, <2>2, <4>2, <6>1 DEF Instead
        <5> QED BY <1>4, <5>1
      <4> QED BY <4>1, <4>2
    <3> QED BY <1>5, <2>3, <3>2, <3>3
  <2> QED BY <2>4, <2>5
<1>9. Reachable(f) \subseteq S
  <2>1. ReachableAvoiding(f, {}) \subseteq S
    BY <1>1, <1>7, <1>8, AvoidingIsLeast
  <2> QED BY <2>1 DEF Reachable
<1> QED BY <1>3, <1>5, <1>9

\* Merging keeps edge lists and phi arguments in step.
LEMMA MergedEdgesAgree ==
    ASSUME NEW f, Consistent(f), NEW b, NEW t, IsPair(f, b, t), NEW g, IsMerged(g, f, b, t)
    PROVE  EdgesAgree(g)
<1>1. IsFunction(f) /\ IsFunction(g) /\ EdgesAgree(f)
  BY MergedIsFunction DEF Consistent
<1>2. b \in BlockIds(f) /\ t \in BlockIds(f) /\ t # b /\ t # 1 /\ BlockIds(g) = BlockIds(f)
  BY DEF IsPair, IsMerged
<1>3. /\ Successors(g, b) = Successors(f, t) /\ Successors(g, t) = <<>>
      /\ \A c \in BlockIds(f) \ {b, t} : Successors(g, c) = Successors(f, c)
  BY MergedSuccessors
<1>4. /\ \A c \in BlockIds(f) : t \in ToSet(Successors(f, c)) => c = b
      /\ \A c \in BlockIds(f) \ {t} : \A k \in DOMAIN f.blocks[c].preds : f.blocks[c].preds[k] # b
      /\ t \notin ToSet(Successors(f, t))
  BY PairEdges
<1>5. ASSUME NEW c \in BlockIds(f) \ {t}
      PROVE  /\ DOMAIN g.blocks[c].preds = DOMAIN f.blocks[c].preds
             /\ Len(g.blocks[c].preds) = Len(f.blocks[c].preds)
             /\ \A k \in DOMAIN f.blocks[c].preds :
                   g.blocks[c].preds[k] = Instead(b, t, f.blocks[c].preds[k])
  <2>1. g.blocks[c].preds = EnteredInstead(b, t, f.blocks[c].preds)
    BY DEF IsMerged, MergesBlock
  <2>2. f.blocks[c].preds \in Seq(BlockIds(f))
    BY <1>1, PartTypes
  <2>3. PICK preds, S : preds = f.blocks[c].preds /\ S = BlockIds(f)
    OBVIOUS
  <2>4. preds \in Seq(S) /\ b \in S
    BY <1>2, <2>2, <2>3
  <2>5. /\ Len(EnteredInstead(b, t, preds)) = Len(preds)
        /\ DOMAIN EnteredInstead(b, t, preds) = DOMAIN preds
        /\ \A k \in DOMAIN preds : EnteredInstead(b, t, preds)[k] = Instead(b, t, preds[k])
    BY <2>4, EnteredTypes
  <2> QED BY <2>1, <2>3, <2>5
<1>6. g.blocks[t].preds = <<>> /\ g.blocks[t].phis = <<>>
  BY DEF IsMerged, Block
<1>7. ASSUME NEW c \in BlockIds(f) PROVE ToSet(g.blocks[c].preds) \subseteq BlockIds(f)
  <2>1. g.blocks[c].preds \in Seq(BlockIds(f))
    BY <1>1, <1>2, PartTypes
  <2> QED BY <2>1 DEF ToSet
<1>8. \A e : CountIn(<<>>, e) = 0
  BY CountFacts
<1>9. ASSUME NEW c \in BlockIds(f), NEW a \in BlockIds(f)
      PROVE  CountIn(g.blocks[c].preds, a) = CountIn(Successors(g, a), c)
  <2>1. CountIn(f.blocks[c].preds, a) = CountIn(Successors(f, a), c)
        /\ CountIn(f.blocks[c].preds, t) = CountIn(Successors(f, t), c)
    BY <1>1, <1>2 DEF EdgesAgree
  <2>2. CASE c = t
    <3>1. \A k \in DOMAIN Successors(g, a) : Successors(g, a)[k] # t
      <4>1. CASE a = t
        <5>1. DOMAIN <<>> = {}
          OBVIOUS
        <5> QED BY <1>3, <4>1, <5>1
      <4>2. CASE a = b
        BY <1>3, <1>4, <4>2 DEF ToSet
      <4>3. CASE a # b /\ a # t
        <5>1. t \notin ToSet(Successors(f, a)) /\ Successors(g, a) = Successors(f, a)
          BY <1>3, <1>4, <4>3
        <5> QED BY <5>1 DEF ToSet
      <4> QED BY <4>1, <4>2, <4>3
    <3>2. {k \in DOMAIN Successors(g, a) : Successors(g, a)[k] = t} = {}
      BY <3>1
    <3>3. CountIn(Successors(g, a), t) = 0
      BY <3>2, FS_EmptySet DEF CountIn
    <3> QED BY <1>6, <1>8, <2>2, <3>3
  <2>3. CASE c # t /\ a = b
    <3>1. \A k \in DOMAIN f.blocks[c].preds :
             g.blocks[c].preds[k] = b <=> f.blocks[c].preds[k] = t
      BY <1>4, <1>5, <2>3 DEF Instead
    <3>2. {k \in DOMAIN g.blocks[c].preds : g.blocks[c].preds[k] = b}
            = {k \in DOMAIN f.blocks[c].preds : f.blocks[c].preds[k] = t}
      <4>1. DOMAIN g.blocks[c].preds = DOMAIN f.blocks[c].preds
        BY <1>5, <2>3
      <4> QED BY <3>1, <4>1
    <3>3. CountIn(g.blocks[c].preds, b) = CountIn(f.blocks[c].preds, t)
      BY <3>2 DEF CountIn
    <3> QED BY <1>3, <2>1, <2>3, <3>3
  <2>4. CASE c # t /\ a = t
    <3>1. \A k \in DOMAIN g.blocks[c].preds : g.blocks[c].preds[k] # t
      BY <1>2, <1>5, <2>4 DEF Instead
    <3>2. {k \in DOMAIN g.blocks[c].preds : g.blocks[c].preds[k] = t} = {}
      BY <3>1
    <3>3. CountIn(g.blocks[c].preds, t) = 0
      BY <3>2, FS_EmptySet DEF CountIn
    <3> QED BY <1>3, <1>8, <2>4, <3>3
  <2>5. CASE c # t /\ a # t /\ a # b
    <3>1. \A k \in DOMAIN f.blocks[c].preds :
             g.blocks[c].preds[k] = a <=> f.blocks[c].preds[k] = a
      BY <1>4, <1>5, <2>5 DEF Instead
    <3>2. {k \in DOMAIN g.blocks[c].preds : g.blocks[c].preds[k] = a}
            = {k \in DOMAIN f.blocks[c].preds : f.blocks[c].preds[k] = a}
      <4>1. DOMAIN g.blocks[c].preds = DOMAIN f.blocks[c].preds
        BY <1>5, <2>5
      <4> QED BY <3>1, <4>1
    <3>3. CountIn(g.blocks[c].preds, a) = CountIn(f.blocks[c].preds, a)
      BY <3>2 DEF CountIn
    <3> QED BY <1>3, <2>1, <2>5, <3>3
  <2> QED BY <2>2, <2>3, <2>4, <2>5
<1>10. ASSUME NEW c \in BlockIds(f), NEW p \in DOMAIN g.blocks[c].phis
       PROVE  Len(g.blocks[c].phis[p].args) = Len(g.blocks[c].preds)
  <2>1. c # t
    <3>1. DOMAIN <<>> = {}
      OBVIOUS
    <3> QED BY <1>6, <1>10, <3>1
  <2>2. g.blocks[c].phis = f.blocks[c].phis
    BY <2>1 DEF IsMerged, MergesBlock
  <2>3. Len(f.blocks[c].phis[p].args) = Len(f.blocks[c].preds)
    BY <1>1, <1>10, <2>2 DEF EdgesAgree
  <2> QED BY <1>5, <2>1, <2>2, <2>3
<1> QED BY <1>2, <1>7, <1>9, <1>10 DEF EdgesAgree

\* Merging makes no critical edge.
LEMMA MergedNoCriticalEdge ==
    ASSUME NEW f, Consistent(f), NEW b, NEW t, IsPair(f, b, t), NEW g, IsMerged(g, f, b, t)
    PROVE  NoCriticalEdge(g)
<1>1. IsFunction(f) /\ IsFunction(g) /\ NoCriticalEdge(f)
  BY MergedIsFunction DEF Consistent
<1>2. b \in BlockIds(f) /\ t \in BlockIds(f) /\ t # b /\ BlockIds(g) = BlockIds(f)
  BY DEF IsPair, IsMerged
<1>3. /\ Successors(g, b) = Successors(f, t) /\ Successors(g, t) = <<>>
      /\ \A c \in BlockIds(f) \ {b, t} : Successors(g, c) = Successors(f, c)
  BY MergedSuccessors
<1>4. SUFFICES ASSUME NEW a \in BlockIds(f), NEW c \in BlockIds(f), Contains(Successors(g, a), c)
               PROVE  Len(Successors(g, a)) < 2 \/ Len(g.blocks[c].preds) < 2
  BY <1>2 DEF NoCriticalEdge, EdgesOf
<1>5. a # t
  <2>1. ~Contains(<<>>, c)
    BY DEF Contains
  <2> QED BY <1>3, <1>4, <2>1
<1>6. PICK p \in BlockIds(f) : Successors(g, a) = Successors(f, p)
  BY <1>2, <1>3, <1>5
<1>7. <<p, c>> \in EdgesOf(f)
  BY <1>4, <1>6 DEF EdgesOf
<1>8. Len(Successors(f, p)) < 2 \/ Len(f.blocks[c].preds) < 2
  BY <1>1, <1>7 DEF NoCriticalEdge
<1>9. CASE c = t
  <2>1. g.blocks[c].preds = <<>> /\ Len(<<>>) = 0
    BY <1>9 DEF IsMerged, Block
  <2> QED BY <2>1
<1>10. CASE c # t
  <2>1. PICK preds, S : preds = f.blocks[c].preds /\ S = BlockIds(f)
    OBVIOUS
  <2>2. preds \in Seq(S) /\ b \in S /\ g.blocks[c].preds = EnteredInstead(b, t, preds)
    BY <1>1, <1>2, <1>10, <2>1, PartTypes DEF IsMerged, MergesBlock
  <2>3. Len(g.blocks[c].preds) = Len(preds)
    BY <2>2, EnteredTypes
  <2> QED BY <1>6, <1>8, <2>1, <2>3
<1> QED BY <1>9, <1>10

\* Where a definition of f is after the merge.
MovedDefinition(f, b, t, d) == IF d[1] = t THEN <<b, Len(f.blocks[b].insts) + d[2]>> ELSE d

\* Merging moves definitions and makes none.
LEMMA MergedDefinitions ==
    ASSUME NEW f, Consistent(f), NEW b, NEW t, IsPair(f, b, t), NEW g, IsMerged(g, f, b, t), NEW v
    PROVE  /\ \A d \in Definitions(f, v) : MovedDefinition(f, b, t, d) \in Definitions(g, v)
           /\ \A e \in Definitions(g, v) : \E d \in Definitions(f, v) : e = MovedDefinition(f, b, t, d)
<1>1. IsFunction(f) /\ IsFunction(g)
  BY MergedIsFunction DEF Consistent
<1>2. b \in BlockIds(f) /\ t \in BlockIds(f) /\ t # b /\ BlockIds(g) = BlockIds(f) /\ f.blocks[t].phis = <<>>
  BY DEF IsPair, IsMerged
<1>3. PICK L : L = Len(f.blocks[b].insts)
  OBVIOUS
<1>4. \A c \in BlockIds(f) \ {t} : g.blocks[c].phis = f.blocks[c].phis
  BY DEF IsMerged, MergesBlock
<1>5. DOMAIN g.blocks[t].phis = {}
  <2>1. g.blocks[t].phis = <<>> /\ DOMAIN <<>> = {}
    BY DEF IsMerged, Block
  <2> QED BY <2>1
<1>6. DOMAIN f.blocks[t].phis = {}
  <2>1. DOMAIN <<>> = {}
    OBVIOUS
  <2> QED BY <1>2, <2>1
<1>7. ASSUME NEW d \in Definitions(f, v) PROVE MovedDefinition(f, b, t, d) \in Definitions(g, v)
  <2>1. PICK c, n : c = d[1] /\ n = d[2]
    OBVIOUS
  <2>2. /\ c \in BlockIds(f) /\ d = <<c, n>>
        /\ \/ n = 0 /\ \E p \in DOMAIN f.blocks[c].phis : f.blocks[c].phis[p].dest = v
           \/ n \in DOMAIN f.blocks[c].insts /\ f.blocks[c].insts[n].dest = v
    BY <1>7, <2>1, DefinitionFacts
  <2>3. CASE n = 0 /\ \E p \in DOMAIN f.blocks[c].phis : f.blocks[c].phis[p].dest = v
    <3>1. c # t
      BY <1>6, <2>3, ZenonT(60)
    <3>2. <<c, 0>> \in Definitions(g, v)
      BY <1>2, <1>4, <2>2, <2>3, <3>1, DefinitionFacts
    <3> QED BY <2>1, <2>2, <2>3, <3>1, <3>2 DEF MovedDefinition
  <2>4. CASE n \in DOMAIN f.blocks[c].insts /\ f.blocks[c].insts[n].dest = v
    <3>1. CASE c = t
      <4>1. PICK m : m = L + n
        OBVIOUS
      <4>2. m \in DOMAIN g.blocks[b].insts /\ g.blocks[b].insts[m] = f.blocks[t].insts[n]
        <5>1. \A i \in DOMAIN f.blocks[t].insts :
                 L + i \in DOMAIN g.blocks[b].insts /\ g.blocks[b].insts[L + i] = f.blocks[t].insts[i]
          BY <1>1, <1>3, MergedInsts
        <5>2. n \in DOMAIN f.blocks[t].insts
          BY <2>4, <3>1
        <5> QED BY <4>1, <5>1, <5>2
      <4>3. <<b, m>> \in Definitions(g, v)
        BY <1>2, <2>4, <3>1, <4>2, DefinitionFacts
      <4> QED BY <1>3, <2>1, <3>1, <4>1, <4>3 DEF MovedDefinition
    <3>2. CASE c # t
      <4>1. n \in DOMAIN g.blocks[c].insts /\ g.blocks[c].insts[n] = f.blocks[c].insts[n]
        <5>1. CASE c = b
          BY <1>1, <1>3, <2>4, <5>1, MergedInsts
        <5>2. CASE c # b
          BY <2>2, <2>4, <3>2, <5>2, Zenon DEF IsMerged, MergesBlock
        <5> QED BY <5>1, <5>2
      <4>2. <<c, n>> \in Definitions(g, v)
        BY <1>2, <2>2, <2>4, <4>1, DefinitionFacts
      <4> QED BY <2>1, <2>2, <3>2, <4>2 DEF MovedDefinition
    <3> QED BY <3>1, <3>2
  <2> QED BY <2>2, <2>3, <2>4
<1>8. ASSUME NEW e \in Definitions(g, v) PROVE \E d \in Definitions(f, v) : e = MovedDefinition(f, b, t, d)
  <2>1. PICK c, n : c = e[1] /\ n = e[2]
    OBVIOUS
  <2>2. /\ c \in BlockIds(f) /\ e = <<c, n>>
        /\ \/ n = 0 /\ \E p \in DOMAIN g.blocks[c].phis : g.blocks[c].phis[p].dest = v
           \/ n \in DOMAIN g.blocks[c].insts /\ g.blocks[c].insts[n].dest = v
    BY <1>2, <1>8, <2>1, DefinitionFacts
  <2>3. CASE n = 0 /\ \E p \in DOMAIN g.blocks[c].phis : g.blocks[c].phis[p].dest = v
    <3>1. c # t
      BY <1>5, <2>3, ZenonT(60)
    <3>2. e \in Definitions(f, v)
      BY <1>4, <2>2, <2>3, <3>1, DefinitionFacts
    <3> QED BY <2>1, <3>1, <3>2 DEF MovedDefinition
  <2>4. CASE n \in DOMAIN g.blocks[c].insts /\ g.blocks[c].insts[n].dest = v
    <3>1. c # t
      BY <1>1, <2>2, <2>4, MergedInstIs
    <3>2. CASE n \in DOMAIN f.blocks[c].insts /\ g.blocks[c].insts[n] = f.blocks[c].insts[n]
      <4>1. e \in Definitions(f, v)
        BY <2>2, <2>4, <3>2, DefinitionFacts
      <4> QED BY <2>1, <3>1, <4>1 DEF MovedDefinition
    <3>3. CASE /\ c = b /\ n - L \in DOMAIN f.blocks[t].insts
               /\ g.blocks[c].insts[n] = f.blocks[t].insts[n - L]
      <4>1. PICK m : m = n - L
        OBVIOUS
      <4>2. PICK d : d = <<t, m>>
        OBVIOUS
      <4>3. d \in Definitions(f, v)
        BY <1>2, <2>4, <3>3, <4>1, <4>2, DefinitionFacts
      <4>4. L \in Nat /\ n \in Int
        BY <1>1, <1>3, <2>4, <3>3, MergedInsts
      <4>5. L + m = n
        BY <4>1, <4>4
      <4>6. MovedDefinition(f, b, t, d) = <<b, L + m>>
        BY <1>3, <4>2 DEF MovedDefinition
      <4> QED BY <2>2, <3>3, <4>3, <4>5, <4>6
    <3> QED BY <1>1, <1>3, <2>2, <2>4, <3>2, <3>3, MergedInstIs
  <2> QED BY <2>2, <2>3, <2>4
<1> QED BY <1>7, <1>8

\* t never comes before b; b always comes before t.
LEMMA PairOrder ==
    ASSUME NEW f, Consistent(f), NEW b, NEW t, IsPair(f, b, t)
    PROVE  ~Dominates(f, t, b)
<1>1. IsFunction(f) /\ b \in Reachable(f) /\ b \in BlockIds(f) /\ t \in BlockIds(f) /\ t # b /\ t # 1
  BY DEF Consistent, IsPair
<1>2. PICK S : S = BlockIds(f) \ {t}
  OBVIOUS
<1>3. SUFFICES ASSUME Dominates(f, t, b) PROVE FALSE
  OBVIOUS
<1>4. Dominates(f, b, t)
  <2>1. PICK R : R = ReachableAvoiding(f, {b})
    OBVIOUS
  <2>2. PICK T : T = R \ {t}
    OBVIOUS
  <2>3. /\ 1 \notin {b} => 1 \in R
        /\ R \subseteq BlockIds(f) \ {b}
        /\ \A x \in R : \A y \in ToSet(Successors(f, x)) : y \notin {b} => y \in R
    BY <1>1, <2>1, AvoidingFacts
  <2>4. 1 \notin {b} => 1 \in T
    BY <1>1, <2>2, <2>3
  <2>5. \A x \in T : \A y \in ToSet(Successors(f, x)) : y \notin {b} => y \in T
    <3>1. SUFFICES ASSUME NEW x \in T, NEW y \in ToSet(Successors(f, x)), y \notin {b} PROVE y \in T
      OBVIOUS
    <3>2. x \in BlockIds(f) /\ x # b /\ y \in R
      BY <2>2, <2>3, <3>1
    <3>3. y # t
      BY <3>1, <3>2, PairEdges
    <3> QED BY <2>2, <3>2, <3>3
  <2>6. R \subseteq T
    BY <1>1, <2>1, <2>4, <2>5, AvoidingIsLeast
  <2> QED BY <2>1, <2>2, <2>6 DEF Dominates
<1>5. b = t
  BY <1>1, <1>3, <1>4, DominatesAntisymmetric
<1> QED BY <1>1, <1>5

\* What was read at a position of c was defined before it still.
LEMMA MergingKeepsOrder ==
    ASSUME NEW f, Consistent(f), NEW b, NEW t, IsPair(f, b, t), NEW g, IsMerged(g, f, b, t),
           NEW v, NEW c \in BlockIds(f), NEW n \in Int, n > 0, DefinedBefore(f, v, c, n),
           NEW m, m = IF c = t THEN Len(f.blocks[b].insts) + n ELSE n
    PROVE  DefinedBefore(g, v, Instead(b, t, c), m)
<1>1. IsFunction(f) /\ IsFunction(g)
  BY MergedIsFunction DEF Consistent
<1>2. b \in BlockIds(f) /\ t \in BlockIds(f) /\ t # b
  BY DEF IsPair
<1>3. PICK L \in Nat : L = Len(f.blocks[b].insts)
  BY <1>1, <1>2, InstTypes
<1>4. SUFFICES ASSUME NEW e \in Definitions(g, v)
               PROVE  IF e[1] = Instead(b, t, c) THEN e[2] < m ELSE Dominates(g, e[1], Instead(b, t, c))
  BY DEF DefinedBefore
<1>5. PICK d \in Definitions(f, v) : e = MovedDefinition(f, b, t, d)
  BY MergedDefinitions
<1>6. PICK x, k : x = d[1] /\ k = d[2]
  OBVIOUS
<1>7. x \in BlockIds(f) /\ (k = 0 \/ k \in DOMAIN f.blocks[x].insts)
  BY <1>6, DefinitionFacts
<1>8. k \in Nat
  <2>1. DOMAIN f.blocks[x].insts \subseteq Nat
    BY <1>1, <1>7, InstTypes
  <2> QED BY <1>7, <2>1
<1>9. IF x = c THEN k < n ELSE Dominates(f, x, c)
  BY <1>6 DEF DefinedBefore
<1>10. e[1] = Instead(b, t, x) /\ e[2] = IF x = t THEN L + k ELSE k
  BY <1>3, <1>5, <1>6 DEF MovedDefinition, Instead
<1>11. CASE x = c
  <2>1. e[2] < m
    BY <1>3, <1>8, <1>9, <1>10, <1>11
  <2> QED BY <1>10, <1>11, <2>1
<1>12. CASE x # c
  <2>1. Dominates(f, x, c)
    BY <1>9, <1>12
  <2>2. CASE x = b /\ c = t
    <3>1. k <= L
      <4>1. DOMAIN f.blocks[b].insts = 1 .. L
        BY <1>1, <1>2, <1>3, InstTypes
      <4> QED BY <1>3, <1>7, <2>2, <4>1
    <3>2. e[2] = k /\ m = L + n
      BY <1>2, <1>3, <1>10, <2>2
    <3>3. e[2] < m
      BY <1>3, <1>8, <3>1, <3>2
    <3>4. e[1] = Instead(b, t, c)
      BY <1>10, <2>2 DEF Instead
    <3> QED BY <3>3, <3>4
  <2>3. CASE x = t /\ c = b
    BY <2>1, <2>3, PairOrder
  <2>4. CASE ~(x = b /\ c = t) /\ ~(x = t /\ c = b)
    <3>1. Instead(b, t, x) # Instead(b, t, c)
      BY <1>12, <2>4 DEF Instead
    <3>2. Dominates(g, Instead(b, t, x), Instead(b, t, c))
      BY <1>7, <2>1, MergingKeepsDominance
    <3> QED BY <1>10, <3>1, <3>2
  <2> QED BY <2>2, <2>3, <2>4
<1> QED BY <1>11, <1>12

\* What a block of the merged function reads was read in one before.
LEMMA MergedReads ==
    ASSUME NEW f, Consistent(f), NEW b, NEW t, IsPair(f, b, t), NEW g, IsMerged(g, f, b, t),
           NEW c \in BlockIds(f), NEW v, v \in ValuesReadIn(g.blocks[c])
    PROVE  \E d \in BlockIds(f) : v \in ValuesReadIn(f.blocks[d])
<1>1. IsFunction(f) /\ b \in BlockIds(f) /\ t \in BlockIds(f)
  BY DEF Consistent, IsPair
<1>2. c # t
  <2>1. SUFFICES ASSUME c = t PROVE FALSE
    OBVIOUS
  <2>2. /\ g.blocks[t].phis = <<>> /\ g.blocks[t].insts = <<>> /\ g.blocks[t].term.args = <<0>>
        /\ ToSet(<<>>) = {} /\ ToSet(<<0>>) = {0}
    BY DEF IsMerged, Block, Return, ToSet
  <2>3. 0 \notin Values
    BY SsaAssumption DEF Word
  <2> QED BY <2>1, <2>2, <2>3 DEF ValuesReadIn, ValuesRead
<1>3. MergesBlock(g, f, b, t, c)
  BY <1>2 DEF IsMerged
<1>4. CASE \E phi \in ToSet(g.blocks[c].phis) : v \in ValuesRead(phi.args)
  <2>1. v \in ValuesReadIn(f.blocks[c])
    BY <1>3, <1>4 DEF MergesBlock, ValuesReadIn
  <2> QED BY <2>1
<1>5. CASE \E inst \in ToSet(g.blocks[c].insts) : v \in ValuesRead(inst.args)
  <2>1. PICK i \in DOMAIN g.blocks[c].insts : v \in ValuesRead(g.blocks[c].insts[i].args)
    BY <1>5 DEF ToSet
  <2>2. PICK d \in BlockIds(f) : \E j \in DOMAIN f.blocks[d].insts : g.blocks[c].insts[i] = f.blocks[d].insts[j]
    BY <1>1, MergedInstIs
  <2>3. PICK j \in DOMAIN f.blocks[d].insts : g.blocks[c].insts[i] = f.blocks[d].insts[j]
    BY <2>2
  <2>4. f.blocks[d].insts[j] \in ToSet(f.blocks[d].insts)
    BY DEF ToSet
  <2>5. v \in ValuesReadIn(f.blocks[d])
    BY <2>1, <2>3, <2>4 DEF ValuesReadIn
  <2> QED BY <2>5
<1>6. CASE v \in ValuesRead(g.blocks[c].term.args)
  <2>1. PICK d \in BlockIds(f) : g.blocks[c].term = f.blocks[d].term
    BY <1>1, <1>3 DEF MergesBlock
  <2>2. v \in ValuesReadIn(f.blocks[d])
    BY <1>6, <2>1 DEF ValuesReadIn
  <2> QED BY <2>2
<1> QED BY <1>4, <1>5, <1>6 DEF ValuesReadIn

\* Merging leaves every value one definition, where its site says.
LEMMA MergedDefinedOnce ==
    ASSUME NEW f, Consistent(f), NEW b, NEW t, IsPair(f, b, t), NEW g, IsMerged(g, f, b, t)
    PROVE  DefinedOnce(g)
<1>1. IsFunction(f) /\ IsFunction(g) /\ DefinedOnce(f)
  BY MergedIsFunction DEF Consistent
<1>2. b \in BlockIds(f) /\ t \in BlockIds(f) /\ t # b /\ BlockIds(g) = BlockIds(f) /\ g.site = f.site
  BY DEF IsPair, IsMerged
<1>3. ASSUME NEW c \in BlockIds(f), NEW v \in ValuesReadIn(g.blocks[c]) PROVE Definitions(g, v) # {}
  <2>1. PICK d \in BlockIds(f) : v \in ValuesReadIn(f.blocks[d])
    BY MergedReads
  <2>2. Definitions(f, v) # {}
    BY <1>1, <2>1 DEF DefinedOnce
  <2> QED BY <2>2, MergedDefinitions
<1>4. ASSUME NEW v \in Values, NEW d \in Definitions(g, v), NEW e \in Definitions(g, v) PROVE d = e
  <2>1. PICK x \in Definitions(f, v) : d = MovedDefinition(f, b, t, x)
    BY MergedDefinitions
  <2>2. PICK y \in Definitions(f, v) : e = MovedDefinition(f, b, t, y)
    BY MergedDefinitions
  <2>3. x = y
    BY <1>1 DEF DefinedOnce
  <2> QED BY <2>1, <2>2, <2>3
<1>5. ASSUME NEW v \in Values, NEW s \in PhiSites(g, v) PROVE g.site[v] = s
  <2>1. PICK c \in BlockIds(g) : \E p \in DOMAIN g.blocks[c].phis : s = <<c, p>> /\ g.blocks[c].phis[p].dest = v
    BY <1>5 DEF PhiSites
  <2>2. PICK p \in DOMAIN g.blocks[c].phis : s = <<c, p>> /\ g.blocks[c].phis[p].dest = v
    BY <2>1
  <2>3. c # t
    <3>1. g.blocks[t].phis = <<>> /\ DOMAIN <<>> = {}
      BY DEF IsMerged, Block
    <3> QED BY <2>2, <3>1
  <2>4. g.blocks[c].phis = f.blocks[c].phis /\ c \in BlockIds(f)
    BY <1>2, <2>3 DEF IsMerged, MergesBlock
  <2>5. s \in PhiSites(f, v)
    BY <2>2, <2>4 DEF PhiSites
  <2> QED BY <1>1, <1>2, <2>5 DEF DefinedOnce
<1>6. ASSUME NEW v \in Values, NEW s \in InstSites(g, v) PROVE g.site[v] = Removed
  <2>1. PICK c \in BlockIds(g) : \E i \in DOMAIN g.blocks[c].insts : g.blocks[c].insts[i].dest = v
    BY <1>6 DEF InstSites
  <2>2. PICK i \in DOMAIN g.blocks[c].insts : g.blocks[c].insts[i].dest = v
    BY <2>1
  <2>3. PICK d \in BlockIds(f) : \E j \in DOMAIN f.blocks[d].insts : g.blocks[c].insts[i] = f.blocks[d].insts[j]
    BY <1>1, <1>2, MergedInstIs
  <2>4. PICK j \in DOMAIN f.blocks[d].insts : f.blocks[d].insts[j].dest = v
    BY <2>2, <2>3
  <2>5. <<d, j>> \in InstSites(f, v)
    BY <2>4 DEF InstSites
  <2> QED BY <1>1, <1>2, <2>5 DEF DefinedOnce
<1> QED BY <1>2, <1>3, <1>4, <1>5, <1>6 DEF DefinedOnce

\* Merging leaves the parameter reads where they stand.
LEMMA MergedParametersFirst ==
    ASSUME NEW f, Consistent(f), NEW b, NEW t, IsPair(f, b, t), NEW g, IsMerged(g, f, b, t)
    PROVE  ParametersFirst(g)
<1>1. IsFunction(f) /\ ParametersFirst(f)
  BY DEF Consistent
<1>2. b \in BlockIds(f) /\ t \in BlockIds(f) /\ t # b /\ t # 1 /\ BlockIds(g) = BlockIds(f)
  BY DEF IsPair, IsMerged
<1>3. SUFFICES ASSUME NEW c \in BlockIds(f), NEW i \in DOMAIN g.blocks[c].insts, g.blocks[c].insts[i].op = "param"
               PROVE  c = 1 /\ \A j \in 1 .. i : g.blocks[c].insts[j].op = "param"
  BY <1>2 DEF ParametersFirst
<1>4. c # t
  BY <1>1, <1>3, MergedInstIs
<1>5. ~(i - Len(f.blocks[b].insts) \in DOMAIN f.blocks[t].insts
        /\ g.blocks[c].insts[i] = f.blocks[t].insts[i - Len(f.blocks[b].insts)])
  <2>1. \A j \in DOMAIN f.blocks[t].insts : f.blocks[t].insts[j].op # "param"
    BY <1>1, <1>2 DEF ParametersFirst
  <2> QED BY <1>3, <2>1
<1>6. i \in DOMAIN f.blocks[c].insts /\ g.blocks[c].insts[i] = f.blocks[c].insts[i]
  BY <1>1, <1>5, MergedInstIs
<1>7. c = 1 /\ \A j \in 1 .. i : f.blocks[c].insts[j].op = "param"
  BY <1>1, <1>3, <1>6 DEF ParametersFirst
<1>8. ASSUME NEW j \in 1 .. i PROVE g.blocks[c].insts[j] = f.blocks[c].insts[j]
  <2>1. j \in DOMAIN f.blocks[c].insts
    BY <1>1, <1>6, InstTypes
  <2>2. CASE c = b
    <3>1. PICK L : L = Len(f.blocks[b].insts)
      OBVIOUS
    <3>2. \A k \in DOMAIN f.blocks[b].insts : g.blocks[b].insts[k] = f.blocks[b].insts[k]
      BY <1>1, <3>1, MergedInsts
    <3> QED BY <2>1, <2>2, <3>2
  <2>3. CASE c # b
    BY <1>4, <2>3 DEF IsMerged, MergesBlock
  <2> QED BY <2>2, <2>3
<1> QED BY <1>7, <1>8

\* After merging every read still comes after its definition.
LEMMA MergedUsesDominated ==
    ASSUME NEW f, Consistent(f), NEW b, NEW t, IsPair(f, b, t), NEW g, IsMerged(g, f, b, t)
    PROVE  UsesDominated(g)
<1>1. IsFunction(f) /\ IsFunction(g) /\ UsesDominated(f)
  BY MergedIsFunction DEF Consistent
<1>2. b \in BlockIds(f) /\ t \in BlockIds(f) /\ t # b /\ BlockIds(g) = BlockIds(f)
  BY DEF IsPair, IsMerged
<1>3. PICK L, U : L = Len(f.blocks[b].insts) /\ U = Len(f.blocks[t].insts)
  OBVIOUS
<1>4. L \in Nat /\ U \in Nat
  BY <1>1, <1>2, <1>3, InstTypes
<1>5. ASSUME NEW c \in BlockIds(f), NEW i \in DOMAIN g.blocks[c].insts,
             NEW v \in ValuesRead(g.blocks[c].insts[i].args)
      PROVE  DefinedBefore(g, v, c, i)
  <2>1. c # t
    BY <1>1, MergedInstIs
  <2>2. CASE i \in DOMAIN f.blocks[c].insts /\ g.blocks[c].insts[i] = f.blocks[c].insts[i]
    <3>1. DefinedBefore(f, v, c, i)
      BY <1>1, <1>5, <2>2 DEF UsesDominated
    <3>2. i \in Int /\ i > 0
      BY <1>1, <2>2, InstTypes
    <3>3. Instead(b, t, c) = c /\ i = IF c = t THEN Len(f.blocks[b].insts) + i ELSE i
      BY <2>1 DEF Instead
    <3> QED BY <3>1, <3>2, <3>3, MergingKeepsOrder
  <2>3. CASE /\ c = b /\ i - L \in DOMAIN f.blocks[t].insts
             /\ g.blocks[c].insts[i] = f.blocks[t].insts[i - L]
    <3>1. PICK j : j = i - L
      OBVIOUS
    <3>2. i \in Int
      BY <1>1, <1>2, InstTypes
    <3>3. i = L + j
      BY <1>4, <3>1, <3>2
    <3>4. DefinedBefore(f, v, t, j)
      BY <1>1, <1>2, <1>5, <2>3, <3>1 DEF UsesDominated
    <3>5. j \in Int /\ j > 0
      BY <1>1, <1>2, <2>3, <3>1, InstTypes
    <3>6. Instead(b, t, t) = c /\ i = IF t = t THEN Len(f.blocks[b].insts) + j ELSE j
      BY <1>3, <2>3, <3>3 DEF Instead
    <3> QED BY <1>2, <3>4, <3>5, <3>6, MergingKeepsOrder
  <2> QED BY <1>1, <1>3, <2>2, <2>3, MergedInstIs
<1>6. ASSUME NEW c \in BlockIds(f), NEW v \in ValuesRead(g.blocks[c].term.args)
      PROVE  DefinedBefore(g, v, c, Len(g.blocks[c].insts) + 1)
  <2>1. c # t
    <3>1. SUFFICES ASSUME c = t PROVE FALSE
      OBVIOUS
    <3>2. g.blocks[t].term.args = <<0>> /\ ToSet(<<0>>) = {0}
      BY DEF IsMerged, Block, Return, ToSet
    <3>3. 0 \notin Values
      BY SsaAssumption DEF Word
    <3> QED BY <1>6, <3>1, <3>2, <3>3 DEF ValuesRead
  <2>2. MergesBlock(g, f, b, t, c)
    BY <2>1 DEF IsMerged
  <2>3. CASE c = b
    <3>1. g.blocks[b].term = f.blocks[t].term /\ g.blocks[b].insts = f.blocks[b].insts \o f.blocks[t].insts
      BY <2>2, <2>3 DEF MergesBlock
    <3>2. PICK j : j = U + 1
      OBVIOUS
    <3>3. DefinedBefore(f, v, t, j)
      BY <1>1, <1>2, <1>3, <1>6, <2>3, <3>1, <3>2 DEF UsesDominated
    <3>4. j \in Int /\ j > 0
      BY <1>4, <3>2
    <3>5. Len(g.blocks[b].insts) + 1 = L + j
      <4>1. Len(g.blocks[b].insts) = L + U
        <5>1. PICK S, s, u : /\ S = [dest : Values \cup {NoValue}, op : PureOps \cup EffectOps, args : Seq(Operands)]
                             /\ s = f.blocks[b].insts /\ u = f.blocks[t].insts
          OBVIOUS
        <5>2. s \in Seq(S) /\ u \in Seq(S)
          BY <1>1, <1>2, <5>1, PartTypes
        <5>3. Len(s \o u) = Len(s) + Len(u)
          BY <5>2, ConcatFacts
        <5> QED BY <1>3, <3>1, <5>1, <5>3
      <4> QED BY <1>4, <3>2, <4>1
    <3>6. PICK m : m = L + j
      OBVIOUS
    <3>7. Instead(b, t, t) = b /\ m = IF t = t THEN Len(f.blocks[b].insts) + j ELSE j
      BY <1>3, <3>6 DEF Instead
    <3>8. DefinedBefore(g, v, b, m)
      BY <1>2, <3>3, <3>4, <3>7, MergingKeepsOrder
    <3> QED BY <2>3, <3>5, <3>6, <3>8, ZenonT(60)
  <2>4. CASE c # b
    <3>1. g.blocks[c].term = f.blocks[c].term /\ g.blocks[c].insts = f.blocks[c].insts
      BY <2>2, <2>4 DEF MergesBlock
    <3>2. PICK j : j = Len(f.blocks[c].insts) + 1
      OBVIOUS
    <3>3. DefinedBefore(f, v, c, j)
      BY <1>1, <1>6, <3>1, <3>2 DEF UsesDominated
    <3>4. j \in Int /\ j > 0
      <4>1. Len(f.blocks[c].insts) \in Nat
        BY <1>1, InstTypes
      <4> QED BY <3>2, <4>1
    <3>5. Instead(b, t, c) = c /\ j = IF c = t THEN Len(f.blocks[b].insts) + j ELSE j
      BY <2>1 DEF Instead
    <3>6. DefinedBefore(g, v, c, j)
      BY <3>3, <3>4, <3>5, MergingKeepsOrder
    <3> QED BY <3>1, <3>2, <3>6
  <2> QED BY <2>3, <2>4
<1> QED BY <1>2, <1>5, <1>6 DEF UsesDominated

\* After merging every phi argument is still defined on its edge.
LEMMA MergedPhiArguments ==
    ASSUME NEW f, Consistent(f), NEW b, NEW t, IsPair(f, b, t), NEW g, IsMerged(g, f, b, t)
    PROVE  PhiArgumentsDominated(g)
<1>1. IsFunction(f) /\ IsFunction(g) /\ PhiArgumentsDominated(f) /\ EdgesAgree(f)
  BY MergedIsFunction DEF Consistent
<1>2. b \in BlockIds(f) /\ t \in BlockIds(f) /\ t # b /\ BlockIds(g) = BlockIds(f)
  BY DEF IsPair, IsMerged
<1>3. ASSUME NEW c \in BlockIds(f), NEW p \in DOMAIN g.blocks[c].phis,
             NEW k \in DOMAIN g.blocks[c].phis[p].args,
             g.blocks[c].phis[p].args[k] \in Values, NEW e \in Definitions(g, g.blocks[c].phis[p].args[k])
      PROVE  Dominates(g, e[1], g.blocks[c].preds[k])
  <2>1. c # t
    <3>1. g.blocks[t].phis = <<>> /\ DOMAIN <<>> = {}
      BY DEF IsMerged, Block
    <3> QED BY <1>3, <3>1
  <2>2. g.blocks[c].phis = f.blocks[c].phis /\ g.blocks[c].preds = EnteredInstead(b, t, f.blocks[c].preds)
    BY <2>1 DEF IsMerged, MergesBlock
  <2>3. PICK v : v = g.blocks[c].phis[p].args[k]
    OBVIOUS
  <2>4. /\ p \in DOMAIN f.blocks[c].phis
        /\ k \in DOMAIN f.blocks[c].phis[p].args
        /\ v = f.blocks[c].phis[p].args[k]
    BY <1>3, <2>2, <2>3
  <2>5. PICK d \in Definitions(f, v) : e = MovedDefinition(f, b, t, d)
    BY <2>3, MergedDefinitions
  <2>6. PICK x, from : x = d[1] /\ from = f.blocks[c].preds[k]
    BY Zenon
  <2>7. Dominates(f, x, from)
    BY <1>1, <1>3, <2>3, <2>4, <2>6 DEF PhiArgumentsDominated
  <2>8. k \in DOMAIN f.blocks[c].preds /\ from \in BlockIds(f)
    <3>1. PICK args, preds : args = f.blocks[c].phis[p].args /\ preds = f.blocks[c].preds
      OBVIOUS
    <3>2. args \in Seq(Operands)
      BY <1>1, <2>4, <3>1, PhiTypes
    <3>3. preds \in Seq(BlockIds(f))
      BY <1>1, <3>1, PartTypes
    <3>4. Len(args) = Len(preds)
      BY <1>1, <2>4, <3>1 DEF EdgesAgree
    <3>5. DOMAIN args = 1 .. Len(args) /\ DOMAIN preds = 1 .. Len(preds)
          /\ \A l \in 1 .. Len(preds) : preds[l] \in BlockIds(f)
      BY <3>2, <3>3, LengthFacts, ZenonT(60)
    <3> QED BY <2>4, <2>6, <3>1, <3>4, <3>5
  <2>9. x \in BlockIds(f)
    BY <2>6, DefinitionFacts
  <2>10. e[1] = Instead(b, t, x)
    BY <2>5, <2>6 DEF MovedDefinition, Instead
  <2>11. g.blocks[c].preds[k] = Instead(b, t, from)
    BY <2>2, <2>6, <2>8 DEF EnteredInstead
  <2>12. Dominates(g, Instead(b, t, x), Instead(b, t, from))
    BY <2>7, <2>8, <2>9, MergingKeepsDominance
  <2> QED BY <2>10, <2>11, <2>12
<1> QED BY <1>2, <1>3 DEF PhiArgumentsDominated

\* One merge keeps all that merging relies on.
LEMMA MergingIsTidy ==
    ASSUME NEW f, Tidy(f), NEW b, NEW t, IsPair(f, b, t), NEW g, g = MergeBlocks(f, b, t)
    PROVE  Tidy(g)
<1>1. Consistent(f)
  BY DEF Tidy
<1>2. IsMerged(g, f, b, t)
  BY <1>1, MergedIs
<1>3. Consistent(g)
  BY <1>1, <1>2, MergedIsFunction, MergedEdgesAgree, MergedDefinedOnce, MergedNoCriticalEdge,
     MergedParametersFirst, MergedUsesDominated, MergedPhiArguments DEF Consistent
<1>4. ASSUME NEW c \in BlockIds(g), g.blocks[c].term.kind = "jump" PROVE c \in Reachable(g)
  <2>1. BlockIds(g) = BlockIds(f) /\ b \in Reachable(f) /\ b # t
    BY <1>2 DEF IsMerged, IsPair
  <2>2. c # t
    BY <1>2, <1>4 DEF IsMerged, Block, Return
  <2>3. c \in Reachable(f)
    <3>1. CASE c = b
      BY <2>1, <3>1
    <3>2. CASE c # b
      <4>1. f.blocks[c].term.kind = "jump"
        BY <1>2, <1>4, <2>1, <2>2, <3>2 DEF IsMerged, MergesBlock
      <4> QED BY <2>1, <4>1 DEF Tidy
    <3> QED BY <3>1, <3>2
  <2>4. Instead(b, t, c) \in Reachable(g)
    BY <1>1, <1>2, <2>3, MergingKeepsWays
  <2> QED BY <2>2, <2>4 DEF Instead
<1> QED BY <1>3, <1>4 DEF Tidy

\* The least of some positions is one of them.
LEMMA FirstOfPositions ==
    ASSUME NEW n \in Nat, NEW T \in SUBSET (1 .. n), T # {}
    PROVE  Min(T) \in T
<1>1. PICK back : back = {(n + 1) - k : k \in T}
  OBVIOUS
<1>2. back \in SUBSET (1 .. n) /\ back # {}
  <2>1. \A k \in T : (n + 1) - k \in 1 .. n
    OBVIOUS
  <2> QED BY <1>1, <2>1
<1>3. PICK last \in back : \A k \in back : k <= last
  BY <1>2, LastOfPositions
<1>4. PICK first \in T : last = (n + 1) - first
  BY <1>1
<1>5. ASSUME NEW k \in T PROVE first <= k
  <2>1. (n + 1) - k \in back
    BY <1>1
  <2>2. (n + 1) - k <= (n + 1) - first
    BY <1>3, <1>4, <2>1
  <2>3. k \in Int /\ first \in Int
    OBVIOUS
  <2> QED BY <2>2, <2>3
<1> QED BY <1>5 DEF Min

\* A step of the pass merges a mergeable pair, or nothing.
LEMMA NextMerge ==
    ASSUME NEW f, IsFunction(f)
    PROVE  \/ MergeNext(f) = f
           \/ \E b \in BlockIds(f) : Mergeable(f, b) /\ MergeNext(f) = MergeBlocks(f, b, Successors(f, b)[1])
<1>1. PICK n \in Nat : BlockIds(f) = 1 .. n
  BY BlockTypes
<1>2. PICK ids : ids = [k \in BlockIds(f) |-> k]
  OBVIOUS
<1>3. Len(ids) = n /\ \A k \in 1 .. n : ids[k] = k
  BY <1>1, <1>2
<1>4. PICK I : I = {i \in 1 .. n : Mergeable(f, i)}
  OBVIOUS
<1>5. SelectInSeq(ids, LAMBDA k : Mergeable(f, k)) = IF I # {} THEN Min(I) ELSE 0
  <2>1. {i \in 1 .. Len(ids) : Mergeable(f, ids[i])} = I
    BY <1>3, <1>4
  <2> QED BY <2>1 DEF SelectInSeq
<1>6. PICK b : b = SelectInSeq(ids, LAMBDA k : Mergeable(f, k))
  OBVIOUS
<1>7. MergeNext(f) = IF b = 0 THEN f ELSE MergeBlocks(f, b, Successors(f, b)[1])
  BY <1>2, <1>6 DEF MergeNext
<1>8. b = 0 \/ b \in I
  <2>1. I # {} => Min(I) \in I
    BY <1>4, FirstOfPositions
  <2> QED BY <1>5, <1>6, <2>1
<1> QED BY <1>1, <1>4, <1>7, <1>8

\* A step of the pass keeps all that merging relies on.
LEMMA MergeNextIsTidy ==
    ASSUME NEW f, Tidy(f), NEW g, g = MergeNext(f)
    PROVE  Tidy(g)
<1>1. IsFunction(f)
  BY DEF Tidy, Consistent
<1>2. CASE g = f
  BY <1>2
<1>3. CASE \E b \in BlockIds(f) : Mergeable(f, b) /\ g = MergeBlocks(f, b, Successors(f, b)[1])
  <2>1. PICK b \in BlockIds(f) : Mergeable(f, b) /\ g = MergeBlocks(f, b, Successors(f, b)[1])
    BY <1>3
  <2>2. PICK t : t = Successors(f, b)[1]
    OBVIOUS
  <2>3. IsPair(f, b, t)
    BY <2>1, <2>2, MergeableIsPair
  <2> QED BY <2>1, <2>2, <2>3, MergingIsTidy
<1> QED BY <1>1, <1>2, <1>3, NextMerge

\* Block merging keeps what the verifier asks (blocks.rs).
LEMMA MergingIsWellFormed ==
    ASSUME NEW f, IsFunction(f), WellFormed(f), NEW g, g = Merged(f)
    PROVE  IsFunction(g) /\ WellFormed(g)
<1>1. PICK N : N = Len(f.blocks)
  OBVIOUS
<1>2. N \in Nat
  BY <1>1, BlockTypes
<1>3. PICK w : /\ w[0] = f
               /\ \A n \in 1 .. N : w[n] = MergeNext(w[n - 1])
               /\ g = IF w[N] = f THEN f ELSE RetainReachable(w[N])
  BY <1>1, <1>2, MergedUnfolds
<1> DEFINE T == {n \in 0 .. N : Tidy(w[n])}
<1>4. 0 \in T
  <2>1. Consistent(f) /\ BlockIds(f) = Reachable(f)
    BY DEF WellFormed, AllReachable, Consistent
  <2>2. Tidy(f)
    BY <2>1 DEF Tidy
  <2> QED BY <1>2, <1>3, <2>2
<1>5. ASSUME NEW n \in 0 .. N - 1, n \in T PROVE n + 1 \in T
  <2>1. n + 1 \in 1 .. N /\ (n + 1) - 1 = n /\ n + 1 \in 0 .. N
    BY <1>2
  <2>2. PICK s, t : s = w[n] /\ t = w[n + 1]
    OBVIOUS
  <2>3. t = MergeNext(s)
    <3>1. w[n + 1] = MergeNext(w[(n + 1) - 1])
      BY <1>3, <2>1
    <3> QED BY <2>1, <2>2, <3>1
  <2>4. Tidy(s)
    BY <1>5, <2>2
  <2>5. Tidy(t)
    BY <2>3, <2>4, MergeNextIsTidy
  <2> QED BY <2>1, <2>2, <2>5
<1>6. \A n \in 0 .. N - 1 : n \in T => n + 1 \in T
  BY <1>5
<1> HIDE DEF T
<1>7. \A n \in 0 .. N : n \in T
  BY <1>2, <1>4, <1>6, UpToBound
<1>8. N \in T
  BY <1>2, <1>7
<1>9. Consistent(w[N])
  BY <1>8 DEF T, Tidy
<1> QED BY <1>3, <1>9, RetainingIsWellFormed

-----------------------------------------------------------------------------
(***************************************************************************)
(* Constant propagation is the pass of module Sccp, about the same         *)
(* function and solver; what SccpProofs says of it is said here of `run'   *)
(* being 1 for good.  The modules speak of it by names of their own.       *)
(***************************************************************************)
Proved == INSTANCE SccpProofs WITH run <- 1, changed <- <<>>

\* Counting and renumbering are the same in the two instances.
LEMMA SameCounting ==
    /\ \A s : Proved!Cardinality(s) = Cardinality(s)
    /\ \A s : ConstantPropagation!Cardinality(s) = Cardinality(s)
    /\ \A s, b : Proved!Renumbered(s, b) = ConstantPropagation!Renumbered(s, b)
    /\ \A s : Proved!Ascending(s) = ConstantPropagation!Ascending(s)
<1>1. \A s : Proved!Cardinality(s) = Cardinality(s) /\ ConstantPropagation!Cardinality(s) = Cardinality(s)
  BY DEF Proved!Cardinality, ConstantPropagation!Cardinality, Cardinality
<1>2. \A s, b : Proved!Renumbered(s, b) = ConstantPropagation!Renumbered(s, b)
  BY <1>1 DEF Proved!Renumbered, ConstantPropagation!Renumbered
<1>3. \A s : Proved!Ascending(s) = ConstantPropagation!Ascending(s)
  BY <1>1, <1>2 DEF Proved!Ascending, ConstantPropagation!Ascending
<1> QED BY <1>1, <1>2, <1>3

\* So is the removal of edges.
LEMMA SameRemoving ==
    /\ \A s, k : Proved!RemoveAt(s, k) = ConstantPropagation!RemoveAt(s, k)
    /\ \A s, e : Proved!RemoveFirst(s, e) = ConstantPropagation!RemoveFirst(s, e)
    /\ \A s, e : Proved!Contains(s, e) <=> ConstantPropagation!Contains(s, e)
    /\ \A f, from, to : Proved!RemoveEdge(f, from, to) = ConstantPropagation!RemoveEdge(f, from, to)
<1>1. \A s, k : Proved!RemoveAt(s, k) = ConstantPropagation!RemoveAt(s, k)
  BY DEF Proved!RemoveAt, ConstantPropagation!RemoveAt
<1>2. \A s, e : Proved!RemoveFirst(s, e) = ConstantPropagation!RemoveFirst(s, e)
  BY DEF Proved!RemoveFirst, ConstantPropagation!RemoveFirst, Proved!SelectInSeq,
         ConstantPropagation!SelectInSeq, Proved!Min, ConstantPropagation!Min,
         Proved!RemoveAt, ConstantPropagation!RemoveAt
<1>3. \A s, e : Proved!Contains(s, e) <=> ConstantPropagation!Contains(s, e)
  BY DEF Proved!Contains, ConstantPropagation!Contains
<1>4. \A f, from, to : Proved!RemoveEdge(f, from, to) = ConstantPropagation!RemoveEdge(f, from, to)
  BY DEF Proved!RemoveEdge, ConstantPropagation!RemoveEdge, Proved!DropArgument,
         ConstantPropagation!DropArgument, Proved!SelectInSeq,
         ConstantPropagation!SelectInSeq, Proved!Min, ConstantPropagation!Min,
         Proved!RemoveAt, ConstantPropagation!RemoveAt
<1> QED BY <1>1, <1>2, <1>3, <1>4

\* So is the exchange of a terminator.
LEMMA SameTerminator ==
    ASSUME NEW f, NEW b, NEW term
    PROVE  Proved!SetTerminator(f, b, term) = ConstantPropagation!SetTerminator(f, b, term)
<1> DEFINE old == f.blocks[b].term.to
           Mine(m) == [k \in 0 .. Len(old) |->
              IF k = 0 THEN [f |-> f, added |-> term.to]
              ELSE IF ConstantPropagation!Contains(m[k - 1].added, old[k])
                   THEN [m[k - 1] EXCEPT !.added = ConstantPropagation!RemoveFirst(@, old[k])]
                   ELSE [m[k - 1] EXCEPT !.f = ConstantPropagation!RemoveEdge(@, b, old[k])]]
           Theirs(m) == [k \in 0 .. Len(old) |->
              IF k = 0 THEN [f |-> f, added |-> term.to]
              ELSE IF Proved!Contains(m[k - 1].added, old[k])
                   THEN [m[k - 1] EXCEPT !.added = Proved!RemoveFirst(@, old[k])]
                   ELSE [m[k - 1] EXCEPT !.f = Proved!RemoveEdge(@, b, old[k])]]
           Entered(rest) ==
              LET added == rest.added
                  entered[k \in 0 .. Len(added)] ==
                      IF k = 0 THEN rest.f
                      ELSE LET before == entered[k - 1]
                           IN  [before EXCEPT !.blocks[added[k]].preds = Append(@, b)]
              IN  [entered[Len(added)] EXCEPT !.blocks[b].term = term]
<1>1. ASSUME NEW m PROVE Mine(m) = Theirs(m)
  BY SameRemoving
<1>2. (CHOOSE m : m = Mine(m)) = (CHOOSE m : m = Theirs(m))
  <2> HIDE DEF Mine, Theirs
  <2> QED BY <1>1
<1>3. ConstantPropagation!SetTerminator(f, b, term) = Entered((CHOOSE m : m = Mine(m))[Len(old)])
  BY Zenon DEF ConstantPropagation!SetTerminator, ConstantPropagation!Successors
<1>4. Proved!SetTerminator(f, b, term) = Entered((CHOOSE m : m = Theirs(m))[Len(old)])
  BY Zenon DEF Proved!SetTerminator, Proved!Successors
<1> HIDE DEF Entered, Mine, Theirs
<1> QED BY <1>2, <1>3, <1>4

\* So is the folding of branches.
LEMMA SameFolding ==
    /\ \A f, b, s : Proved!FoldBranch(f, b, s) = ConstantPropagation!FoldBranch(f, b, s)
    /\ \A f, s : Proved!FoldBranches(f, s) = ConstantPropagation!FoldBranches(f, s)
<1>1. \A f, b, s : Proved!FoldBranch(f, b, s) = ConstantPropagation!FoldBranch(f, b, s)
  BY SameTerminator
     DEF Proved!FoldBranch, ConstantPropagation!FoldBranch, Proved!Foldable,
        ConstantPropagation!Foldable, Proved!Taken, ConstantPropagation!Taken,
         Proved!Successors, ConstantPropagation!Successors, Proved!Jump, ConstantPropagation!Jump
<1>2. \A f, s : Proved!FoldBranches(f, s) = ConstantPropagation!FoldBranches(f, s)
  BY <1>1 DEF Proved!FoldBranches, ConstantPropagation!FoldBranches
<1> QED BY <1>1, <1>2

\* So is the rewritten function.
LEMMA SameApplied == \A f, s : Proved!Applied(f, s) = ConstantPropagation!Applied(f, s)
<1>1. \A f : Proved!Reachable(f) = ConstantPropagation!Reachable(f)
  BY DEF Proved!Reachable, ConstantPropagation!Reachable,
         Proved!ReachableAvoiding, ConstantPropagation!ReachableAvoiding,
         Proved!Successors, ConstantPropagation!Successors, Proved!ToSet,
         ConstantPropagation!ToSet
<1>2. \A kept, block : Proved!Rebuilt(kept, block) = ConstantPropagation!Rebuilt(kept, block)
  BY DEF Proved!Rebuilt, ConstantPropagation!Rebuilt, Proved!Phi,
         ConstantPropagation!Phi, Proved!Block, ConstantPropagation!Block,
         Proved!Renumbered, ConstantPropagation!Renumbered, Proved!Ascending,
         ConstantPropagation!Ascending, Proved!Cardinality,
         ConstantPropagation!Cardinality
<1>3. \A kept, at : Proved!SiteMoves(kept, at) = ConstantPropagation!SiteMoves(kept, at)
  BY DEF Proved!SiteMoves, ConstantPropagation!SiteMoves, Proved!Renumbered,
         ConstantPropagation!Renumbered, Proved!Removed,
         ConstantPropagation!Removed, Proved!Cardinality,
         ConstantPropagation!Cardinality
<1>4. \A f : Proved!RetainReachable(f) = ConstantPropagation!RetainReachable(f)
  BY <1>1, <1>2, <1>3, SameCounting, Zenon
     DEF Proved!RetainReachable, ConstantPropagation!RetainReachable, Proved!BlockIds,
        ConstantPropagation!BlockIds
<1>5. \A f, r : Proved!SubstituteOperands(f, r) = ConstantPropagation!SubstituteOperands(f, r)
  BY DEF Proved!SubstituteOperands, ConstantPropagation!SubstituteOperands,
         Proved!WithBlock, ConstantPropagation!WithBlock, Proved!With,
         ConstantPropagation!With, Proved!WithAll, ConstantPropagation!WithAll,
         Proved!BlockIds, ConstantPropagation!BlockIds
<1> QED BY <1>4, <1>5, SameFolding DEF Proved!Applied, ConstantPropagation!Applied,
           Proved!ConstantValues, ConstantPropagation!ConstantValues

\* So are the steps of the solver.
LEMMA SameSteps ==
    /\ ConstantPropagation!Fresh = Proved!Fresh
    /\ ConstantPropagation!Solved <=> Proved!Solved
    /\ ConstantPropagation!NextVisit => Proved!NextVisit
    /\ ConstantPropagation!EnterBlock => Proved!EnterBlock
    /\ ConstantPropagation!FollowEdge => Proved!FollowEdge
    /\ ConstantPropagation!WakeReaders => Proved!WakeReaders
    /\ ConstantPropagation!SwitchStack => Proved!SwitchStack
<1>1. ConstantPropagation!Fresh = Proved!Fresh
  BY DEF Proved!Fresh, ConstantPropagation!Fresh, Proved!Nothing,
         ConstantPropagation!Nothing
<1>2. ConstantPropagation!Solved <=> Proved!Solved
  BY Zenon DEF Proved!Solved, ConstantPropagation!Solved, Proved!Idle,
         ConstantPropagation!Idle
<1>3. ConstantPropagation!NextVisit => Proved!NextVisit
  BY Zenon DEF Proved!NextVisit, ConstantPropagation!NextVisit, Proved!Visit,
         ConstantPropagation!Visit, Proved!VisitTerminator,
         ConstantPropagation!VisitTerminator, Proved!Leaving,
         ConstantPropagation!Leaving, Proved!Anything,
         ConstantPropagation!Anything, Proved!Nothing,
         ConstantPropagation!Nothing, Proved!KnownOf,
         ConstantPropagation!KnownOf, Proved!Constant,
         ConstantPropagation!Constant, Proved!VisitInst,
         ConstantPropagation!VisitInst, Proved!Evaluate,
         ConstantPropagation!Evaluate, Proved!Fold, ConstantPropagation!Fold,
         Proved!BinaryOps, ConstantPropagation!BinaryOps, Proved!Record,
         ConstantPropagation!Record, Proved!Meet, ConstantPropagation!Meet,
         Proved!VisitPhi, ConstantPropagation!VisitPhi, Proved!ArrivingAt,
         ConstantPropagation!ArrivingAt, Proved!MeetOf,
         ConstantPropagation!MeetOf, Proved!Before, ConstantPropagation!Before
<1>4. ConstantPropagation!EnterBlock => Proved!EnterBlock
  BY DEF Proved!EnterBlock, ConstantPropagation!EnterBlock, Proved!VisitsOf,
         ConstantPropagation!VisitsOf, Proved!PhiVisits,
         ConstantPropagation!PhiVisits
<1>5. ConstantPropagation!FollowEdge => Proved!FollowEdge
  BY Zenon DEF Proved!FollowEdge, ConstantPropagation!FollowEdge, Proved!Follow,
         ConstantPropagation!Follow, Proved!PhiVisits,
         ConstantPropagation!PhiVisits, Proved!Idle, ConstantPropagation!Idle,
         Proved!Front, ConstantPropagation!Front, Proved!Last,
         ConstantPropagation!Last
<1>6. ConstantPropagation!WakeReaders => Proved!WakeReaders
  BY Zenon DEF Proved!WakeReaders, ConstantPropagation!WakeReaders, Proved!ReadersOf,
         ConstantPropagation!ReadersOf, Proved!ArgsAt,
         ConstantPropagation!ArgsAt, Proved!VisitsOf,
         ConstantPropagation!VisitsOf, Proved!PhiVisits,
         ConstantPropagation!PhiVisits, Proved!Idle, ConstantPropagation!Idle,
         Proved!Front, ConstantPropagation!Front, Proved!Last,
         ConstantPropagation!Last, Proved!Contains, ConstantPropagation!Contains
<1>7. ConstantPropagation!SwitchStack => Proved!SwitchStack
  BY DEF Proved!SwitchStack, ConstantPropagation!SwitchStack, Proved!Idle,
         ConstantPropagation!Idle
<1> QED BY <1>1, <1>2, <1>3, <1>4, <1>5, <1>6, <1>7

\* So is what the verifier accepts.
LEMMA SameFunctions ==
    \A f : (IsFunction(f) <=> Proved!IsFunction(f)) /\ (WellFormed(f) <=> Proved!WellFormed(f))
<1>1. ASSUME NEW f PROVE IsFunction(f) <=> Proved!IsFunction(f)
  BY DEF IsFunction, Proved!IsFunction, HasItsTargets, Proved!HasItsTargets,
         HasItsOperands, Proved!HasItsOperands, BinaryOps, Proved!BinaryOps,
         BlockIds, Proved!BlockIds, BlocksAmong, Proved!BlocksAmong, Operands,
         Proved!Operands, Word, Proved!Word, EffectOps, Proved!EffectOps,
         PureOps, Proved!PureOps
<1>2. ASSUME NEW f PROVE AllReachable(f) <=> Proved!AllReachable(f)
  BY DEF AllReachable, Proved!AllReachable, BlockIds, Proved!BlockIds,
         Reachable, Proved!Reachable, ReachableAvoiding,
         Proved!ReachableAvoiding, Successors, Proved!Successors, ToSet,
         Proved!ToSet
<1>3. ASSUME NEW f PROVE DefinedOnce(f) <=> Proved!DefinedOnce(f)
  BY DEF DefinedOnce, Proved!DefinedOnce, Removed, Proved!Removed, InstSites,
         Proved!InstSites, BlockIds, Proved!BlockIds, PhiSites, Proved!PhiSites,
         Definitions, Proved!Definitions, ValuesReadIn, Proved!ValuesReadIn,
         ValuesRead, Proved!ValuesRead, ToSet, Proved!ToSet
<1>4. ASSUME NEW f PROVE NoCriticalEdge(f) <=> Proved!NoCriticalEdge(f)
  BY DEF NoCriticalEdge, Proved!NoCriticalEdge, Successors, Proved!Successors,
         EdgesOf, Proved!EdgesOf, BlockIds, Proved!BlockIds, Contains,
         Proved!Contains
<1>5. ASSUME NEW f PROVE ParametersFirst(f) <=> Proved!ParametersFirst(f)
  BY DEF ParametersFirst, Proved!ParametersFirst, BlockIds, Proved!BlockIds
<1>6. ASSUME NEW f PROVE UsesDominated(f) <=> Proved!UsesDominated(f)
  BY DEF UsesDominated, Proved!UsesDominated, DefinedBefore,
         Proved!DefinedBefore, Dominates, Proved!Dominates, ReachableAvoiding,
         Proved!ReachableAvoiding, Successors, Proved!Successors, Definitions,
         Proved!Definitions, InstSites, Proved!InstSites, BlockIds,
         Proved!BlockIds, PhiSites, Proved!PhiSites, ValuesRead,
         Proved!ValuesRead, ToSet, Proved!ToSet
<1>7. ASSUME NEW f PROVE PhiArgumentsDominated(f) <=> Proved!PhiArgumentsDominated(f)
  BY DEF PhiArgumentsDominated, Proved!PhiArgumentsDominated, Dominates,
         Proved!Dominates, ReachableAvoiding, Proved!ReachableAvoiding,
         Successors, Proved!Successors, Definitions, Proved!Definitions,
         InstSites, Proved!InstSites, BlockIds, Proved!BlockIds, PhiSites,
         Proved!PhiSites, ToSet, Proved!ToSet
<1>8. ASSUME NEW f PROVE EdgesAgree(f) <=> Proved!EdgesAgree(f)
  <2>1. \A s, e : CountIn(s, e) = Proved!CountIn(s, e)
    BY SameCounting DEF CountIn, Proved!CountIn
  <2> QED BY <2>1 DEF EdgesAgree, Proved!EdgesAgree, BlockIds, Proved!BlockIds, Successors,
                     Proved!Successors, ToSet, Proved!ToSet
<1> QED BY <1>1, <1>2, <1>3, <1>4, <1>5, <1>6, <1>7, <1>8 DEF WellFormed, Proved!WellFormed

-----------------------------------------------------------------------------
(***************************************************************************)
(* The steps of the pipeline.                                              *)
(***************************************************************************)
Solving == Proved!Solving /\ Proved!Accepted

\* Between the passes a function the verifier accepts, and so while constants
\* are propagated, of which then words are known.
IInv ==
    /\ IsFunction(function) /\ WellFormed(function)
    /\ pass = "sccp" => Solving

\* What the proofs about constant propagation assume holds here.
LEMMA AssumptionsHold == Proved!SccpAssumption /\ Proved!SsaAssumption
<1>1. Proved!SccpAssumption
  BY PipelineAssumption, SameFunctions DEF Proved!SccpAssumption
<1>2. Proved!SsaAssumption
  BY SsaAssumption DEF Proved!SsaAssumption, Proved!AllInputs, Proved!Word, AllInputs, Word,
                       Proved!IsFiniteSet, IsFiniteSet
<1> QED BY <1>1, <1>2

\* A pass of constant propagation begins.
Begun ==
    IsFunction(function) /\ WellFormed(function) /\ solver = ConstantPropagation!Fresh => Solving

\* Where constant propagation begins, its invariant holds.
LEMMA Begins == Begun
<1>1. SUFFICES ASSUME IsFunction(function), WellFormed(function), solver = ConstantPropagation!Fresh
               PROVE  Solving
  BY DEF Begun
<1>2. solver = Proved!Fresh
  BY <1>1, SameSteps
<1>3. Proved!IsFunction(function) /\ Proved!WellFormed(function)
  BY <1>1, SameFunctions
<1>4. Proved!OnItsWay(solver)
  BY <1>2, <1>3, AssumptionsHold, Proved!FreshIsOnItsWay
<1>5. Proved!KnowsWords(solver)
  BY <1>2, AssumptionsHold, Proved!FreshKnowsWords
<1> QED BY <1>3, <1>4, <1>5 DEF Solving, Proved!Solving, Proved!Accepted

\* And whenever it begins again.
LEMMA BeginsAgain == Begun'
  BY Begins, PTL

\* The steps of the solver keep its invariant.
LEMMA SolvingKeeps ==
    ASSUME Solving, SolveConstants PROVE Solving'
<1>1. [Proved!Next]_(Proved!vars)
  BY SameSteps DEF SolveConstants, Proved!Next
<1> QED BY <1>1, Proved!SolvingStep, Proved!AcceptedStep, AssumptionsHold DEF Solving

\* Constant propagation keeps what the verifier asks (sccp.rs).
LEMMA PropagationIsWellFormed ==
    ASSUME Solving, NEW g, g = ConstantPropagation!Applied(function, solver)
    PROVE  IsFunction(g) /\ WellFormed(g)
<1>1. Proved!IsFunction(function) /\ Proved!WellFormed(function) /\ Proved!KnowsWords(solver)
  BY DEF Solving, Proved!Accepted
<1>2. g = Proved!Applied(function, solver)
  BY SameApplied
<1>3. Proved!IsFunction(g) /\ Proved!WellFormed(g)
  BY <1>1, <1>2, AssumptionsHold, Proved!AppliedIsWellFormed
<1> QED BY <1>3, SameFunctions

\* The pipeline starts in the invariant.
LEMMA IInvStarts == Init => IInv
<1>1. SUFFICES ASSUME Init PROVE IInv
  OBVIOUS
<1>2. IsFunction(function) /\ WellFormed(function)
  BY <1>1, PipelineAssumption DEF Init
<1>3. Solving
  BY <1>1, <1>2, Begins DEF Init, Begun
<1> QED BY <1>2, <1>3 DEF IInv

\* A pass that leaves a function the verifier accepts keeps the invariant.
LEMMA PassKeeps ==
    ASSUME IInv, NEW this, NEW g, NEW reports, NEW next, RunPass(this, g, reports, next),
           next # "sccp", IsFunction(g) /\ WellFormed(g)
    PROVE  IInv'
  BY DEF IInv, RunPass

\* Every step of the pipeline keeps it.
LEMMA IInvStep == IInv /\ [Next]_vars => IInv'
<1> SUFFICES ASSUME IInv, [Next]_vars PROVE IInv'
  OBVIOUS
<1>1. IsFunction(function) /\ WellFormed(function)
  BY DEF IInv
<1>2. CASE BeginRound
  <2>1. function' = function /\ solver' = ConstantPropagation!Fresh
    BY <1>2 DEF BeginRound
  <2>2. IsFunction(function)' /\ WellFormed(function)'
    BY <1>1, <2>1
  <2>3. Solving'
    <3>1. (ConstantPropagation!Fresh)' = ConstantPropagation!Fresh
      BY DEF ConstantPropagation!Fresh
    <3> QED BY <2>1, <2>2, <3>1, BeginsAgain DEF Begun
  <2> QED BY <2>2, <2>3 DEF IInv
<1>3. CASE SolveConstants
  <2>1. Solving
    BY <1>3 DEF IInv, SolveConstants
  <2>2. Solving'
    BY <1>3, <2>1, SolvingKeeps
  <2>3. (Proved!IsFunction(function) /\ Proved!WellFormed(function))'
    BY <2>2 DEF Solving, Proved!Accepted
  <2>4. function' = function
    BY <1>3 DEF SolveConstants, ConstantPropagation!NextVisit, ConstantPropagation!EnterBlock,
                ConstantPropagation!FollowEdge, ConstantPropagation!WakeReaders,
                ConstantPropagation!SwitchStack
  <2> QED BY <1>1, <2>2, <2>4 DEF IInv
<1>4. CASE PropagateConstants
  <2>1. PICK g : g = ConstantPropagation!Applied(function, solver)
    OBVIOUS
  <2>2. pass = "sccp" /\ function' = g /\ pass' = "simplify"
    BY <1>4, <2>1 DEF PropagateConstants, RunPass
  <2>3. IsFunction(g) /\ WellFormed(g)
    BY <2>1, <2>2, PropagationIsWellFormed DEF IInv
  <2> QED BY <2>2, <2>3 DEF IInv
<1>5. CASE Simplify
  <2>1. PICK g : g = Simplified(function)
    OBVIOUS
  <2> QED BY <1>1, <1>5, <2>1, SimplifyingIsWellFormed, PassKeeps DEF Simplify
<1>6. CASE NumberValues
  <2>1. PICK g : g = ValueNumbered(function)
    OBVIOUS
  <2> QED BY <1>1, <1>6, <2>1, NumberingIsWellFormed, PassKeeps DEF NumberValues
<1>7. CASE PropagateCopies
  <2>1. PICK g : g = CopyPropagated(function)
    OBVIOUS
  <2> QED BY <1>1, <1>7, <2>1, CopyPropagatingIsWellFormed, PassKeeps DEF PropagateCopies
<1>8. CASE EliminateDeadCode
  <2>1. PICK g : g = Swept(function)
    OBVIOUS
  <2> QED BY <1>1, <1>8, <2>1, SweepingIsWellFormed, PassKeeps DEF EliminateDeadCode
<1>9. CASE MergeBlockPairs
  <2>1. PICK g : g = Merged(function)
    OBVIOUS
  <2> QED BY <1>1, <1>9, <2>1, MergingIsWellFormed, PassKeeps DEF MergeBlockPairs
<1>10. CASE UNCHANGED vars
  <2>1. function' = function /\ pass' = pass /\ solver' = solver
    BY <1>10 DEF vars
  <2>2. Solving => Solving'
    <3>1. [Proved!Next]_(Proved!vars)
      BY <1>10 DEF vars, Proved!vars
    <3> QED BY <3>1, Proved!SolvingStep, Proved!AcceptedStep, AssumptionsHold DEF Solving
  <2> QED BY <1>1, <2>1, <2>2 DEF IInv
<1>11. CASE Finished
  BY <1>10, <1>11 DEF Finished
<1> QED BY <1>2, <1>3, <1>4, <1>5, <1>6, <1>7, <1>8, <1>9, <1>10, <1>11 DEF Next

(***************************************************************************)
(* optimize's debug_assert_valid: every pass leaves a function the         *)
(* verifier accepts, whatever the passes before it left behind.            *)
(***************************************************************************)
THEOREM EveryPassLeavesAWellFormedFunction == Spec => []StaysWellFormed
<1>1. IInv => StaysWellFormed
  BY DEF IInv, StaysWellFormed
<1> QED BY <1>1, IInvStarts, IInvStep, PTL DEF Spec
=============================================================================
