--------------------------- MODULE FiniteLemmas ---------------------------
(***************************************************************************)
(* What the sequence operators of the models return: their length, the     *)
(* set their elements come from, and each element, of sequences that are   *)
(* strung together too.  Then facts on finite sets, and on the cycles of a *)
(* map.                                                                    *)
(***************************************************************************)
EXTENDS Integers, SequencesExt, FiniteSetTheorems, TLAPS

(***************************************************************************)
(* Concatenation: the elements of f, then those of b.                      *)
(***************************************************************************)
LEMMA ConcatFacts ==
    ASSUME NEW S, NEW f \in Seq(S), NEW b \in Seq(S)
    PROVE  /\ f \o b \in Seq(S)
           /\ Len(f \o b) = Len(f) + Len(b)
           /\ \A i \in 1 .. Len(f) + Len(b) :
                 (f \o b)[i] = IF i <= Len(f) THEN f[i] ELSE b[i - Len(f)]
  OBVIOUS

(***************************************************************************)
(* The elements of s from position m to position n.                        *)
(***************************************************************************)
LEMMA SubSeqFacts ==
    ASSUME NEW S, NEW s \in Seq(S), NEW m \in 1 .. Len(s) + 1, NEW n \in m - 1 .. Len(s)
    PROVE  /\ SubSeq(s, m, n) \in Seq(S)
           /\ Len(SubSeq(s, m, n)) = n - m + 1
           /\ \A i \in 1 .. n - m + 1 : SubSeq(s, m, n)[i] = s[m + i - 1]
  OBVIOUS

(***************************************************************************)
(* Vec::remove: the elements after position k move down by one.            *)
(***************************************************************************)
LEMMA RemoveAtFacts ==
    ASSUME NEW S, NEW s \in Seq(S), NEW k \in 1 .. Len(s)
    PROVE  /\ RemoveAt(s, k) \in Seq(S)
           /\ Len(RemoveAt(s, k)) = Len(s) - 1
           /\ \A i \in 1 .. Len(s) - 1 :
                 RemoveAt(s, k)[i] = IF i < k THEN s[i] ELSE s[i + 1]
<1> DEFINE f == SubSeq(s, 1, k - 1)
           b == SubSeq(s, k + 1, Len(s))
<1>0. Len(s) \in Nat /\ k \in Int
  OBVIOUS
<1>1. f \in Seq(S) /\ Len(f) = k - 1 /\ \A i \in 1 .. k - 1 : f[i] = s[i]
  BY SubSeqFacts
<1>2. b \in Seq(S) /\ Len(b) = Len(s) - k /\ \A i \in 1 .. Len(s) - k : b[i] = s[k + i]
  BY SubSeqFacts
<1>3. RemoveAt(s, k) = f \o b
  BY DEF RemoveAt
<1> HIDE DEF f, b
<1>4. f \o b \in Seq(S) /\ Len(f \o b) = Len(f) + Len(b)
  BY <1>1, <1>2, ConcatFacts
<1>5. Len(f) + Len(b) = Len(s) - 1
  BY <1>0, <1>1, <1>2
<1>6. Len(f \o b) = Len(s) - 1
  BY <1>4, <1>5
<1>7. ASSUME NEW i \in 1 .. Len(s) - 1
      PROVE  (f \o b)[i] = IF i < k THEN s[i] ELSE s[i + 1]
  <2>1. i \in 1 .. Len(f) + Len(b)
    BY <1>5
  <2>2. (f \o b)[i] = IF i <= Len(f) THEN f[i] ELSE b[i - Len(f)]
    BY <1>1, <1>2, <2>1, ConcatFacts
  <2>3. CASE i < k
    BY <2>2, <2>3, <1>0, <1>1
  <2>4. CASE i >= k
    <3>1. i - Len(f) \in 1 .. Len(s) - k /\ i - Len(f) = i - k + 1
      BY <2>4, <1>0, <1>1
    <3>2. b[i - Len(f)] = s[k + (i - Len(f))]
      BY <3>1, <1>2
    <3>3. k + (i - Len(f)) = i + 1
      BY <3>1, <1>0
    <3> QED BY <2>2, <2>4, <3>2, <3>3, <1>0, <1>1
  <2>5. i < k \/ i >= k
    BY <1>0
  <2> QED BY <2>3, <2>4, <2>5
<1> QED BY <1>3, <1>4, <1>6, <1>7

(***************************************************************************)
(* Vec::insert: e at position p, the elements from p on move up by one.    *)
(***************************************************************************)
LEMMA InsertAtFacts ==
    ASSUME NEW S, NEW s \in Seq(S), NEW p \in 1 .. Len(s) + 1, NEW e \in S
    PROVE  /\ InsertAt(s, p, e) \in Seq(S)
           /\ Len(InsertAt(s, p, e)) = Len(s) + 1
           /\ \A i \in 1 .. Len(s) + 1 :
                 InsertAt(s, p, e)[i] = IF i < p THEN s[i] ELSE IF i = p THEN e ELSE s[i - 1]
<1> DEFINE f == SubSeq(s, 1, p - 1) \o <<e>>
           b == SubSeq(s, p, Len(s))
<1>0. Len(s) \in Nat /\ p \in Int
  OBVIOUS
<1>1. f \in Seq(S) /\ Len(f) = p /\ (\A i \in 1 .. p - 1 : f[i] = s[i]) /\ f[p] = e
  <2> DEFINE a == SubSeq(s, 1, p - 1)
  <2>1. a \in Seq(S) /\ Len(a) = p - 1 /\ \A i \in 1 .. p - 1 : a[i] = s[i]
    BY SubSeqFacts
  <2>2. <<e>> \in Seq(S) /\ Len(<<e>>) = 1 /\ <<e>>[1] = e
    OBVIOUS
  <2>3. f = a \o <<e>>
    OBVIOUS
  <2> HIDE DEF a, f
  <2>4. f \in Seq(S) /\ Len(f) = Len(a) + 1
    BY <2>1, <2>2, <2>3, ConcatFacts
  <2>5. Len(f) = p
    BY <2>1, <2>4, <1>0
  <2>6. ASSUME NEW i \in 1 .. p
        PROVE  f[i] = IF i <= Len(a) THEN a[i] ELSE <<e>>[i - Len(a)]
    BY <2>1, <2>2, <2>3, <1>0, ConcatFacts
  <2>7. \A i \in 1 .. p - 1 : f[i] = s[i]
    BY <2>6, <2>1, <1>0
  <2>8. f[p] = e
    <3>1. p \in 1 .. p /\ ~(p <= Len(a)) /\ p - Len(a) = 1
      BY <2>1, <1>0
    <3> QED BY <3>1, <2>6, <2>2
  <2> QED BY <2>4, <2>5, <2>7, <2>8
<1>2. b \in Seq(S) /\ Len(b) = Len(s) - p + 1
      /\ \A i \in 1 .. Len(s) - p + 1 : b[i] = s[p + i - 1]
  BY SubSeqFacts
<1>3. InsertAt(s, p, e) = f \o b
  BY DEF InsertAt
<1> HIDE DEF f, b
<1>4. f \o b \in Seq(S) /\ Len(f \o b) = Len(f) + Len(b)
  BY <1>1, <1>2, ConcatFacts
<1>5. Len(f) + Len(b) = Len(s) + 1
  BY <1>0, <1>1, <1>2
<1>6. Len(f \o b) = Len(s) + 1
  BY <1>4, <1>5
<1>7. ASSUME NEW i \in 1 .. Len(s) + 1
      PROVE  (f \o b)[i] = IF i < p THEN s[i] ELSE IF i = p THEN e ELSE s[i - 1]
  <2>1. i \in 1 .. Len(f) + Len(b)
    BY <1>5
  <2>2. (f \o b)[i] = IF i <= Len(f) THEN f[i] ELSE b[i - Len(f)]
    BY <1>1, <1>2, <2>1, ConcatFacts
  <2>3. CASE i <= p
    BY <2>2, <2>3, <1>0, <1>1
  <2>4. CASE i > p
    <3>1. i - Len(f) \in 1 .. Len(s) - p + 1 /\ p + (i - Len(f)) - 1 = i - 1
      BY <2>4, <1>0, <1>1
    <3>2. b[i - Len(f)] = s[i - 1]
      BY <3>1, <1>2
    <3> QED BY <2>2, <2>4, <3>2, <1>0, <1>1
  <2>5. i <= p \/ i > p
    BY <1>0
  <2> QED BY <2>3, <2>4, <2>5
<1> QED BY <1>3, <1>4, <1>6, <1>7

(***************************************************************************)
(* The last of some positions: of the sets of positions behind one of      *)
(* them, the least is empty.                                               *)
(***************************************************************************)
LEMMA LastOfPositions ==
  ASSUME NEW n \in Nat, NEW T \in SUBSET (1 .. n), T # {}
  PROVE  \E k \in T : \A j \in T : j <= k
<1> DEFINE Above(k) == {j \in 1 .. n : j \in T /\ k < j}
           Rests == {Above(k) : k \in T}
<1>1. Rests \subseteq FiniteSubsetsOf(1 .. n) /\ Rests # {}
  <2>1. IsFiniteSet(1 .. n)
    BY FS_Interval
  <2>2. FiniteSubsetsOf(1 .. n) = SUBSET (1 .. n)
    BY <2>1, FS_FiniteSubsetsOfFinite
  <2>3. \A k \in T : Above(k) \subseteq 1 .. n
    OBVIOUS
  <2>4. Rests # {}
    OBVIOUS
  <2>5. \A A \in Rests : A \in SUBSET (1 .. n)
    BY <2>3
  <2> QED BY <2>2, <2>4, <2>5
<1>2. \E least \in Rests : \A rest \in Rests : <<rest, least>> \notin StrictSubsetOrdering(1 .. n)
  <2> HIDE DEF Rests
  <2> QED BY <1>1, FS_StrictSubsetOrderingWellFounded, WFMin
<1>3. PICK k \in T : \A rest \in Rests : <<rest, Above(k)>> \notin StrictSubsetOrdering(1 .. n)
  BY <1>2
<1>4. ASSUME NEW j \in T, ~(j <= k) PROVE FALSE
  <2>1. k < j /\ j \in 1 .. n /\ k \in 1 .. n
    BY <1>4
  <2>2. j \in Above(k) /\ j \notin Above(j)
    BY <2>1
  <2>3. Above(j) \subseteq Above(k) /\ Above(k) \subseteq 1 .. n
    BY <2>1
  <2>4. Above(j) \in Rests
    BY <1>4
  <2> QED BY <1>3, <2>2, <2>3, <2>4 DEF StrictSubsetOrdering
<1> QED BY <1>4

(***************************************************************************)
(* Induction up to a bound: what holds at 0, and one further on wherever   *)
(* it holds, holds everywhere.  Of the positions up to which all is well,  *)
(* the last is the bound.                                                  *)
(***************************************************************************)
LEMMA UpToBound ==
    ASSUME NEW n \in Nat, NEW T, 0 \in T, \A k \in 0 .. n - 1 : k \in T => k + 1 \in T
    PROVE  \A k \in 0 .. n : k \in T
<1> DEFINE Well == {k \in 1 .. n + 1 : \A j \in 0 .. k - 1 : j \in T}
<1>1. 1 \in Well
  OBVIOUS
<1>2. PICK last \in Well : \A k \in Well : k <= last
  <2>1. n + 1 \in Nat /\ Well # {}
    BY <1>1
  <2>2. Well \in SUBSET (1 .. n + 1)
    OBVIOUS
  <2> HIDE DEF Well
  <2> QED BY <2>1, <2>2, LastOfPositions
<1>3. last \in 1 .. n + 1 /\ \A j \in 0 .. last - 1 : j \in T
  BY <1>2
<1>4. CASE last = n + 1
  BY <1>3, <1>4
<1>5. CASE last # n + 1
  <2>1. last - 1 \in 0 .. n - 1 /\ last + 1 \in 1 .. n + 1 /\ (last - 1) + 1 = last
    BY <1>3, <1>5
  <2>2. last \in T
    BY <2>1, <1>3
  <2>3. \A j \in 0 .. (last + 1) - 1 : j \in 0 .. last - 1 \/ j = last
    BY <2>1
  <2>4. last + 1 \in Well
    BY <2>1, <2>2, <2>3, <1>3
  <2> QED BY <2>1, <2>4, <1>2
<1> QED BY <1>4, <1>5

(***************************************************************************)
(* Vec::push and Vec::pop.                                                 *)
(***************************************************************************)
LEMMA AppendFacts ==
    ASSUME NEW S, NEW s \in Seq(S), NEW e \in S
    PROVE  /\ Append(s, e) \in Seq(S)
           /\ Len(Append(s, e)) = Len(s) + 1
           /\ \A i \in 1 .. Len(s) + 1 : Append(s, e)[i] = IF i <= Len(s) THEN s[i] ELSE e
  OBVIOUS

LEMMA AppendedSecond ==
    ASSUME NEW S, NEW s \in Seq(S), Len(s) = 1, NEW e \in S
    PROVE  Append(s, e)[2] = e
<1>1. PICK n : n = Len(s)
  OBVIOUS
<1>2. \A i \in 1 .. n + 1 : Append(s, e)[i] = IF i <= n THEN s[i] ELSE e
  BY <1>1, AppendFacts
<1>3. 2 \in 1 .. n + 1 /\ ~(2 <= n)
  BY <1>1
<1> QED BY <1>2, <1>3

LEMMA FrontFacts ==
    ASSUME NEW S, NEW s \in Seq(S), s # <<>>
    PROVE  /\ Front(s) \in Seq(S)
           /\ Len(Front(s)) = Len(s) - 1
           /\ \A i \in 1 .. Len(s) - 1 : Front(s)[i] = s[i]
           /\ Len(s) \in 1 .. Len(s) /\ Last(s) = s[Len(s)] /\ Last(s) \in S
<1>1. Len(s) \in Nat /\ Len(s) > 0
  OBVIOUS
<1>2. PICK n : n = Len(s) - 1
  OBVIOUS
<1>3. /\ SubSeq(s, 1, n) \in Seq(S)
      /\ Len(SubSeq(s, 1, n)) = n - 1 + 1
      /\ \A i \in 1 .. n - 1 + 1 : SubSeq(s, 1, n)[i] = s[1 + i - 1]
  <2>1. 1 \in 1 .. Len(s) + 1 /\ n \in 1 - 1 .. Len(s)
    BY <1>1, <1>2
  <2> QED BY <2>1, SubSeqFacts
<1>4. n - 1 + 1 = n /\ \A i \in 1 .. n : 1 + i - 1 = i
  BY <1>1, <1>2
<1>5. /\ Front(s) = SubSeq(s, 1, n) /\ Last(s) = s[Len(s)]
      /\ Len(s) \in 1 .. Len(s) /\ s[Len(s)] \in S
  BY <1>1, <1>2 DEF Front, Last
<1> QED BY <1>2, <1>3, <1>4, <1>5

\* Elements that are all in another set.
LEMMA Retyped ==
    ASSUME NEW S, NEW T, NEW s \in Seq(S), \A i \in 1 .. Len(s) : s[i] \in T
    PROVE  s \in Seq(T)
  OBVIOUS

(***************************************************************************)
(* What is left when the element at position k goes: the others.           *)
(***************************************************************************)
LEMMA RemoveAtElements ==
    ASSUME NEW S, NEW s \in Seq(S), NEW k \in 1 .. Len(s)
    PROVE  /\ \A i \in 1 .. Len(RemoveAt(s, k)) :
                 \E j \in 1 .. Len(s) : j # k /\ RemoveAt(s, k)[i] = s[j]
           /\ \A j \in 1 .. Len(s) :
                 j # k => \E i \in 1 .. Len(RemoveAt(s, k)) : RemoveAt(s, k)[i] = s[j]
<1>1. PICK rest : rest = RemoveAt(s, k)
  OBVIOUS
<1>2. /\ Len(rest) = Len(s) - 1 /\ Len(s) \in Nat
      /\ \A i \in 1 .. Len(s) - 1 : rest[i] = IF i < k THEN s[i] ELSE s[i + 1]
  BY <1>1, RemoveAtFacts, SMTT(30)
<1>3. ASSUME NEW i \in 1 .. Len(rest) PROVE \E j \in 1 .. Len(s) : j # k /\ rest[i] = s[j]
  <2>1. CASE i < k
    BY <1>2, <2>1
  <2>2. CASE i >= k
    <3>1. i + 1 \in 1 .. Len(s) /\ i + 1 # k /\ rest[i] = s[i + 1]
      BY <1>2, <2>2
    <3> QED BY <3>1
  <2>3. i < k \/ i >= k
    BY <1>2
  <2> QED BY <2>1, <2>2, <2>3
<1>4. ASSUME NEW j \in 1 .. Len(s), j # k PROVE \E i \in 1 .. Len(rest) : rest[i] = s[j]
  <2>1. CASE j < k
    <3>1. j \in 1 .. Len(rest) /\ rest[j] = s[j]
      BY <1>2, <2>1
    <3> QED BY <3>1
  <2>2. CASE j > k
    <3>1. j - 1 \in 1 .. Len(rest) /\ ~(j - 1 < k) /\ (j - 1) + 1 = j
      BY <1>2, <2>2
    <3> QED BY <1>2, <3>1
  <2>3. j < k \/ j > k
    BY <1>2, <1>4
  <2> QED BY <2>1, <2>2, <2>3
<1> QED BY <1>1, <1>3, <1>4

(***************************************************************************)
(* What stands at finitely many positions.                                 *)
(***************************************************************************)
LEMMA RangeIsFinite ==
    ASSUME NEW n \in Nat, NEW g
    PROVE  IsFiniteSet({g[k] : k \in 1 .. n})
<1> DEFINE T == {g[k] : k \in 1 .. n}
           h == [k \in 1 .. n |-> g[k]]
<1>1. h \in [1 .. n -> T] /\ \A t \in T : \E k \in 1 .. n : h[k] = t
  OBVIOUS
<1> HIDE DEF T, h
<1>2. h \in Surjection(1 .. n, T)
  BY <1>1 DEF Surjection
<1>3. IsFiniteSet(T)
  BY <1>2, FS_NatSurjection DEF ExistsSurjection
<1> QED BY <1>3 DEF T

-----------------------------------------------------------------------------
(***************************************************************************)
(* A finite set that a function maps onto itself falls into cycles: the    *)
(* least parts it maps onto themselves.  No two elements have one value,   *)
(* and the image of a part it maps into itself is that part.               *)
(***************************************************************************)
ImageOf(f, S) == {f[x] : x \in S}

IsCycle(f, C) ==
    /\ C # {} /\ ImageOf(f, C) = C
    /\ \A D \in SUBSET C : (D # {} /\ ImageOf(f, D) = D) => D = C

LEMMA OntoIsOneToOne ==
    ASSUME NEW f, NEW S, IsFiniteSet(S), ImageOf(f, S) = S,
           NEW x \in S, NEW y \in S, f[x] = f[y]
    PROVE  x = y
<1> DEFINE g == [z \in S |-> f[z]]
<1>1. g \in [S -> S] /\ \A z \in S : g[z] = f[z]
  BY DEF ImageOf
<1>2. \A z \in S : \E w \in S : g[w] = z
  <2>1. \A z \in S : z \in ImageOf(f, S)
    OBVIOUS
  <2> QED BY <1>1, <2>1 DEF ImageOf
<1> HIDE DEF g
<1>3. g \in Surjection(S, S)
  BY <1>1, <1>2 DEF Surjection
<1>4. g \in Injection(S, S)
  BY <1>3, FS_SurjSameCardinalityImpliesInj
<1>5. \A v, w \in S : g[v] = g[w] => v = w
  BY <1>4 DEF Injection, IsInjective
<1> QED BY <1>1, <1>5

LEMMA IntoIsOnto ==
    ASSUME NEW f, NEW S, IsFiniteSet(S), ImageOf(f, S) = S,
           NEW D \in SUBSET S, ImageOf(f, D) \subseteq D
    PROVE  ImageOf(f, D) = D
<1> DEFINE g == [z \in D |-> f[z]]
<1>1. g \in [D -> D] /\ \A z \in D : g[z] = f[z]
  BY DEF ImageOf
<1>2. \A v, w \in D : g[v] = g[w] => v = w
  BY <1>1, OntoIsOneToOne
<1> HIDE DEF g
<1>3. IsFiniteSet(D)
  BY FS_Subset
<1>4. g \in Injection(D, D)
  BY <1>1, <1>2 DEF Injection, IsInjective
<1>5. g \in Surjection(D, D)
  BY <1>3, <1>4, FS_Injection
<1>6. \A z \in D : \E w \in D : g[w] = z
  BY <1>5 DEF Surjection
<1> QED BY <1>1, <1>6 DEF ImageOf

\* Every element is on a cycle: what the parts it belongs to have in common.
LEMMA CycleThrough ==
    ASSUME NEW f, NEW S, IsFiniteSet(S), ImageOf(f, S) = S, NEW x \in S
    PROVE  \E C \in SUBSET S : IsCycle(f, C) /\ x \in C
<1> DEFINE Parts == {C \in SUBSET S : x \in C /\ ImageOf(f, C) = C}
           C == {z \in S : \A P \in Parts : z \in P}
<1>1. x \in C /\ C \in SUBSET S
  OBVIOUS
<1>2. ImageOf(f, C) \subseteq C
  <2>1. SUFFICES ASSUME NEW z \in C PROVE f[z] \in C
    BY DEF ImageOf
  <2>2. f[z] \in S
    BY DEF ImageOf
  <2>3. ASSUME NEW P \in Parts PROVE f[z] \in P
    <3>1. z \in P /\ ImageOf(f, P) = P
      OBVIOUS
    <3> QED BY <3>1 DEF ImageOf
  <2> QED BY <2>2, <2>3
<1>3. ImageOf(f, C) = C
  <2> HIDE DEF C
  <2> QED BY <1>1, <1>2, IntoIsOnto
<1>4. ASSUME NEW D \in SUBSET C, D # {}, ImageOf(f, D) = D PROVE D = C
  <2>1. CASE x \in D
    <3>1. D \in Parts
      BY <1>4, <2>1
    <3> QED BY <3>1
  <2>2. CASE x \notin D
    <3> DEFINE E == C \ D
    <3>1. ImageOf(f, E) \subseteq E
      <4>1. ASSUME NEW z \in E PROVE f[z] \in E
        <5>1. f[z] \in C
          BY <1>3, ZenonT(60) DEF ImageOf
        <5>2. ASSUME f[z] \in D PROVE FALSE
          <6>1. PICK w \in D : f[w] = f[z]
            BY <1>4, <5>2 DEF ImageOf
          <6>2. w \in S /\ z \in S /\ w # z
            OBVIOUS
          <6> HIDE DEF E, C
          <6> QED BY <6>1, <6>2, OntoIsOneToOne
        <5> QED BY <5>1, <5>2
      <4> HIDE DEF E
      <4> QED BY <4>1 DEF ImageOf
    <3>2. x \in E /\ E \in SUBSET S
      BY <1>1, <2>2
    <3>3. ImageOf(f, E) = E
      <4> HIDE DEF E
      <4> QED BY <3>1, <3>2, IntoIsOnto
    <3>4. E \in Parts
      BY <3>2, <3>3
    <3>5. C \subseteq E
      BY <3>4
    <3> QED BY <1>4, <3>5
  <2> QED BY <2>1, <2>2
<1>5. C # {}
  BY <1>1
<1> HIDE DEF C
<1> QED BY <1>1, <1>3, <1>4, <1>5 DEF IsCycle

\* Two cycles that meet are one.
LEMMA CyclesApart ==
    ASSUME NEW f, NEW C, NEW D, IsFiniteSet(C), IsCycle(f, C), IsCycle(f, D),
           NEW x, x \in C, x \in D
    PROVE  C = D
<1> DEFINE E == C \cap D
<1>1. E \in SUBSET C /\ E \in SUBSET D /\ E # {}
  OBVIOUS
<1>2. ImageOf(f, C) = C /\ ImageOf(f, D) = D
  BY DEF IsCycle
<1>3. ImageOf(f, E) \subseteq E
  BY <1>2 DEF ImageOf
<1>4. ImageOf(f, E) = E
  <2> HIDE DEF E
  <2> QED BY <1>1, <1>2, <1>3, IntoIsOnto
<1>5. E = C /\ E = D
  <2> HIDE DEF E
  <2> QED BY <1>1, <1>4 DEF IsCycle
<1> QED BY <1>5

\* A finite set its own image covers is its own image.
LEMMA CoveredIsImage ==
    ASSUME NEW f, NEW S, IsFiniteSet(S), S \subseteq ImageOf(f, S)
    PROVE  ImageOf(f, S) = S
<1> DEFINE g == [z \in S |-> f[z]]
           T == ImageOf(f, S)
<1>1. g \in [S -> T] /\ \A z \in T : \E w \in S : g[w] = z
  BY DEF ImageOf
<1> HIDE DEF g, T
<1>2. g \in Surjection(S, T)
  BY <1>1 DEF Surjection
<1>3. IsFiniteSet(T) /\ Cardinality(T) <= Cardinality(S)
  BY <1>2, FS_Surjection
<1>4. S \in SUBSET T
  BY DEF T
<1>5. Cardinality(S) <= Cardinality(T) /\ (Cardinality(T) = Cardinality(S) => T = S)
  BY <1>3, <1>4, FS_Subset
<1>6. Cardinality(S) \in Nat /\ Cardinality(T) \in Nat
  BY <1>3, FS_CardinalityType
<1>7. T = S
  BY <1>3, <1>5, <1>6
<1> QED BY <1>7 DEF T

-----------------------------------------------------------------------------
(***************************************************************************)
(* Sequences strung together: FlattenSeq holds what its parts hold.        *)
(***************************************************************************)
NextPart(seqs, before, i) == IF i = 1 THEN seqs[i] ELSE before \o seqs[i]

LEMMA FlatteningUnfolds ==
    ASSUME NEW seqs, Len(seqs) \in Nat, Len(seqs) # 0
    PROVE  \E flat : /\ \A i \in 1 .. Len(seqs) : flat[i] = NextPart(seqs, flat[i - 1], i)
                     /\ FlattenSeq(seqs) = flat[Len(seqs)]
<1> DEFINE flatten[i \in 1 .. Len(seqs)] == IF i = 1 THEN seqs[i] ELSE flatten[i - 1] \o seqs[i]
<1>1. PICK N \in Nat : N = Len(seqs)
  OBVIOUS
<1>2. \E g : g = [i \in 1 .. N |-> NextPart(seqs, g[i - 1], i)]
  <2> HIDE DEF flatten
  <2> DEFINE Reached(m) == \E g : g = [i \in 1 .. m |-> NextPart(seqs, g[i - 1], i)]
             T == {m \in 0 .. N : Reached(m)}
  <2>1. 0 \in T
    <3>1. PICK g : g = [i \in 1 .. 0 |-> 0]
      OBVIOUS
    <3>2. g = [i \in 1 .. 0 |-> NextPart(seqs, g[i - 1], i)]
      BY <3>1
    <3>3. Reached(0)
      BY <3>2
    <3> HIDE DEF Reached
    <3> QED BY <3>3
  <2>2. ASSUME NEW m \in 0 .. N - 1, m \in T PROVE m + 1 \in T
    <3>1. PICK g : g = [i \in 1 .. m |-> NextPart(seqs, g[i - 1], i)]
      BY <2>2
    <3>2. PICK h : h = [i \in 1 .. m + 1 |-> IF i <= m THEN g[i] ELSE NextPart(seqs, g[m], i)]
      OBVIOUS
    <3>3. ASSUME NEW i \in 1 .. m + 1
          PROVE  h[i] = NextPart(seqs, h[i - 1], i)
      <4>1. CASE i = 1
        <5>1. \A x, y : NextPart(seqs, x, 1) = NextPart(seqs, y, 1)
          BY DEF NextPart
        <5>2. CASE m = 0
          <6>1. h[i] = NextPart(seqs, g[m], i)
            BY <3>2, <4>1, <5>2
          <6> QED BY <4>1, <5>1, <6>1
        <5>3. CASE m # 0
          <6>1. h[i] = NextPart(seqs, g[i - 1], i)
            BY <3>1, <3>2, <4>1, <5>3
          <6> QED BY <4>1, <5>1, <6>1
        <5> QED BY <5>2, <5>3
      <4>2. CASE i \in 2 .. m
        <5>1. h[i] = g[i] /\ h[i - 1] = g[i - 1]
          BY <4>2, <3>2
        <5>2. g[i] = NextPart(seqs, g[i - 1], i)
          BY <4>2, <3>1
        <5> QED BY <5>1, <5>2
      <4>3. CASE i = m + 1 /\ m # 0
        <5>1. h[i] = NextPart(seqs, g[m], i)
          BY <4>3, <3>2
        <5>2. i - 1 = m /\ h[m] = g[m]
          BY <4>3, <3>2
        <5> QED BY <5>1, <5>2
      <4> QED BY <4>1, <4>2, <4>3
    <3>4. h = [i \in 1 .. m + 1 |-> NextPart(seqs, h[i - 1], i)]
      BY <3>2, <3>3
    <3>5. Reached(m + 1)
      BY <3>4
    <3>6. m + 1 \in 0 .. N
      OBVIOUS
    <3> HIDE DEF Reached
    <3> QED BY <3>5, <3>6
  <2>3. N \in T
    <3>1. \A k \in 0 .. N - 1 : k \in T => k + 1 \in T
      BY <2>2
    <3> HIDE DEF T
    <3>2. \A k \in 0 .. N : k \in T
      BY <2>1, <3>1, UpToBound
    <3> QED BY <3>2
  <2> QED BY <2>3
<1>3. PICK g : g = [i \in 1 .. N |-> NextPart(seqs, g[i - 1], i)]
  BY <1>2
<1>4. g = [i \in 1 .. Len(seqs) |-> IF i = 1 THEN seqs[i] ELSE g[i - 1] \o seqs[i]]
  BY <1>1, <1>3, Zenon DEF NextPart
<1>5. flatten = [i \in 1 .. Len(seqs) |-> IF i = 1 THEN seqs[i] ELSE flatten[i - 1] \o seqs[i]]
  BY <1>4
<1>6. FlattenSeq(seqs) = flatten[Len(seqs)]
  BY DEF FlattenSeq
<1>7. PICK w : w = flatten
  OBVIOUS
<1>8. w = [i \in 1 .. Len(seqs) |-> NextPart(seqs, w[i - 1], i)]
  BY <1>5, <1>7, Zenon DEF NextPart
<1>9. \A i \in 1 .. Len(seqs) : w[i] = NextPart(seqs, w[i - 1], i)
  <2> HIDE DEF flatten
  <2> QED BY <1>8, Zenon
<1>10. FlattenSeq(seqs) = w[Len(seqs)]
  BY <1>6, <1>7
<1> QED BY <1>9, <1>10

LEMMA AppendedParts ==
    ASSUME NEW S, NEW x \in Seq(S), NEW y \in Seq(S)
    PROVE  x \o y \in Seq(S) /\ \A e \in ToSet(x \o y) : e \in ToSet(x) \/ e \in ToSet(y)
<1>1. PICK m \in Nat, n \in Nat : m = Len(x) /\ n = Len(y) /\ DOMAIN x = 1 .. m /\ DOMAIN y = 1 .. n
  OBVIOUS
<1>2. x \o y \in Seq(S) /\ DOMAIN (x \o y) = 1 .. m + n
  BY <1>1
<1>3. PICK z : z = x \o y
  OBVIOUS
<1>4. ASSUME NEW k \in 1 .. m + n PROVE z[k] \in ToSet(x) \/ z[k] \in ToSet(y)
  <2>1. CASE k <= m
    <3>1. z[k] = x[k] /\ k \in 1 .. m
      BY <1>1, <1>3, <2>1
    <3> QED BY <1>1, <3>1 DEF ToSet
  <2>2. CASE k > m
    <3>1. z[k] = y[k - m] /\ k - m \in 1 .. n
      BY <1>1, <1>3, <2>2
    <3> QED BY <1>1, <3>1 DEF ToSet
  <2>3. k <= m \/ k > m
    OBVIOUS
  <2> QED BY <2>1, <2>2, <2>3
<1>5. \A e \in ToSet(z) : \E k \in 1 .. m + n : e = z[k]
  BY <1>2, <1>3 DEF ToSet
<1> QED BY <1>2, <1>3, <1>4, <1>5

MadeOf(S, seqs, x) ==
    x \in Seq(S) /\ \A e \in ToSet(x) : \E i \in DOMAIN seqs : e \in ToSet(seqs[i])

LEMMA FlatteningIsOfTheParts ==
    ASSUME NEW S, NEW seqs \in Seq(Seq(S))
    PROVE  MadeOf(S, seqs, FlattenSeq(seqs))
<1>1. CASE Len(seqs) = 0
  <2>1. FlattenSeq(seqs) = seqs /\ seqs = <<>>
    BY <1>1 DEF FlattenSeq
  <2>2. <<>> \in Seq(S) /\ ToSet(<<>>) = {}
    BY DEF ToSet
  <2> QED BY <2>1, <2>2 DEF MadeOf
<1>2. CASE Len(seqs) # 0
  <2>1. Len(seqs) \in Nat /\ DOMAIN seqs = 1 .. Len(seqs) /\ \A i \in DOMAIN seqs : seqs[i] \in Seq(S)
    OBVIOUS
  <2>2. PICK w : /\ \A i \in 1 .. Len(seqs) : w[i] = NextPart(seqs, w[i - 1], i)
                 /\ FlattenSeq(seqs) = w[Len(seqs)]
    BY <1>2, <2>1, FlatteningUnfolds
  <2>3. PICK N \in Nat : N = Len(seqs) /\ N # 0
    BY <1>2, <2>1
  <2> DEFINE T == {n \in 0 .. N : n = 0 \/ MadeOf(S, seqs, w[n])}
  <2>4. 0 \in T
    OBVIOUS
  <2>5. ASSUME NEW n \in 0 .. N - 1, n \in T PROVE n + 1 \in T
    <3>1. PICK x, y : x = w[n] /\ y = seqs[n + 1]
      OBVIOUS
    <3>2. n + 1 \in DOMAIN seqs /\ (n + 1) - 1 = n /\ y \in Seq(S)
      BY <2>1, <2>3, <3>1
    <3>3. w[n + 1] = NextPart(seqs, x, n + 1)
      BY <2>1, <2>2, <3>1, <3>2
    <3>4. CASE n = 0
      <4>1. w[n + 1] = y
        BY <3>1, <3>3, <3>4 DEF NextPart
      <4>2. MadeOf(S, seqs, y)
        BY <3>1, <3>2 DEF MadeOf
      <4> QED BY <4>1, <4>2
    <3>5. CASE n # 0
      <4>1. MadeOf(S, seqs, x)
        BY <2>5, <3>1, <3>5
      <4>2. w[n + 1] = x \o y
        <5>1. n + 1 # 1
          BY <3>5
        <5> QED BY <3>1, <3>3, <5>1, Zenon DEF NextPart
      <4>3. x \o y \in Seq(S) /\ \A e \in ToSet(x \o y) : e \in ToSet(x) \/ e \in ToSet(y)
        BY <3>2, <4>1, AppendedParts DEF MadeOf
      <4>4. MadeOf(S, seqs, x \o y)
        BY <3>1, <3>2, <4>1, <4>3 DEF MadeOf
      <4>5. MadeOf(S, seqs, w[n + 1])
        BY <4>2, <4>4, Zenon
      <4>6. n + 1 \in 0 .. N
        OBVIOUS
      <4> QED BY <4>5, <4>6
    <3> QED BY <3>4, <3>5
  <2> HIDE DEF T
  <2>6. \A k \in 0 .. N : k \in T
    BY <2>4, <2>5, UpToBound
  <2>7. N \in T
    BY <2>6
  <2>8. MadeOf(S, seqs, w[N])
    BY <2>3, <2>7 DEF T
  <2> QED BY <2>2, <2>3, <2>8
<1> QED BY <1>1, <1>2
=============================================================================
