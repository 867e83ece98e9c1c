-------------------------- MODULE PhiCopiesProofs --------------------------
(***************************************************************************)
(* Phi lowering is right for any number of phis: whatever the emitted      *)
(* moves overwrite, no value is lost, and when they have all run, every    *)
(* phi has received its argument as if all had been read at once.          *)
(***************************************************************************)
EXTENDS PhiCopies, FiniteLemmas

-----------------------------------------------------------------------------
Early == collected < Len(phis) \/ seeded < Len(toDo)

Among(d, stack) == \E i \in 1 .. Len(stack) : stack[i] = d

AreDistinct(stack) == \A i, j \in 1 .. Len(stack) : stack[i] = stack[j] => i = j

\* sourceOf is what the phis that were looked at ask for.
Asked ==
    /\ \A d \in DOMAIN sourceOf :
          \E i \in 1 .. collected :
             /\ phis[i].dest = d /\ phis[i].arg = sourceOf[d] /\ sourceOf[d] # d
    /\ \A i \in 1 .. collected :
          phis[i].arg # phis[i].dest => phis[i].dest \in DOMAIN sourceOf
    /\ \A d \in DOMAIN sourceOf : sourceOf[d] # Immediate => sourceOf[d] \in DOMAIN location

\* Until the stacks are filled nothing is written.
NothingWrittenEarly ==
    /\ collected < Len(phis) => seeded = 0 /\ ready = <<>>
    /\ Early =>
          /\ pending = DOMAIN sourceOf
          /\ \A i \in 1 .. Len(ready) : \E k \in 1 .. seeded : ready[i] = toDo[k]

\* A destination that is still to be written is on a stack, and one that is
\* ready is free to be written.
Stacked ==
    /\ AreDistinct(toDo) /\ AreDistinct(ready)
    /\ \A d \in pending : Among(d, toDo) \/ Among(d, ready)
    /\ \A i \in 1 .. Len(ready) :
          /\ ready[i] \in pending
          /\ ready[i] \in DOMAIN location => location[ready[i]] # ready[i]

\* A home holds what it is to receive once that is written, else its own value.
Homes ==
    \A v \in Values :
       held[v] = IF v \in DOMAIN sourceOf \ pending THEN sourceOf[v] ELSE v

\* A value is where location says: at home, where it was copied to, or saved.
Located ==
    \A v \in DOMAIN location :
       /\ Contents(location[v]) = v
       /\ location[v] \in Values =>
             location[v] = v \/ location[v] \in DOMAIN sourceOf \ pending

CopyInvariant ==
    /\ phis \in PhiLists /\ TypeOK
    /\ Asked /\ NothingWrittenEarly /\ Stacked /\ Homes /\ Located

-----------------------------------------------------------------------------
(***************************************************************************)
(* The phis of a block: each writes a value of its own.                    *)
(***************************************************************************)
LEMMA PhiFacts ==
    ASSUME phis \in PhiLists
    PROVE  /\ phis \in Seq([dest : Values, arg : Operands]) /\ Len(phis) \in Nat /\ Len(phis) > 0
           /\ \A i \in 1 .. Len(phis) : phis[i].dest \in Values /\ phis[i].arg \in Operands
           /\ \A i, j \in 1 .. Len(phis) : phis[i].dest = phis[j].dest => i = j
<1>1. /\ phis \in Seq([dest : Values, arg : Operands]) /\ Len(phis) > 0
      /\ \A i, j \in 1 .. Len(phis) : i # j => phis[i].dest # phis[j].dest
  BY PhiCopiesAssumption
<1>2. \A i \in 1 .. Len(phis) : phis[i] \in [dest : Values, arg : Operands]
  <2>1. PICK Phis : Phis = [dest : Values, arg : Operands]
    OBVIOUS
  <2>2. phis \in Seq(Phis)
    BY <1>1, <2>1
  <2>3. \A i \in 1 .. Len(phis) : phis[i] \in Phis
    BY <2>2
  <2> QED BY <2>1, <2>3
<1> QED BY <1>1, <1>2

LEMMA InitKeeps == Init => CopyInvariant
<1> SUFFICES ASSUME Init PROVE CopyInvariant
  OBVIOUS
<1>1. /\ phis \in PhiLists /\ collected = 0 /\ sourceOf = <<>> /\ location = <<>> /\ pending = {}
      /\ toDo = <<>> /\ seeded = 0 /\ ready = <<>> /\ saved = <<>> /\ moves = 0
      /\ held = [v \in Values |-> v]
  BY DEF Init
<1>2. DOMAIN sourceOf = {} /\ DOMAIN location = {}
  BY <1>1
<1>3. TypeOK
  BY <1>1, <1>2, PhiFacts DEF TypeOK, Operands
<1>4. Asked /\ NothingWrittenEarly /\ Homes /\ Located
  BY <1>1, <1>2 DEF Asked, NothingWrittenEarly, Early, Homes, Located
<1>5. Stacked
  BY <1>1 DEF Stacked, AreDistinct
<1> QED BY <1>1, <1>3, <1>4, <1>5 DEF CopyInvariant

-----------------------------------------------------------------------------
(***************************************************************************)
(* The first loop of lower_outgoing_phis.                                  *)
(***************************************************************************)
LEMMA CollectKeeps ==
    ASSUME CopyInvariant, CollectPhi
    PROVE  CopyInvariant'
<1>1. /\ phis \in PhiLists /\ TypeOK /\ Asked /\ NothingWrittenEarly /\ Stacked /\ Homes /\ Located
  BY DEF CopyInvariant
<1>2. /\ collected < Len(phis) /\ collected' = collected + 1
      /\ UNCHANGED <<phis, seeded, ready, held, saved, moves>>
  BY DEF CollectPhi
<1>3. PICK d, a : d = phis[collected + 1].dest /\ a = phis[collected + 1].arg
  OBVIOUS
<1>4. /\ collected \in Nat /\ collected + 1 \in 1 .. Len(phis) /\ Len(phis) \in Nat
      /\ d \in Values /\ a \in Operands
      /\ \A i \in 1 .. collected + 1 : i \in 1 .. collected \/ i = collected + 1
      /\ \A i \in 1 .. collected : i \in 1 .. collected + 1
  BY <1>1, <1>2, <1>3, PhiFacts DEF TypeOK
<1>5. seeded = 0 /\ ready = <<>> /\ pending = DOMAIN sourceOf
  BY <1>1, <1>2 DEF NothingWrittenEarly, Early
<1>6. CASE a = d
  <2>1. UNCHANGED <<sourceOf, location, pending, toDo>>
    BY <1>3, <1>6 DEF CollectPhi
  <2>2. TypeOK'
    BY <1>1, <1>2, <1>4, <2>1 DEF TypeOK
  <2>3. Asked'
    BY <1>1, <1>2, <1>3, <1>4, <1>6, <2>1 DEF Asked
  <2>4. NothingWrittenEarly'
    BY <1>2, <1>5, <2>1 DEF NothingWrittenEarly, Early
  <2>5. Stacked' /\ Homes' /\ Located'
    BY <1>1, <1>2, <2>1 DEF Stacked, AreDistinct, Among, Homes, Located, Contents
  <2> QED BY <1>1, <1>2, <2>2, <2>3, <2>4, <2>5 DEF CopyInvariant
<1>7. CASE a # d
  <2>1. /\ sourceOf' = Put(sourceOf, d, a) /\ pending' = pending \cup {d}
        /\ toDo' = Append(toDo, d)
        /\ location' = IF a = Immediate THEN location ELSE Put(location, a, a)
    BY <1>3, <1>7 DEF CollectPhi
  <2>2. d \notin DOMAIN sourceOf
    <3>1. \A i \in 1 .. collected : phis[i].dest # d
      BY <1>1, <1>3, <1>4, PhiFacts
    <3> QED BY <1>1, <3>1 DEF Asked
  <2>3. /\ DOMAIN sourceOf' = DOMAIN sourceOf \cup {d} /\ sourceOf'[d] = a
        /\ \A x \in DOMAIN sourceOf : sourceOf'[x] = sourceOf[x]
    <3>1. PICK put : put = Put(sourceOf, d, a)
      OBVIOUS
    <3>2. /\ DOMAIN put = DOMAIN sourceOf \cup {d} /\ put[d] = a
          /\ \A x \in DOMAIN sourceOf : x # d => put[x] = sourceOf[x]
      BY <3>1 DEF Put
    <3> QED BY <2>1, <2>2, <3>1, <3>2
  <2>4. /\ a # Immediate => DOMAIN location' = DOMAIN location \cup {a} /\ location'[a] = a
        /\ a = Immediate => DOMAIN location' = DOMAIN location
        /\ \A x \in DOMAIN location : location'[x] = location[x] \/ (x = a /\ location'[x] = a)
    <3>1. PICK put : put = Put(location, a, a)
      OBVIOUS
    <3>2. /\ DOMAIN put = DOMAIN location \cup {a} /\ put[a] = a
          /\ \A x \in DOMAIN location : x # a => put[x] = location[x]
      BY <3>1 DEF Put
    <3> QED BY <2>1, <3>1, <3>2
  <2>5. toDo \in Seq(DOMAIN sourceOf)
    BY <1>1 DEF TypeOK
  <2>6. /\ toDo' \in Seq(DOMAIN sourceOf') /\ Len(toDo') = Len(toDo) + 1 /\ Len(toDo) \in Nat
        /\ \A i \in 1 .. Len(toDo) + 1 : toDo'[i] = IF i <= Len(toDo) THEN toDo[i] ELSE d
        /\ \A i \in 1 .. Len(toDo) : toDo[i] \in DOMAIN sourceOf
    <3>1. toDo \in Seq(DOMAIN sourceOf')
      BY <2>3, <2>5, Retyped
    <3>2. d \in DOMAIN sourceOf'
      BY <2>3
    <3> QED BY <2>1, <2>5, <3>1, <3>2, AppendFacts
  <2>7. TypeOK'
    <3>1. /\ phis' \in Seq([dest : Values, arg : Operands]) /\ collected' \in 0 .. Len(phis')
          /\ DOMAIN sourceOf' \subseteq Values /\ pending' \subseteq DOMAIN sourceOf'
          /\ \A x \in DOMAIN sourceOf' : sourceOf'[x] \in Operands
          /\ seeded' \in Nat /\ moves' \in Nat /\ held' \in [Values -> Operands]
          /\ saved' \in Seq(Operands)
      BY <1>1, <1>2, <1>4, <1>5, <2>1, <2>3 DEF TypeOK
    <3>2. ready' \in Seq(DOMAIN sourceOf')
      BY <1>2, <1>5
    <3>3. /\ DOMAIN location' \subseteq Values
          /\ \A v \in DOMAIN location' : location'[v] \in Values \cup 1 .. Len(saved')
      BY <1>1, <1>2, <1>4, <2>4 DEF TypeOK, Operands
    <3> QED BY <2>6, <3>1, <3>2, <3>3 DEF TypeOK
  <2>8. Asked'
    <3>1. ASSUME NEW x \in DOMAIN sourceOf'
          PROVE  /\ \E i \in 1 .. collected' :
                       phis'[i].dest = x /\ phis'[i].arg = sourceOf'[x] /\ sourceOf'[x] # x
                 /\ sourceOf'[x] # Immediate => sourceOf'[x] \in DOMAIN location'
      <4>1. CASE x = d
        BY <1>2, <1>3, <1>4, <1>7, <2>3, <2>4, <4>1
      <4>2. CASE x # d
        <5>1. x \in DOMAIN sourceOf /\ sourceOf'[x] = sourceOf[x]
          BY <2>3, <4>2
        <5> QED BY <1>1, <1>2, <1>4, <2>4, <5>1 DEF Asked
      <4> QED BY <4>1, <4>2
    <3>2. \A i \in 1 .. collected' : phis'[i].arg # phis'[i].dest => phis'[i].dest \in DOMAIN sourceOf'
      BY <1>1, <1>2, <1>3, <1>4, <2>3 DEF Asked
    <3> QED BY <3>1, <3>2 DEF Asked
  <2>9. NothingWrittenEarly'
    BY <1>2, <1>5, <2>1, <2>3 DEF NothingWrittenEarly, Early
  <2>10. Stacked'
    <3>1. AreDistinct(toDo')
      BY <1>1, <2>2, <2>6 DEF Stacked, AreDistinct
    <3>2. \A x \in pending' : Among(x, toDo')
      <4>1. Among(d, toDo')
        BY <2>6 DEF Among
      <4>2. ASSUME NEW x \in pending PROVE Among(x, toDo')
        <5>1. Among(x, toDo)
          BY <1>1, <1>5 DEF Stacked, Among
        <5> QED BY <2>6, <5>1 DEF Among
      <4> QED BY <2>1, <4>1, <4>2
    <3> QED BY <1>2, <1>5, <3>1, <3>2 DEF Stacked, AreDistinct
  <2>11. Homes' /\ Located'
    <3>1. \A v \in Values : held[v] = v
      BY <1>1, <1>5 DEF Homes
    <3>2. Homes'
      BY <1>2, <1>5, <2>1, <2>3, <3>1 DEF Homes
    <3>3. ASSUME NEW v \in DOMAIN location'
          PROVE  /\ Contents(location[v])' = v
                 /\ location'[v] \in Values =>
                       location'[v] = v \/ location'[v] \in DOMAIN sourceOf' \ pending'
      <4>1. CASE location'[v] = v /\ v \in Values
        BY <1>2, <3>1, <4>1 DEF Contents
      <4>2. CASE v \in DOMAIN location /\ location'[v] = location[v]
        BY <1>1, <1>2, <1>5, <4>2 DEF Located, Contents
      <4>3. \/ location'[v] = v /\ v \in Values
            \/ v \in DOMAIN location /\ location'[v] = location[v]
        <5>1. v \in DOMAIN location \/ (v = a /\ a # Immediate)
          BY <2>4
        <5>2. a # Immediate => a \in Values /\ location'[a] = a
          BY <1>4, <2>4 DEF Operands
        <5>3. v \in DOMAIN location => location'[v] = location[v] \/ (v = a /\ location'[v] = a)
          BY <2>4
        <5>4. DOMAIN location \subseteq Values
          BY <1>1 DEF TypeOK
        <5> QED BY <5>1, <5>2, <5>3, <5>4
      <4> QED BY <4>1, <4>2, <4>3
    <3> QED BY <3>2, <3>3 DEF Located
  <2> QED BY <1>1, <1>2, <2>7, <2>8, <2>9, <2>10, <2>11 DEF CopyInvariant
<1> QED BY <1>6, <1>7

-----------------------------------------------------------------------------
(***************************************************************************)
(* The second loop: destinations nobody reads are ready.                   *)
(***************************************************************************)
LEMMA SeedKeeps ==
    ASSUME CopyInvariant, SeedReady
    PROVE  CopyInvariant'
<1>1. /\ phis \in PhiLists /\ TypeOK /\ Asked /\ NothingWrittenEarly /\ Stacked /\ Homes /\ Located
  BY DEF CopyInvariant
<1>2. /\ collected = Len(phis) /\ seeded < Len(toDo) /\ seeded' = seeded + 1
      /\ UNCHANGED <<phis, collected, sourceOf, location, pending, toDo, held, saved, moves>>
  BY DEF SeedReady
<1>3. PICK d : d = toDo[seeded + 1]
  OBVIOUS
<1>4. ready' = ready \/ (ready' = Append(ready, d) /\ d \notin DOMAIN location)
  BY <1>3 DEF SeedReady
<1>5. /\ pending = DOMAIN sourceOf /\ toDo \in Seq(DOMAIN sourceOf) /\ ready \in Seq(DOMAIN sourceOf)
      /\ seeded \in Nat
      /\ \A i \in 1 .. Len(ready) : \E k \in 1 .. seeded : ready[i] = toDo[k]
  BY <1>1, <1>2 DEF TypeOK, NothingWrittenEarly, Early
<1>6. seeded + 1 \in 1 .. Len(toDo) /\ d \in DOMAIN sourceOf /\ Len(ready) \in Nat
  BY <1>2, <1>3, <1>5
<1>7. /\ ready' \in Seq(DOMAIN sourceOf)
      /\ \A i \in 1 .. Len(ready) : i \in 1 .. Len(ready') /\ ready'[i] = ready[i]
      /\ \A i \in 1 .. Len(ready') :
            \/ i \in 1 .. Len(ready) /\ ready'[i] = ready[i]
            \/ i = Len(ready) + 1 /\ ready'[i] = d /\ d \notin DOMAIN location
  <2>1. PICK longer : longer = Append(ready, d)
    OBVIOUS
  <2>2. /\ longer \in Seq(DOMAIN sourceOf) /\ Len(longer) = Len(ready) + 1
        /\ \A i \in 1 .. Len(ready) + 1 : longer[i] = IF i <= Len(ready) THEN ready[i] ELSE d
    BY <1>5, <1>6, <2>1, AppendFacts
  <2>3. CASE ready' = ready
    BY <1>5, <2>3
  <2>4. CASE ready' = longer /\ d \notin DOMAIN location
    BY <1>6, <2>2, <2>4
  <2> QED BY <1>4, <2>1, <2>3, <2>4
<1>8. TypeOK'
  BY <1>1, <1>2, <1>5, <1>7 DEF TypeOK
<1>9. Asked' /\ Homes' /\ Located'
  BY <1>1, <1>2 DEF Asked, Homes, Located, Contents
<1>10. NothingWrittenEarly'
  <2>1. ASSUME NEW i \in 1 .. Len(ready')
        PROVE  \E k \in 1 .. seeded' : ready'[i] = toDo'[k]
    <3>1. CASE ready'[i] = d
      BY <1>2, <1>3, <1>5, <3>1
    <3>2. CASE i \in 1 .. Len(ready) /\ ready'[i] = ready[i]
      <4>1. PICK k \in 1 .. seeded : ready[i] = toDo[k]
        BY <1>5, <3>2
      <4>2. k \in 1 .. seeded'
        BY <1>2, <1>5
      <4> QED BY <1>2, <3>2, <4>1, <4>2
    <3> QED BY <1>7, <3>1, <3>2
  <2>2. collected' = Len(phis')
    BY <1>2
  <2>3. pending' = DOMAIN sourceOf'
    BY <1>2, <1>5
  <2>4. Len(phis') \in Nat
    BY <1>1, <1>2, PhiFacts
  <2> QED BY <2>1, <2>2, <2>3, <2>4 DEF NothingWrittenEarly
<1>11. Stacked'
  <2>1. AreDistinct(ready')
    <3>1. \A i \in 1 .. Len(ready) : ready[i] # d
      <4>1. \A k \in 1 .. seeded : k \in 1 .. Len(toDo) /\ k # seeded + 1
        BY <1>2, <1>5, <1>6
      <4>2. \A k \in 1 .. seeded : toDo[k] # d
        BY <1>1, <1>3, <1>6, <4>1 DEF Stacked, AreDistinct
      <4> QED BY <1>5, <4>2
    <3> QED BY <1>1, <1>7, <3>1 DEF Stacked, AreDistinct
  <2>2. AreDistinct(toDo')
    BY <1>1, <1>2 DEF Stacked, AreDistinct
  <2>3. \A x \in pending' : Among(x, toDo') \/ Among(x, ready')
    BY <1>1, <1>2, <1>7 DEF Stacked, Among
  <2>4. \A i \in 1 .. Len(ready') :
           /\ ready'[i] \in pending'
           /\ ready'[i] \in DOMAIN location' => location'[ready'[i]] # ready'[i]
    BY <1>1, <1>2, <1>5, <1>6, <1>7 DEF Stacked
  <2> QED BY <2>1, <2>2, <2>3, <2>4 DEF Stacked
<1> QED BY <1>1, <1>2, <1>8, <1>9, <1>10, <1>11 DEF CopyInvariant

-----------------------------------------------------------------------------
(***************************************************************************)
(* A destination is written: from a constant, or from where its source is. *)
(* What the home held is needed no more, because it was ready.             *)
(***************************************************************************)
LEMMA EmitKeeps ==
    ASSUME CopyInvariant, EmitReady
    PROVE  CopyInvariant'
<1>1. /\ phis \in PhiLists /\ TypeOK /\ Asked /\ NothingWrittenEarly /\ Stacked /\ Homes /\ Located
  BY DEF CopyInvariant
<1>2. /\ Sequencing /\ ready # <<>> /\ moves' = moves + 1
      /\ UNCHANGED <<phis, collected, sourceOf, toDo, seeded, saved>>
  BY DEF EmitReady
<1>3. PICK d, s, rest : d = Last(ready) /\ s = sourceOf[d] /\ rest = Front(ready)
  OBVIOUS
<1>4. /\ pending' = pending \ {d}
      /\ IF s = Immediate THEN EmitConstant(d) ELSE EmitCopy(d, s)
  BY <1>3 DEF EmitReady
<1>5. /\ ready \in Seq(DOMAIN sourceOf) /\ rest \in Seq(DOMAIN sourceOf)
      /\ Len(rest) = Len(ready) - 1 /\ Len(ready) \in Nat
      /\ \A i \in 1 .. Len(ready) - 1 : rest[i] = ready[i]
      /\ Len(ready) \in 1 .. Len(ready) /\ d = ready[Len(ready)]
  BY <1>1, <1>2, <1>3, FrontFacts DEF TypeOK
<1>6. /\ d \in pending /\ d \in DOMAIN sourceOf /\ d \in Values /\ s \in Operands /\ s # d
      /\ d \in DOMAIN location => location[d] # d
  BY <1>1, <1>3, <1>5 DEF TypeOK, Stacked, Asked
<1>7. /\ \A i \in 1 .. Len(rest) : rest[i] \in pending' /\ rest[i] = ready[i] /\ i \in 1 .. Len(ready)
      /\ AreDistinct(rest)
      /\ \A i \in 1 .. Len(rest) : rest[i] \in DOMAIN location => location[rest[i]] # rest[i]
  <2>1. \A i \in 1 .. Len(rest) : rest[i] = ready[i] /\ i \in 1 .. Len(ready) /\ i # Len(ready)
    BY <1>5
  <2>2. \A i, j \in 1 .. Len(ready) : ready[i] = ready[j] => i = j
    BY <1>1 DEF Stacked, AreDistinct
  <2>3. AreDistinct(rest)
    BY <2>1, <2>2 DEF AreDistinct
  <2>4. \A i \in 1 .. Len(rest) : rest[i] \in pending'
    <3>1. \A i \in 1 .. Len(rest) : ready[i] \in pending /\ ready[i] # d
      BY <1>1, <1>5, <2>1, <2>2 DEF Stacked
    <3> QED BY <1>4, <2>1, <3>1
  <2>5. \A i \in 1 .. Len(rest) : rest[i] \in DOMAIN location => location[rest[i]] # rest[i]
    BY <1>1, <2>1 DEF Stacked
  <2> QED BY <2>1, <2>3, <2>4, <2>5
<1>8. \A x \in pending' : Among(x, toDo) \/ Among(x, rest)
  <2> SUFFICES ASSUME NEW x \in pending', ~Among(x, toDo) PROVE Among(x, rest)
    OBVIOUS
  <2>1. x \in pending /\ x # d
    BY <1>4
  <2>2. PICK i \in 1 .. Len(ready) : ready[i] = x
    BY <1>1, <2>1 DEF Stacked, Among
  <2>3. i \in 1 .. Len(rest)
    BY <1>5, <2>1, <2>2
  <2> QED BY <1>7, <2>2, <2>3 DEF Among
<1>9. ~Early'
  BY <1>1, <1>2, PhiFacts DEF Early, Sequencing, TypeOK
<1>10. held' = [held EXCEPT ![d] = s]
  <2>1. CASE s = Immediate
    BY <1>4, <2>1 DEF EmitConstant
  <2>2. CASE s # Immediate
    <3>1. s \in DOMAIN location
      BY <1>1, <1>3, <1>6, <2>2 DEF Asked
    <3>2. Contents(location[s]) = s
      BY <1>1, <3>1 DEF Located
    <3> QED BY <1>4, <2>2, <3>2 DEF EmitCopy
  <2> QED BY <2>1, <2>2
<1>11. Homes'
  BY <1>1, <1>2, <1>3, <1>4, <1>6, <1>10 DEF Homes, TypeOK
<1>12. held' \in [Values -> Operands]
  BY <1>1, <1>6, <1>10 DEF TypeOK
<1>13. NothingWrittenEarly'
  BY <1>9, <1>1, <1>2, PhiFacts DEF NothingWrittenEarly, Early, TypeOK
<1>14. CASE s = Immediate
  <2>1. ready' = rest /\ UNCHANGED location
    BY <1>3, <1>4, <1>14 DEF EmitConstant
  <2>2. TypeOK'
    BY <1>1, <1>2, <1>4, <1>5, <1>12, <2>1 DEF TypeOK
  <2>3. Asked'
    BY <1>1, <1>2, <2>1 DEF Asked
  <2>4. Stacked'
    BY <1>1, <1>2, <1>7, <1>8, <2>1 DEF Stacked, AreDistinct
  <2>5. Located'
    <3>1. ASSUME NEW v \in DOMAIN location
          PROVE  /\ Contents(location[v])' = v
                 /\ location[v] \in Values =>
                       location[v] = v \/ location[v] \in DOMAIN sourceOf \ pending'
      <4>1. location[v] \in Values => location[v] # d
        BY <1>1, <1>6 DEF Located
      <4> QED BY <1>1, <1>2, <1>4, <1>10, <2>1, <4>1 DEF Located, Contents, TypeOK
    <3> QED BY <1>2, <2>1, <3>1 DEF Located
  <2> QED BY <1>1, <1>2, <1>11, <1>13, <2>2, <2>3, <2>4, <2>5 DEF CopyInvariant
<1>15. CASE s # Immediate
  <2>1. s \in DOMAIN location /\ s \in Values
    BY <1>1, <1>3, <1>6, <1>15 DEF Asked, Operands
  <2>2. location' = [location EXCEPT ![s] = d]
    BY <1>4, <1>15 DEF EmitCopy
  <2>3. /\ DOMAIN location' = DOMAIN location /\ location'[s] = d
        /\ \A v \in DOMAIN location : v # s => location'[v] = location[v]
    BY <2>1, <2>2
  <2>4. ready' = rest \/ (ready' = Append(rest, s) /\ location[s] = s /\ s \in pending')
    BY <1>3, <1>4, <1>15 DEF EmitCopy
  <2>5. /\ ready' \in Seq(DOMAIN sourceOf)
        /\ \A i \in 1 .. Len(rest) : i \in 1 .. Len(ready') /\ ready'[i] = rest[i]
        /\ \A i \in 1 .. Len(ready') :
              \/ i \in 1 .. Len(rest) /\ ready'[i] = rest[i]
              \/ i = Len(rest) + 1 /\ ready'[i] = s /\ location[s] = s /\ s \in pending'
    <3>1. PICK longer : longer = Append(rest, s)
      OBVIOUS
    <3>2. CASE ready' = rest
      BY <1>5, <3>2
    <3>3. CASE ready' = longer /\ location[s] = s /\ s \in pending'
      <4>1. s \in DOMAIN sourceOf
        BY <1>1, <1>4, <3>3 DEF TypeOK
      <4>2. /\ longer \in Seq(DOMAIN sourceOf) /\ Len(longer) = Len(rest) + 1
            /\ \A i \in 1 .. Len(rest) + 1 : longer[i] = IF i <= Len(rest) THEN rest[i] ELSE s
        BY <1>5, <3>1, <4>1, AppendFacts
      <4> QED BY <1>5, <3>3, <4>2
    <3> QED BY <2>4, <3>1, <3>2, <3>3
  <2>6. TypeOK'
    <3>1. \A v \in DOMAIN location' : location'[v] \in Values \cup 1 .. Len(saved)
      BY <1>1, <1>6, <2>3 DEF TypeOK
    <3> QED BY <1>1, <1>2, <1>4, <1>12, <2>3, <2>5, <3>1 DEF TypeOK
  <2>7. Asked'
    BY <1>1, <1>2, <2>3 DEF Asked
  <2>8. Stacked'
    <3>1. AreDistinct(ready')
      <4>1. \A i \in 1 .. Len(rest) : location[s] = s => rest[i] # s
        BY <1>7, <2>1
      <4> QED BY <1>7, <2>5, <4>1 DEF AreDistinct
    <3>2. \A i \in 1 .. Len(ready') :
             /\ ready'[i] \in pending'
             /\ ready'[i] \in DOMAIN location' => location'[ready'[i]] # ready'[i]
      BY <1>6, <1>7, <2>3, <2>5
    <3>3. \A x \in pending' : Among(x, toDo') \/ Among(x, ready')
      BY <1>2, <1>8, <2>5 DEF Among
    <3>4. AreDistinct(toDo')
      BY <1>1, <1>2 DEF Stacked, AreDistinct
    <3> QED BY <3>1, <3>2, <3>3, <3>4 DEF Stacked
  <2>9. Located'
    <3>1. ASSUME NEW v \in DOMAIN location
          PROVE  /\ Contents(location[v])' = v
                 /\ location'[v] \in Values =>
                       location'[v] = v \/ location'[v] \in DOMAIN sourceOf \ pending'
      <4>1. CASE v = s
        BY <1>1, <1>4, <1>6, <1>10, <2>3, <4>1 DEF Contents, TypeOK
      <4>2. CASE v # s
        <5>1. location'[v] = location[v] /\ (location[v] \in Values => location[v] # d)
          BY <1>1, <1>6, <2>3, <4>2 DEF Located
        <5> QED BY <1>1, <1>2, <1>4, <1>10, <5>1 DEF Located, Contents, TypeOK
      <4> QED BY <4>1, <4>2
    <3> QED BY <1>2, <2>3, <3>1 DEF Located
  <2> QED BY <1>1, <1>2, <1>11, <1>13, <2>6, <2>7, <2>8, <2>9 DEF CopyInvariant
<1> QED BY <1>14, <1>15

-----------------------------------------------------------------------------
(***************************************************************************)
(* Only cycles are left: a value of one is saved, and its home is free.    *)
(***************************************************************************)
LEMMA RevisitKeeps ==
    ASSUME CopyInvariant, Revisit
    PROVE  CopyInvariant'
<1>1. /\ phis \in PhiLists /\ TypeOK /\ Asked /\ NothingWrittenEarly /\ Stacked /\ Homes /\ Located
  BY DEF CopyInvariant
<1>2. /\ Sequencing /\ ready = <<>> /\ toDo # <<>>
      /\ UNCHANGED <<phis, collected, sourceOf, pending, seeded, held>>
  BY DEF Revisit
<1>3. PICK d, rest : d = Last(toDo) /\ rest = Front(toDo)
  OBVIOUS
<1>4. /\ toDo' = rest
      /\ IF d \in pending THEN BreakCycle(d) ELSE UNCHANGED <<saved, location, ready, moves>>
  BY <1>3 DEF Revisit
<1>5. /\ toDo \in Seq(DOMAIN sourceOf) /\ rest \in Seq(DOMAIN sourceOf)
      /\ Len(rest) = Len(toDo) - 1 /\ Len(toDo) \in Nat
      /\ \A i \in 1 .. Len(toDo) - 1 : rest[i] = toDo[i]
      /\ Len(toDo) \in 1 .. Len(toDo) /\ d = toDo[Len(toDo)] /\ d \in DOMAIN sourceOf
  BY <1>1, <1>2, <1>3, FrontFacts DEF TypeOK
<1>6. AreDistinct(toDo') /\ \A x \in pending : x # d => Among(x, toDo')
  <2>1. AreDistinct(rest)
    BY <1>1, <1>5 DEF Stacked, AreDistinct
  <2>2. ASSUME NEW x \in pending, x # d PROVE Among(x, rest)
    <3>1. PICK i \in 1 .. Len(toDo) : toDo[i] = x
      BY <1>1, <1>2 DEF Stacked, Among
    <3>2. i \in 1 .. Len(rest)
      BY <1>5, <2>2, <3>1
    <3> QED BY <1>5, <3>1, <3>2 DEF Among
  <2> QED BY <1>4, <2>1, <2>2
<1>7. NothingWrittenEarly'
  BY <1>1, <1>2, <1>4, <1>5, PhiFacts DEF NothingWrittenEarly, Early, Sequencing, TypeOK
<1>8. Homes'
  BY <1>1, <1>2 DEF Homes
<1>9. CASE d \notin pending
  <2>1. UNCHANGED <<saved, location, ready, moves>>
    BY <1>4, <1>9
  <2>2. TypeOK'
    BY <1>1, <1>2, <1>4, <1>5, <2>1 DEF TypeOK
  <2>3. Asked' /\ Located'
    BY <1>1, <1>2, <2>1 DEF Asked, Located, Contents
  <2>4. Stacked'
    BY <1>2, <1>6, <1>9, <2>1 DEF Stacked, AreDistinct
  <2> QED BY <1>1, <1>2, <1>7, <1>8, <2>2, <2>3, <2>4 DEF CopyInvariant
<1>10. CASE d \in pending
  <2>1. /\ saved' = Append(saved, held[d]) /\ location' = [location EXCEPT ![d] = Len(saved) + 1]
        /\ ready' = Append(ready, d) /\ moves' = moves + 1
    BY <1>4, <1>10 DEF BreakCycle
  <2>2. d \in Values /\ held[d] = d /\ d \in Operands
    BY <1>1, <1>5, <1>10 DEF TypeOK, Homes, Operands
  <2>3. saved \in Seq(Operands) /\ Len(saved) \in Nat
    BY <1>1 DEF TypeOK
  <2>4. /\ saved' \in Seq(Operands) /\ Len(saved') = Len(saved) + 1
        /\ \A i \in 1 .. Len(saved) + 1 : saved'[i] = IF i <= Len(saved) THEN saved[i] ELSE d
    BY <2>1, <2>2, <2>3, AppendFacts
  <2>5. /\ DOMAIN location' = DOMAIN location
        /\ d \in DOMAIN location => location'[d] = Len(saved) + 1
        /\ \A v \in DOMAIN location : v # d => location'[v] = location[v]
    BY <2>1
  <2>6. Len(ready') = 1 /\ ready'[1] = d /\ ready' \in Seq(DOMAIN sourceOf)
    BY <1>2, <1>5, <2>1
  <2>7. \A i \in Nat : i \notin Values
    BY PhiCopiesAssumption
  <2>8. TypeOK'
    <3>1. \A v \in DOMAIN location' : location'[v] \in Values \cup 1 .. Len(saved')
      BY <1>1, <2>3, <2>4, <2>5 DEF TypeOK
    <3> QED BY <1>1, <1>2, <1>4, <1>5, <2>1, <2>4, <2>5, <2>6, <3>1 DEF TypeOK
  <2>9. Asked'
    BY <1>1, <1>2, <2>5 DEF Asked
  <2>10. Stacked'
    <3>1. AreDistinct(ready')
      BY <2>6 DEF AreDistinct
    <3>2. \A x \in pending' : Among(x, toDo') \/ Among(x, ready')
      BY <1>2, <1>6, <2>6 DEF Among
    <3>3. d \in DOMAIN location' => location'[d] # d
      BY <2>2, <2>3, <2>5, <2>7
    <3> QED BY <1>2, <1>6, <1>10, <2>6, <3>1, <3>2, <3>3 DEF Stacked
  <2>11. Located'
    <3>1. ASSUME NEW v \in DOMAIN location
          PROVE  /\ Contents(location[v])' = v
                 /\ location'[v] \in Values =>
                       location'[v] = v \/ location'[v] \in DOMAIN sourceOf \ pending
      <4>1. CASE v = d
        BY <2>3, <2>4, <2>5, <2>7, <4>1 DEF Contents
      <4>2. CASE v # d
        <5>1. /\ location'[v] = location[v] /\ location[v] \in Values \cup 1 .. Len(saved)
              /\ Contents(location[v]) = v
          BY <1>1, <2>5, <4>2 DEF Located, TypeOK
        <5>2. CASE location[v] \in Values
          BY <1>1, <1>2, <5>1, <5>2 DEF Located, Contents
        <5>3. CASE location[v] \in 1 .. Len(saved)
          BY <2>3, <2>4, <2>7, <5>1, <5>3 DEF Contents
        <5> QED BY <5>1, <5>2, <5>3
      <4> QED BY <4>1, <4>2
    <3> QED BY <1>2, <2>5, <3>1 DEF Located
  <2> QED BY <1>1, <1>2, <1>7, <1>8, <2>8, <2>9, <2>10, <2>11 DEF CopyInvariant
<1> QED BY <1>9, <1>10

LEMMA StepKeeps == CopyInvariant /\ [Next]_vars => CopyInvariant'
<1> SUFFICES ASSUME CopyInvariant, [Next]_vars PROVE CopyInvariant'
  OBVIOUS
<1>1. CASE UNCHANGED vars
  BY <1>1 DEF vars, CopyInvariant, TypeOK, Asked, NothingWrittenEarly, Early, Stacked, AreDistinct,
              Among, Homes, Located, Contents
<1> QED BY <1>1, CollectKeeps, SeedKeeps, EmitKeeps, RevisitKeeps DEF Next

LEMMA CopiesAreSound == Spec => []CopyInvariant
  BY InitKeeps, StepKeeps, PTL DEF Spec

-----------------------------------------------------------------------------
(***************************************************************************)
(* The tables of lower_outgoing_phis and sequentialize keep their shape.   *)
(***************************************************************************)
THEOREM CopyTypes == Spec => []TypeOK
<1>1. CopyInvariant => TypeOK
  BY DEF CopyInvariant
<1> QED BY <1>1, CopiesAreSound, PTL

(***************************************************************************)
(* Whatever sequentialize has overwritten, a value that a copy still has   *)
(* to read is intact where location says it is.                            *)
(***************************************************************************)
THEOREM NothingIsLost == Spec => []NoLostCopy
<1>1. CopyInvariant => NoLostCopy
  <2> SUFFICES ASSUME CopyInvariant, NEW d \in pending, sourceOf[d] # Immediate
               PROVE  /\ sourceOf[d] \in DOMAIN location
                      /\ Contents(location[sourceOf[d]]) = sourceOf[d]
    BY DEF NoLostCopy
  <2>1. d \in DOMAIN sourceOf
    BY DEF CopyInvariant, TypeOK
  <2>2. sourceOf[d] \in DOMAIN location
    BY <2>1 DEF CopyInvariant, Asked
  <2> QED BY <2>2 DEF CopyInvariant, Located
<1> QED BY <1>1, CopiesAreSound, PTL

-----------------------------------------------------------------------------
(***************************************************************************)
(* What the phis of a block ask for, all at once.                          *)
(***************************************************************************)
LEMMA RequestFacts ==
    ASSUME phis \in PhiLists
    PROVE  /\ DOMAIN RequestOf(phis) = {phis[i].dest : i \in 1 .. Len(phis)}
           /\ \A i \in 1 .. Len(phis) : RequestOf(phis)[phis[i].dest] = phis[i].arg
           /\ RequestOf(phis) \in UNION {[D -> Operands] : D \in SUBSET Values}
<1> DEFINE Dests == {phis[i].dest : i \in 1 .. Len(phis)}
           Phis == {phis[i] : i \in 1 .. Len(phis)}
           Chosen(v) == CHOOSE phi \in Phis : phi.dest = v
<1>1. RequestOf(phis) = [v \in Dests |-> Chosen(v).arg]
  BY DEF RequestOf
<1>2. ASSUME NEW i \in 1 .. Len(phis) PROVE Chosen(phis[i].dest) = phis[i]
  <2>1. phis[i] \in Phis /\ phis[i].dest = phis[i].dest
    OBVIOUS
  <2>2. Chosen(phis[i].dest) \in Phis /\ Chosen(phis[i].dest).dest = phis[i].dest
    <3> HIDE DEF Phis
    <3> QED BY <2>1
  <2> HIDE DEF Chosen
  <2>3. PICK j \in 1 .. Len(phis) : Chosen(phis[i].dest) = phis[j]
    BY <2>2
  <2> QED BY <2>2, <2>3, PhiFacts
<1>3. \A i \in 1 .. Len(phis) : phis[i].dest \in Dests
  OBVIOUS
<1> HIDE DEF Chosen
<1>4. \A i \in 1 .. Len(phis) : RequestOf(phis)[phis[i].dest] = phis[i].arg
  BY <1>1, <1>2, <1>3
<1>5. Dests \in SUBSET Values /\ \A v \in Dests : Chosen(v).arg \in Operands
  BY <1>2, PhiFacts
<1>6. RequestOf(phis) \in [Dests -> Operands]
  BY <1>1, <1>5
<1> QED BY <1>1, <1>4, <1>5, <1>6

(***************************************************************************)
(* When both stacks are empty, every home holds what the phis ask for.     *)
(***************************************************************************)
Assigned == [v \in Values |-> IF v \in DOMAIN RequestOf(phis) THEN RequestOf(phis)[v] ELSE v]

LEMMA FinishedMeansAssigned == CopyInvariant /\ Finished => held = Assigned
<1> SUFFICES ASSUME CopyInvariant, Finished PROVE held = Assigned
  OBVIOUS
<1>1. /\ phis \in PhiLists /\ TypeOK /\ Asked /\ Stacked /\ Homes
      /\ collected = Len(phis) /\ ready = <<>> /\ toDo = <<>>
  BY DEF CopyInvariant, Finished, Sequencing
<1>2. pending = {}
  BY <1>1 DEF Stacked, Among
<1>3. PICK request : request = RequestOf(phis)
  OBVIOUS
<1>4. /\ DOMAIN request = {phis[i].dest : i \in 1 .. Len(phis)}
      /\ \A i \in 1 .. Len(phis) : request[phis[i].dest] = phis[i].arg
  BY <1>1, <1>3, RequestFacts
<1>5. ASSUME NEW v \in Values
      PROVE  held[v] = IF v \in DOMAIN request THEN request[v] ELSE v
  <2>1. CASE v \in DOMAIN sourceOf
    <3>1. held[v] = sourceOf[v]
      BY <1>1, <1>2, <2>1 DEF Homes
    <3>2. PICK i \in 1 .. Len(phis) : phis[i].dest = v /\ phis[i].arg = sourceOf[v]
      BY <1>1, <2>1 DEF Asked
    <3> QED BY <1>4, <3>1, <3>2
  <2>2. CASE v \notin DOMAIN sourceOf
    <3>1. held[v] = v
      BY <1>1, <2>2 DEF Homes
    <3>2. ASSUME NEW i \in 1 .. Len(phis), phis[i].dest = v PROVE request[v] = v
      BY <1>1, <1>4, <2>2, <3>2 DEF Asked
    <3> QED BY <1>4, <3>1, <3>2
  <2> QED BY <2>1, <2>2
<1>6. held \in [Values -> Operands]
  BY <1>1 DEF TypeOK
<1> QED BY <1>3, <1>5, <1>6 DEF Assigned

LEMMA StepIsParallel ==
    CopyInvariant /\ (Finished => held = Assigned)' /\ [Next]_vars
       => [Parallel!Next]_(Parallel!vars)
<1> SUFFICES ASSUME CopyInvariant, (Finished => held = Assigned)', [Next]_vars
             PROVE  [Parallel!Next]_(Parallel!vars)
  OBVIOUS
<1>1. CASE UNCHANGED vars
  BY <1>1 DEF vars, Parallel!vars, RequestOf, Finished, Sequencing
<1>2. CASE Next
  <2>1. ~Finished
    BY <1>2, PhiFacts DEF Next, CollectPhi, SeedReady, EmitReady, Revisit, Finished, Sequencing,
                          CopyInvariant, TypeOK
  <2>2. phis' = phis
    BY <1>2 DEF Next, CollectPhi, SeedReady, EmitReady, Revisit
  <2>3. RequestOf(phis)' = RequestOf(phis)
    BY <2>2 DEF RequestOf
  <2>4. CASE ~Finished'
    <3>1. Finished = FALSE /\ Finished' = FALSE
      BY <2>1, <2>4
    <3>2. (IF Finished THEN held ELSE [v \in Values |-> v])'
             = IF Finished THEN held ELSE [v \in Values |-> v]
      BY <2>1, <2>4
    <3> QED BY <2>3, <3>1, <3>2 DEF Parallel!vars
  <2>5. CASE Finished'
    <3>1. held' = Assigned'
      BY <2>5
    <3>2. held' = [v \in Values |->
                     IF v \in DOMAIN RequestOf(phis) THEN RequestOf(phis)[v] ELSE v]
      BY <2>2, <2>5, <3>1 DEF Assigned
    <3>3. (IF Finished THEN held ELSE [v \in Values |-> v])' = held'
      BY <2>5
    <3>4. Finished' = TRUE
      BY <2>5
    <3> QED BY <2>1, <2>3, <3>2, <3>3, <3>4 DEF Parallel!Next, Parallel!Assign
  <2> QED BY <2>4, <2>5
<1> QED BY <1>1, <1>2

(***************************************************************************)
(* The moves that were emitted, run one after another, do what the phis    *)
(* say all at once: the first step that leaves nothing to emit is the      *)
(* simultaneous assignment, and every other step is none.                  *)
(***************************************************************************)
THEOREM CopiesAreSimultaneous == Spec => Parallel!Init /\ [][Parallel!Next]_(Parallel!vars)
<1>1. Init => Parallel!Init
  <2> SUFFICES ASSUME Init PROVE Parallel!Init
    OBVIOUS
  <2>1. phis \in PhiLists /\ ~Finished
    BY PhiFacts DEF Init, Finished, Sequencing
  <2>2. Finished = FALSE
    BY <2>1
  <2>3. (IF Finished THEN held ELSE [v \in Values |-> v]) = [v \in Values |-> v]
    BY <2>1
  <2> QED BY <2>1, <2>2, <2>3, RequestFacts DEF Parallel!Init
<1>2. CopyInvariant => (Finished => held = Assigned)
  BY FinishedMeansAssigned
<1> QED BY <1>1, <1>2, CopiesAreSound, StepIsParallel, PTL DEF Spec

-----------------------------------------------------------------------------
(***************************************************************************)
(* Counting the moves.  Until the stacks are filled every value is at      *)
(* home; from then on a destination that is not ready is still read, and   *)
(* by pending copies only.  What was emitted, what is still pending and    *)
(* the cycles to be broken come to one move per copy and one per cycle.    *)
(***************************************************************************)
Waits(d) ==
    /\ d \in DOMAIN location /\ location[d] = d
    /\ \E e \in DOMAIN sourceOf : sourceOf[e] = d
    /\ \A e \in DOMAIN sourceOf : sourceOf[e] = d => e \in pending

PureCycles == {C \in Cycles : ~ReadOutside(C)}

\* The cycles nothing has broken and nothing has written to.
OpenCycles ==
    {C \in PureCycles : \A d \in C : d \in pending /\ d \in DOMAIN location /\ location[d] = d}

AllAtHome ==
    /\ moves = 0 /\ pending = DOMAIN sourceOf
    /\ \A v \in DOMAIN location : location[v] = v

OnlyTheRead == \A v \in DOMAIN location : \E e \in DOMAIN sourceOf : sourceOf[e] = v

SeededSoFar == \A k \in 1 .. seeded : toDo[k] \in DOMAIN location \/ Among(toDo[k], ready)

Balanced ==
    moves + Cardinality(pending) + Cardinality(OpenCycles)
       = Cardinality(DOMAIN sourceOf) + Cardinality(PureCycles)

ReadyOrWaiting == \A d \in pending : Among(d, ready) \/ Waits(d)

Counted ==
    /\ OnlyTheRead
    /\ Early => (AllAtHome /\ SeededSoFar)
    /\ ~Early => (Balanced /\ ReadyOrWaiting)

LEMMA CycleFacts ==
    \A C : C \in Cycles <=> C \in SUBSET DOMAIN sourceOf /\ IsCycle(sourceOf, C)
  BY DEF Cycles, SourcesOf, IsCycle, ImageOf

LEMMA FiniteFacts ==
    ASSUME CopyInvariant
    PROVE  /\ IsFiniteSet(DOMAIN sourceOf) /\ IsFiniteSet(pending)
           /\ IsFiniteSet(PureCycles) /\ IsFiniteSet(OpenCycles)
           /\ \A C \in Cycles : IsFiniteSet(C)
<1>1. phis \in PhiLists /\ TypeOK /\ Asked /\ Len(phis) \in Nat
  BY PhiFacts DEF CopyInvariant
<1> DEFINE dest == [i \in 1 .. Len(phis) |-> phis[i].dest]
           Dests == {dest[i] : i \in 1 .. Len(phis)}
<1>2. DOMAIN sourceOf \in SUBSET Dests
  <2>1. ASSUME NEW d \in DOMAIN sourceOf PROVE d \in Dests
    <3>1. PICK i \in 1 .. collected : phis[i].dest = d
      BY <1>1 DEF Asked
    <3>2. i \in 1 .. Len(phis)
      BY <1>1 DEF TypeOK
    <3> QED BY <3>1, <3>2
  <2> QED BY <2>1
<1>3. IsFiniteSet(Dests)
  <2> HIDE DEF dest
  <2> QED BY <1>1, RangeIsFinite
<1>4. IsFiniteSet(DOMAIN sourceOf)
  <2> HIDE DEF Dests
  <2> QED BY <1>2, <1>3, FS_Subset
<1>5. IsFiniteSet(pending)
  BY <1>1, <1>4, FS_Subset DEF TypeOK
<1>6. IsFiniteSet(PureCycles)
  <2>1. PureCycles \in SUBSET (SUBSET DOMAIN sourceOf)
    BY CycleFacts DEF PureCycles
  <2> QED BY <1>4, <2>1, FS_SUBSET, FS_Subset
<1>7. IsFiniteSet(OpenCycles)
  <2>1. OpenCycles \in SUBSET PureCycles
    BY DEF OpenCycles
  <2> QED BY <1>6, <2>1, FS_Subset
<1>8. \A C \in Cycles : IsFiniteSet(C)
  BY <1>4, CycleFacts, FS_Subset
<1> QED BY <1>4, <1>5, <1>6, <1>7, <1>8

\* With everything pending and at home, every cycle is open.
LEMMA EarlyIsBalanced ==
    ASSUME CopyInvariant, OnlyTheRead, AllAtHome
    PROVE  Balanced
<1>1. TypeOK /\ Asked
  BY DEF CopyInvariant
<1>2. ASSUME NEW C \in PureCycles, NEW d \in C
      PROVE  d \in pending /\ d \in DOMAIN location /\ location[d] = d
  <2>1. C \in SUBSET DOMAIN sourceOf /\ ImageOf(sourceOf, C) = C
    BY CycleFacts DEF PureCycles, IsCycle
  <2>2. PICK e \in C : sourceOf[e] = d
    BY <2>1 DEF ImageOf
  <2>3. d \in Values /\ e \in DOMAIN sourceOf
    BY <1>1, <2>1 DEF TypeOK
  <2>4. d \in DOMAIN location
    BY <1>1, <2>2, <2>3, PhiCopiesAssumption DEF Asked
  <2> QED BY <2>1, <2>4 DEF AllAtHome
<1>3. OpenCycles = PureCycles
  BY <1>2 DEF OpenCycles
<1>4. Cardinality(DOMAIN sourceOf) \in Nat /\ Cardinality(PureCycles) \in Nat
  BY FiniteFacts, FS_CardinalityType
<1> QED BY <1>3, <1>4 DEF Balanced, AllAtHome

\* The stacks are filled: what is not ready is read.
LEMMA EarlyIsWaiting ==
    ASSUME CopyInvariant, OnlyTheRead, AllAtHome, SeededSoFar,
           seeded >= Len(toDo), NEW d \in pending
    PROVE  Among(d, ready) \/ Waits(d)
<1>1. Among(d, toDo) \/ Among(d, ready)
  BY DEF CopyInvariant, Stacked
<1>2. ASSUME Among(d, toDo), ~Among(d, ready) PROVE d \in DOMAIN location
  <2>1. PICK k \in 1 .. Len(toDo) : toDo[k] = d
    BY <1>2 DEF Among
  <2>2. k \in 1 .. seeded
    BY <2>1 DEF CopyInvariant, TypeOK
  <2> QED BY <1>2, <2>1, <2>2 DEF SeededSoFar
<1> QED BY <1>1, <1>2 DEF OnlyTheRead, AllAtHome, Waits

LEMMA SeedingEnds ==
    (CopyInvariant /\ OnlyTheRead /\ AllAtHome /\ SeededSoFar /\ seeded >= Len(toDo))
       => (Balanced /\ ReadyOrWaiting)
  BY EarlyIsBalanced, EarlyIsWaiting DEF ReadyOrWaiting

LEMMA CollectCounts ==
    ASSUME CopyInvariant, Counted, CollectPhi
    PROVE  Counted'
<1>1. /\ collected < Len(phis) /\ collected' = collected + 1
      /\ UNCHANGED <<phis, seeded, ready, held, saved, moves>>
  BY DEF CollectPhi
<1>2. CopyInvariant' /\ phis \in PhiLists /\ TypeOK /\ Asked /\ NothingWrittenEarly
  BY CollectKeeps DEF CopyInvariant
<1>3. Early /\ seeded = 0 /\ ready = <<>>
  BY <1>1, <1>2 DEF Early, NothingWrittenEarly
<1>4. AllAtHome /\ OnlyTheRead
  BY <1>3 DEF Counted
<1>5. PICK d, a : d = phis[collected + 1].dest /\ a = phis[collected + 1].arg
  OBVIOUS
<1>6. /\ collected \in Nat /\ collected + 1 \in 1 .. Len(phis)
      /\ \A i \in 1 .. collected : i \in 1 .. Len(phis) /\ i # collected + 1
  BY <1>1, <1>2, PhiFacts DEF TypeOK
<1>7. d \notin DOMAIN sourceOf
  BY <1>2, <1>5, <1>6, PhiFacts DEF Asked
<1>8. AllAtHome' /\ OnlyTheRead'
  <2>1. CASE a = d
    <3>1. UNCHANGED <<sourceOf, location, pending, toDo>>
      BY <1>5, <2>1 DEF CollectPhi
    <3> QED BY <1>1, <1>4, <3>1 DEF AllAtHome, OnlyTheRead
  <2>2. CASE a # d
    <3>1. /\ sourceOf' = Put(sourceOf, d, a) /\ pending' = pending \cup {d}
          /\ location' = IF a = Immediate THEN location ELSE Put(location, a, a)
      BY <1>5, <2>2 DEF CollectPhi
    <3>2. /\ DOMAIN sourceOf' = DOMAIN sourceOf \cup {d} /\ sourceOf'[d] = a
          /\ \A e \in DOMAIN sourceOf : sourceOf'[e] = sourceOf[e]
      BY <1>7, <3>1 DEF Put
    <3>3. /\ \A v \in DOMAIN location' : v \in DOMAIN location \/ v = a
          /\ \A v \in DOMAIN location' : location'[v] = v
      BY <1>4, <3>1 DEF Put, AllAtHome
    <3>4. AllAtHome'
      BY <1>1, <1>4, <3>1, <3>2, <3>3 DEF AllAtHome
    <3>5. ASSUME NEW v \in DOMAIN location' PROVE \E e \in DOMAIN sourceOf' : sourceOf'[e] = v
      BY <1>4, <3>2, <3>3 DEF OnlyTheRead
    <3> QED BY <3>4, <3>5 DEF OnlyTheRead
  <2> QED BY <2>1, <2>2
<1>9. SeededSoFar'
  BY <1>1, <1>3 DEF SeededSoFar
<1>10. ~Early' => (Balanced' /\ ReadyOrWaiting')
  <2>1. SUFFICES ASSUME ~Early' PROVE Balanced' /\ ReadyOrWaiting'
    OBVIOUS
  <2>2. (seeded >= Len(toDo))'
    <3>1. seeded' \in Nat /\ Len(toDo') \in Nat
      BY <1>2 DEF CopyInvariant, TypeOK
    <3> QED BY <2>1, <3>1 DEF Early
  <2> QED BY <1>2, <1>8, <1>9, <2>2, SeedingEnds, PTL
<1> QED BY <1>8, <1>9, <1>10 DEF Counted

-----------------------------------------------------------------------------
\* What a step leaves alone keeps the cycles.
LEMMA CyclesKeep ==
    ASSUME sourceOf' = sourceOf
    PROVE  Cycles' = Cycles /\ PureCycles' = PureCycles
  BY DEF Cycles, SourcesOf, PureCycles, ReadOutside

LEMMA SeedCounts ==
    ASSUME CopyInvariant, Counted, SeedReady
    PROVE  Counted'
<1>1. /\ collected = Len(phis) /\ seeded < Len(toDo) /\ seeded' = seeded + 1
      /\ UNCHANGED <<phis, collected, sourceOf, location, pending, toDo, held, saved, moves>>
  BY DEF SeedReady
<1>2. CopyInvariant' /\ TypeOK /\ seeded \in Nat /\ Len(toDo) \in Nat
  <2>1. CopyInvariant' /\ TypeOK
    BY SeedKeeps DEF CopyInvariant
  <2> QED BY <2>1 DEF TypeOK
<1>3. AllAtHome /\ OnlyTheRead /\ SeededSoFar
  BY <1>1 DEF Counted, Early
<1>4. AllAtHome' /\ OnlyTheRead'
  BY <1>1, <1>3 DEF AllAtHome, OnlyTheRead
<1>5. PICK d : d = toDo[seeded + 1]
  OBVIOUS
<1>6. ready' = IF d \in DOMAIN location THEN ready ELSE Append(ready, d)
  BY <1>5 DEF SeedReady
<1>7. /\ \A i \in 1 .. Len(ready) : i \in 1 .. Len(ready') /\ ready'[i] = ready[i]
      /\ d \in DOMAIN location \/ Among(d, ready')
  <2>1. ready \in Seq(DOMAIN sourceOf) /\ d \in DOMAIN sourceOf
    <3>1. toDo \in Seq(DOMAIN sourceOf) /\ seeded + 1 \in 1 .. Len(toDo)
      BY <1>1, <1>2 DEF TypeOK
    <3> QED BY <1>2, <1>5, <3>1 DEF TypeOK
  <2>2. CASE d \in DOMAIN location
    BY <1>6, <2>1, <2>2
  <2>3. CASE d \notin DOMAIN location
    <3>1. PICK longer : longer = Append(ready, d)
      OBVIOUS
    <3>2. /\ Len(ready) \in Nat /\ Len(longer) = Len(ready) + 1
          /\ \A i \in 1 .. Len(ready) + 1 : longer[i] = IF i <= Len(ready) THEN ready[i] ELSE d
      BY <2>1, <3>1, AppendFacts
    <3>3. ready' = longer /\ Len(ready) + 1 \in 1 .. Len(longer) /\ longer[Len(ready) + 1] = d
      BY <1>6, <2>3, <3>1, <3>2
    <3>4. Among(d, ready')
      BY <3>3 DEF Among
    <3> QED BY <3>2, <3>3, <3>4
  <2> QED BY <2>2, <2>3
<1>8. SeededSoFar'
  <2>1. ASSUME NEW k \in 1 .. seeded'
        PROVE  toDo[k] \in DOMAIN location \/ Among(toDo[k], ready')
    <3>1. CASE k = seeded + 1
      BY <1>5, <1>7, <3>1
    <3>2. CASE k \in 1 .. seeded
      <4>1. toDo[k] \in DOMAIN location \/ Among(toDo[k], ready)
        BY <1>3, <3>2 DEF SeededSoFar
      <4> QED BY <1>7, <4>1 DEF Among
    <3> QED BY <1>1, <1>2, <3>1, <3>2
  <2> QED BY <1>1, <2>1 DEF SeededSoFar
<1>9. ~Early' => (Balanced' /\ ReadyOrWaiting')
  <2>1. SUFFICES ASSUME ~Early' PROVE Balanced' /\ ReadyOrWaiting'
    OBVIOUS
  <2>2. (seeded >= Len(toDo))'
    BY <1>1, <1>2, <2>1 DEF Early
  <2> QED BY <1>2, <1>4, <1>8, <2>2, SeedingEnds, PTL
<1> QED BY <1>4, <1>8, <1>9 DEF Counted

-----------------------------------------------------------------------------
\* A destination that is ready is not at home, so it is on no open cycle, and
\* neither is its source, which it reads from outside.
LEMMA EmitCounts ==
    ASSUME CopyInvariant, Counted, EmitReady
    PROVE  Counted'
<1>1. /\ TypeOK /\ Asked /\ Stacked /\ CopyInvariant' /\ phis \in PhiLists
  BY EmitKeeps DEF CopyInvariant
<1>2. /\ Sequencing /\ ready # <<>> /\ moves' = moves + 1 /\ moves \in Nat
      /\ UNCHANGED <<phis, collected, sourceOf, toDo, seeded, saved>>
  BY <1>1 DEF EmitReady, TypeOK
<1>3. ~Early /\ ~Early'
  BY <1>1, <1>2, PhiFacts DEF Early, Sequencing, TypeOK
<1>4. Balanced /\ ReadyOrWaiting /\ OnlyTheRead
  BY <1>3 DEF Counted
<1>5. PICK d, s, rest : d = Last(ready) /\ s = sourceOf[d] /\ rest = Front(ready)
  OBVIOUS
<1>6. /\ pending' = pending \ {d}
      /\ IF s = Immediate THEN EmitConstant(d) ELSE EmitCopy(d, s)
  BY <1>5 DEF EmitReady
<1>7. /\ ready \in Seq(DOMAIN sourceOf) /\ rest \in Seq(DOMAIN sourceOf)
      /\ Len(rest) = Len(ready) - 1 /\ Len(ready) \in Nat
      /\ \A i \in 1 .. Len(ready) - 1 : rest[i] = ready[i]
      /\ Len(ready) \in 1 .. Len(ready) /\ d = ready[Len(ready)]
  BY <1>1, <1>2, <1>5, FrontFacts DEF TypeOK
<1>8. /\ d \in pending /\ d \in DOMAIN sourceOf /\ d \in Values /\ s \in Operands /\ s # d
      /\ d \in DOMAIN location => location[d] # d
  BY <1>1, <1>5, <1>7 DEF TypeOK, Stacked, Asked
<1>9. s # Immediate => s \in DOMAIN location /\ s \in Values
  BY <1>1, <1>5, <1>8 DEF Asked, Operands
<1>10. /\ DOMAIN location' = DOMAIN location
       /\ \A v \in DOMAIN location : v # s => location'[v] = location[v]
       /\ (s = Immediate /\ location' = location) \/ (s # Immediate /\ location'[s] = d)
  <2>1. CASE s = Immediate
    BY <1>6, <2>1 DEF EmitConstant
  <2>2. CASE s # Immediate
    <3>1. location' = [location EXCEPT ![s] = d]
      BY <1>6, <2>2 DEF EmitCopy
    <3> QED BY <1>9, <2>2, <3>1
  <2> QED BY <2>1, <2>2
<1>11. /\ \A i \in 1 .. Len(rest) : i \in 1 .. Len(ready') /\ ready'[i] = rest[i]
       /\ (s # Immediate /\ location[s] = s /\ s \in pending') => Among(s, ready')
  <2>1. CASE ready' = rest /\ ~(s # Immediate /\ location[s] = s /\ s \in pending')
    BY <1>7, <2>1
  <2>2. CASE ready' = Append(rest, s) /\ s \in pending'
    <3>1. PICK longer : longer = Append(rest, s)
      OBVIOUS
    <3>2. s \in DOMAIN sourceOf
      BY <1>1, <1>6, <2>2 DEF TypeOK
    <3>3. /\ Len(rest) \in Nat /\ Len(longer) = Len(rest) + 1
          /\ \A i \in 1 .. Len(rest) + 1 : longer[i] = IF i <= Len(rest) THEN rest[i] ELSE s
      BY <1>7, <3>1, <3>2, AppendFacts
    <3>4. ready' = longer /\ Len(rest) + 1 \in 1 .. Len(longer) /\ longer[Len(rest) + 1] = s
      BY <2>2, <3>1, <3>3
    <3>5. Among(s, ready')
      BY <3>4 DEF Among
    <3> QED BY <3>3, <3>4, <3>5
  <2>3. \/ ready' = rest /\ ~(s # Immediate /\ location[s] = s /\ s \in pending')
        \/ ready' = Append(rest, s) /\ s \in pending'
    BY <1>5, <1>6 DEF EmitCopy, EmitConstant
  <2> QED BY <2>1, <2>2, <2>3
<1>12. OnlyTheRead'
  BY <1>2, <1>4, <1>10 DEF OnlyTheRead
<1>13. ASSUME NEW x \in pending' PROVE Among(x, ready') \/ Waits(x)'
  <2>1. x \in pending /\ x # d
    BY <1>6
  <2>2. CASE Among(x, ready)
    <3>1. PICK i \in 1 .. Len(ready) : ready[i] = x
      BY <2>2 DEF Among
    <3>2. i \in 1 .. Len(rest) /\ rest[i] = x
      BY <1>7, <2>1, <3>1
    <3> QED BY <1>11, <3>2 DEF Among
  <2>3. CASE Waits(x) /\ x = s
    <3>1. s # Immediate
      BY <1>1, <2>1, <2>3, PhiCopiesAssumption DEF TypeOK
    <3> QED BY <1>11, <2>3, <3>1 DEF Waits
  <2>4. CASE Waits(x) /\ x # s
    <3>1. /\ x \in DOMAIN location /\ location[x] = x
          /\ \E e \in DOMAIN sourceOf : sourceOf[e] = x
          /\ \A e \in DOMAIN sourceOf : sourceOf[e] = x => e \in pending
      BY <2>4 DEF Waits
    <3>2. x \in DOMAIN location' /\ location'[x] = x
      BY <1>10, <2>4, <3>1
    <3>3. \A e \in DOMAIN sourceOf : sourceOf[e] = x => e \in pending'
      BY <1>5, <1>6, <2>4, <3>1
    <3> QED BY <1>2, <3>1, <3>2, <3>3 DEF Waits
  <2> QED BY <1>4, <2>1, <2>2, <2>3, <2>4 DEF ReadyOrWaiting
<1>14. PureCycles' = PureCycles
  BY <1>2, CyclesKeep
<1>15. ASSUME NEW C \in OpenCycles, NEW c \in C
       PROVE  c \in pending' /\ c \in DOMAIN location' /\ location'[c] = c
  <2>1. C \in PureCycles /\ \A v \in C : v \in pending /\ v \in DOMAIN location /\ location[v] = v
    BY DEF OpenCycles
  <2>2. d \notin C
    BY <1>8, <2>1
  <2>3. s \notin C
    BY <1>5, <1>8, <2>1, <2>2 DEF PureCycles, ReadOutside
  <2> QED BY <1>6, <1>10, <2>1, <2>2, <2>3
<1>16. ASSUME NEW C \in OpenCycles', NEW c \in C
       PROVE  c \in pending /\ c \in DOMAIN location /\ location[c] = c
  <2>1. c \in pending' /\ c \in DOMAIN location' /\ location'[c] = c
    BY DEF OpenCycles
  <2>2. c \in pending /\ c # d
    BY <1>6, <2>1
  <2>3. c # s \/ location' = location
    BY <1>10, <2>1, <2>2
  <2> QED BY <1>10, <2>1, <2>2, <2>3
<1>17. OpenCycles' = OpenCycles
  <2>1. OpenCycles \subseteq OpenCycles'
    BY <1>14, <1>15 DEF OpenCycles
  <2>2. OpenCycles' \subseteq OpenCycles
    BY <1>14, <1>16 DEF OpenCycles
  <2> QED BY <2>1, <2>2
<1>18. /\ Cardinality(pending) \in Nat /\ Cardinality(pending') = Cardinality(pending) - 1
       /\ Cardinality(OpenCycles) \in Nat
  BY <1>6, <1>8, FiniteFacts, FS_RemoveElement, FS_CardinalityType
<1>19. Balanced'
  <2>1. moves + Cardinality(pending) + Cardinality(OpenCycles)
           = Cardinality(DOMAIN sourceOf) + Cardinality(PureCycles)
    BY <1>4 DEF Balanced
  <2>2. moves' + Cardinality(pending') + Cardinality(OpenCycles')
           = Cardinality(DOMAIN sourceOf') + Cardinality(PureCycles')
    BY <1>2, <1>14, <1>17, <1>18, <2>1
  <2> QED BY <2>2 DEF Balanced
<1>20. ReadyOrWaiting'
  BY <1>13 DEF ReadyOrWaiting, Among
<1> QED BY <1>3, <1>12, <1>19, <1>20 DEF Counted

-----------------------------------------------------------------------------
\* With nothing ready, what is pending is read by what is pending: it falls
\* into cycles, and the one through the destination revisited is broken.
LEMMA RevisitCounts ==
    ASSUME CopyInvariant, Counted, Revisit
    PROVE  Counted'
<1>1. /\ TypeOK /\ Asked /\ CopyInvariant' /\ phis \in PhiLists
  BY RevisitKeeps DEF CopyInvariant
<1>2. /\ Sequencing /\ ready = <<>> /\ toDo # <<>> /\ moves \in Nat
      /\ UNCHANGED <<phis, collected, sourceOf, pending, seeded, held>>
  BY <1>1 DEF Revisit, TypeOK
<1>3. PICK d, rest : d = Last(toDo) /\ rest = Front(toDo)
  OBVIOUS
<1>4. /\ toDo' = rest
      /\ IF d \in pending THEN BreakCycle(d) ELSE UNCHANGED <<saved, location, ready, moves>>
  BY <1>3 DEF Revisit
<1>5. ~Early /\ ~Early'
  <2>1. Len(rest) = Len(toDo) - 1 /\ Len(toDo) \in Nat /\ Len(phis) \in Nat
    <3>1. toDo \in Seq(DOMAIN sourceOf) /\ toDo # <<>>
      BY <1>1, <1>2 DEF TypeOK
    <3>2. Len(rest) = Len(toDo) - 1 /\ Len(toDo) \in Nat
      BY <1>3, <3>1, FrontFacts
    <3> QED BY <1>1, <3>2, PhiFacts
  <2>2. collected = Len(phis) /\ seeded >= Len(toDo) /\ seeded \in Nat
    BY <1>1, <1>2 DEF Sequencing, TypeOK
  <2>3. ~Early
    BY <2>1, <2>2 DEF Early
  <2>4. collected' = Len(phis') /\ seeded' >= Len(toDo') /\ Len(phis') = Len(phis)
        /\ Len(toDo') = Len(toDo) - 1
    BY <1>2, <1>4, <2>1, <2>2
  <2>5. ~Early'
    BY <1>2, <2>1, <2>2, <2>4 DEF Early
  <2> QED BY <2>3, <2>5
<1>6. Balanced /\ ReadyOrWaiting /\ OnlyTheRead
  BY <1>5 DEF Counted
<1>7. PureCycles' = PureCycles
  BY <1>2, CyclesKeep
<1>8. CASE d \notin pending
  <2>1. UNCHANGED <<saved, location, ready, moves>>
    BY <1>4, <1>8
  <2>2. OpenCycles' = OpenCycles
    BY <1>2, <1>7, <2>1 DEF OpenCycles
  <2>3. Balanced' /\ OnlyTheRead'
    BY <1>2, <1>6, <1>7, <2>1, <2>2 DEF Balanced, OnlyTheRead
  <2>4. ReadyOrWaiting'
    BY <1>2, <1>6, <2>1 DEF ReadyOrWaiting, Among, Waits
  <2> QED BY <1>5, <2>3, <2>4 DEF Counted
<1>9. CASE d \in pending
  <2>1. /\ location' = [location EXCEPT ![d] = Len(saved) + 1]
        /\ ready' = Append(ready, d) /\ moves' = moves + 1
    BY <1>4, <1>9 DEF BreakCycle
  <2>2. \A x \in pending : Waits(x)
    BY <1>2, <1>6 DEF ReadyOrWaiting, Among
  <2>3. Len(saved) + 1 # d /\ d \in DOMAIN location
    <3>1. Len(saved) + 1 \in Nat
      BY <1>1 DEF TypeOK
    <3>2. d \in Values
      BY <1>1, <1>9 DEF TypeOK
    <3> QED BY <1>9, <2>2, <3>1, <3>2, PhiCopiesAssumption DEF Waits
  <2>4. /\ DOMAIN location' = DOMAIN location /\ location'[d] # d
        /\ \A v \in DOMAIN location : v # d => location'[v] = location[v]
    BY <2>1, <2>3
  <2>5. Among(d, ready')
    <3>1. Len(ready') = 1 /\ ready'[1] = d
      BY <1>2, <2>1
    <3> QED BY <3>1 DEF Among
  <2>6. OnlyTheRead'
    BY <1>2, <1>6, <2>4 DEF OnlyTheRead
  <2>7. ReadyOrWaiting'
    <3>1. ASSUME NEW x \in pending, x # d PROVE Waits(x)'
      <4>1. /\ x \in DOMAIN location /\ location[x] = x
            /\ \E e \in DOMAIN sourceOf : sourceOf[e] = x
            /\ \A e \in DOMAIN sourceOf : sourceOf[e] = x => e \in pending
        BY <2>2 DEF Waits
      <4>2. x \in DOMAIN location' /\ location'[x] = x
        BY <2>4, <3>1, <4>1
      <4> QED BY <1>2, <4>1, <4>2 DEF Waits
    <3> QED BY <1>2, <2>5, <3>1 DEF ReadyOrWaiting, Among
  <2>8. IsFiniteSet(pending) /\ IsFiniteSet(OpenCycles)
    BY FiniteFacts
  <2>9. pending \subseteq ImageOf(sourceOf, pending)
    <3>1. ASSUME NEW x \in pending PROVE \E e \in pending : sourceOf[e] = x
      BY <2>2 DEF Waits
    <3> QED BY <3>1 DEF ImageOf
  <2>10. ImageOf(sourceOf, pending) = pending
    BY <2>8, <2>9, CoveredIsImage
  <2>11. PICK broken \in SUBSET pending : IsCycle(sourceOf, broken) /\ d \in broken
    BY <1>9, <2>8, <2>10, CycleThrough
  <2>12. broken \in OpenCycles
    <3>1. broken \in Cycles
      BY <1>1, <2>11, CycleFacts DEF TypeOK
    <3>2. ImageOf(sourceOf, broken) = broken
      BY <2>11 DEF IsCycle
    <3>3. ASSUME NEW e \in DOMAIN sourceOf \ broken, sourceOf[e] \in broken PROVE FALSE
      <4>1. PICK x \in broken : sourceOf[x] = sourceOf[e]
        BY <3>2, <3>3 DEF ImageOf
      <4>2. e \in pending /\ x \in pending
        BY <2>2, <2>11, <3>3 DEF Waits
      <4>3. e = x
        BY <2>8, <2>10, <4>1, <4>2, OntoIsOneToOne
      <4> QED BY <4>3
    <3>4. broken \in PureCycles
      BY <3>1, <3>3 DEF PureCycles, ReadOutside
    <3> QED BY <2>2, <2>11, <3>4 DEF OpenCycles, Waits
  <2>13. ASSUME NEW C \in OpenCycles, d \in C PROVE C = broken
    <3>1. IsCycle(sourceOf, C) /\ C \in Cycles
      BY CycleFacts DEF OpenCycles, PureCycles
    <3>2. IsFiniteSet(C)
      BY <3>1, FiniteFacts
    <3> QED BY <2>11, <2>13, <3>1, <3>2, CyclesApart
  <2>14. OpenCycles' = OpenCycles \ {broken}
    <3>1. ASSUME NEW C \in OpenCycles \ {broken} PROVE C \in OpenCycles'
      <4>1. C \in OpenCycles /\ d \notin C
        BY <2>13
      <4>2. /\ C \in PureCycles'
            /\ \A c \in C : c \in pending /\ c \in DOMAIN location' /\ location'[c] = c
        BY <1>7, <2>4, <4>1 DEF OpenCycles
      <4> QED BY <1>2, <4>2 DEF OpenCycles
    <3>2. ASSUME NEW C \in OpenCycles' PROVE C \in OpenCycles /\ C # broken
      <4>1. /\ C \in PureCycles
            /\ \A c \in C : c \in pending /\ c \in DOMAIN location' /\ location'[c] = c
        BY <1>2, <1>7 DEF OpenCycles
      <4>2. d \notin C
        BY <2>4, <4>1
      <4>3. \A c \in C : c \in DOMAIN location /\ location[c] = c
        BY <2>4, <4>1, <4>2
      <4> QED BY <2>11, <4>1, <4>2, <4>3 DEF OpenCycles
    <3> QED BY <3>1, <3>2
  <2>15. Cardinality(OpenCycles) \in Nat /\ Cardinality(OpenCycles') = Cardinality(OpenCycles) - 1
    BY <2>8, <2>12, <2>14, FS_RemoveElement, FS_CardinalityType
  <2>16. Cardinality(pending) \in Nat
    BY <2>8, FS_CardinalityType
  <2>17. Balanced'
    <3>1. moves + Cardinality(pending) + Cardinality(OpenCycles)
             = Cardinality(DOMAIN sourceOf) + Cardinality(PureCycles)
      BY <1>6 DEF Balanced
    <3>2. moves' + Cardinality(pending') + Cardinality(OpenCycles')
             = Cardinality(DOMAIN sourceOf') + Cardinality(PureCycles')
      BY <1>2, <1>7, <2>1, <2>15, <2>16, <3>1
    <3> QED BY <3>2 DEF Balanced
  <2> QED BY <1>5, <2>6, <2>7, <2>17 DEF Counted
<1> QED BY <1>8, <1>9

LEMMA StepCounts == CopyInvariant /\ Counted /\ [Next]_vars => Counted'
<1> SUFFICES ASSUME CopyInvariant, Counted, [Next]_vars PROVE Counted'
  OBVIOUS
<1>1. CASE UNCHANGED vars
  <2>1. PureCycles' = PureCycles
    BY <1>1, CyclesKeep DEF vars
  <2>2. OpenCycles' = OpenCycles
    BY <1>1, <2>1 DEF vars, OpenCycles
  <2>3. (Early' <=> Early) /\ (AllAtHome' <=> AllAtHome) /\ (OnlyTheRead' <=> OnlyTheRead)
    BY <1>1 DEF vars, Early, AllAtHome, OnlyTheRead
  <2>4. (SeededSoFar' <=> SeededSoFar) /\ (ReadyOrWaiting' <=> ReadyOrWaiting)
    BY <1>1 DEF vars, SeededSoFar, ReadyOrWaiting, Among, Waits
  <2>5. Balanced' <=> Balanced
    BY <1>1, <2>1, <2>2 DEF vars, Balanced
  <2> QED BY <2>3, <2>4, <2>5 DEF Counted
<1> QED BY <1>1, CollectCounts, SeedCounts, EmitCounts, RevisitCounts DEF Next

(***************************************************************************)
(* sequentialize emits one move for every copy, and one more for every     *)
(* cycle that no copy outside reads, whatever the phis.                    *)
(***************************************************************************)
THEOREM CyclesCostOneMove == Spec => []FewestMoves
<1>1. Init => Counted
  <2> SUFFICES ASSUME Init PROVE Counted
    OBVIOUS
  <2>1. /\ phis \in PhiLists /\ collected = 0 /\ seeded = 0 /\ moves = 0 /\ pending = {}
        /\ sourceOf = <<>> /\ location = <<>>
    BY DEF Init
  <2>2. DOMAIN sourceOf = {} /\ DOMAIN location = {}
    BY <2>1
  <2>3. Early
    BY <2>1, PhiFacts DEF Early
  <2> QED BY <2>1, <2>2, <2>3 DEF Counted, OnlyTheRead, AllAtHome, SeededSoFar
<1>2. CopyInvariant /\ Counted => FewestMoves
  <2> SUFFICES ASSUME CopyInvariant, Counted, Finished
               PROVE  moves = Cardinality(DOMAIN sourceOf) + Cardinality(PureCycles)
    BY DEF FewestMoves, PureCycles
  <2>1. /\ TypeOK /\ Stacked /\ phis \in PhiLists /\ collected = Len(phis) /\ moves \in Nat
        /\ ready = <<>> /\ toDo = <<>>
    BY DEF CopyInvariant, Finished, Sequencing, TypeOK
  <2>2. pending = {}
    BY <2>1 DEF Stacked, Among
  <2>3. OpenCycles = {}
    BY <2>2, CycleFacts DEF OpenCycles, PureCycles, IsCycle
  <2>4. Balanced
    BY <2>1, PhiFacts DEF Counted, Early, TypeOK
  <2>5. Cardinality({}) = 0
    BY FS_EmptySet
  <2> QED BY <2>1, <2>2, <2>3, <2>4, <2>5 DEF Balanced
<1> QED BY <1>1, <1>2, CopiesAreSound, StepCounts, PTL DEF Spec
=============================================================================
